-------------------------- MODULE EventLoopProofs --------------------------
(***************************************************************************)
(* Proofs about EventLoop for any set of loops, threads, tasks and nodes.  *)
(* Only NodesAtHomeCorrect asks anything of the callers: that requests     *)
(* about one node do not overlap and that updates leave other nodes alone. *)
(***************************************************************************)
EXTENDS EventLoop, SequenceTheorems, WellFoundedInduction, TLAPS

LEMMA TypeInit == Init => TypeOK
<1> SUFFICES ASSUME Init PROVE TypeOK
  OBVIOUS
<1>1. call \in [Threads -> CallType]
  BY DEF Init, CallType
<1>2. /\ m_tasks \in [Loops -> Seq(TaskItems \union Requests)]
      /\ m_nodesToDelete \in [Loops -> Seq(Nodes)]
  BY DEF Init
<1>3. m_rootNodes \in [Loops -> [Nodes -> Nat]]
  BY DEF Init
<1>4. pc \in [Loops -> Pcs] /\ cur \in [Loops -> TaskItems \union Requests \union Updates \union {NoItem}]
  BY DEF Init, Pcs
<1>5. \A l \in Loops : pc[l] = "idle"
  BY DEF Init
<1> QED
  BY <1>1, <1>2, <1>3, <1>4, <1>5 DEF Init, TypeOK

(* What a thread in the middle of applyMoveTo(), or a loop in a closure,   *)
(* works on.                                                               *)
LEMMA MoveFields ==
  ASSUME TypeOK, NEW l \in Loops, In(l, "moveOut") \/ In(l, "moveIn")
  PROVE  call[l].l \in Loops /\ call[l].w \in MoveItems /\ call[l].w.x \in Nodes
<1>1. call[l] \in CallType
  BY DEF TypeOK, Threads
<1>2. call[l].op \in {"moveOut", "moveIn"}
  BY DEF In
<1>3. call[l] \in [op : {"moveOut", "moveIn"}, l : Loops, w : MoveItems]
  BY <1>1, <1>2 DEF CallType, NoCall
<1> QED
  BY <1>3 DEF MoveItems

LEMMA TaskFields ==
  ASSUME TypeOK, NEW l \in Loops, pc[l] = "task"
  PROVE  cur[l].x \in Tasks
<1>1. cur[l] \in TaskItems
  BY DEF TypeOK
<1> QED
  BY <1>1 DEF TaskItems

LEMMA MoveItemCalls ==
  ASSUME TypeOK, NEW l \in Loops, pc[l] = "request", cur[l].kind = "move",
         NEW op \in {"push", "moveOut"}
  PROVE  /\ cur[l].to \in Loops
         /\ [op |-> op, l |-> cur[l].to, w |-> cur[l]] \in CallType
<1>1. cur[l] \in MoveItems
  BY DEF TypeOK, Requests
<1> QED
  BY <1>1 DEF MoveItems, CallType, Requests

LEMMA DestroyType ==
  ASSUME TypeOK, NEW n \in Nodes, home[n] \in Loops, Destroy(n)
  PROVE  /\ m_rootNodes' \in [Loops -> [Nodes -> Nat]]
         /\ home' \in [Nodes -> Loops \union {Dead, Unborn}]
<1>1. m_rootNodes' \in [Loops -> [Nodes -> Nat]]
  BY DEF TypeOK, Destroy
<1>2. home' \in [Nodes -> Loops \union {Dead, Unborn}]
  BY DEF TypeOK, Destroy
<1> QED
  BY <1>1, <1>2

LEMMA DeleteNextType ==
  ASSUME TypeOK, NEW l \in Loops, DeleteNext(l)
  PROVE  /\ m_rootNodes' \in [Loops -> [Nodes -> Nat]]
         /\ home' \in [Nodes -> Loops \union {Dead, Unborn}]
         /\ batch' \in [Loops -> SUBSET Nodes]
<1>1. PICK n \in batch[l] :
        /\ batch' = [batch EXCEPT ![l] = @ \ {n}]
        /\ IF Alive(n) THEN Destroy(n) ELSE UNCHANGED nodeVars
  BY DEF DeleteNext
<1>2. n \in Nodes
  BY DEF TypeOK
<1>3. batch' \in [Loops -> SUBSET Nodes]
  BY <1>1 DEF TypeOK
<1>4. CASE Alive(n)
  BY <1>1, <1>2, <1>3, <1>4, DestroyType DEF Alive
<1>5. CASE ~Alive(n)
  BY <1>1, <1>3, <1>5 DEF nodeVars, TypeOK
<1> QED
  BY <1>4, <1>5

LEMMA TypeStep == TypeOK /\ [Next]_vars => TypeOK'
<1> SUFFICES ASSUME TypeOK, [Next]_vars PROVE TypeOK'
  OBVIOUS
<1> USE LoopAssumption
    DEF TypeOK, Threads, CallType, NoCall, NoItem, TaskItems, MoveItems, Requests, Updates,
       Item, Pcs,
        In, Call, Return, Goto, queueVars, flagVars, passVars, nodeVars, taskVars
<1>1. ASSUME NEW t \in Threads, NEW l \in Loops, NEW k \in Tasks, Post(t, l, k) PROVE TypeOK'
  BY <1>1 DEF Post
<1>2. ASSUME NEW t \in Threads, Push(t) PROVE TypeOK'
  BY <1>2 DEF Push
<1>3. ASSUME NEW t \in Threads, NotifyOne(t) PROVE TypeOK'
  BY <1>3 DEF NotifyOne
<1>4. ASSUME NEW t \in Threads, NEW l \in Loops, Stop(t, l) PROVE TypeOK'
  BY <1>4 DEF Stop, SetStop
<1>5. ASSUME NEW t \in Threads, NEW l \in Loops, Retire(t, l) PROVE TypeOK'
  BY <1>5 DEF Retire
<1>6. ASSUME NEW t \in Threads, RetireStop(t) PROVE TypeOK'
  BY <1>6 DEF RetireStop, SetStop
<1>7. ASSUME NEW l \in Loops, NEW n \in Nodes, CreateNode(l, n) PROVE TypeOK'
  BY <1>7 DEF CreateNode
<1>8. ASSUME NEW l \in Loops, NEW n \in Nodes, DeleteNode(l, n) PROVE TypeOK'
  BY <1>8 DEF DeleteNode, MayChange, Destroy
<1>9. ASSUME NEW l \in Loops, NEW n \in Nodes, DeleteLater(l, n) PROVE TypeOK'
  BY <1>9 DEF DeleteLater, EnqueueDelete
<1>10. ASSUME NEW t \in Threads, NEW n \in Nodes, PostDeleteToOwner(t, n) PROVE TypeOK'
  BY <1>10 DEF PostDeleteToOwner, Alive
<1>11. ASSUME NEW l \in Loops, NEW n \in Nodes, NEW target \in Loops, MoveToThread(l, n, target) PROVE TypeOK'
  <2>1. [op |-> "moveOut", l |-> target, w |-> Item("move", n, target)] \in CallType
    OBVIOUS
  <2>2. call' \in [Threads -> CallType]
    <3>1. call \in [Threads -> CallType]
      OBVIOUS
    <3>2. call' = [call EXCEPT ![l] =
                     [op |-> "moveOut", l |-> target, w |-> Item("move", n, target)]]
      BY <1>11 DEF MoveToThread
    <3> QED
      BY ONLY <2>1, <3>1, <3>2
  <2> QED
    BY <1>11, <2>2 DEF MoveToThread
<1>12. ASSUME NEW t \in Threads, NEW n \in Nodes, NEW l \in Loops, PostMoveToOwner(t, n, l) PROVE TypeOK'
  BY <1>12 DEF PostMoveToOwner, Alive
<1>13. ASSUME NEW l \in Loops, MoveOut(l) PROVE TypeOK'
  <2>2. call[l].l \in Loops /\ call[l].w \in MoveItems /\ call[l].w.x \in Nodes
    BY <1>13, MoveFields DEF MoveOut
  <2>3. call' \in [Threads -> CallType]
    BY <1>13, <2>2 DEF MoveOut
  <2>4. m_rootNodes' \in [Loops -> [Nodes -> Nat]]
    <3>1. m_rootNodes' = [m_rootNodes EXCEPT ![l][call[l].w.x] = 0]
      BY <1>13 DEF MoveOut
    <3>2. m_rootNodes \in [Loops -> [Nodes -> Nat]]
      OBVIOUS
    <3> QED
      BY ONLY <3>1, <3>2, <2>2
  <2>5. home' \in [Nodes -> Loops \union {Dead, Unborn}]
    BY <1>13, <2>2 DEF MoveOut
  <2> QED
    BY <1>13, <2>3, <2>4, <2>5 DEF MoveOut
<1>14. ASSUME NEW l \in Loops, MoveIn(l) PROVE TypeOK'
  <2>2. call[l].l \in Loops /\ call[l].w.x \in Nodes
    BY <1>14, MoveFields DEF MoveIn
  <2>3. call' \in [Threads -> CallType]
    BY <1>14, <2>2 DEF MoveIn
  <2>4. m_rootNodes' \in [Loops -> [Nodes -> Nat]]
    BY <1>14, <2>2 DEF MoveIn
  <2> QED
    BY <1>14, <2>3, <2>4 DEF MoveIn
<1>15. ASSUME NEW l \in Loops, Run(l) PROVE TypeOK'
  BY <1>15 DEF Run
<1>16. ASSUME NEW l \in Loops, RunPendingWork(l) PROVE TypeOK'
  BY <1>16 DEF RunPendingWork
<1>17. ASSUME NEW l \in Loops, PopNextTask(l) PROVE TypeOK'
  BY <1>17 DEF PopNextTask, Pop
<1>18. ASSUME NEW l \in Loops, TaskEnd(l) PROVE TypeOK'
  <2>1. cur[l].x \in Tasks
    BY <1>18, TaskFields DEF TaskEnd
  <2>2. done' \subseteq Tasks
    BY <1>18, <2>1 DEF TaskEnd
  <2>3. cur' \in [Loops -> TaskItems \union Requests \union Updates \union {NoItem}]
    BY <1>18 DEF TaskEnd
  <2> QED
    BY <1>18, <2>2, <2>3 DEF TaskEnd
<1>19. ASSUME NEW l \in Loops, RequestTooLate(l) PROVE TypeOK'
  BY <1>19 DEF RequestTooLate, RequestOver
<1>20. ASSUME NEW l \in Loops, ForwardRequest(l) PROVE TypeOK'
  BY <1>20 DEF ForwardRequest, RequestOver, Alive
<1>21. ASSUME NEW l \in Loops, RunDelete(l) PROVE TypeOK'
  <2>1. cur[l].x \in Nodes
    BY <1>21 DEF RunDelete
  <2>2. m_nodesToDelete' \in [Loops -> Seq(Nodes)]
    BY <1>21, <2>1 DEF RunDelete, EnqueueDelete
  <2>3. cur' \in [Loops -> TaskItems \union Requests \union Updates \union {NoItem}]
    BY <1>21 DEF RunDelete, RequestOver
  <2> QED
    BY <1>21, <2>2, <2>3 DEF RunDelete, RequestOver
<1>22. ASSUME NEW l \in Loops, RunMove(l) PROVE TypeOK'
  <2>1. [op |-> "moveOut", l |-> cur[l].to, w |-> cur[l]] \in CallType
    BY <1>22, MoveItemCalls DEF RunMove
  <2>2. call' \in [Threads -> CallType]
    <3>1. \/ call' = call
          \/ call' = [call EXCEPT ![l] =
                        [op |-> "moveOut", l |-> cur[l].to, w |-> cur[l]]]
      BY <1>22 DEF RunMove
    <3>2. call \in [Threads -> CallType]
      OBVIOUS
    <3> QED
      BY ONLY <3>1, <3>2, <2>1
  <2>3. cur' \in [Loops -> TaskItems \union Requests \union Updates \union {NoItem}]
    BY <1>22 DEF RunMove, RequestOver
  <2> QED
    BY <1>22, <2>2, <2>3 DEF RunMove, RequestOver
<1>23. ASSUME NEW l \in Loops, TakePendingDeletes(l) PROVE TypeOK'
  BY <1>23 DEF TakePendingDeletes, Range
<1>24. ASSUME NEW l \in Loops, DeleteNext(l) PROVE TypeOK'
  BY <1>24, DeleteNextType DEF DeleteNext
<1>25. ASSUME NEW l \in Loops, SnapshotRoots(l) PROVE TypeOK'
  BY <1>25 DEF SnapshotRoots
<1>26. ASSUME NEW l \in Loops, TickNext(l) PROVE TypeOK'
  BY <1>26 DEF TickNext
<1>27. ASSUME NEW l \in Loops, UpdateEnd(l) PROVE TypeOK'
  BY <1>27 DEF UpdateEnd
<1>28. ASSUME NEW l \in Loops, PassOver(l) PROVE TypeOK'
  BY <1>28 DEF PassOver
<1>29. ASSUME NEW l \in Loops, WaitExit(l) PROVE TypeOK'
  BY <1>29 DEF WaitExit, AtWait
<1>30. ASSUME NEW l \in Loops, WaitPass(l) PROVE TypeOK'
  BY <1>30 DEF WaitPass, AtWait
<1>31. ASSUME NEW l \in Loops, WaitBlock(l) PROVE TypeOK'
  BY <1>31 DEF WaitBlock, AtWait, HasWork
<1>32. ASSUME NEW l \in Loops, TimerWake(l) PROVE TypeOK'
  BY <1>32 DEF TimerWake
<1>33. CASE UNCHANGED vars
  BY <1>33 DEF vars
<1> QED
  BY <1>1, <1>2, <1>3, <1>4, <1>5, <1>6, <1>7, <1>8, <1>9, <1>10, <1>11, <1>12, <1>13, <1>14,
     <1>15, <1>16, <1>17, <1>18, <1>19, <1>20, <1>21, <1>22, <1>23, <1>24, <1>25, <1>26,
     <1>27, <1>28, <1>29, <1>30, <1>31, <1>32, <1>33
  DEF Next, UserStep, OwnerStep, Continue, ContinueMove, PassStep
(* The owner thread of a loop is inside a framework function only when it  *)
(* runs user code, or at the end of a closure.                             *)
CallsFromUserCode ==
  \A l \in Loops : ~In(l, "none") => pc[l] \in {"idle", "task", "update", "tasks"}

LEMMA CallsStep == TypeOK /\ CallsFromUserCode /\ [Next]_vars => CallsFromUserCode'
<1> SUFFICES ASSUME TypeOK, CallsFromUserCode, [Next]_vars PROVE CallsFromUserCode'
  OBVIOUS
<1> USE LoopAssumption
    DEF TypeOK, CallsFromUserCode, Threads, NoCall, Pcs, In, Call, Return, Goto,
        queueVars, flagVars, passVars, nodeVars, taskVars
<1>1. ASSUME NEW t \in Threads, NEW l \in Loops, NEW k \in Tasks, Post(t, l, k) PROVE CallsFromUserCode'
  BY <1>1 DEF Post, UserCode
<1>2. ASSUME NEW t \in Threads, Push(t) PROVE CallsFromUserCode'
  BY <1>2 DEF Push
<1>3. ASSUME NEW t \in Threads, NotifyOne(t) PROVE CallsFromUserCode'
  BY <1>3 DEF NotifyOne
<1>4. ASSUME NEW t \in Threads, NEW l \in Loops, Stop(t, l) PROVE CallsFromUserCode'
  BY <1>4 DEF Stop, SetStop, UserCode
<1>5. ASSUME NEW t \in Threads, NEW l \in Loops, Retire(t, l) PROVE CallsFromUserCode'
  BY <1>5 DEF Retire, UserCode
<1>6. ASSUME NEW t \in Threads, RetireStop(t) PROVE CallsFromUserCode'
  BY <1>6 DEF RetireStop, SetStop
<1>7. ASSUME NEW l \in Loops, NEW n \in Nodes, CreateNode(l, n) PROVE CallsFromUserCode'
  BY <1>7 DEF CreateNode, UserCode
<1>8. ASSUME NEW l \in Loops, NEW n \in Nodes, DeleteNode(l, n) PROVE CallsFromUserCode'
  BY <1>8 DEF DeleteNode
<1>9. ASSUME NEW l \in Loops, NEW n \in Nodes, DeleteLater(l, n) PROVE CallsFromUserCode'
  BY <1>9 DEF DeleteLater, EnqueueDelete, UserCode
<1>10. ASSUME NEW t \in Threads, NEW n \in Nodes, PostDeleteToOwner(t, n) PROVE CallsFromUserCode'
  BY <1>10 DEF PostDeleteToOwner, UserCode
<1>11. ASSUME NEW l \in Loops, NEW n \in Nodes, NEW target \in Loops, MoveToThread(l, n, target) PROVE CallsFromUserCode'
  BY <1>11 DEF MoveToThread, MayChange, UserCode
<1>12. ASSUME NEW t \in Threads, NEW n \in Nodes, NEW l \in Loops, PostMoveToOwner(t, n, l) PROVE CallsFromUserCode'
  BY <1>12 DEF PostMoveToOwner, UserCode
<1>13. ASSUME NEW l \in Loops, MoveOut(l) PROVE CallsFromUserCode'
  BY <1>13 DEF MoveOut
<1>14. ASSUME NEW l \in Loops, MoveIn(l) PROVE CallsFromUserCode'
  BY <1>14 DEF MoveIn
<1>15. ASSUME NEW l \in Loops, Run(l) PROVE CallsFromUserCode'
  BY <1>15 DEF Run
<1>16. ASSUME NEW l \in Loops, RunPendingWork(l) PROVE CallsFromUserCode'
  BY <1>16 DEF RunPendingWork
<1>17. ASSUME NEW l \in Loops, PopNextTask(l) PROVE CallsFromUserCode'
  BY <1>17 DEF PopNextTask, Pop
<1>18. ASSUME NEW l \in Loops, TaskEnd(l) PROVE CallsFromUserCode'
  BY <1>18 DEF TaskEnd
<1>19. ASSUME NEW l \in Loops, RequestTooLate(l) PROVE CallsFromUserCode'
  BY <1>19 DEF RequestTooLate, RequestOver
<1>20. ASSUME NEW l \in Loops, ForwardRequest(l) PROVE CallsFromUserCode'
  BY <1>20 DEF ForwardRequest, RequestOver
<1>21. ASSUME NEW l \in Loops, RunDelete(l) PROVE CallsFromUserCode'
  BY <1>21 DEF RunDelete, EnqueueDelete, RequestOver
<1>22. ASSUME NEW l \in Loops, RunMove(l) PROVE CallsFromUserCode'
  BY <1>22 DEF RunMove, RequestOver
<1>23. ASSUME NEW l \in Loops, TakePendingDeletes(l) PROVE CallsFromUserCode'
  BY <1>23 DEF TakePendingDeletes
<1>24. ASSUME NEW l \in Loops, DeleteNext(l) PROVE CallsFromUserCode'
  BY <1>24 DEF DeleteNext
<1>25. ASSUME NEW l \in Loops, SnapshotRoots(l) PROVE CallsFromUserCode'
  BY <1>25 DEF SnapshotRoots
<1>26. ASSUME NEW l \in Loops, TickNext(l) PROVE CallsFromUserCode'
  BY <1>26 DEF TickNext
<1>27. ASSUME NEW l \in Loops, UpdateEnd(l) PROVE CallsFromUserCode'
  BY <1>27 DEF UpdateEnd
<1>28. ASSUME NEW l \in Loops, PassOver(l) PROVE CallsFromUserCode'
  BY <1>28 DEF PassOver
<1>29. ASSUME NEW l \in Loops, WaitExit(l) PROVE CallsFromUserCode'
  BY <1>29 DEF WaitExit, AtWait
<1>30. ASSUME NEW l \in Loops, WaitPass(l) PROVE CallsFromUserCode'
  BY <1>30 DEF WaitPass, AtWait
<1>31. ASSUME NEW l \in Loops, WaitBlock(l) PROVE CallsFromUserCode'
  BY <1>31 DEF WaitBlock, AtWait
<1>32. ASSUME NEW l \in Loops, TimerWake(l) PROVE CallsFromUserCode'
  BY <1>32 DEF TimerWake
<1>33. CASE UNCHANGED vars
  BY <1>33 DEF vars
<1> QED
  BY <1>1, <1>2, <1>3, <1>4, <1>5, <1>6, <1>7, <1>8, <1>9, <1>10, <1>11, <1>12, <1>13, <1>14,
     <1>15, <1>16, <1>17, <1>18, <1>19, <1>20, <1>21, <1>22, <1>23, <1>24, <1>25, <1>26,
     <1>27, <1>28, <1>29, <1>30, <1>31, <1>32, <1>33
  DEF Next, UserStep, OwnerStep, Continue, ContinueMove, PassStep

(* A step that blocks nobody, leaves the blocked loops' work alone and     *)
(* keeps the pending notifications.                                        *)
LEMMA WakeupKept ==
  ASSUME NoLostWakeup,
         \A l \in Loops : pc'[l] = "blocked" =>
           /\ pc[l] = "blocked"
           /\ m_stop'[l] = m_stop[l]
           /\ m_tasks'[l] = m_tasks[l] /\ m_nodesToDelete'[l] = m_nodesToDelete[l],
         \A t \in Threads : In(t, "notify") => call'[t] = call[t]
  PROVE  NoLostWakeup'
BY DEF NoLostWakeup, HasWork, In

LEMMA WakeupStep == TypeOK /\ CallsFromUserCode /\ NoLostWakeup /\ [Next]_vars => NoLostWakeup'
<1> SUFFICES ASSUME TypeOK, CallsFromUserCode, NoLostWakeup, [Next]_vars PROVE NoLostWakeup'
  OBVIOUS
<1> USE LoopAssumption
    DEF TypeOK, CallsFromUserCode, NoLostWakeup, HasWork,
        Threads, NoCall, Pcs, In, Call, Return, Goto,
        queueVars, flagVars, passVars, nodeVars, taskVars
<1>1. ASSUME NEW t \in Threads, NEW l \in Loops, NEW k \in Tasks, Post(t, l, k) PROVE NoLostWakeup'
  <2>1. In(t, "none") /\ call'[t].op = "notify" /\ call'[t].l = l
    BY <1>1 DEF Post, UserCode
  <2>2. \A u \in Threads : In(u, "notify") => call'[u] = call[u]
    BY <1>1, <2>1 DEF Post
  <2>3. \A m \in Loops : m # l => m_tasks'[m] = m_tasks[m]
    BY <1>1 DEF Post
  <2>4. UNCHANGED <<pc, m_stop, m_nodesToDelete>>
    BY <1>1 DEF Post
  <2>5. ASSUME NEW m \in Loops, pc'[m] = "blocked"
        PROVE  /\ ~m_stop'[m]
               /\ HasWork(m)' => \E u \in Threads : In(u, "notify")' /\ call'[u].l = m
    <3>1. CASE m = l
      BY <2>1, <2>4, <2>5, <3>1
    <3>2. CASE m # l
      <4>1. pc[m] = "blocked" /\ ~m_stop'[m] /\ (HasWork(m)' => HasWork(m))
        BY <2>3, <2>4, <2>5, <3>2
      <4>2. HasWork(m) => \E u \in Threads : call[u].op = "notify" /\ call[u].l = m
        BY <4>1
      <4>3. \A u \in Threads : call[u].op = "notify" => call'[u] = call[u]
        BY <2>2
      <4> HIDE DEF HasWork, TypeOK, NoLostWakeup, CallsFromUserCode
      <4> QED
        BY <4>1, <4>2, <4>3
    <3> QED
      BY <3>1, <3>2
  <2> QED
    BY <2>5
<1>2. ASSUME NEW t \in Threads, Push(t) PROVE NoLostWakeup'
  BY <1>2 DEF Push
<1>3. ASSUME NEW t \in Threads, NotifyOne(t) PROVE NoLostWakeup'
  BY <1>3 DEF NotifyOne
<1>4. ASSUME NEW t \in Threads, NEW l \in Loops, Stop(t, l) PROVE NoLostWakeup'
  BY <1>4 DEF Stop, SetStop, UserCode
<1>5. ASSUME NEW t \in Threads, NEW l \in Loops, Retire(t, l) PROVE NoLostWakeup'
  BY <1>5 DEF Retire, UserCode
<1>6. ASSUME NEW t \in Threads, RetireStop(t) PROVE NoLostWakeup'
  BY <1>6 DEF RetireStop, SetStop
<1>7. ASSUME NEW l \in Loops, NEW n \in Nodes, CreateNode(l, n) PROVE NoLostWakeup'
  BY <1>7 DEF CreateNode, UserCode
<1>8. ASSUME NEW l \in Loops, NEW n \in Nodes, DeleteNode(l, n) PROVE NoLostWakeup'
  BY <1>8 DEF DeleteNode
<1>9. ASSUME NEW l \in Loops, NEW n \in Nodes, DeleteLater(l, n) PROVE NoLostWakeup'
  <2>1. pc[l] # "blocked"
    BY <1>9 DEF DeleteLater, UserCode
  <2>2. \A m \in Loops : m # l => m_nodesToDelete'[m] = m_nodesToDelete[m]
    BY <1>9 DEF DeleteLater, EnqueueDelete
  <2>3. UNCHANGED <<pc, m_stop, m_tasks, call>>
    BY <1>9 DEF DeleteLater
  <2> QED
    BY <2>1, <2>2, <2>3, WakeupKept
<1>10. ASSUME NEW t \in Threads, NEW n \in Nodes, PostDeleteToOwner(t, n) PROVE NoLostWakeup'
  BY <1>10 DEF PostDeleteToOwner, UserCode
<1>11. ASSUME NEW l \in Loops, NEW n \in Nodes, NEW target \in Loops, MoveToThread(l, n, target) PROVE NoLostWakeup'
  BY <1>11 DEF MoveToThread, MayChange, UserCode
<1>12. ASSUME NEW t \in Threads, NEW n \in Nodes, NEW l \in Loops, PostMoveToOwner(t, n, l) PROVE NoLostWakeup'
  BY <1>12 DEF PostMoveToOwner, UserCode
<1>13. ASSUME NEW l \in Loops, MoveOut(l) PROVE NoLostWakeup'
  BY <1>13 DEF MoveOut
<1>14. ASSUME NEW l \in Loops, MoveIn(l) PROVE NoLostWakeup'
  BY <1>14 DEF MoveIn
<1>15. ASSUME NEW l \in Loops, Run(l) PROVE NoLostWakeup'
  BY <1>15 DEF Run
<1>16. ASSUME NEW l \in Loops, RunPendingWork(l) PROVE NoLostWakeup'
  BY <1>16 DEF RunPendingWork
<1>17. ASSUME NEW l \in Loops, PopNextTask(l) PROVE NoLostWakeup'
  BY <1>17 DEF PopNextTask, Pop
<1>18. ASSUME NEW l \in Loops, TaskEnd(l) PROVE NoLostWakeup'
  BY <1>18 DEF TaskEnd
<1>19. ASSUME NEW l \in Loops, RequestTooLate(l) PROVE NoLostWakeup'
  BY <1>19 DEF RequestTooLate, RequestOver
<1>20. ASSUME NEW l \in Loops, ForwardRequest(l) PROVE NoLostWakeup'
  BY <1>20 DEF ForwardRequest, RequestOver
<1>21. ASSUME NEW l \in Loops, RunDelete(l) PROVE NoLostWakeup'
  BY <1>21 DEF RunDelete, EnqueueDelete, RequestOver
<1>22. ASSUME NEW l \in Loops, RunMove(l) PROVE NoLostWakeup'
  <2>1. pc'[l] = "tasks" /\ \A m \in Loops : m # l => pc'[m] = pc[m]
    BY <1>22 DEF RunMove, RequestOver
  <2>2. \A u \in Threads : In(u, "notify") => call'[u] = call[u]
    <3>1. call[l].op = "none"
      BY <1>22 DEF RunMove
    <3>2. \A u \in Threads : u # l => call'[u] = call[u]
      BY <1>22 DEF RunMove
    <3> QED
      BY <3>1, <3>2
  <2>3. UNCHANGED <<m_stop, m_tasks, m_nodesToDelete>>
    BY <1>22 DEF RunMove
  <2> QED
    BY <2>1, <2>2, <2>3, WakeupKept
<1>23. ASSUME NEW l \in Loops, TakePendingDeletes(l) PROVE NoLostWakeup'
  BY <1>23 DEF TakePendingDeletes
<1>24. ASSUME NEW l \in Loops, DeleteNext(l) PROVE NoLostWakeup'
  BY <1>24 DEF DeleteNext
<1>25. ASSUME NEW l \in Loops, SnapshotRoots(l) PROVE NoLostWakeup'
  BY <1>25 DEF SnapshotRoots
<1>26. ASSUME NEW l \in Loops, TickNext(l) PROVE NoLostWakeup'
  <2>1. pc'[l] = "update" /\ \A m \in Loops : m # l => pc'[m] = pc[m]
    BY <1>26 DEF TickNext
  <2>2. UNCHANGED <<m_stop, m_tasks, m_nodesToDelete, call>>
    BY <1>26 DEF TickNext
  <2> QED
    BY <2>1, <2>2, WakeupKept
<1>27. ASSUME NEW l \in Loops, UpdateEnd(l) PROVE NoLostWakeup'
  BY <1>27 DEF UpdateEnd
<1>28. ASSUME NEW l \in Loops, PassOver(l) PROVE NoLostWakeup'
  BY <1>28 DEF PassOver
<1>29. ASSUME NEW l \in Loops, WaitExit(l) PROVE NoLostWakeup'
  BY <1>29 DEF WaitExit, AtWait
<1>30. ASSUME NEW l \in Loops, WaitPass(l) PROVE NoLostWakeup'
  BY <1>30 DEF WaitPass, AtWait
<1>31. ASSUME NEW l \in Loops, WaitBlock(l) PROVE NoLostWakeup'
  <2>1. UNCHANGED <<m_stop, m_tasks, m_nodesToDelete, call>>
    BY <1>31 DEF WaitBlock
  <2>2. ~m_stop'[l] /\ ~HasWork(l)'
    BY <1>31, <2>1 DEF WaitBlock
  <2>3. \A m \in Loops : m # l => pc'[m] = pc[m]
    BY <1>31 DEF WaitBlock
  <2>4. \A m \in Loops : m # l /\ pc'[m] = "blocked" =>
          ~m_stop'[m] /\ (HasWork(m)' => \E t \in Threads : In(t, "notify")' /\ call'[t].l = m)
    BY <2>1, <2>3
  <2> QED
    BY <2>2, <2>4
<1>32. ASSUME NEW l \in Loops, TimerWake(l) PROVE NoLostWakeup'
  BY <1>32 DEF TimerWake
<1>33. CASE UNCHANGED vars
  BY <1>33 DEF vars
<1> QED
  BY <1>1, <1>2, <1>3, <1>4, <1>5, <1>6, <1>7, <1>8, <1>9, <1>10, <1>11, <1>12, <1>13, <1>14,
     <1>15, <1>16, <1>17, <1>18, <1>19, <1>20, <1>21, <1>22, <1>23, <1>24, <1>25, <1>26,
     <1>27, <1>28, <1>29, <1>30, <1>31, <1>32, <1>33
  DEF Next, UserStep, OwnerStep, Continue, ContinueMove, PassStep

(* run(), post(), deleteLater() and moveToThread() of any number of loops  *)
(* keep the types of the loops' state, and the request a loop executes and *)
(* the move a thread is in are always about a node and an existing loop.   *)
THEOREM LoopTypeCorrect == Spec => []TypeOK
<1> QED
  BY TypeInit, TypeStep, PTL DEF Spec

(* post() notifies after unlocking: no loop sleeps while there is work for *)
(* it, or a request to stop, unless the thread that brought it is about to *)
(* call notify_one().                                                      *)
THEOREM NoLostWakeupCorrect == Spec => []NoLostWakeup
<1>1. Init => NoLostWakeup /\ CallsFromUserCode
  BY DEF Init, NoLostWakeup, CallsFromUserCode
<1> QED
  BY <1>1, TypeInit, TypeStep, CallsStep, WakeupStep, PTL DEF Spec

-----------------------------------------------------------------------------
(* Where a closure about a node can be: in a queue, in the hands of a      *)
(* thread about to push it, or in those of the loop that executes it.      *)
Places ==
  [in : {"queue"}, of : Loops, at : Nat]
    \union [in : {"push"}, of : Threads, at : {0}]
    \union [in : {"cur"}, of : Loops, at : {0}]

ItemAt(p) ==
  CASE p.in = "queue" -> IF p.at \in DOMAIN m_tasks[p.of] THEN m_tasks[p.of][p.at] ELSE NoItem
    [] p.in = "push" -> IF In(p.of, "push") THEN call[p.of].w ELSE NoItem
    [] p.in = "cur" -> cur[p.of]

(* The loop that has, or is about to get, what is at place p.              *)
LoopAt(p) == IF p.in = "push" THEN call[p.of].l ELSE p.of

About(w, n) == w.kind \in {"move", "delete"} /\ w.x = n

Moving(u, n) == (In(u, "moveOut") \/ In(u, "moveIn")) /\ call[u].w.x = n
Doomed(l, n) == n \in Range(m_nodesToDelete[l]) \/ (pc[l] = "deletes" /\ n \in batch[l])

(* Where the owner thread is when it moves a node, executes a request or   *)
(* updates a node.                                                         *)
Control ==
  \A l \in Loops :
    /\ In(l, "moveOut") \/ In(l, "moveIn") => pc[l] \in {"idle", "task", "tasks"}
    /\ cur[l].kind \in {"move", "delete"} => pc[l] = "request"
    /\ pc[l] = "update" => cur[l] \in Updates

(* A move takes a node from the loop that makes it to another one, and no  *)
(* two moves of one node overlap once the new owner is published.          *)
MoveFromHome(u) ==
  /\ In(u, "moveOut") \/ In(u, "moveIn") => call[u].l # u
  /\ In(u, "moveOut") => home[call[u].w.x] = u
  /\ In(u, "moveIn") => /\ home[call[u].w.x] = call[u].l
                        /\ \A v \in Loops : Moving(v, call[u].w.x) => v = u
MovesFromHome == \A u \in Loops : MoveFromHome(u)

(* The closures about a node that is being moved are all at the loop that  *)
(* moves it.                                                               *)
RequestsAtMover ==
  \A u \in Loops, n \in Nodes, p \in Places :
    Moving(u, n) /\ About(ItemAt(p), n) => LoopAt(p) = u

(* A request to move a node is the only closure about it.                  *)
MoveIsAlone ==
  \A n \in Nodes, p, q \in Places :
    About(ItemAt(p), n) /\ About(ItemAt(q), n) /\ ItemAt(p).kind = "move" => p = q

(* A node to be deleted stays with the loop that will delete it: nobody    *)
(* moves it or has asked to.                                               *)
DoomedStay ==
  \A l \in Loops, n \in Nodes : Doomed(l, n) =>
    /\ home[n] \in {l, Dead}
    /\ \A u \in Loops : ~Moving(u, n)
    /\ \A p \in Places : ~(About(ItemAt(p), n) /\ ItemAt(p).kind = "move")

(* The nodes a tick has yet to update are those of the loop.               *)
TickAtHome ==
  \A l \in Loops :
    /\ pc[l] \in {"tick", "update"} => \A n \in batch[l] : home[n] = l
    /\ pc[l] = "update" => home[cur[l].x] = l

HomeInv ==
  /\ Control /\ MovesFromHome /\ RequestsAtMover /\ MoveIsAlone
  /\ DoomedStay /\ TickAtHome /\ RegisteredOnce

(* A step that leaves the nodes, the closures about them and the moves of  *)
(* them alone, and no loop in the middle of a phase about nodes.           *)
Quiet ==
  /\ UNCHANGED <<m_tasks, m_nodesToDelete, m_rootNodes, cur, batch, home, done>>
  /\ \A t \in Threads :
       call'[t] = call[t] \/ (/\ call[t].op \notin {"push", "moveOut", "moveIn"}
                             /\ call'[t].op \notin {"push", "moveOut", "moveIn"})
  /\ \A l \in Loops :
       pc'[l] = pc[l] \/ (/\ pc[l] \notin {"task", "update", "request", "deletes"}
                         /\ pc'[l] \notin {"update", "request", "deletes", "tick"}
                         /\ ~In(l, "moveOut") /\ ~In(l, "moveIn"))

Loud ==
  \/ \E t \in Threads, l \in Loops, k \in Tasks : Post(t, l, k)
  \/ \E t \in Threads : Push(t)
  \/ \E l \in Loops, n \in Nodes : CreateNode(l, n)
  \/ \E l \in Loops, n \in Nodes : DeleteNode(l, n)
  \/ \E l \in Loops, n \in Nodes : DeleteLater(l, n)
  \/ \E t \in Threads, n \in Nodes : PostDeleteToOwner(t, n)
  \/ \E l \in Loops, n \in Nodes, target \in Loops : MoveToThread(l, n, target)
  \/ \E t \in Threads, n \in Nodes, l \in Loops : PostMoveToOwner(t, n, l)
  \/ \E l \in Loops : MoveOut(l)
  \/ \E l \in Loops : MoveIn(l)
  \/ \E l \in Loops : PopNextTask(l)
  \/ \E l \in Loops : TaskEnd(l)
  \/ \E l \in Loops : RequestTooLate(l)
  \/ \E l \in Loops : ForwardRequest(l)
  \/ \E l \in Loops : RunDelete(l)
  \/ \E l \in Loops : RunMove(l)
  \/ \E l \in Loops : TakePendingDeletes(l)
  \/ \E l \in Loops : DeleteNext(l)
  \/ \E l \in Loops : SnapshotRoots(l)
  \/ \E l \in Loops : TickNext(l)
  \/ \E l \in Loops : UpdateEnd(l)

LEMMA QuietOrLoud ==
  ASSUME TypeOK, CallsFromUserCode, [Next]_vars
  PROVE  Quiet \/ Loud
<1> USE LoopAssumption
    DEF TypeOK, CallsFromUserCode, Threads, NoCall, Pcs, In, Call, Return, Goto,
        queueVars, flagVars, passVars, nodeVars, taskVars
<1>1. ASSUME NEW t \in Threads, NotifyOne(t) PROVE Quiet
  BY <1>1 DEF NotifyOne, Quiet
<1>2. ASSUME NEW t \in Threads, NEW l \in Loops, Stop(t, l) PROVE Quiet
  BY <1>2 DEF Stop, SetStop, UserCode, Quiet
<1>3. ASSUME NEW t \in Threads, NEW l \in Loops, Retire(t, l) PROVE Quiet
  BY <1>3 DEF Retire, UserCode, Quiet
<1>4. ASSUME NEW t \in Threads, RetireStop(t) PROVE Quiet
  BY <1>4 DEF RetireStop, SetStop, Quiet
<1>5. ASSUME NEW l \in Loops, Run(l) PROVE Quiet
  BY <1>5 DEF Run, Quiet
<1>6. ASSUME NEW l \in Loops, RunPendingWork(l) PROVE Quiet
  BY <1>6 DEF RunPendingWork, Quiet
<1>7. ASSUME NEW l \in Loops, PassOver(l) PROVE Quiet
  BY <1>7 DEF PassOver, Quiet
<1>8. ASSUME NEW l \in Loops, WaitExit(l) PROVE Quiet
  BY <1>8 DEF WaitExit, AtWait, Quiet
<1>9. ASSUME NEW l \in Loops, WaitPass(l) PROVE Quiet
  BY <1>9 DEF WaitPass, AtWait, Quiet
<1>10. ASSUME NEW l \in Loops, WaitBlock(l) PROVE Quiet
  BY <1>10 DEF WaitBlock, AtWait, Quiet
<1>11. ASSUME NEW l \in Loops, TimerWake(l) PROVE Quiet
  BY <1>11 DEF TimerWake, Quiet
<1>12. CASE UNCHANGED vars
  BY <1>12 DEF vars, Quiet
<1> HIDE DEF TypeOK, CallsFromUserCode
<1> QED
  BY <1>1, <1>2, <1>3, <1>4, <1>5, <1>6, <1>7, <1>8, <1>9, <1>10, <1>11, <1>12
  DEF Next, UserStep, OwnerStep, Continue, ContinueMove, PassStep, Loud

LEMMA ControlStep ==
  ASSUME TypeOK, CallsFromUserCode, Control, ~TickEffects, Quiet \/ Loud
  PROVE  Control'
<1> USE LoopAssumption
    DEF TypeOK, CallsFromUserCode, Control, Threads, NoCall, NoItem, Item, Pcs,
        In, Call, Return, Goto,
        TaskItems, MoveItems, Requests, Updates,
        queueVars, flagVars, passVars, nodeVars, taskVars
<1>1. CASE Quiet
  BY <1>1 DEF Quiet
<1>2. ASSUME NEW t \in Threads, NEW l \in Loops, NEW k \in Tasks, Post(t, l, k) PROVE Control'
  BY <1>2 DEF Post, UserCode
<1>3. ASSUME NEW t \in Threads, Push(t) PROVE Control'
  BY <1>3 DEF Push
<1>4. ASSUME NEW l \in Loops, NEW n \in Nodes, CreateNode(l, n) PROVE Control'
  BY <1>4 DEF CreateNode, UserCode
<1>5. ASSUME NEW l \in Loops, NEW n \in Nodes, DeleteNode(l, n) PROVE Control'
  BY <1>5 DEF DeleteNode, MayChange, UserCode
<1>6. ASSUME NEW l \in Loops, NEW n \in Nodes, DeleteLater(l, n) PROVE Control'
  BY <1>6 DEF DeleteLater, UserCode
<1>7. ASSUME NEW t \in Threads, NEW n \in Nodes, PostDeleteToOwner(t, n) PROVE Control'
  BY <1>7 DEF PostDeleteToOwner, UserCode
<1>8. ASSUME NEW l \in Loops, NEW n \in Nodes, NEW target \in Loops, MoveToThread(l, n, target) PROVE Control'
  BY <1>8 DEF MoveToThread, MayChange, UserCode
<1>9. ASSUME NEW t \in Threads, NEW n \in Nodes, NEW l \in Loops, PostMoveToOwner(t, n, l) PROVE Control'
  BY <1>9 DEF PostMoveToOwner, UserCode
<1>10. ASSUME NEW l \in Loops, MoveOut(l) PROVE Control'
  BY <1>10 DEF MoveOut
<1>11. ASSUME NEW l \in Loops, MoveIn(l) PROVE Control'
  BY <1>11 DEF MoveIn
<1>12. ASSUME NEW l \in Loops, PopNextTask(l) PROVE Control'
  BY <1>12 DEF PopNextTask, Pop
<1>13. ASSUME NEW l \in Loops, TaskEnd(l) PROVE Control'
  BY <1>13 DEF TaskEnd
<1>14. ASSUME NEW l \in Loops, RequestTooLate(l) PROVE Control'
  BY <1>14 DEF RequestTooLate, RequestOver
<1>15. ASSUME NEW l \in Loops, ForwardRequest(l) PROVE Control'
  BY <1>15 DEF ForwardRequest, RequestOver
<1>16. ASSUME NEW l \in Loops, RunDelete(l) PROVE Control'
  BY <1>16 DEF RunDelete, RequestOver
<1>17. ASSUME NEW l \in Loops, RunMove(l) PROVE Control'
  BY <1>17 DEF RunMove, RequestOver
<1>18. ASSUME NEW l \in Loops, TakePendingDeletes(l) PROVE Control'
  BY <1>18 DEF TakePendingDeletes
<1>19. ASSUME NEW l \in Loops, DeleteNext(l) PROVE Control'
  BY <1>19 DEF DeleteNext
<1>20. ASSUME NEW l \in Loops, SnapshotRoots(l) PROVE Control'
  BY <1>20 DEF SnapshotRoots
<1>21. ASSUME NEW l \in Loops, TickNext(l) PROVE Control'
  BY <1>21 DEF TickNext
<1>22. ASSUME NEW l \in Loops, UpdateEnd(l) PROVE Control'
  BY <1>22 DEF UpdateEnd
<1> HIDE DEF TypeOK, CallsFromUserCode, Control
<1> QED
  BY <1>1, <1>2, <1>3, <1>4, <1>5, <1>6, <1>7, <1>8, <1>9, <1>10, <1>11, <1>12, <1>13, <1>14,
     <1>15, <1>16, <1>17, <1>18, <1>19, <1>20, <1>21, <1>22 DEF Loud

(* No move begins, goes on or ends.                                        *)
MovesSame ==
  \A u \in Loops :
    \/ In(u, "moveOut") \/ In(u, "moveIn") \/ In(u, "moveOut")' \/ In(u, "moveIn")'
    => call'[u] = call[u]

LEMMA MovesSameOr ==
  ASSUME TypeOK, CallsFromUserCode, Control, Quiet \/ Loud
  PROVE  \/ MovesSame
         \/ \E l \in Loops, n \in Nodes, target \in Loops : MoveToThread(l, n, target)
         \/ \E l \in Loops : MoveOut(l)
         \/ \E l \in Loops : MoveIn(l)
         \/ \E l \in Loops : RunMove(l)
<1> USE LoopAssumption
    DEF TypeOK, CallsFromUserCode, Control, Threads, NoCall, NoItem, Item, In, Call, Return,
       Goto, queueVars, flagVars, passVars, nodeVars, taskVars, MovesSame
<1>1. CASE Quiet
  BY <1>1 DEF Quiet
<1>2. ASSUME NEW t \in Threads, NEW l \in Loops, NEW k \in Tasks, Post(t, l, k) PROVE MovesSame
  BY <1>2 DEF Post, UserCode
<1>3. ASSUME NEW t \in Threads, Push(t) PROVE MovesSame
  BY <1>3 DEF Push
<1>4. ASSUME NEW l \in Loops, NEW n \in Nodes, CreateNode(l, n) PROVE MovesSame
  BY <1>4 DEF CreateNode, UserCode
<1>5. ASSUME NEW l \in Loops, NEW n \in Nodes, DeleteNode(l, n) PROVE MovesSame
  BY <1>5 DEF DeleteNode, MayChange, UserCode
<1>6. ASSUME NEW l \in Loops, NEW n \in Nodes, DeleteLater(l, n) PROVE MovesSame
  BY <1>6 DEF DeleteLater, UserCode
<1>7. ASSUME NEW t \in Threads, NEW n \in Nodes, PostDeleteToOwner(t, n) PROVE MovesSame
  BY <1>7 DEF PostDeleteToOwner, UserCode
<1>8. ASSUME NEW t \in Threads, NEW n \in Nodes, NEW l \in Loops, PostMoveToOwner(t, n, l) PROVE MovesSame
  BY <1>8 DEF PostMoveToOwner, UserCode
<1>9. ASSUME NEW l \in Loops, PopNextTask(l) PROVE MovesSame
  BY <1>9 DEF PopNextTask, Pop
<1>10. ASSUME NEW l \in Loops, TaskEnd(l) PROVE MovesSame
  BY <1>10 DEF TaskEnd
<1>11. ASSUME NEW l \in Loops, RequestTooLate(l) PROVE MovesSame
  BY <1>11 DEF RequestTooLate, RequestOver
<1>12. ASSUME NEW l \in Loops, ForwardRequest(l) PROVE MovesSame
  BY <1>12 DEF ForwardRequest, RequestOver
<1>13. ASSUME NEW l \in Loops, RunDelete(l) PROVE MovesSame
  BY <1>13 DEF RunDelete, RequestOver
<1>14. ASSUME NEW l \in Loops, TakePendingDeletes(l) PROVE MovesSame
  BY <1>14 DEF TakePendingDeletes
<1>15. ASSUME NEW l \in Loops, DeleteNext(l) PROVE MovesSame
  BY <1>15 DEF DeleteNext
<1>16. ASSUME NEW l \in Loops, SnapshotRoots(l) PROVE MovesSame
  BY <1>16 DEF SnapshotRoots
<1>17. ASSUME NEW l \in Loops, TickNext(l) PROVE MovesSame
  BY <1>17 DEF TickNext
<1>18. ASSUME NEW l \in Loops, UpdateEnd(l) PROVE MovesSame
  BY <1>18 DEF UpdateEnd
<1> HIDE DEF TypeOK, CallsFromUserCode, Control, MovesSame
<1> QED
  BY <1>1, <1>2, <1>3, <1>4, <1>5, <1>6, <1>7, <1>8, <1>9, <1>10, <1>11, <1>12, <1>13, <1>14,
     <1>15, <1>16, <1>17, <1>18 DEF Loud

NodesSame == UNCHANGED nodeVars

LEMMA NodesSameOr ==
  ASSUME TypeOK, CallsFromUserCode, Control, Quiet \/ Loud
  PROVE  \/ NodesSame
         \/ \E l \in Loops, n \in Nodes : CreateNode(l, n)
         \/ \E l \in Loops, n \in Nodes : DeleteNode(l, n)
         \/ \E l \in Loops : DeleteNext(l)
         \/ \E l \in Loops : MoveOut(l)
         \/ \E l \in Loops : MoveIn(l)
<1> USE LoopAssumption
    DEF TypeOK, CallsFromUserCode, Control, Threads, NoCall, NoItem, Item, In, Call, Return,
       Goto, queueVars, flagVars, passVars, nodeVars, taskVars, NodesSame
<1>1. CASE Quiet
  BY <1>1 DEF Quiet
<1>2. ASSUME NEW t \in Threads, NEW l \in Loops, NEW k \in Tasks, Post(t, l, k) PROVE NodesSame
  BY <1>2 DEF Post, UserCode
<1>3. ASSUME NEW t \in Threads, Push(t) PROVE NodesSame
  BY <1>3 DEF Push
<1>4. ASSUME NEW l \in Loops, NEW n \in Nodes, DeleteLater(l, n) PROVE NodesSame
  BY <1>4 DEF DeleteLater, UserCode
<1>5. ASSUME NEW t \in Threads, NEW n \in Nodes, PostDeleteToOwner(t, n) PROVE NodesSame
  BY <1>5 DEF PostDeleteToOwner, UserCode
<1>6. ASSUME NEW l \in Loops, NEW n \in Nodes, NEW target \in Loops, MoveToThread(l, n, target) PROVE NodesSame
  BY <1>6 DEF MoveToThread, MayChange, UserCode
<1>7. ASSUME NEW t \in Threads, NEW n \in Nodes, NEW l \in Loops, PostMoveToOwner(t, n, l) PROVE NodesSame
  BY <1>7 DEF PostMoveToOwner, UserCode
<1>8. ASSUME NEW l \in Loops, PopNextTask(l) PROVE NodesSame
  BY <1>8 DEF PopNextTask, Pop
<1>9. ASSUME NEW l \in Loops, TaskEnd(l) PROVE NodesSame
  BY <1>9 DEF TaskEnd
<1>10. ASSUME NEW l \in Loops, RequestTooLate(l) PROVE NodesSame
  BY <1>10 DEF RequestTooLate, RequestOver
<1>11. ASSUME NEW l \in Loops, ForwardRequest(l) PROVE NodesSame
  BY <1>11 DEF ForwardRequest, RequestOver
<1>12. ASSUME NEW l \in Loops, RunDelete(l) PROVE NodesSame
  BY <1>12 DEF RunDelete, RequestOver
<1>13. ASSUME NEW l \in Loops, RunMove(l) PROVE NodesSame
  BY <1>13 DEF RunMove, RequestOver
<1>14. ASSUME NEW l \in Loops, TakePendingDeletes(l) PROVE NodesSame
  BY <1>14 DEF TakePendingDeletes
<1>15. ASSUME NEW l \in Loops, SnapshotRoots(l) PROVE NodesSame
  BY <1>15 DEF SnapshotRoots
<1>16. ASSUME NEW l \in Loops, TickNext(l) PROVE NodesSame
  BY <1>16 DEF TickNext
<1>17. ASSUME NEW l \in Loops, UpdateEnd(l) PROVE NodesSame
  BY <1>17 DEF UpdateEnd
<1> HIDE DEF TypeOK, CallsFromUserCode, Control, NodesSame
<1> QED
  BY <1>1, <1>2, <1>3, <1>4, <1>5, <1>6, <1>7, <1>8, <1>9, <1>10, <1>11, <1>12, <1>13, <1>14,
     <1>15, <1>16, <1>17 DEF Loud

NobodyDoomed == \A l \in Loops, n \in Nodes : Doomed(l, n)' => Doomed(l, n)

LEMMA NobodyDoomedOr ==
  ASSUME TypeOK, CallsFromUserCode, Control, Quiet \/ Loud
  PROVE  \/ NobodyDoomed
         \/ \E l \in Loops, n \in Nodes : DeleteLater(l, n)
         \/ \E l \in Loops : RunDelete(l)
<1> USE LoopAssumption
    DEF TypeOK, CallsFromUserCode, Control, Threads, NoCall, NoItem, Item, In, Call, Return,
       Goto, queueVars, flagVars, passVars, nodeVars, taskVars, NobodyDoomed, Doomed, Range
<1>1. CASE Quiet
  BY <1>1 DEF Quiet
<1>2. ASSUME NEW t \in Threads, NEW l \in Loops, NEW k \in Tasks, Post(t, l, k) PROVE NobodyDoomed
  BY <1>2 DEF Post, UserCode
<1>3. ASSUME NEW t \in Threads, Push(t) PROVE NobodyDoomed
  BY <1>3 DEF Push
<1>4. ASSUME NEW l \in Loops, NEW n \in Nodes, CreateNode(l, n) PROVE NobodyDoomed
  BY <1>4 DEF CreateNode, UserCode
<1>5. ASSUME NEW l \in Loops, NEW n \in Nodes, DeleteNode(l, n) PROVE NobodyDoomed
  BY <1>5 DEF DeleteNode, MayChange, UserCode
<1>6. ASSUME NEW t \in Threads, NEW n \in Nodes, PostDeleteToOwner(t, n) PROVE NobodyDoomed
  BY <1>6 DEF PostDeleteToOwner, UserCode
<1>7. ASSUME NEW l \in Loops, NEW n \in Nodes, NEW target \in Loops, MoveToThread(l, n, target) PROVE NobodyDoomed
  BY <1>7 DEF MoveToThread, MayChange, UserCode
<1>8. ASSUME NEW t \in Threads, NEW n \in Nodes, NEW l \in Loops, PostMoveToOwner(t, n, l) PROVE NobodyDoomed
  BY <1>8 DEF PostMoveToOwner, UserCode
<1>9. ASSUME NEW l \in Loops, MoveOut(l) PROVE NobodyDoomed
  BY <1>9 DEF MoveOut
<1>10. ASSUME NEW l \in Loops, MoveIn(l) PROVE NobodyDoomed
  BY <1>10 DEF MoveIn
<1>11. ASSUME NEW l \in Loops, PopNextTask(l) PROVE NobodyDoomed
  BY <1>11 DEF PopNextTask, Pop
<1>12. ASSUME NEW l \in Loops, TaskEnd(l) PROVE NobodyDoomed
  BY <1>12 DEF TaskEnd
<1>13. ASSUME NEW l \in Loops, RequestTooLate(l) PROVE NobodyDoomed
  BY <1>13 DEF RequestTooLate, RequestOver
<1>14. ASSUME NEW l \in Loops, ForwardRequest(l) PROVE NobodyDoomed
  BY <1>14 DEF ForwardRequest, RequestOver
<1>15. ASSUME NEW l \in Loops, RunMove(l) PROVE NobodyDoomed
  BY <1>15 DEF RunMove, RequestOver
<1>16. ASSUME NEW l \in Loops, TakePendingDeletes(l) PROVE NobodyDoomed
  BY <1>16 DEF TakePendingDeletes
<1>17. ASSUME NEW l \in Loops, DeleteNext(l) PROVE NobodyDoomed
  BY <1>17 DEF DeleteNext
<1>18. ASSUME NEW l \in Loops, SnapshotRoots(l) PROVE NobodyDoomed
  BY <1>18 DEF SnapshotRoots
<1>19. ASSUME NEW l \in Loops, TickNext(l) PROVE NobodyDoomed
  BY <1>19 DEF TickNext
<1>20. ASSUME NEW l \in Loops, UpdateEnd(l) PROVE NobodyDoomed
  BY <1>20 DEF UpdateEnd
<1> HIDE DEF TypeOK, CallsFromUserCode, Control, NobodyDoomed
<1> QED
  BY <1>1, <1>2, <1>3, <1>4, <1>5, <1>6, <1>7, <1>8, <1>9, <1>10, <1>11, <1>12, <1>13, <1>14,
     <1>15, <1>16, <1>17, <1>18, <1>19, <1>20 DEF Loud

Request(w) == w.kind \in {"move", "delete"}

(* Closures about nodes only change places, and only the one a loop is     *)
(* executing may change loops.                                             *)
Travels ==
  \E f \in [Places -> Places] : \A p \in Places : Request(ItemAt(p)') =>
    /\ ItemAt(f[p]) = ItemAt(p)'
    /\ LoopAt(p)' = LoopAt(f[p]) \/ In(LoopAt(f[p]), "none")
    /\ \A q \in Places : Request(ItemAt(q)') /\ f[q] = f[p] => q = p

LEMMA StaysPut ==
  ASSUME \A p \in Places : Request(ItemAt(p)') =>
           ItemAt(p) = ItemAt(p)' /\ LoopAt(p)' = LoopAt(p)
  PROVE  Travels
<1> DEFINE f == [p \in Places |-> p]
<1>1. f \in [Places -> Places] /\ \A p \in Places : f[p] = p
  OBVIOUS
<1> HIDE DEF f
<1>2. \A p \in Places : Request(ItemAt(p)') =>
        /\ ItemAt(f[p]) = ItemAt(p)'
        /\ LoopAt(p)' = LoopAt(f[p]) \/ In(LoopAt(f[p]), "none")
        /\ \A q \in Places : Request(ItemAt(q)') /\ f[q] = f[p] => q = p
  BY <1>1
<1> QED
  BY <1>1, <1>2 DEF Travels

LEMMA PushFields ==
  ASSUME TypeOK, NEW t \in Threads, In(t, "push")
  PROVE  call[t].l \in Loops /\ call[t].w \in Requests
<1>1. call[t] \in CallType
  BY DEF TypeOK
<1>2. call[t].op = "push"
  BY DEF In
<1>3. call[t] \in [op : {"push"}, l : Loops, w : Requests]
  BY <1>1, <1>2 DEF CallType, NoCall
<1> QED
  BY <1>3

LEMMA PushTravels ==
  ASSUME TypeOK, NEW t \in Threads, Push(t)
  PROVE  Travels
<1> USE LoopAssumption DEF TypeOK, CallsFromUserCode, Control, Threads, NoCall, NoItem, Item,
   In, Call, Return, Goto, queueVars, flagVars, passVars, nodeVars, taskVars, Places, ItemAt,
   LoopAt, Request
<1>0. call[t].l \in Loops /\ call[t].w \in Requests
  BY PushFields DEF Push
<1>1. PICK l \in Loops : l = call[t].l
  BY <1>0
<1>7. PICK k \in Nat : k = Len(m_tasks[l]) + 1
  OBVIOUS
<1> DEFINE new == [in |-> "queue", of |-> l, at |-> k]
           old == [in |-> "push", of |-> t, at |-> 0]
           f == [p \in Places |-> IF p = new THEN old ELSE p]
<1>2. new \in Places /\ old \in Places
  BY <1>1
<1>3. f \in [Places -> Places] /\ f[new] = old /\ \A p \in Places : p # new => f[p] = p
  BY <1>2
<1>4. ItemAt(old) = ItemAt(new)' /\ LoopAt(new)' = LoopAt(old) /\ ~Request(ItemAt(old)')
  <2>1. ItemAt(old) = call[t].w /\ LoopAt(old) = l
    BY <1>1 DEF Push
  <2>2. m_tasks'[l] = Append(m_tasks[l], call[t].w)
    BY <1>1 DEF Push
  <2>3. k \in DOMAIN m_tasks'[l] /\ m_tasks'[l][k] = call[t].w
    BY <1>0, <1>7, <2>2
  <2>4. ItemAt(new)' = call[t].w /\ LoopAt(new)' = l
    BY <2>3
  <2>5. ~Request(ItemAt(old)')
    BY DEF Push
  <2> QED
    BY <2>1, <2>4, <2>5
<1>5. ASSUME NEW p \in Places, p # new, p # old, Request(ItemAt(p)')
      PROVE  ItemAt(p) = ItemAt(p)' /\ LoopAt(p)' = LoopAt(p)
  BY <1>0, <1>1, <1>7, <1>5 DEF Push
<1> HIDE DEF f, new, old, TypeOK, Places, ItemAt, LoopAt, Request
<1>6. ASSUME NEW p \in Places, Request(ItemAt(p)')
      PROVE  /\ ItemAt(f[p]) = ItemAt(p)'
             /\ LoopAt(p)' = LoopAt(f[p])
             /\ \A q \in Places : Request(ItemAt(q)') /\ f[q] = f[p] => q = p
  BY <1>3, <1>4, <1>5, <1>6
<1> QED
  BY <1>3, <1>6 DEF Travels

LEMMA PopNextTaskTravels ==
  ASSUME TypeOK, NEW l \in Loops, PopNextTask(l)
  PROVE  Travels
<1> USE LoopAssumption DEF TypeOK, CallsFromUserCode, Control, Threads, NoCall, NoItem, Item,
   In, Call, Return, Goto, queueVars, flagVars, passVars, nodeVars, taskVars, Places, ItemAt,
   LoopAt, Request
<1> DEFINE new == [in |-> "cur", of |-> l, at |-> 0]
           Old(i) == [in |-> "queue", of |-> l, at |-> i]
           f == [p \in Places |-> IF p = new THEN Old(1) ELSE IF p = Old(p.at) THEN Old(p.at + 1) ELSE p]
<1>1. new \in Places /\ \A i \in Nat : Old(i) \in Places
  OBVIOUS
<1>2. f[new] = Old(1) /\ (\A i \in Nat : f[Old(i)] = Old(i + 1))
  OBVIOUS
<1>3. \A p \in Places : p # new /\ (\A i \in Nat : p # Old(i)) => f[p] = p
  OBVIOUS
<1>4. f \in [Places -> Places]
  OBVIOUS
<1>5. ItemAt(new)' = ItemAt(Old(1)) /\ LoopAt(new)' = LoopAt(Old(1))
  BY DEF PopNextTask, Pop
<1>6. ASSUME NEW i \in Nat, Request(ItemAt(Old(i))')
      PROVE  i # 0 /\ ItemAt(Old(i))' = ItemAt(Old(i + 1)) /\ LoopAt(Old(i))' = LoopAt(Old(i + 1))
  BY <1>6 DEF PopNextTask, Pop
<1>7. ASSUME NEW p \in Places, p # new, \A i \in Nat : p # Old(i), Request(ItemAt(p)')
      PROVE  ItemAt(p) = ItemAt(p)' /\ LoopAt(p)' = LoopAt(p)
  BY <1>7 DEF PopNextTask, Pop
<1>8. \A i, j \in Nat : (Old(i) = Old(j) => i = j) /\ Old(i) # new
  OBVIOUS
<1> HIDE DEF f, new, Old, TypeOK, Places, ItemAt, LoopAt, Request
<1>9. ASSUME NEW p \in Places, Request(ItemAt(p)')
      PROVE  /\ ItemAt(f[p]) = ItemAt(p)'
             /\ LoopAt(p)' = LoopAt(f[p])
  BY <1>2, <1>3, <1>5, <1>6, <1>7, <1>9
<1>10. ASSUME NEW p \in Places, NEW q \in Places, Request(ItemAt(p)'), Request(ItemAt(q)'), f[q] = f[p]
       PROVE  q = p
  <2>1. \A i \in Nat : i + 1 \in Nat /\ (i # 0 => i + 1 # 1)
    OBVIOUS
  <2>2. \A i, j \in Nat : i + 1 = j + 1 => i = j
    OBVIOUS
  <2>3. 1 \in Nat
    OBVIOUS
  <2> QED
    BY <1>2, <1>3, <1>6, <1>8, <1>10, <2>1, <2>2, <2>3
<1> QED
  BY <1>4, <1>9, <1>10 DEF Travels

LEMMA ForwardRequestTravels ==
  ASSUME TypeOK, CallsFromUserCode, NEW l \in Loops, ForwardRequest(l)
  PROVE  Travels
<1> USE LoopAssumption DEF TypeOK, CallsFromUserCode, Control, Threads, NoCall, NoItem, Item,
   In, Call, Return, Goto, queueVars, flagVars, passVars, nodeVars, taskVars, Places, ItemAt,
   LoopAt, Request
<1> DEFINE new == [in |-> "push", of |-> l, at |-> 0]
           old == [in |-> "cur", of |-> l, at |-> 0]
           f == [p \in Places |-> IF p = new THEN old ELSE p]
<1>1. new \in Places /\ old \in Places
  OBVIOUS
<1>2. f \in [Places -> Places] /\ f[new] = old /\ \A p \in Places : p # new => f[p] = p
  BY <1>1
<1>3. ItemAt(old) = ItemAt(new)' /\ In(LoopAt(old), "none") /\ ~Request(ItemAt(old)')
  BY DEF ForwardRequest, RequestOver
<1>4. ASSUME NEW p \in Places, p # new, p # old, Request(ItemAt(p)')
      PROVE  ItemAt(p) = ItemAt(p)' /\ LoopAt(p)' = LoopAt(p)
  BY <1>4 DEF ForwardRequest, RequestOver
<1> HIDE DEF f, new, old, TypeOK, CallsFromUserCode, Places, ItemAt, LoopAt, Request, In
<1>5. ASSUME NEW p \in Places, Request(ItemAt(p)')
      PROVE  /\ ItemAt(f[p]) = ItemAt(p)'
             /\ LoopAt(p)' = LoopAt(f[p]) \/ In(LoopAt(f[p]), "none")
             /\ \A q \in Places : Request(ItemAt(q)') /\ f[q] = f[p] => q = p
  BY <1>2, <1>3, <1>4, <1>5
<1> QED
  BY <1>2, <1>5 DEF Travels

LEMMA TravelsOr ==
  ASSUME TypeOK, CallsFromUserCode, Control, Quiet \/ Loud
  PROVE  \/ Travels
         \/ \E t \in Threads, n \in Nodes : PostDeleteToOwner(t, n)
         \/ \E t \in Threads, n \in Nodes, l \in Loops : PostMoveToOwner(t, n, l)
<1> USE LoopAssumption
    DEF TypeOK, CallsFromUserCode, Control, Threads, NoCall, NoItem, Item, In, Call, Return,
       Goto, queueVars, flagVars, passVars, nodeVars, taskVars, Places, ItemAt, LoopAt,
       Request
<1> DEFINE Stay == \A p \in Places : Request(ItemAt(p)') =>
                     ItemAt(p) = ItemAt(p)' /\ LoopAt(p)' = LoopAt(p)
<1>1. CASE Quiet
  <2>1. Stay
    BY <1>1 DEF Quiet
  <2> QED
    BY <2>1, StaysPut
<1>2. ASSUME NEW t \in Threads, NEW l \in Loops, NEW k \in Tasks, Post(t, l, k) PROVE Travels
  <2>1. Stay
    BY <1>2 DEF Post, UserCode
  <2> QED
    BY <2>1, StaysPut
<1>3. ASSUME NEW t \in Threads, Push(t) PROVE Travels
  BY <1>3, PushTravels
<1>4. ASSUME NEW l \in Loops, NEW n \in Nodes, CreateNode(l, n) PROVE Travels
  <2>1. Stay
    BY <1>4 DEF CreateNode, UserCode
  <2> QED
    BY <2>1, StaysPut
<1>5. ASSUME NEW l \in Loops, NEW n \in Nodes, DeleteNode(l, n) PROVE Travels
  <2>1. Stay
    BY <1>5 DEF DeleteNode, MayChange, UserCode
  <2> QED
    BY <2>1, StaysPut
<1>6. ASSUME NEW l \in Loops, NEW n \in Nodes, DeleteLater(l, n) PROVE Travels
  <2>1. Stay
    BY <1>6 DEF DeleteLater, UserCode
  <2> QED
    BY <2>1, StaysPut
<1>7. ASSUME NEW l \in Loops, NEW n \in Nodes, NEW target \in Loops, MoveToThread(l, n, target) PROVE Travels
  <2>1. Stay
    BY <1>7 DEF MoveToThread, MayChange, UserCode
  <2> QED
    BY <2>1, StaysPut
<1>8. ASSUME NEW l \in Loops, MoveOut(l) PROVE Travels
  <2>1. Stay
    BY <1>8 DEF MoveOut
  <2> QED
    BY <2>1, StaysPut
<1>9. ASSUME NEW l \in Loops, MoveIn(l) PROVE Travels
  <2>1. Stay
    BY <1>9 DEF MoveIn
  <2> QED
    BY <2>1, StaysPut
<1>10. ASSUME NEW l \in Loops, PopNextTask(l) PROVE Travels
  BY <1>10, PopNextTaskTravels
<1>11. ASSUME NEW l \in Loops, TaskEnd(l) PROVE Travels
  <2>1. Stay
    BY <1>11 DEF TaskEnd
  <2> QED
    BY <2>1, StaysPut
<1>12. ASSUME NEW l \in Loops, RequestTooLate(l) PROVE Travels
  <2>1. Stay
    BY <1>12 DEF RequestTooLate, RequestOver
  <2> QED
    BY <2>1, StaysPut
<1>13. ASSUME NEW l \in Loops, ForwardRequest(l) PROVE Travels
  BY <1>13, ForwardRequestTravels
<1>14. ASSUME NEW l \in Loops, RunDelete(l) PROVE Travels
  <2>1. Stay
    BY <1>14 DEF RunDelete, RequestOver
  <2> QED
    BY <2>1, StaysPut
<1>15. ASSUME NEW l \in Loops, RunMove(l) PROVE Travels
  <2>1. Stay
    BY <1>15 DEF RunMove, RequestOver
  <2> QED
    BY <2>1, StaysPut
<1>16. ASSUME NEW l \in Loops, TakePendingDeletes(l) PROVE Travels
  <2>1. Stay
    BY <1>16 DEF TakePendingDeletes
  <2> QED
    BY <2>1, StaysPut
<1>17. ASSUME NEW l \in Loops, DeleteNext(l) PROVE Travels
  <2>1. Stay
    BY <1>17 DEF DeleteNext
  <2> QED
    BY <2>1, StaysPut
<1>18. ASSUME NEW l \in Loops, SnapshotRoots(l) PROVE Travels
  <2>1. Stay
    BY <1>18 DEF SnapshotRoots
  <2> QED
    BY <2>1, StaysPut
<1>19. ASSUME NEW l \in Loops, TickNext(l) PROVE Travels
  <2>1. Stay
    BY <1>19 DEF TickNext
  <2> QED
    BY <2>1, StaysPut
<1>20. ASSUME NEW l \in Loops, UpdateEnd(l) PROVE Travels
  <2>1. Stay
    BY <1>20 DEF UpdateEnd
  <2> QED
    BY <2>1, StaysPut
<1> HIDE DEF TypeOK, CallsFromUserCode, Control
<1> QED
  BY <1>1, <1>2, <1>3, <1>4, <1>5, <1>6, <1>7, <1>8, <1>9, <1>10, <1>11, <1>12, <1>13, <1>14,
     <1>15, <1>16, <1>17, <1>18, <1>19, <1>20 DEF Loud

LEMMA NoRequestPlaces ==
  ASSUME TypeOK, NEW n \in Nodes, NEW k \in {"move", "delete"}, NoRequest(n, k)
  PROVE  /\ \A p \in Places : ~(ItemAt(p).kind = k /\ ItemAt(p).x = n)
         /\ k = "move" => \A u \in Loops : ~(In(u, "moveIn") /\ call[u].w.x = n)
         /\ k = "delete" => \A l \in Loops : ~Doomed(l, n)
<1>1. ASSUME NEW w \in TaskItems \union Requests \union Updates \union {NoItem}, w.kind = k, w.x = n
      PROVE  w = Item(k, n, w.to)
  BY <1>1 DEF TaskItems, Requests, MoveItems, Updates, NoItem, Item
<1>2. ASSUME NEW p \in Places, ItemAt(p).kind = k, ItemAt(p).x = n
      PROVE  FALSE
  <2>1. CASE p.in = "queue"
    <3>1. p.of \in Loops /\ p.at \in Nat
      BY <2>1 DEF Places
    <3>2. p.at \in DOMAIN m_tasks[p.of] /\ ItemAt(p) = m_tasks[p.of][p.at]
      BY <1>2, <2>1 DEF ItemAt, NoItem, Item
    <3>3. ItemAt(p) \in TaskItems \union Requests
      BY <3>1, <3>2 DEF TypeOK
    <3> QED
      BY <1>1, <1>2, <3>1, <3>2, <3>3 DEF NoRequest
  <2>2. CASE p.in = "push"
    <3>1. p.of \in Threads
      BY <2>2 DEF Places
    <3>2. In(p.of, "push") /\ ItemAt(p) = call[p.of].w
      BY <1>2, <2>2 DEF ItemAt, NoItem, Item
    <3>3. ItemAt(p) \in Requests
      BY <3>1, <3>2, PushFields
    <3> QED
      BY <1>1, <1>2, <3>1, <3>2, <3>3 DEF NoRequest, In
  <2>3. CASE p.in = "cur"
    <3>1. p.of \in Loops /\ ItemAt(p) = cur[p.of]
      BY <2>3 DEF Places, ItemAt
    <3>2. ItemAt(p) \in TaskItems \union Requests \union Updates \union {NoItem}
      BY <3>1 DEF TypeOK
    <3> QED
      BY <1>1, <1>2, <3>1, <3>2 DEF NoRequest
  <2> QED
    BY <2>1, <2>2, <2>3 DEF Places
<1>3. ASSUME k = "move", NEW u \in Loops, In(u, "moveIn"), call[u].w.x = n
      PROVE  FALSE
  <2>1. call[u].w \in MoveItems
    BY <1>3, MoveFields
  <2>2. call[u].w = Item(k, n, call[u].w.to)
    BY <1>3, <2>1 DEF MoveItems, Item
  <2> QED
    BY <1>3, <2>2 DEF NoRequest, In, Threads
<1>4. k = "delete" => \A l \in Loops : ~Doomed(l, n)
  BY DEF NoRequest, Doomed
<1> QED
  BY <1>2, <1>3, <1>4

(* What a thread may have in hand when it asks to delete or to move a node.*)
LEMMA DeleteAllowed ==
  ASSUME TypeOK, ~Overlap, NEW n \in Nodes, MayDelete(n)
  PROVE  /\ \A p \in Places : ~(ItemAt(p).kind = "move" /\ ItemAt(p).x = n)
         /\ \A u \in Loops : ~(In(u, "moveIn") /\ call[u].w.x = n)
BY NoRequestPlaces DEF MayDelete

LEMMA MoveAllowed ==
  ASSUME TypeOK, ~Overlap, NEW n \in Nodes, MayMove(n)
  PROVE  /\ \A p \in Places : ~About(ItemAt(p), n)
         /\ \A u \in Loops : ~(In(u, "moveIn") /\ call[u].w.x = n)
         /\ \A l \in Loops : ~Doomed(l, n)
BY NoRequestPlaces DEF MayMove, About

(* A request in the hands of the thread that makes it.                     *)
LEMMA RequestMade ==
  ASSUME TypeOK, CallsFromUserCode, Control, NEW t \in Threads, NEW m \in Nodes, NEW w,
         \/ PostDeleteToOwner(t, m) /\ w = Item("delete", m, None)
         \/ \E l \in Loops : PostMoveToOwner(t, m, l) /\ w = Item("move", m, l)
  PROVE  \E new \in Places :
           /\ ItemAt(new)' = w /\ LoopAt(new)' = home[m] /\ home[m] \in Loops
           /\ \A p \in Places : p # new /\ Request(ItemAt(p)') =>
                ItemAt(p) = ItemAt(p)' /\ LoopAt(p)' = LoopAt(p)
<1> USE LoopAssumption DEF TypeOK, CallsFromUserCode, Control, Threads, NoCall, NoItem, Item,
   In, Call, Return, Goto, queueVars, flagVars, passVars, nodeVars, taskVars, Places, ItemAt,
   LoopAt, Request
<1> DEFINE new == [in |-> "push", of |-> t, at |-> 0]
<1>1. new \in Places
  OBVIOUS
<1>2. call' = [call EXCEPT ![t] = [op |-> "push", l |-> home[m], w |-> w]] /\ home[m] \in Loops
  BY DEF PostDeleteToOwner, PostMoveToOwner, Alive
<1>3. UNCHANGED <<m_tasks, cur>>
  BY DEF PostDeleteToOwner, PostMoveToOwner
<1>4. ItemAt(new)' = w /\ LoopAt(new)' = home[m]
  BY <1>2
<1>5. ASSUME NEW p \in Places, p # new, Request(ItemAt(p)')
      PROVE  ItemAt(p) = ItemAt(p)' /\ LoopAt(p)' = LoopAt(p)
  BY <1>2, <1>3, <1>5
<1> HIDE DEF new, TypeOK, CallsFromUserCode, Control, Places, ItemAt, LoopAt, Request
<1> QED
  BY <1>1, <1>2, <1>4, <1>5

LEMMA MoveIsAloneStep ==
  ASSUME TypeOK, CallsFromUserCode, Control, ~Overlap, MoveIsAlone, Quiet \/ Loud
  PROVE  MoveIsAlone'
<1>1. CASE Travels
  <2>1. PICK f \in [Places -> Places] : \A p \in Places : Request(ItemAt(p)') =>
          /\ ItemAt(f[p]) = ItemAt(p)'
          /\ \A q \in Places : Request(ItemAt(q)') /\ f[q] = f[p] => q = p
    BY <1>1 DEF Travels
  <2> SUFFICES ASSUME NEW n \in Nodes, NEW p \in Places, NEW q \in Places,
                      About(ItemAt(p)', n), About(ItemAt(q)', n), ItemAt(p)'.kind = "move"
               PROVE  p = q
    BY DEF MoveIsAlone
  <2>2. Request(ItemAt(p)') /\ Request(ItemAt(q)')
    BY DEF About, Request
  <2>3. ItemAt(f[p]) = ItemAt(p)' /\ ItemAt(f[q]) = ItemAt(q)' /\ f[p] \in Places /\ f[q] \in Places
    BY <2>1, <2>2
  <2>4. f[p] = f[q]
    BY <2>3 DEF MoveIsAlone
  <2> QED
    BY <2>1, <2>2, <2>4
<1>2. ASSUME NEW t \in Threads, NEW m \in Nodes, PostDeleteToOwner(t, m)
      PROVE  MoveIsAlone'
  <2>1. \A p \in Places : ~(ItemAt(p).kind = "move" /\ ItemAt(p).x = m)
    BY <1>2, DeleteAllowed DEF PostDeleteToOwner
  <2>2. PICK w : w = Item("delete", m, None)
    OBVIOUS
  <2>3. PICK new \in Places :
           /\ ItemAt(new)' = w
           /\ \A p \in Places : p # new /\ Request(ItemAt(p)') => ItemAt(p) = ItemAt(p)'
    BY <1>2, <2>2, RequestMade
  <2>4. w.kind = "delete" /\ w.x = m
    BY <2>2 DEF Item
  <2> SUFFICES ASSUME NEW n \in Nodes, NEW p \in Places, NEW q \in Places,
                      About(ItemAt(p)', n), About(ItemAt(q)', n), ItemAt(p)'.kind = "move"
               PROVE  p = q
    BY DEF MoveIsAlone
  <2>5. Request(ItemAt(p)') /\ Request(ItemAt(q)') /\ p # new
    BY <2>3, <2>4 DEF About, Request
  <2>6. ItemAt(p) = ItemAt(p)'
    BY <2>3, <2>5
  <2>7. n # m
    BY <2>1, <2>6 DEF About
  <2>8. q # new
    BY <2>3, <2>4, <2>7 DEF About
  <2>9. ItemAt(q) = ItemAt(q)'
    BY <2>3, <2>5, <2>8
  <2> QED
    BY <2>6, <2>9 DEF MoveIsAlone
<1>3. ASSUME NEW t \in Threads, NEW m \in Nodes, NEW l \in Loops, PostMoveToOwner(t, m, l)
      PROVE  MoveIsAlone'
  <2>1. \A p \in Places : ~About(ItemAt(p), m)
    BY <1>3, MoveAllowed DEF PostMoveToOwner
  <2>2. PICK w : w = Item("move", m, l)
    OBVIOUS
  <2>3. PICK new \in Places :
           /\ ItemAt(new)' = w
           /\ \A p \in Places : p # new /\ Request(ItemAt(p)') => ItemAt(p) = ItemAt(p)'
    BY <1>3, <2>2, RequestMade
  <2>4. w.x = m
    BY <2>2 DEF Item
  <2> SUFFICES ASSUME NEW n \in Nodes, NEW p \in Places, NEW q \in Places,
                      About(ItemAt(p)', n), About(ItemAt(q)', n), ItemAt(p)'.kind = "move"
               PROVE  p = q
    BY DEF MoveIsAlone
  <2>5. Request(ItemAt(p)') /\ Request(ItemAt(q)')
    BY DEF About, Request
  <2>6. CASE n = m
    BY <2>1, <2>3, <2>5, <2>6
  <2>7. CASE n # m
    <3>1. p # new /\ q # new
      BY <2>3, <2>4, <2>7 DEF About
    <3> QED
      BY <2>3, <2>5, <3>1 DEF MoveIsAlone
  <2> QED
    BY <2>6, <2>7
<1> QED
  BY <1>1, <1>2, <1>3, TravelsOr

-----------------------------------------------------------------------------
(* A loop begins to move node n, of its own accord or because of a request.*)
Begins(l, n) ==
  /\ In(l, "none") /\ In(l, "moveOut")'
  /\ call'[l].w.x = n /\ call'[l].l # l
  /\ \A u \in Loops : u # l => call'[u] = call[u]
  /\ UNCHANGED nodeVars /\ home[n] = l
  /\ \A u \in Loops : ~Moving(u, n)
  /\ \A p \in Places : ~About(ItemAt(p)', n)
  /\ \A k \in Loops : ~Doomed(k, n)

LEMMA MoveBegins ==
  ASSUME TypeOK, CallsFromUserCode, HomeInv, ~Overlap, NEW l \in Loops,
         (\E n \in Nodes, target \in Loops : MoveToThread(l, n, target)) \/ RunMove(l)
  PROVE  MovesSame \/ \E n \in Nodes : Begins(l, n)
<1> USE LoopAssumption
<1>1. ASSUME NEW n \in Nodes, NEW target \in Loops, MoveToThread(l, n, target)
      PROVE  Begins(l, n)
  <2>1. /\ In(l, "none") /\ home[n] = l /\ target # l /\ MayMove(n)
        /\ call' = [call EXCEPT ![l] =
                      [op |-> "moveOut", l |-> target, w |-> Item("move", n, target)]]
        /\ UNCHANGED <<m_tasks, cur, nodeVars>>
    BY <1>1 DEF MoveToThread, MayChange, UserCode, Call, queueVars, passVars
  <2>2. /\ In(l, "moveOut")' /\ call'[l].w.x = n /\ call'[l].l # l
        /\ \A u \in Loops : u # l => call'[u] = call[u]
    BY <2>1 DEF TypeOK, Threads, In, Item
  <2>3. /\ \A p \in Places : ~About(ItemAt(p), n)
        /\ \A u \in Loops : ~(In(u, "moveIn") /\ call[u].w.x = n)
        /\ \A k \in Loops : ~Doomed(k, n)
    BY <2>1, MoveAllowed
  <2>4. \A u \in Loops : ~Moving(u, n)
    BY <2>1, <2>3 DEF Moving, HomeInv, MovesFromHome, MoveFromHome, In
  <2>5. \A p \in Places : About(ItemAt(p)', n) => About(ItemAt(p), n)
    BY <2>1 DEF ItemAt, About, Places, In, TypeOK, Threads, NoItem, Item
  <2> QED
    BY <2>1, <2>2, <2>3, <2>4, <2>5 DEF Begins
<1>2. ASSUME RunMove(l), call' = call
      PROVE  MovesSame
  BY <1>2 DEF MovesSame
<1>3. ASSUME RunMove(l), call' # call
      PROVE  \E n \in Nodes : Begins(l, n)
  <2>1. PICK n : n = cur[l].x
    OBVIOUS
  <2>2. PICK target : target = cur[l].to
    OBVIOUS
  <2>3. /\ pc[l] = "request" /\ cur[l].kind = "move" /\ home[n] = l /\ target # l
        /\ call' = [call EXCEPT ![l] = [op |-> "moveOut", l |-> target, w |-> cur[l]]]
        /\ cur' = [cur EXCEPT ![l] = NoItem]
        /\ UNCHANGED <<m_tasks, nodeVars>>
    BY <1>3, <2>1, <2>2 DEF RunMove, RequestOver, Call, queueVars
  <2>4. n \in Nodes /\ In(l, "none")
    BY <2>1, <2>3 DEF TypeOK, Requests, MoveItems, CallsFromUserCode
  <2>5. /\ In(l, "moveOut")' /\ call'[l].w.x = n /\ call'[l].l # l
        /\ \A u \in Loops : u # l => call'[u] = call[u]
    BY <2>1, <2>3 DEF TypeOK, Threads, In
  <2> DEFINE old == [in |-> "cur", of |-> l, at |-> 0]
  <2>6. old \in Places /\ ItemAt(old) = cur[l] /\ LoopAt(old) = l /\ ItemAt(old)' = NoItem
    BY <2>3 DEF Places, ItemAt, LoopAt, TypeOK
  <2>7. About(ItemAt(old), n) /\ ItemAt(old).kind = "move"
    BY <2>1, <2>3, <2>6 DEF About
  <2>8. \A p \in Places : p # old /\ About(ItemAt(p)', n) => About(ItemAt(p), n)
    BY <2>3 DEF ItemAt, About, Places, In, TypeOK, Threads, NoItem, Item
  <2> HIDE DEF old
  <2>9. \A p \in Places : ~About(ItemAt(p)', n)
    <3> SUFFICES ASSUME NEW p \in Places, About(ItemAt(p)', n) PROVE FALSE
      OBVIOUS
    <3>1. CASE p = old
      BY <2>6, <3>1 DEF About, NoItem, Item
    <3>2. CASE p # old
      BY <2>4, <2>6, <2>7, <2>8, <3>2 DEF HomeInv, MoveIsAlone
    <3> QED
      BY <3>1, <3>2
  <2>10. \A u \in Loops : ~Moving(u, n)
    BY <2>4, <2>6, <2>7 DEF HomeInv, RequestsAtMover, Moving, In
  <2>11. \A k \in Loops : ~Doomed(k, n)
    BY <2>4, <2>6, <2>7 DEF HomeInv, DoomedStay
  <2> QED
    BY <2>3, <2>4, <2>5, <2>9, <2>10, <2>11 DEF Begins
<1> QED
  BY <1>1, <1>2, <1>3

(* A loop deletes its node n.                                              *)
Dies(l, n) ==
  /\ home[n] = l
  /\ home' = [home EXCEPT ![n] = Dead]
  /\ m_rootNodes' = [m_rootNodes EXCEPT ![l][n] = 0]
  /\ \A u \in Loops : ~Moving(u, n)
  /\ pc[l] \notin {"tick", "update"}

LEMMA NodeDies ==
  ASSUME TypeOK, CallsFromUserCode, HomeInv, ~Overlap, ~TickEffects, NEW l \in Loops,
         (\E n \in Nodes : DeleteNode(l, n)) \/ DeleteNext(l)
  PROVE  UNCHANGED call /\ (NodesSame \/ \E n \in Nodes : Dies(l, n))
<1> USE LoopAssumption
<1>1. ASSUME NEW n \in Nodes, DeleteNode(l, n)
      PROVE  Dies(l, n)
  <2>1. /\ In(l, "none") /\ pc[l] \in {"idle", "task"} /\ home[n] = l /\ MayDelete(n)
        /\ home' = [home EXCEPT ![n] = Dead]
        /\ m_rootNodes' = [m_rootNodes EXCEPT ![l][n] = 0]
    BY <1>1 DEF DeleteNode, MayChange, UserCode, Destroy
  <2>2. \A u \in Loops : ~(In(u, "moveIn") /\ call[u].w.x = n)
    BY <2>1, DeleteAllowed
  <2>3. \A u \in Loops : ~Moving(u, n)
    BY <2>1, <2>2 DEF Moving, HomeInv, MovesFromHome, MoveFromHome, In
  <2> QED
    BY <2>1, <2>3 DEF Dies
<1>2. ASSUME DeleteNext(l)
      PROVE  NodesSame \/ \E n \in Nodes : Dies(l, n)
  <2>1. pc[l] = "deletes"
    BY <1>2 DEF DeleteNext
  <2>2. PICK n \in batch[l] : IF Alive(n) THEN Destroy(n) ELSE UNCHANGED nodeVars
    BY <1>2 DEF DeleteNext
  <2>3. n \in Nodes /\ Doomed(l, n)
    BY <2>1 DEF TypeOK, Doomed
  <2>4. home[n] \in {l, Dead} /\ \A u \in Loops : ~Moving(u, n)
    BY <2>3 DEF HomeInv, DoomedStay
  <2>5. CASE ~Alive(n)
    BY <2>2, <2>5 DEF NodesSame
  <2>6. CASE Alive(n)
    <3>1. home[n] = l
      BY <2>4, <2>6 DEF Alive
    <3>2. Dies(l, n)
      BY <2>1, <2>2, <2>4, <2>6, <3>1 DEF Dies, Destroy
    <3> QED
      BY <2>3, <3>2
  <2> QED
    BY <2>5, <2>6
<1>3. UNCHANGED call
  BY DEF DeleteNode, DeleteNext
<1> QED
  BY <1>1, <1>2, <1>3

(* A loop notes its node n for deletion.                                   *)
Dooms(l, n) ==
  /\ \A k \in Loops, m \in Nodes : Doomed(k, m)' => Doomed(k, m) \/ (k = l /\ m = n)
  /\ UNCHANGED nodeVars
  /\ UNCHANGED call
  /\ home[n] = l
  /\ \A u \in Loops : ~Moving(u, n)
  /\ \A p \in Places : ~(ItemAt(p).kind = "move" /\ ItemAt(p).x = n)

LEMMA EnqueueDeleteDooms ==
  ASSUME TypeOK, NEW l \in Loops, NEW n \in Nodes, EnqueueDelete(l, n),
         UNCHANGED batch, \A k \in Loops : pc'[k] = "deletes" => pc[k] = "deletes",
         NEW k \in Loops, NEW m \in Nodes, Doomed(k, m)'
  PROVE  Doomed(k, m) \/ (k = l /\ m = n)
<1>1. m_nodesToDelete'[k] = m_nodesToDelete[k] \/ (k = l /\ m_nodesToDelete'[k] = Append(m_nodesToDelete[k], n))
  BY DEF EnqueueDelete, TypeOK
<1>2. m_nodesToDelete[k] \in Seq(Nodes)
  BY DEF TypeOK
<1> QED
  BY <1>1, <1>2 DEF Doomed, Range

LEMMA NodeDoomed ==
  ASSUME TypeOK, CallsFromUserCode, HomeInv, ~Overlap, NEW l \in Loops,
         (\E n \in Nodes : DeleteLater(l, n)) \/ RunDelete(l)
  PROVE  \E n \in Nodes : Dooms(l, n)
<1> USE LoopAssumption
<1>1. ASSUME NEW n \in Nodes, DeleteLater(l, n)
      PROVE  Dooms(l, n)
  <2>1. In(l, "none") /\ home[n] = l /\ MayDelete(n) /\ EnqueueDelete(l, n)
        /\ UNCHANGED <<passVars, nodeVars, call>>
    BY <1>1 DEF DeleteLater, UserCode
  <2>2. /\ \A p \in Places : ~(ItemAt(p).kind = "move" /\ ItemAt(p).x = n)
        /\ \A u \in Loops : ~(In(u, "moveIn") /\ call[u].w.x = n)
    BY <2>1, DeleteAllowed
  <2>3. \A u \in Loops : ~Moving(u, n)
    BY <2>1, <2>2 DEF Moving, HomeInv, MovesFromHome, MoveFromHome, In
  <2>4. \A k \in Loops, m \in Nodes : Doomed(k, m)' => Doomed(k, m) \/ (k = l /\ m = n)
    BY <2>1, EnqueueDeleteDooms DEF passVars
  <2> QED
    BY <2>1, <2>2, <2>3, <2>4 DEF Dooms
<1>2. ASSUME RunDelete(l)
      PROVE  \E n \in Nodes : Dooms(l, n)
  <2>1. PICK n : n = cur[l].x
    OBVIOUS
  <2>2. /\ pc[l] = "request" /\ cur[l].kind = "delete" /\ home[n] = l
        /\ EnqueueDelete(l, n) /\ pc' = [pc EXCEPT ![l] = "tasks"]
        /\ UNCHANGED <<batch, nodeVars, call>>
    BY <1>2, <2>1 DEF RunDelete, RequestOver, Goto
  <2>3. n \in Nodes /\ In(l, "none")
    BY <2>1, <2>2 DEF TypeOK, Requests, MoveItems, CallsFromUserCode
  <2> DEFINE old == [in |-> "cur", of |-> l, at |-> 0]
  <2>4. old \in Places /\ ItemAt(old) = cur[l] /\ LoopAt(old) = l
    BY DEF Places, ItemAt, LoopAt
  <2>5. About(ItemAt(old), n) /\ ItemAt(old).kind = "delete"
    BY <2>1, <2>2, <2>4 DEF About
  <2> HIDE DEF old
  <2>6. \A u \in Loops : ~Moving(u, n)
    BY <2>3, <2>4, <2>5 DEF HomeInv, RequestsAtMover, Moving, In
  <2>7. ASSUME NEW p \in Places, ItemAt(p).kind = "move", ItemAt(p).x = n
        PROVE  FALSE
    <3>1. About(ItemAt(p), n)
      BY <2>7 DEF About
    <3>2. p = old
      BY <2>3, <2>4, <2>5, <2>7, <3>1 DEF HomeInv, MoveIsAlone
    <3> QED
      BY <2>5, <2>7, <3>2
  <2>8. \A k \in Loops, m \in Nodes : Doomed(k, m)' => Doomed(k, m) \/ (k = l /\ m = n)
    <3>1. \A k \in Loops : pc'[k] = "deletes" => pc[k] = "deletes"
      BY <2>2 DEF TypeOK
    <3> QED
      BY <2>2, <2>3, <3>1, EnqueueDeleteDooms
  <2> QED
    BY <2>2, <2>3, <2>6, <2>7, <2>8 DEF Dooms
<1> QED
  BY <1>1, <1>2

(* The halves of a move do not start a new one.                            *)
LEMMA MoveGoesOn ==
  ASSUME TypeOK, NEW l \in Loops, MoveOut(l) \/ MoveIn(l)
  PROVE  \A u \in Loops, n \in Nodes : Moving(u, n)' => Moving(u, n)
<1>1. \A u \in Loops : u # l => call'[u] = call[u]
  BY DEF TypeOK, Threads, MoveOut, MoveIn, Call
<1>2. ASSUME MoveOut(l), NEW n \in Nodes, Moving(l, n)'
      PROVE  Moving(l, n)
  BY <1>2 DEF MoveOut, Call, TypeOK, Threads, Moving, In
<1>3. ASSUME MoveIn(l), NEW n \in Nodes, Moving(l, n)'
      PROVE  Moving(l, n)
  <2>1. call'[l].op = "notify"
    BY <1>3 DEF MoveIn, Call, TypeOK, Threads
  <2> QED
    BY <1>3, <2>1 DEF Moving, In
<1> QED
  BY <1>1, <1>2, <1>3 DEF Moving, In

LEMMA MoveKept ==
  ASSUME NEW u \in Loops, NEW m \in Nodes, MoveFromHome(u), call'[u] = call[u], m = call[u].w.x,
         home'[m] = home[m],
         In(u, "moveIn") => \A v \in Loops : Moving(v, m)' => v = u
  PROVE  MoveFromHome(u)'
BY DEF MoveFromHome, In

LEMMA MovesFromHomeStep ==
  ASSUME TypeOK, CallsFromUserCode, HomeInv, ~Overlap, ~TickEffects, Quiet \/ Loud
  PROVE  MovesFromHome'
<1> USE LoopAssumption
<1>1. CASE MovesSame /\ NodesSame
  BY <1>1 DEF HomeInv, MovesFromHome, MoveFromHome, MovesSame, NodesSame, nodeVars, Moving, In
<1>2. ASSUME NEW l \in Loops, NEW n \in Nodes, Begins(l, n)
      PROVE  MovesFromHome'
  <2>1. \A u \in Loops : In(u, "moveIn")' => u # l /\ In(u, "moveIn")
    BY <1>2 DEF Begins, In
  <2>2. \A u \in Loops, m \in Nodes : u # l \/ m # n => (Moving(u, m)' <=> Moving(u, m))
    BY <1>2 DEF Begins, Moving, In
  <2>3. home' = home /\ home[n] = l /\ \A u \in Loops : ~Moving(u, n)
    BY <1>2 DEF Begins, nodeVars
  <2>4. ASSUME NEW u \in Loops, u # l, In(u, "moveOut")' \/ In(u, "moveIn")'
        PROVE  MoveFromHome(u)'
    <3>1. call'[u] = call[u] /\ (In(u, "moveOut") \/ In(u, "moveIn"))
      BY <1>2, <2>4 DEF Begins, In
    <3>2. PICK m \in Nodes : m = call[u].w.x
      BY <3>1, MoveFields
    <3>3. Moving(u, m) /\ m # n
      BY <2>3, <3>1, <3>2 DEF Moving
    <3>4. In(u, "moveIn") => \A v \in Loops : Moving(v, m)' => v = u
      BY <2>2, <3>1, <3>2, <3>3 DEF HomeInv, MovesFromHome, MoveFromHome
    <3>5. MoveFromHome(u)
      BY DEF HomeInv, MovesFromHome
    <3> QED
      BY <2>3, <3>1, <3>2, <3>4, <3>5, MoveKept
  <2>5. In(l, "moveOut")' /\ call'[l].l # l /\ call'[l].w.x = n /\ home'[n] = l
    BY <1>2, <2>3 DEF Begins
  <2> QED
    <3>1. \A u \in Loops : ~In(u, "moveOut")' /\ ~In(u, "moveIn")' => MoveFromHome(u)'
      BY DEF MoveFromHome
    <3>2. MoveFromHome(l)'
      BY <2>5 DEF MoveFromHome, In
    <3> QED
      BY <2>4, <3>1, <3>2 DEF MovesFromHome
<1>3. ASSUME NEW l \in Loops, NEW n \in Nodes, Dies(l, n), UNCHANGED call
      PROVE  MovesFromHome'
  <2>1. ASSUME NEW u \in Loops, In(u, "moveOut") \/ In(u, "moveIn")
        PROVE  home'[call[u].w.x] = home[call[u].w.x]
    <3>1. call[u].w.x \in Nodes /\ Moving(u, call[u].w.x)
      BY <2>1, MoveFields DEF Moving
    <3> QED
      BY <1>3, <3>1 DEF Dies, TypeOK
  <2> QED
    BY <1>3, <2>1 DEF HomeInv, MovesFromHome, MoveFromHome, Moving, In
<1>4. ASSUME NEW l \in Loops, NEW n \in Nodes, CreateNode(l, n)
      PROVE  MovesFromHome'
  <2>1. UNCHANGED call /\ home[n] = Unborn /\ home' = [home EXCEPT ![n] = l]
    BY <1>4 DEF CreateNode
  <2>2. ASSUME NEW u \in Loops, In(u, "moveOut") \/ In(u, "moveIn")
        PROVE  home'[call[u].w.x] = home[call[u].w.x]
    <3>1. call[u].w.x \in Nodes /\ call[u].l \in Loops
      BY <2>2, MoveFields
    <3>2. call[u].w.x # n
      BY <2>1, <2>2, <3>1 DEF HomeInv, MovesFromHome, MoveFromHome
    <3> QED
      BY <2>1, <3>1, <3>2 DEF TypeOK
  <2> QED
    BY <2>1, <2>2 DEF HomeInv, MovesFromHome, MoveFromHome, Moving, In
<1>5. ASSUME NEW l \in Loops, MoveOut(l)
      PROVE  MovesFromHome'
  <2>1. PICK n \in Nodes : n = call[l].w.x
    BY <1>5, MoveFields DEF MoveOut
  <2>2. PICK target \in Loops : target = call[l].l
    BY <1>5, MoveFields DEF MoveOut
  <2>3. /\ home' = [home EXCEPT ![n] = target]
        /\ call' = [call EXCEPT ![l] = [op |-> "moveIn", l |-> target, w |-> call[l].w]]
        /\ In(l, "moveOut")
    BY <1>5, <2>1, <2>2 DEF MoveOut, Call
  <2>4. Moving(l, n) /\ home[n] = l /\ target # l
    BY <2>1, <2>2, <2>3 DEF Moving, HomeInv, MovesFromHome, MoveFromHome
  <2>5. \A u \in Loops : Moving(u, n) => u = l
    <3> SUFFICES ASSUME NEW u \in Loops, Moving(u, n) PROVE u = l
      OBVIOUS
    <3>1. CASE In(u, "moveOut")
      BY <2>4, <3>1 DEF Moving, HomeInv, MovesFromHome, MoveFromHome
    <3>2. CASE In(u, "moveIn")
      BY <2>4, <3>2 DEF Moving, HomeInv, MovesFromHome, MoveFromHome
    <3> QED
      BY <3>1, <3>2 DEF Moving
  <2>6. \A u \in Loops, m \in Nodes : Moving(u, m)' => Moving(u, m)
    BY <1>5, MoveGoesOn
  <2>7. call'[l].op = "moveIn" /\ call'[l].l = target /\ call'[l].w.x = n
        /\ \A u \in Loops : u # l => call'[u] = call[u]
    BY <2>1, <2>3 DEF TypeOK, Threads
  <2>8. home'[n] = target /\ \A m \in Nodes : m # n => home'[m] = home[m]
    BY <2>3 DEF TypeOK
  <2>9. ASSUME NEW u \in Loops, u # l, In(u, "moveOut")' \/ In(u, "moveIn")'
        PROVE  MoveFromHome(u)'
    <3>1. call'[u] = call[u] /\ (In(u, "moveOut") \/ In(u, "moveIn"))
      BY <2>7, <2>9 DEF In
    <3>2. PICK m \in Nodes : m = call[u].w.x
      BY <3>1, MoveFields
    <3>3. Moving(u, m) /\ m # n
      BY <2>5, <2>9, <3>1, <3>2 DEF Moving
    <3>4. In(u, "moveIn") => \A v \in Loops : Moving(v, m)' => v = u
      BY <2>6, <3>1, <3>2, <3>3 DEF HomeInv, MovesFromHome, MoveFromHome
    <3>5. MoveFromHome(u)
      BY DEF HomeInv, MovesFromHome
    <3> QED
      BY <2>8, <3>1, <3>2, <3>3, <3>4, <3>5, MoveKept
  <2>10. \A v \in Loops : Moving(v, n)' => v = l
    BY <2>5, <2>6
  <2> QED
    <3>1. \A u \in Loops : ~In(u, "moveOut")' /\ ~In(u, "moveIn")' => MoveFromHome(u)'
      BY DEF MoveFromHome
    <3>2. MoveFromHome(l)'
      BY <2>4, <2>7, <2>8, <2>10 DEF MoveFromHome, In
    <3> QED
      BY <2>9, <3>1, <3>2 DEF MovesFromHome
<1>6. ASSUME NEW l \in Loops, MoveIn(l)
      PROVE  MovesFromHome'
  <2>1. home' = home /\ call' = [call EXCEPT ![l] = [op |-> "notify", l |-> call[l].l, w |-> NoItem]]
    BY <1>6 DEF MoveIn, Call
  <2>2. \A u \in Loops, m \in Nodes : Moving(u, m)' => Moving(u, m)
    BY <1>6, MoveGoesOn
  <2>3. call'[l].op = "notify" /\ \A u \in Loops : u # l => call'[u] = call[u]
    BY <2>1 DEF TypeOK, Threads
  <2>4. ASSUME NEW u \in Loops, In(u, "moveOut")' \/ In(u, "moveIn")'
        PROVE  MoveFromHome(u)'
    <3>1. call'[u] = call[u] /\ (In(u, "moveOut") \/ In(u, "moveIn"))
      BY <2>3, <2>4 DEF In
    <3>2. PICK m \in Nodes : m = call[u].w.x
      BY <3>1, MoveFields
    <3>3. In(u, "moveIn") => \A v \in Loops : Moving(v, m)' => v = u
      BY <2>2, <3>1, <3>2 DEF HomeInv, MovesFromHome, MoveFromHome
    <3>4. MoveFromHome(u)
      BY DEF HomeInv, MovesFromHome
    <3> QED
      BY <2>1, <3>1, <3>2, <3>3, <3>4, MoveKept
  <2> QED
    <3>1. \A u \in Loops : ~In(u, "moveOut")' /\ ~In(u, "moveIn")' => MoveFromHome(u)'
      BY DEF MoveFromHome
    <3> QED
      BY <2>4, <3>1 DEF MovesFromHome
<1> QED
  <2>1. Control
    BY DEF HomeInv
  <2> QED
    BY <1>1, <1>2, <1>3, <1>4, <1>5, <1>6, <2>1, MovesSameOr, NodesSameOr, MoveBegins, NodeDies

LEMMA RequestsAtMoverStep ==
  ASSUME TypeOK, CallsFromUserCode, HomeInv, ~Overlap, Quiet \/ Loud
  PROVE  RequestsAtMover'
<1> USE LoopAssumption
<1>1. ASSUME NEW u \in Loops, NEW n \in Nodes, NEW p \in Places, Moving(u, n)', About(ItemAt(p)', n),
             Moving(u, n)
      PROVE  LoopAt(p)' = u
  <2>1. CASE Travels
    <3>1. PICK f \in [Places -> Places] : Request(ItemAt(p)') =>
            /\ ItemAt(f[p]) = ItemAt(p)'
            /\ LoopAt(p)' = LoopAt(f[p]) \/ In(LoopAt(f[p]), "none")
      BY <2>1 DEF Travels
    <3>2. ItemAt(f[p]) = ItemAt(p)' /\ f[p] \in Places
          /\ (LoopAt(p)' = LoopAt(f[p]) \/ In(LoopAt(f[p]), "none"))
      BY <1>1, <3>1 DEF About, Request
    <3>3. LoopAt(f[p]) = u
      BY <1>1, <3>2 DEF HomeInv, RequestsAtMover
    <3> QED
      BY <1>1, <3>2, <3>3 DEF Moving, In
  <2>2. ASSUME NEW t \in Threads, NEW m \in Nodes, NEW w,
               \/ PostDeleteToOwner(t, m) /\ w = Item("delete", m, None)
               \/ \E l \in Loops : PostMoveToOwner(t, m, l) /\ w = Item("move", m, l)
        PROVE  LoopAt(p)' = u
    <3>1. PICK new \in Places :
             /\ ItemAt(new)' = w /\ LoopAt(new)' = home[m] /\ home[m] \in Loops
             /\ \A q \in Places : q # new /\ Request(ItemAt(q)') =>
                  ItemAt(q) = ItemAt(q)' /\ LoopAt(q)' = LoopAt(q)
      BY <2>2, RequestMade DEF HomeInv
    <3>2. CASE p # new
      BY <1>1, <3>1, <3>2 DEF About, Request, HomeInv, RequestsAtMover
    <3>3. CASE p = new
      <4>1. n = m
        BY <1>1, <2>2, <3>1, <3>3 DEF About, Item
      <4>2. ~(In(u, "moveIn") /\ call[u].w.x = m)
        BY <2>2, DeleteAllowed, MoveAllowed DEF PostDeleteToOwner, PostMoveToOwner
      <4>3. home[m] = u
        BY <1>1, <4>1, <4>2 DEF Moving, HomeInv, MovesFromHome, MoveFromHome
      <4> QED
        BY <3>1, <3>3, <4>3
    <3> QED
      BY <3>2, <3>3
  <2> QED
    BY <2>1, <2>2, TravelsOr DEF HomeInv
<1>2. CASE MovesSame
  <2>1. \A u \in Loops, n \in Nodes : Moving(u, n)' => Moving(u, n)
    BY <1>2 DEF MovesSame, Moving, In
  <2> QED
    BY <1>1, <2>1 DEF RequestsAtMover
<1>3. ASSUME NEW l \in Loops, MoveOut(l) \/ MoveIn(l)
      PROVE  RequestsAtMover'
  BY <1>1, <1>3, MoveGoesOn DEF RequestsAtMover
<1>4. ASSUME NEW l \in Loops, NEW m \in Nodes, Begins(l, m)
      PROVE  RequestsAtMover'
  <2>1. \A u \in Loops, n \in Nodes : Moving(u, n)' => Moving(u, n) \/ n = m
    BY <1>4 DEF Begins, Moving, In
  <2>2. \A p \in Places : ~About(ItemAt(p)', m)
    BY <1>4 DEF Begins
  <2> QED
    BY <1>1, <2>1, <2>2 DEF RequestsAtMover
<1> QED
  <2>1. Control
    BY DEF HomeInv
  <2> QED
    BY <1>2, <1>3, <1>4, <2>1, MovesSameOr, MoveBegins

LEMMA DoomedStayStep ==
  ASSUME TypeOK, CallsFromUserCode, HomeInv, ~Overlap, ~TickEffects, Quiet \/ Loud
  PROVE  DoomedStay'
<1> USE LoopAssumption
<1> SUFFICES ASSUME NEW k \in Loops, NEW m \in Nodes, Doomed(k, m)'
             PROVE  /\ home'[m] \in {k, Dead}
                    /\ \A u \in Loops : ~Moving(u, m)'
                    /\ \A p \in Places : ~(About(ItemAt(p)', m) /\ ItemAt(p)'.kind = "move")
  BY DEF DoomedStay
<1>1. Control
  BY DEF HomeInv
<1>2. \/ Doomed(k, m)
      \/ \E l \in Loops, n \in Nodes : Dooms(l, n) /\ k = l /\ m = n
  <2>1. NobodyDoomed \/ \E l \in Loops, n \in Nodes : Dooms(l, n)
    BY <1>1, NobodyDoomedOr, NodeDoomed
  <2> QED
    BY <2>1 DEF NobodyDoomed, Dooms
<1>3. /\ home[m] \in {k, Dead}
      /\ \A u \in Loops : ~Moving(u, m)
      /\ \A p \in Places : ~(About(ItemAt(p), m) /\ ItemAt(p).kind = "move")
  BY <1>2 DEF HomeInv, DoomedStay, Dooms, About
<1>4. home'[m] \in {k, Dead}
  <2>1. CASE NodesSame
    BY <1>3, <2>1 DEF NodesSame, nodeVars
  <2>2. ASSUME NEW l \in Loops, NEW n \in Nodes, CreateNode(l, n)
        PROVE  home'[m] \in {k, Dead}
    BY <1>3, <2>2 DEF CreateNode, TypeOK
  <2>3. ASSUME NEW l \in Loops, NEW n \in Nodes, Dies(l, n)
        PROVE  home'[m] \in {k, Dead}
    BY <1>3, <2>3 DEF Dies, TypeOK
  <2>4. ASSUME NEW l \in Loops, MoveOut(l)
        PROVE  home'[m] \in {k, Dead}
    <3>1. Moving(l, call[l].w.x) /\ home' = [home EXCEPT ![call[l].w.x] = call[l].l]
      BY <2>4 DEF MoveOut, Moving
    <3> QED
      BY <1>3, <3>1 DEF TypeOK
  <2>5. ASSUME NEW l \in Loops, MoveIn(l)
        PROVE  home'[m] \in {k, Dead}
    BY <1>3, <2>5 DEF MoveIn
  <2> QED
    BY <1>1, <2>1, <2>2, <2>3, <2>4, <2>5, NodesSameOr, NodeDies
<1>5. \A u \in Loops : ~Moving(u, m)'
  <2>1. CASE MovesSame
    BY <1>3, <2>1 DEF MovesSame, Moving, In
  <2>2. ASSUME NEW l \in Loops, NEW n \in Nodes, Begins(l, n)
        PROVE  \A u \in Loops : ~Moving(u, m)'
    <3>1. ~Dooms(l, n) /\ \A i \in Loops, j \in Nodes : ~Dooms(i, j)
      BY <2>2 DEF Begins, Dooms, In
    <3>2. m # n
      BY <1>2, <2>2, <3>1 DEF Begins
    <3> QED
      BY <1>3, <2>2, <3>2 DEF Begins, Moving, In
  <2>3. ASSUME NEW l \in Loops, MoveOut(l) \/ MoveIn(l)
        PROVE  \A u \in Loops : ~Moving(u, m)'
    BY <1>3, <2>3, MoveGoesOn
  <2> QED
    BY <1>1, <2>1, <2>2, <2>3, MovesSameOr, MoveBegins
<1>6. ASSUME NEW p \in Places, About(ItemAt(p)', m), ItemAt(p)'.kind = "move"
      PROVE  FALSE
  <2>1. CASE Travels
    <3>1. PICK f \in [Places -> Places] : Request(ItemAt(p)') => ItemAt(f[p]) = ItemAt(p)'
      BY <2>1 DEF Travels
    <3>2. f[p] \in Places /\ ItemAt(f[p]) = ItemAt(p)'
      BY <1>6, <3>1 DEF About, Request
    <3> QED
      BY <1>3, <1>6, <3>2
  <2>2. ASSUME NEW t \in Threads, NEW n \in Nodes, NEW w,
               \/ PostDeleteToOwner(t, n) /\ w = Item("delete", n, None)
               \/ \E l \in Loops : PostMoveToOwner(t, n, l) /\ w = Item("move", n, l)
        PROVE  FALSE
    <3>1. PICK new \in Places :
             /\ ItemAt(new)' = w
             /\ \A q \in Places : q # new /\ Request(ItemAt(q)') => ItemAt(q) = ItemAt(q)'
      BY <1>1, <2>2, RequestMade
    <3>2. CASE p # new
      BY <1>3, <1>6, <3>1, <3>2 DEF About, Request
    <3>3. CASE p = new
      <4>1. w.kind = "move" /\ w.x = m
        BY <1>6, <3>1, <3>3 DEF About
      <4>2. PICK l \in Loops : PostMoveToOwner(t, n, l)
        BY <2>2, <4>1 DEF Item
      <4>3. n = m
        BY <2>2, <4>1 DEF Item
      <4>4. ~Doomed(k, m)
        <5>1. MayMove(m)
          BY <4>2, <4>3 DEF PostMoveToOwner
        <5> QED
          BY <5>1, MoveAllowed
      <4>5. UNCHANGED <<m_nodesToDelete, pc, batch>>
        BY <4>2 DEF PostMoveToOwner, queueVars, passVars
      <4> QED
        BY <4>4, <4>5 DEF Doomed
    <3> QED
      BY <3>2, <3>3
  <2> QED
    BY <1>1, <2>1, <2>2, TravelsOr
<1> QED
  BY <1>4, <1>5, <1>6

(* No loop takes up, in its tick, anything that it had not taken up.       *)
TicksSame ==
  \A l \in Loops : pc'[l] \in {"tick", "update"} =>
    /\ pc[l] \in {"tick", "update"}
    /\ batch'[l] \subseteq batch[l]
    /\ pc'[l] = "update" => pc[l] = "update" /\ cur'[l] = cur[l]

LEMMA TicksSameOr ==
  ASSUME TypeOK, CallsFromUserCode, Control, Quiet \/ Loud
  PROVE  \/ TicksSame
         \/ \E l \in Loops : SnapshotRoots(l)
         \/ \E l \in Loops : TickNext(l)
<1> USE LoopAssumption
    DEF TypeOK, CallsFromUserCode, Control, Threads, NoCall, NoItem, Item, In, Call, Return,
       Goto, queueVars, flagVars, passVars, nodeVars, taskVars, TicksSame
<1>1. CASE Quiet
  BY <1>1 DEF Quiet
<1>2. ASSUME NEW t \in Threads, NEW l \in Loops, NEW k \in Tasks, Post(t, l, k) PROVE TicksSame
  BY <1>2 DEF Post, UserCode
<1>3. ASSUME NEW t \in Threads, Push(t) PROVE TicksSame
  BY <1>3 DEF Push
<1>4. ASSUME NEW l \in Loops, NEW n \in Nodes, CreateNode(l, n) PROVE TicksSame
  BY <1>4 DEF CreateNode, UserCode
<1>5. ASSUME NEW l \in Loops, NEW n \in Nodes, DeleteNode(l, n) PROVE TicksSame
  BY <1>5 DEF DeleteNode, MayChange, UserCode
<1>6. ASSUME NEW l \in Loops, NEW n \in Nodes, DeleteLater(l, n) PROVE TicksSame
  BY <1>6 DEF DeleteLater, UserCode
<1>7. ASSUME NEW t \in Threads, NEW n \in Nodes, PostDeleteToOwner(t, n) PROVE TicksSame
  BY <1>7 DEF PostDeleteToOwner, UserCode
<1>8. ASSUME NEW l \in Loops, NEW n \in Nodes, NEW target \in Loops, MoveToThread(l, n, target) PROVE TicksSame
  BY <1>8 DEF MoveToThread, MayChange, UserCode
<1>9. ASSUME NEW t \in Threads, NEW n \in Nodes, NEW l \in Loops, PostMoveToOwner(t, n, l) PROVE TicksSame
  BY <1>9 DEF PostMoveToOwner, UserCode
<1>10. ASSUME NEW l \in Loops, MoveOut(l) PROVE TicksSame
  BY <1>10 DEF MoveOut
<1>11. ASSUME NEW l \in Loops, MoveIn(l) PROVE TicksSame
  BY <1>11 DEF MoveIn
<1>12. ASSUME NEW l \in Loops, PopNextTask(l) PROVE TicksSame
  BY <1>12 DEF PopNextTask, Pop
<1>13. ASSUME NEW l \in Loops, TaskEnd(l) PROVE TicksSame
  BY <1>13 DEF TaskEnd
<1>14. ASSUME NEW l \in Loops, RequestTooLate(l) PROVE TicksSame
  BY <1>14 DEF RequestTooLate, RequestOver
<1>15. ASSUME NEW l \in Loops, ForwardRequest(l) PROVE TicksSame
  BY <1>15 DEF ForwardRequest, RequestOver
<1>16. ASSUME NEW l \in Loops, RunDelete(l) PROVE TicksSame
  BY <1>16 DEF RunDelete, RequestOver
<1>17. ASSUME NEW l \in Loops, RunMove(l) PROVE TicksSame
  BY <1>17 DEF RunMove, RequestOver
<1>18. ASSUME NEW l \in Loops, TakePendingDeletes(l) PROVE TicksSame
  BY <1>18 DEF TakePendingDeletes
<1>19. ASSUME NEW l \in Loops, DeleteNext(l) PROVE TicksSame
  BY <1>19 DEF DeleteNext
<1>20. ASSUME NEW l \in Loops, UpdateEnd(l) PROVE TicksSame
  BY <1>20 DEF UpdateEnd
<1> HIDE DEF TypeOK, CallsFromUserCode, Control, TicksSame
<1> QED
  BY <1>1, <1>2, <1>3, <1>4, <1>5, <1>6, <1>7, <1>8, <1>9, <1>10, <1>11, <1>12, <1>13, <1>14,
     <1>15, <1>16, <1>17, <1>18, <1>19, <1>20 DEF Loud

LEMMA TickAtHomeStep ==
  ASSUME TypeOK, CallsFromUserCode, HomeInv, ~Overlap, ~TickEffects, Quiet \/ Loud
  PROVE  TickAtHome'
<1> USE LoopAssumption
<1>1. Control
  BY DEF HomeInv
<1>2. ASSUME NEW l \in Loops, pc[l] \in {"tick", "update"}, NEW n \in Nodes, home[n] = l
      PROVE  home'[n] = l
  <2>1. CASE NodesSame
    BY <1>2, <2>1 DEF NodesSame, nodeVars
  <2>2. ASSUME NEW k \in Loops, NEW m \in Nodes, CreateNode(k, m)
        PROVE  home'[n] = l
    BY <1>2, <2>2 DEF CreateNode, TypeOK
  <2>3. ASSUME NEW k \in Loops, NEW m \in Nodes, Dies(k, m)
        PROVE  home'[n] = l
    BY <1>2, <2>3 DEF Dies, TypeOK
  <2>4. ASSUME NEW k \in Loops, MoveOut(k)
        PROVE  home'[n] = l
    <3>1. pc[k] \notin {"tick", "update"} /\ home[call[k].w.x] = k
          /\ home' = [home EXCEPT ![call[k].w.x] = call[k].l]
      BY <2>4 DEF MoveOut, HomeInv, Control, MovesFromHome, MoveFromHome
    <3> QED
      BY <1>2, <3>1 DEF TypeOK
  <2>5. ASSUME NEW k \in Loops, MoveIn(k)
        PROVE  home'[n] = l
    BY <1>2, <2>5 DEF MoveIn
  <2> QED
    BY <1>1, <2>1, <2>2, <2>3, <2>4, <2>5, NodesSameOr, NodeDies
<1>3. CASE TicksSame
  <2> SUFFICES ASSUME NEW l \in Loops, pc'[l] \in {"tick", "update"}
               PROVE  /\ \A n \in batch'[l] : home'[n] = l
                      /\ pc'[l] = "update" => home'[cur'[l].x] = l
    BY DEF TickAtHome
  <2>1. /\ pc[l] \in {"tick", "update"} /\ batch'[l] \subseteq batch[l]
        /\ pc'[l] = "update" => pc[l] = "update" /\ cur'[l] = cur[l]
    BY <1>3 DEF TicksSame
  <2>2. /\ \A n \in batch[l] : n \in Nodes /\ home[n] = l
        /\ pc[l] = "update" => cur[l].x \in Nodes /\ home[cur[l].x] = l
    BY <2>1 DEF HomeInv, TickAtHome, TypeOK, Control, Updates
  <2> QED
    BY <1>2, <2>1, <2>2
<1>4. ASSUME NEW l \in Loops, SnapshotRoots(l)
      PROVE  TickAtHome'
  <2>1. /\ home' = home /\ cur' = cur
        /\ pc' = [pc EXCEPT ![l] = "tick"]
        /\ batch' = [batch EXCEPT ![l] = {n \in Nodes : m_rootNodes[l][n] > 0}]
    BY <1>4 DEF SnapshotRoots, Goto, nodeVars
  <2>2. \A n \in Nodes : m_rootNodes[l][n] > 0 => home[n] = l
    BY DEF HomeInv, RegisteredOnce
  <2> QED
    BY <2>1, <2>2 DEF HomeInv, TickAtHome, TypeOK
<1>5. ASSUME NEW l \in Loops, TickNext(l)
      PROVE  TickAtHome'
  <2>1. PICK n \in batch[l] : /\ cur' = [cur EXCEPT ![l] = Item("update", n, None)]
                              /\ batch' = [batch EXCEPT ![l] = @ \ {n}]
    BY <1>5 DEF TickNext
  <2>2. pc[l] = "tick" /\ pc' = [pc EXCEPT ![l] = "update"] /\ home' = home
    BY <1>5 DEF TickNext, Goto, nodeVars
  <2>3. home[n] = l /\ cur'[l].x = n
    BY <2>1, <2>2 DEF HomeInv, TickAtHome, TypeOK, Item
  <2>4. \A k \in Loops : k # l => pc'[k] = pc[k] /\ cur'[k] = cur[k] /\ batch'[k] = batch[k]
    BY <2>1, <2>2 DEF TypeOK
  <2>5. batch'[l] \subseteq batch[l]
    BY <2>1 DEF TypeOK
  <2> QED
    BY <2>2, <2>3, <2>4, <2>5 DEF HomeInv, TickAtHome
<1> QED
  BY <1>1, <1>3, <1>4, <1>5, TicksSameOr

LEMMA RegisteredOnceStep ==
  ASSUME TypeOK, CallsFromUserCode, HomeInv, ~Overlap, ~TickEffects, Quiet \/ Loud
  PROVE  RegisteredOnce'
<1> USE LoopAssumption
<1> DEFINE Entering(n) == \E u \in Loops : In(u, "moveIn") /\ call[u].w.x = n
<1> SUFFICES ASSUME NEW n \in Nodes, NEW k \in Loops
             PROVE  m_rootNodes'[k][n] = IF home'[n] = k /\ ~Entering(n)' THEN 1 ELSE 0
  BY DEF RegisteredOnce
<1>1. m_rootNodes[k][n] = IF home[n] = k /\ ~Entering(n) THEN 1 ELSE 0
  BY DEF HomeInv, RegisteredOnce
<1>2. CASE MovesSame /\ NodesSame
  <2>1. Entering(n)' <=> Entering(n)
    BY <1>2 DEF MovesSame, In
  <2> HIDE DEF Entering
  <2> QED
    BY <1>1, <1>2, <2>1 DEF NodesSame, nodeVars
<1>3. ASSUME NEW l \in Loops, NEW m \in Nodes, Begins(l, m)
      PROVE  m_rootNodes'[k][n] = IF home'[n] = k /\ ~Entering(n)' THEN 1 ELSE 0
  <2>1. Entering(n)' <=> Entering(n)
    BY <1>3 DEF Begins, In
  <2> HIDE DEF Entering
  <2> QED
    BY <1>1, <1>3, <2>1 DEF Begins, nodeVars
<1>4. ASSUME NEW l \in Loops, NEW m \in Nodes, Dies(l, m), UNCHANGED call
      PROVE  m_rootNodes'[k][n] = IF home'[n] = k /\ ~Entering(n)' THEN 1 ELSE 0
  <2>1. Entering(n)' <=> Entering(n)
    BY <1>4 DEF In
  <2> HIDE DEF Entering
  <2> QED
    BY <1>1, <1>4, <2>1 DEF Dies, TypeOK
<1>5. ASSUME NEW l \in Loops, NEW m \in Nodes, CreateNode(l, m)
      PROVE  m_rootNodes'[k][n] = IF home'[n] = k /\ ~Entering(n)' THEN 1 ELSE 0
  <2>1. /\ home[m] = Unborn /\ home' = [home EXCEPT ![m] = l] /\ UNCHANGED call
        /\ m_rootNodes' = [m_rootNodes EXCEPT ![l][m] = @ + 1]
    BY <1>5 DEF CreateNode
  <2>2. Entering(n)' <=> Entering(n)
    BY <2>1 DEF In
  <2>3. ~Entering(m)
    <3> SUFFICES ASSUME NEW u \in Loops, In(u, "moveIn"), call[u].w.x = m PROVE FALSE
      OBVIOUS
    <3> QED
      BY <2>1, MoveFields DEF HomeInv, MovesFromHome, MoveFromHome
  <2>4. m_rootNodes[l][m] = 0
    BY <2>1 DEF HomeInv, RegisteredOnce
  <2> HIDE DEF Entering
  <2>5. CASE n = m
    BY <1>1, <2>1, <2>2, <2>3, <2>4, <2>5 DEF TypeOK
  <2>6. CASE n # m
    BY <1>1, <2>1, <2>2, <2>6 DEF TypeOK
  <2> QED
    BY <2>5, <2>6
<1>6. ASSUME NEW l \in Loops, MoveOut(l)
      PROVE  m_rootNodes'[k][n] = IF home'[n] = k /\ ~Entering(n)' THEN 1 ELSE 0
  <2>1. PICK m \in Nodes : m = call[l].w.x
    BY <1>6, MoveFields DEF MoveOut
  <2>2. PICK target \in Loops : target = call[l].l
    BY <1>6, MoveFields DEF MoveOut
  <2>3. /\ In(l, "moveOut")
        /\ home' = [home EXCEPT ![m] = target]
        /\ m_rootNodes' = [m_rootNodes EXCEPT ![l][m] = 0]
        /\ call' = [call EXCEPT ![l] = [op |-> "moveIn", l |-> target, w |-> call[l].w]]
    BY <1>6, <2>1, <2>2 DEF MoveOut, Call
  <2>4. call'[l].op = "moveIn" /\ call'[l].w.x = m /\ \A u \in Loops : u # l => call'[u] = call[u]
    BY <2>1, <2>3 DEF TypeOK, Threads
  <2>5. home[m] = l
    BY <2>1, <2>3 DEF HomeInv, MovesFromHome, MoveFromHome
  <2>6. CASE n = m
    <3>1. Entering(m)'
      BY <2>4 DEF In
    <3> HIDE DEF Entering
    <3>2. k # l => m_rootNodes[k][n] = 0
      BY <1>1, <2>5, <2>6
    <3>3. m_rootNodes'[k][n] = 0
      BY <2>3, <2>6, <3>2 DEF TypeOK
    <3> QED
      BY <2>6, <3>1, <3>3
  <2>7. CASE n # m
    <3>1. Entering(n)' <=> Entering(n)
      BY <2>1, <2>3, <2>4, <2>7 DEF In
    <3> HIDE DEF Entering
    <3> QED
      BY <1>1, <2>3, <2>7, <3>1 DEF TypeOK
  <2> QED
    BY <2>6, <2>7
<1>7. ASSUME NEW l \in Loops, MoveIn(l)
      PROVE  m_rootNodes'[k][n] = IF home'[n] = k /\ ~Entering(n)' THEN 1 ELSE 0
  <2>1. PICK m \in Nodes : m = call[l].w.x
    BY <1>7, MoveFields DEF MoveIn
  <2>2. PICK target \in Loops : target = call[l].l
    BY <1>7, MoveFields DEF MoveIn
  <2>3. /\ In(l, "moveIn")
        /\ home' = home
        /\ m_rootNodes' = [m_rootNodes EXCEPT ![target][m] = @ + 1]
        /\ call' = [call EXCEPT ![l] = [op |-> "notify", l |-> target, w |-> NoItem]]
    BY <1>7, <2>1, <2>2 DEF MoveIn, Call
  <2>4. call'[l].op = "notify" /\ \A u \in Loops : u # l => call'[u] = call[u]
    BY <2>3 DEF TypeOK, Threads
  <2>5. home[m] = target /\ Entering(m)
    BY <2>1, <2>2, <2>3 DEF HomeInv, MovesFromHome, MoveFromHome
  <2>6. ~Entering(m)'
    BY <2>1, <2>3, <2>4 DEF HomeInv, MovesFromHome, MoveFromHome, Moving, In
  <2>7. n # m => (Entering(n)' <=> Entering(n))
    BY <2>1, <2>3, <2>4 DEF In
  <2> HIDE DEF Entering
  <2>8. CASE n = m
    BY <1>1, <2>3, <2>5, <2>6, <2>8 DEF TypeOK
  <2>9. CASE n # m
    BY <1>1, <2>3, <2>7, <2>9 DEF TypeOK
  <2> QED
    BY <2>8, <2>9
<1> HIDE DEF Entering
<1> QED
  <2>1. Control
    BY DEF HomeInv
  <2> QED
    BY <1>2, <1>3, <1>4, <1>5, <1>6, <1>7, <2>1, MovesSameOr, NodesSameOr, MoveBegins, NodeDies

LEMMA HomeInit == Init => HomeInv
<1> SUFFICES ASSUME Init PROVE HomeInv
  OBVIOUS
<1> USE LoopAssumption DEF Init
<1>1. \A t \in Threads : call[t] = NoCall
  OBVIOUS
<1>2. ASSUME NEW p \in Places PROVE ItemAt(p) = NoItem
  <2>1. p.in = "push" => ~In(p.of, "push")
    BY <1>1 DEF Places, In, NoCall
  <2>2. p.in = "cur" => cur[p.of] = NoItem
    BY DEF Places
  <2>3. p.in = "queue" => m_tasks[p.of] = <<>>
    BY DEF Places
  <2>4. p.in \in {"queue", "push", "cur"}
    BY DEF Places
  <2> QED
    BY <2>1, <2>2, <2>3, <2>4 DEF ItemAt
<1>3. Control /\ TickAtHome
  BY <1>1 DEF Control, TickAtHome, In, NoCall, NoItem, Item, Threads
<1>4. MovesFromHome /\ RegisteredOnce
  BY <1>1 DEF MovesFromHome, MoveFromHome, RegisteredOnce, In, NoCall, Threads
<1>5. RequestsAtMover /\ MoveIsAlone
  BY <1>2 DEF RequestsAtMover, MoveIsAlone, About, NoItem, Item
<1>6. DoomedStay
  BY DEF DoomedStay, Doomed, Range
<1> QED
  BY <1>3, <1>4, <1>5, <1>6 DEF HomeInv

LEMMA HomeStep ==
  ASSUME TypeOK, CallsFromUserCode, HomeInv, ~Overlap, ~TickEffects, [Next]_vars
  PROVE  HomeInv'
<1>1. Quiet \/ Loud
  BY QuietOrLoud
<1>2. Control /\ MoveIsAlone
  BY DEF HomeInv
<1> QED
  BY <1>1, <1>2, ControlStep, MovesFromHomeStep, RequestsAtMoverStep, MoveIsAloneStep,
     DoomedStayStep, TickAtHomeStep, RegisteredOnceStep
  DEF HomeInv

(* moveToThread(), deleteLater() and delete of any nodes, from any threads *)
(* and between any loops: when the requests about one node do not overlap  *)
(* and an update() changes only its own node, a node is listed by its      *)
(* owner alone, is updated and deleted on that loop only, and no phase of  *)
(* a pass that works on a copy of a list touches a node that has moved on  *)
(* or is gone.                                                             *)
THEOREM NodesAtHomeCorrect ==
  ASSUME ~Overlap, ~TickEffects
  PROVE  Spec => []NodesAtHome
<1>1. Init => TypeOK /\ CallsFromUserCode /\ HomeInv
  BY TypeInit, HomeInit DEF Init, CallsFromUserCode
<1>2. TypeOK /\ CallsFromUserCode /\ HomeInv /\ [Next]_vars
        => TypeOK' /\ CallsFromUserCode' /\ HomeInv'
  BY TypeStep, CallsStep, HomeStep
<1>3. TypeOK /\ HomeInv => NodesAtHome
  <2> SUFFICES ASSUME TypeOK, HomeInv PROVE NodesAtHome
    OBVIOUS
  <2>1. OwnerOnly
    BY DEF HomeInv, TickAtHome, DoomedStay, Doomed, OwnerOnly, TypeOK
  <2> QED
    BY <2>1 DEF HomeInv, NodesAtHome
<1> QED
  BY <1>1, <1>2, <1>3, PTL DEF Spec

-----------------------------------------------------------------------------
LEMMA SetInduction ==
  ASSUME NEW N \in SUBSET Nat, 0 \in N, \A n \in N : n + 1 \in N
  PROVE  N = Nat
<1> DEFINE T == {n \in Nat : n \notin N}
           Less == {ss \in Nat \X Nat : ss[1] < ss[2]}
<1>1. SUFFICES ASSUME T # {} PROVE FALSE
  OBVIOUS
<1>2. IsWellFoundedOn(Less, Nat)
  BY NatLessThanWellFounded DEF OpToRel
<1>3. T \subseteq Nat
  OBVIOUS
<1> HIDE DEF Less
<1>4. PICK x \in T : \A y \in T : ~ (<<y, x>> \in Less)
  BY <1>1, <1>2, <1>3, WFMin
<1>5. x \in Nat /\ x # 0 /\ x - 1 \in Nat
  BY <1>4
<1>6. x - 1 \in N => x \in N
  BY <1>5
<1>7. x - 1 \in T
  BY <1>4, <1>5, <1>6
<1>8. <<x - 1, x>> \in Less
  BY <1>5 DEF Less
<1> QED
  BY <1>4, <1>7, <1>8

(* f is the recursion in TasksIn, which has a solution.                    *)
Extend(s, i) == IF i.kind = "task" THEN Append(s, i.x) ELSE s
Collects(f, q) ==
  /\ TasksIn(q) = f[Len(q)]
  /\ f[0] = <<>>
  /\ \A n \in 1 .. Len(q) : f[n] = Extend(f[n - 1], q[n])

LEMMA TasksInWellDefined ==
  ASSUME NEW S, NEW q \in Seq(S)
  PROVE  \E f : Collects(f, q)
<1> DEFINE Kept(f, k) ==
      f = [n \in 0 .. k |->
             IF n = 0 THEN <<>>
             ELSE IF q[n].kind = "task" THEN Append(f[n - 1], q[n].x) ELSE f[n - 1]]
           N == {k \in Nat : \E f : Kept(f, k)}
<1>1. 0 \in N
  <2>1. Kept([n \in 0 .. 0 |-> <<>>], 0)
    OBVIOUS
  <2> QED
    BY <2>1
<1>2. ASSUME NEW k \in N PROVE k + 1 \in N
  <2>1. PICK f : Kept(f, k)
    BY <1>2
  <2> DEFINE g == [n \in 0 .. k + 1 |->
                     IF n = k + 1
                     THEN IF q[n].kind = "task" THEN Append(f[k], q[n].x) ELSE f[k]
                     ELSE f[n]]
  <2>2. \A n \in 0 .. k : g[n] = f[n]
    OBVIOUS
  <2>3. \A n \in 0 .. k : f[n] = IF n = 0 THEN <<>>
             ELSE IF q[n].kind = "task" THEN Append(f[n - 1], q[n].x) ELSE f[n - 1]
    BY <2>1
  <2>4. ASSUME NEW n \in 0 .. k + 1
        PROVE  g[n] = IF n = 0 THEN <<>>
             ELSE IF q[n].kind = "task" THEN Append(g[n - 1], q[n].x) ELSE g[n - 1]
    <3>1. CASE n = 0
      <4>1. 0 \in 0 .. k
        OBVIOUS
      <4>2. g[0] = f[0] /\ f[0] = <<>>
        BY <2>2, <2>3, <4>1
      <4> QED
        BY <3>1, <4>2
    <3>2. CASE n \in 1 .. k
      <4>1. n \in 0 .. k /\ n - 1 \in 0 .. k /\ n # 0
        BY <3>2
      <4> QED
        BY <4>1, <2>2, <2>3
    <3>3. CASE n = k + 1
      <4>1. k \in 0 .. k /\ n - 1 = k /\ n # 0
        BY <3>3
      <4>2. g[n - 1] = f[k]
        BY <4>1, <2>2
      <4>3. g[n] = IF q[n].kind = "task" THEN Append(f[k], q[n].x) ELSE f[k]
        BY <3>3
      <4> QED
        BY <4>1, <4>2, <4>3
    <3> QED
      BY <3>1, <3>2, <3>3
  <2>5. g = [n \in 0 .. k + 1 |-> IF n = 0 THEN <<>>
             ELSE IF q[n].kind = "task" THEN Append(g[n - 1], q[n].x) ELSE g[n - 1]]
    <3> HIDE DEF g
    <3>1. g = [n \in 0 .. k + 1 |-> g[n]]
      BY DEF g
    <3> QED
      BY <2>4, <3>1
  <2> HIDE DEF g
  <2>6. \E h : Kept(h, k + 1)
    BY <2>5
  <2>7. k + 1 \in Nat
    OBVIOUS
  <2> QED
    BY <2>6, <2>7
<1>3. N = Nat
  <2>1. N \in SUBSET Nat
    OBVIOUS
  <2> HIDE DEF N
  <2> QED
    BY <1>1, <1>2, <2>1, SetInduction
<1>4. Len(q) \in Nat
  OBVIOUS
<1>5. \E f : Kept(f, Len(q))
  <2>1. Len(q) \in N
    BY <1>3, <1>4
  <2> QED
    BY <2>1
<1> DEFINE tasks == CHOOSE f : Kept(f, Len(q))
<1>6. Kept(tasks, Len(q))
  BY <1>5
<1>7. TasksIn(q) = tasks[Len(q)]
  BY DEF TasksIn
<1> HIDE DEF tasks
<1>8. \A n \in 0 .. Len(q) :
        tasks[n] = IF n = 0 THEN <<>>
                   ELSE IF q[n].kind = "task" THEN Append(tasks[n - 1], q[n].x) ELSE tasks[n - 1]
  BY <1>6
<1>9. tasks[0] = <<>>
  BY <1>4, <1>8
<1>10. \A n \in 1 .. Len(q) : tasks[n] = Extend(tasks[n - 1], q[n])
  BY <1>4, <1>8 DEF Extend
<1> QED
  BY <1>7, <1>9, <1>10 DEF Collects

LEMMA TasksInEmpty == TasksIn(<<>>) = <<>>
<1>1. PICK f : Collects(f, <<>>)
  <2>1. <<>> \in Seq({})
    OBVIOUS
  <2> QED
    BY <2>1, TasksInWellDefined
<1> QED
  BY <1>1 DEF Collects

(* What is posted last comes last.                                         *)
LEMMA TasksInAppend ==
  ASSUME NEW S, NEW q \in Seq(S), NEW i \in S
  PROVE  TasksIn(Append(q, i)) = Extend(TasksIn(q), i)
<1> DEFINE r == Append(q, i)
<1>1. /\ r \in Seq(S) /\ Len(r) = Len(q) + 1 /\ Len(q) \in Nat /\ r[Len(q) + 1] = i
      /\ \A n \in 1 .. Len(q) : r[n] = q[n]
  OBVIOUS
<1> HIDE DEF r
<1>2. PICK f : Collects(f, q)
  BY TasksInWellDefined
<1>3. PICK g : Collects(g, r)
  BY <1>1, TasksInWellDefined
<1> DEFINE N == {n \in Nat : n <= Len(q) => g[n] = f[n]}
<1>4. 0 \in N
  BY <1>2, <1>3 DEF Collects
<1>5. ASSUME NEW n \in N PROVE n + 1 \in N
  <2> SUFFICES ASSUME n + 1 <= Len(q) PROVE g[n + 1] = f[n + 1]
    OBVIOUS
  <2>1. n \in Nat /\ n + 1 \in 1 .. Len(q) /\ n + 1 \in 1 .. Len(r) /\ (n + 1) - 1 = n /\ g[n] = f[n]
    BY <1>1
  <2> HIDE DEF N
  <2>2. f[n + 1] = Extend(f[n], q[n + 1]) /\ g[n + 1] = Extend(g[n], r[n + 1])
    BY <1>2, <1>3, <2>1 DEF Collects
  <2> QED
    BY <1>1, <2>1, <2>2
<1>6. N = Nat
  <2>1. N \in SUBSET Nat
    OBVIOUS
  <2> HIDE DEF N
  <2> QED
    BY <1>4, <1>5, <2>1, SetInduction
<1>7. g[Len(q)] = f[Len(q)]
  BY <1>1, <1>6
<1>8. Len(r) \in 1 .. Len(r) /\ Len(r) - 1 = Len(q)
  BY <1>1
<1>9. g[Len(r)] = Extend(g[Len(q)], i)
  BY <1>1, <1>3, <1>8 DEF Collects
<1>10. TasksIn(r) = Extend(TasksIn(q), i)
  BY <1>2, <1>3, <1>7, <1>9 DEF Collects
<1> QED
  BY <1>10 DEF r

(* What is posted first is taken first.                                    *)
LEMMA TasksInTail ==
  ASSUME NEW S, NEW X, NEW q \in Seq(S), q # <<>>,
         \A i \in S : i.kind = "task" => i.x \in X
  PROVE  /\ TasksIn(q) \in Seq(X) /\ TasksIn(Tail(q)) \in Seq(X)
         /\ TasksIn(q) = IF Head(q).kind = "task" THEN <<Head(q).x>> \o TasksIn(Tail(q))
                                                  ELSE TasksIn(Tail(q))
<1> DEFINE r == Tail(q)
           h == IF q[1].kind = "task" THEN <<q[1].x>> ELSE <<>>
<1>1. /\ r \in Seq(S) /\ Len(q) = Len(r) + 1 /\ Len(r) \in Nat
      /\ \A n \in 1 .. Len(r) : r[n] = q[n + 1]
      /\ q[1] \in S /\ Head(q) = q[1]
      /\ \A n \in 1 .. Len(r) : r[n] \in S
  OBVIOUS
<1>2. h \in Seq(X)
  BY <1>1
<1> HIDE DEF r
<1>3. PICK f : Collects(f, q)
  BY TasksInWellDefined
<1>4. PICK g : Collects(g, r)
  BY <1>1, TasksInWellDefined
<1>5. f[1] = h
  <2>1. 1 \in 1 .. Len(q) /\ 1 - 1 = 0
    BY <1>1
  <2>2. f[1] = Extend(f[0], q[1]) /\ f[0] = <<>>
    BY <1>3, <2>1 DEF Collects
  <2> QED
    BY <2>2 DEF Extend
<1> HIDE DEF h
<1> DEFINE N == {n \in Nat : n <= Len(r) => g[n] \in Seq(X) /\ f[n + 1] = h \o g[n]}
<1>6. 0 \in N
  <2>1. g[0] = <<>>
    BY <1>4 DEF Collects
  <2>2. 0 + 1 = 1
    OBVIOUS
  <2>3. <<>> \in Seq(X) /\ h \o <<>> = h
    BY <1>2, ConcatEmptySeq
  <2> QED
    BY <1>5, <2>1, <2>2, <2>3
<1>7. ASSUME NEW n \in N PROVE n + 1 \in N
  <2> SUFFICES ASSUME n + 1 <= Len(r) PROVE g[n + 1] \in Seq(X) /\ f[(n + 1) + 1] = h \o g[n + 1]
    OBVIOUS
  <2>1. /\ n \in Nat /\ n + 1 \in 1 .. Len(r) /\ (n + 1) + 1 \in 1 .. Len(q)
        /\ (n + 1) - 1 = n /\ ((n + 1) + 1) - 1 = n + 1
        /\ g[n] \in Seq(X) /\ f[n + 1] = h \o g[n]
    BY <1>1
  <2> HIDE DEF N
  <2>2. g[n + 1] = Extend(g[n], r[n + 1]) /\ f[(n + 1) + 1] = Extend(f[n + 1], q[(n + 1) + 1])
    BY <1>3, <1>4, <2>1 DEF Collects
  <2>3. PICK i \in S : i = r[n + 1] /\ i = q[(n + 1) + 1]
    BY <1>1, <2>1
  <2>4. CASE i.kind = "task"
    <3>1. i.x \in X /\ g[n + 1] = Append(g[n], i.x) /\ f[(n + 1) + 1] = Append(h \o g[n], i.x)
      BY <2>1, <2>2, <2>3, <2>4 DEF Extend
    <3>2. PICK y \in X : y = i.x
      BY <3>1
    <3>7. \A z \in X : <<z>> \in Seq(X)
      OBVIOUS
    <3>8. <<y>> \in Seq(X)
      BY <3>7
    <3>3. h \o g[n] \in Seq(X)
      BY <1>2, <2>1
    <3>4. Append(h \o g[n], y) = (h \o g[n]) \o <<y>> /\ Append(g[n], y) = g[n] \o <<y>>
      BY <2>1, <3>3, AppendIsConcat
    <3>5. (h \o g[n]) \o <<y>> = h \o (g[n] \o <<y>>)
      <4>1. \A a, b, c \in Seq(X) : (a \o b) \o c = a \o (b \o c)
        BY ConcatAssociative
      <4> QED
        BY <1>2, <2>1, <3>8, <4>1
    <3>6. g[n + 1] \in Seq(X)
      BY <2>1, <3>1
    <3> QED
      BY <3>1, <3>2, <3>4, <3>5, <3>6
  <2>5. CASE i.kind # "task"
    BY <2>1, <2>2, <2>3, <2>5 DEF Extend
  <2> QED
    BY <2>4, <2>5
<1>8. N = Nat
  <2>1. N \in SUBSET Nat
    OBVIOUS
  <2> HIDE DEF N
  <2> QED
    BY <1>6, <1>7, <2>1, SetInduction
<1>9. g[Len(r)] \in Seq(X) /\ f[Len(q)] = h \o g[Len(r)]
  BY <1>1, <1>8
<1>10. TasksIn(r) \in Seq(X) /\ TasksIn(q) = h \o TasksIn(r)
  BY <1>3, <1>4, <1>9 DEF Collects
<1>11. CASE q[1].kind = "task"
  BY <1>1, <1>2, <1>10, <1>11 DEF h, r
<1>12. CASE q[1].kind # "task"
  BY <1>1, <1>2, <1>10, <1>12 DEF h, r
<1> QED
  BY <1>11, <1>12

LEMMA TasksInFirst ==
  ASSUME NEW X, NEW s \in Seq(X), NEW x \in X
  PROVE  /\ <<x>> \o s # <<>>
         /\ Head(<<x>> \o s) = x /\ Tail(<<x>> \o s) = s
<1> DEFINE r == <<x>> \o s
<1>1. r \in Seq(X) /\ Len(r) = Len(s) + 1 /\ r[1] = x /\ Len(s) \in Nat
      /\ \A n \in 1 .. Len(s) : r[n + 1] = s[n]
  OBVIOUS
<1> HIDE DEF r
<1>2. r # <<>> /\ Head(r) = x
  BY <1>1
<1>3. Tail(r) = s
  BY <1>1
<1> QED
  BY <1>2, <1>3 DEF r

(* A loop holds a posted task only while it runs it.                       *)
TaskHeld == \A l \in Loops : cur[l].kind = "task" => pc[l] = "task"

LEMMA TaskHeldStep ==
  ASSUME TypeOK, CallsFromUserCode, TaskHeld, Quiet \/ Loud
  PROVE  TaskHeld'
<1> USE LoopAssumption
    DEF TypeOK, CallsFromUserCode, Threads, NoCall, NoItem, Item, In, Call, Return, Goto,
       TaskItems, MoveItems, Requests, Updates, queueVars, flagVars, passVars, nodeVars,
       taskVars, TaskHeld
<1>1. CASE Quiet
  BY <1>1 DEF Quiet
<1>2. ASSUME NEW t \in Threads, NEW l \in Loops, NEW k \in Tasks, Post(t, l, k) PROVE TaskHeld'
  BY <1>2 DEF Post, UserCode
<1>3. ASSUME NEW t \in Threads, Push(t) PROVE TaskHeld'
  BY <1>3 DEF Push
<1>4. ASSUME NEW l \in Loops, NEW n \in Nodes, CreateNode(l, n) PROVE TaskHeld'
  BY <1>4 DEF CreateNode, UserCode
<1>5. ASSUME NEW l \in Loops, NEW n \in Nodes, DeleteNode(l, n) PROVE TaskHeld'
  BY <1>5 DEF DeleteNode, MayChange, UserCode
<1>6. ASSUME NEW l \in Loops, NEW n \in Nodes, DeleteLater(l, n) PROVE TaskHeld'
  BY <1>6 DEF DeleteLater, UserCode
<1>7. ASSUME NEW t \in Threads, NEW n \in Nodes, PostDeleteToOwner(t, n) PROVE TaskHeld'
  BY <1>7 DEF PostDeleteToOwner, UserCode
<1>8. ASSUME NEW l \in Loops, NEW n \in Nodes, NEW target \in Loops, MoveToThread(l, n, target) PROVE TaskHeld'
  BY <1>8 DEF MoveToThread, MayChange, UserCode
<1>9. ASSUME NEW t \in Threads, NEW n \in Nodes, NEW l \in Loops, PostMoveToOwner(t, n, l) PROVE TaskHeld'
  BY <1>9 DEF PostMoveToOwner, UserCode
<1>10. ASSUME NEW l \in Loops, MoveOut(l) PROVE TaskHeld'
  BY <1>10 DEF MoveOut
<1>11. ASSUME NEW l \in Loops, MoveIn(l) PROVE TaskHeld'
  BY <1>11 DEF MoveIn
<1>12. ASSUME NEW l \in Loops, PopNextTask(l) PROVE TaskHeld'
  BY <1>12 DEF PopNextTask, Pop
<1>13. ASSUME NEW l \in Loops, TaskEnd(l) PROVE TaskHeld'
  BY <1>13 DEF TaskEnd
<1>14. ASSUME NEW l \in Loops, RequestTooLate(l) PROVE TaskHeld'
  BY <1>14 DEF RequestTooLate, RequestOver
<1>15. ASSUME NEW l \in Loops, ForwardRequest(l) PROVE TaskHeld'
  BY <1>15 DEF ForwardRequest, RequestOver
<1>16. ASSUME NEW l \in Loops, RunDelete(l) PROVE TaskHeld'
  BY <1>16 DEF RunDelete, RequestOver
<1>17. ASSUME NEW l \in Loops, RunMove(l) PROVE TaskHeld'
  BY <1>17 DEF RunMove, RequestOver
<1>18. ASSUME NEW l \in Loops, TakePendingDeletes(l) PROVE TaskHeld'
  BY <1>18 DEF TakePendingDeletes
<1>19. ASSUME NEW l \in Loops, DeleteNext(l) PROVE TaskHeld'
  BY <1>19 DEF DeleteNext
<1>20. ASSUME NEW l \in Loops, SnapshotRoots(l) PROVE TaskHeld'
  BY <1>20 DEF SnapshotRoots
<1>21. ASSUME NEW l \in Loops, TickNext(l) PROVE TaskHeld'
  BY <1>21 DEF TickNext
<1>22. ASSUME NEW l \in Loops, UpdateEnd(l) PROVE TaskHeld'
  BY <1>22 DEF UpdateEnd
<1> HIDE DEF TypeOK, CallsFromUserCode, TaskHeld
<1> QED
  BY <1>1, <1>2, <1>3, <1>4, <1>5, <1>6, <1>7, <1>8, <1>9, <1>10, <1>11, <1>12, <1>13, <1>14,
     <1>15, <1>16, <1>17, <1>18, <1>19, <1>20, <1>21, <1>22 DEF Loud

(* No task is queued, taken or ended.                                      *)
TasksSame ==
  /\ m_tasks' = m_tasks /\ done' = done
  /\ \A l \in Loops :
       cur'[l] = cur[l] \/ (cur'[l].kind # "task" /\ cur[l].kind # "task")

LEMMA TasksSameOr ==
  ASSUME TypeOK, CallsFromUserCode, TaskHeld, Quiet \/ Loud
  PROVE  \/ TasksSame
         \/ \E t \in Threads, l \in Loops, k \in Tasks : Post(t, l, k)
         \/ \E t \in Threads : Push(t)
         \/ \E l \in Loops : PopNextTask(l)
         \/ \E l \in Loops : TaskEnd(l)
<1> USE LoopAssumption
    DEF TypeOK, CallsFromUserCode, Threads, NoCall, NoItem, Item, In, Call, Return, Goto,
       TaskItems, MoveItems, Requests, Updates, queueVars, flagVars, passVars, nodeVars,
       taskVars, TaskHeld, TasksSame
<1>1. CASE Quiet
  BY <1>1 DEF Quiet
<1>2. ASSUME NEW l \in Loops, NEW n \in Nodes, CreateNode(l, n) PROVE TasksSame
  BY <1>2 DEF CreateNode, UserCode
<1>3. ASSUME NEW l \in Loops, NEW n \in Nodes, DeleteNode(l, n) PROVE TasksSame
  BY <1>3 DEF DeleteNode, MayChange, UserCode
<1>4. ASSUME NEW l \in Loops, NEW n \in Nodes, DeleteLater(l, n) PROVE TasksSame
  BY <1>4 DEF DeleteLater, UserCode
<1>5. ASSUME NEW t \in Threads, NEW n \in Nodes, PostDeleteToOwner(t, n) PROVE TasksSame
  BY <1>5 DEF PostDeleteToOwner, UserCode
<1>6. ASSUME NEW l \in Loops, NEW n \in Nodes, NEW target \in Loops, MoveToThread(l, n, target) PROVE TasksSame
  BY <1>6 DEF MoveToThread, MayChange, UserCode
<1>7. ASSUME NEW t \in Threads, NEW n \in Nodes, NEW l \in Loops, PostMoveToOwner(t, n, l) PROVE TasksSame
  BY <1>7 DEF PostMoveToOwner, UserCode
<1>8. ASSUME NEW l \in Loops, MoveOut(l) PROVE TasksSame
  BY <1>8 DEF MoveOut
<1>9. ASSUME NEW l \in Loops, MoveIn(l) PROVE TasksSame
  BY <1>9 DEF MoveIn
<1>10. ASSUME NEW l \in Loops, RequestTooLate(l) PROVE TasksSame
  BY <1>10 DEF RequestTooLate, RequestOver
<1>11. ASSUME NEW l \in Loops, ForwardRequest(l) PROVE TasksSame
  BY <1>11 DEF ForwardRequest, RequestOver
<1>12. ASSUME NEW l \in Loops, RunDelete(l) PROVE TasksSame
  BY <1>12 DEF RunDelete, RequestOver
<1>13. ASSUME NEW l \in Loops, RunMove(l) PROVE TasksSame
  BY <1>13 DEF RunMove, RequestOver
<1>14. ASSUME NEW l \in Loops, TakePendingDeletes(l) PROVE TasksSame
  BY <1>14 DEF TakePendingDeletes
<1>15. ASSUME NEW l \in Loops, DeleteNext(l) PROVE TasksSame
  BY <1>15 DEF DeleteNext
<1>16. ASSUME NEW l \in Loops, SnapshotRoots(l) PROVE TasksSame
  BY <1>16 DEF SnapshotRoots
<1>17. ASSUME NEW l \in Loops, TickNext(l) PROVE TasksSame
  BY <1>17 DEF TickNext
<1>18. ASSUME NEW l \in Loops, UpdateEnd(l) PROVE TasksSame
  BY <1>18 DEF UpdateEnd
<1> HIDE DEF TypeOK, CallsFromUserCode, TaskHeld, TasksSame
<1> QED
  BY <1>1, <1>2, <1>3, <1>4, <1>5, <1>6, <1>7, <1>8, <1>9, <1>10, <1>11, <1>12, <1>13, <1>14,
     <1>15, <1>16, <1>17, <1>18 DEF Loud

(* A step that changes neither the tasks in the queues nor those running   *)
(* or done.                                                                *)
LEMMA ExecutorStutter ==
  ASSUME \A l \in Loops : TasksIn(m_tasks'[l]) = TasksIn(m_tasks[l]),
         \A l \in Loops : cur'[l] = cur[l] \/ (cur'[l].kind # "task" /\ cur[l].kind # "task"),
         done' = done
  PROVE  UNCHANGED Executor!vars
<1>1. [l \in Loops |-> TasksIn(m_tasks'[l])] = [l \in Loops |-> TasksIn(m_tasks[l])]
  OBVIOUS
<1>2. [l \in Loops |-> IF cur'[l].kind = "task" THEN cur'[l].x ELSE None]
        = [l \in Loops |-> IF cur[l].kind = "task" THEN cur[l].x ELSE None]
  OBVIOUS
<1> QED
  BY <1>1, <1>2 DEF Executor!vars

LEMMA ExecutorStep ==
  ASSUME TypeOK, CallsFromUserCode, TaskHeld, [Next]_vars
  PROVE  [Executor!Next]_Executor!vars
<1> USE LoopAssumption
<1> DEFINE Items == TaskItems \union Requests
           Q == [l \in Loops |-> TasksIn(m_tasks[l])]
           R == [l \in Loops |-> IF cur[l].kind = "task" THEN cur[l].x ELSE None]
<1>0. /\ m_tasks \in [Loops -> Seq(Items)]
      /\ \A i \in Items : i.kind = "task" => i.x \in Tasks
      /\ \A i \in Requests : i.kind # "task"
  BY DEF TypeOK, TaskItems, Requests, MoveItems
<1> HIDE DEF Items
<1>1. CASE TasksSame
  <2>1. UNCHANGED Executor!vars
    BY <1>1, ExecutorStutter DEF TasksSame
  <2> QED
    BY <2>1
<1>2. ASSUME NEW t \in Threads, NEW l \in Loops, NEW k \in Tasks, Post(t, l, k)
      PROVE  [Executor!Next]_Executor!vars
  <2>1. /\ m_tasks' = [m_tasks EXCEPT ![l] = Append(@, Item("task", k, None))]
        /\ cur' = cur /\ done' = done
    BY <1>2 DEF Post, passVars
  <2>2. PICK i \in Items : i = Item("task", k, None)
    BY DEF Items, TaskItems, Item
  <2>3. TasksIn(Append(m_tasks[l], i)) = Append(TasksIn(m_tasks[l]), k)
    <3>1. TasksIn(Append(m_tasks[l], i)) = Extend(TasksIn(m_tasks[l]), i)
      BY <1>0, TasksInAppend
    <3> QED
      BY <2>2, <3>1 DEF Extend, Item
  <2>4. Q' = [Q EXCEPT ![l] = Append(@, k)]
    BY <1>0, <2>1, <2>2, <2>3
  <2>5. R' = R
    BY <2>1
  <2>6. Executor!Post(l, k)
    BY <2>1, <2>4, <2>5 DEF Executor!Post
  <2> QED
    BY <2>6 DEF Executor!Next
<1>3. ASSUME NEW t \in Threads, Push(t)
      PROVE  [Executor!Next]_Executor!vars
  <2>1. PICK l \in Loops : l = call[t].l
    BY <1>3, PushFields DEF Push
  <2>2. PICK i \in Requests : i = call[t].w
    BY <1>3, PushFields DEF Push
  <2>3. m_tasks' = [m_tasks EXCEPT ![l] = Append(@, i)] /\ cur' = cur /\ done' = done
    BY <1>3, <2>1, <2>2 DEF Push, passVars, taskVars
  <2>4. i \in Items
    BY DEF Items
  <2>5. TasksIn(Append(m_tasks[l], i)) = TasksIn(m_tasks[l])
    <3>1. TasksIn(Append(m_tasks[l], i)) = Extend(TasksIn(m_tasks[l]), i)
      BY <1>0, <2>4, TasksInAppend
    <3> QED
      BY <1>0, <3>1 DEF Extend
  <2>6. \A m \in Loops : TasksIn(m_tasks'[m]) = TasksIn(m_tasks[m])
    BY <1>0, <2>3, <2>5
  <2>7. UNCHANGED Executor!vars
    BY <2>3, <2>6, ExecutorStutter
  <2> QED
    BY <2>7
<1>4. ASSUME NEW l \in Loops, PopNextTask(l)
      PROVE  [Executor!Next]_Executor!vars
  <2>1. /\ m_tasks[l] # <<>> /\ pc[l] = "tasks"
        /\ m_tasks' = [m_tasks EXCEPT ![l] = Tail(@)]
        /\ cur' = [cur EXCEPT ![l] = Head(m_tasks[l])]
        /\ done' = done
    BY <1>4 DEF PopNextTask, Pop, taskVars
  <2>2. PICK i \in Items : i = Head(m_tasks[l])
    BY <1>0, <2>1
  <2>3. cur[l].kind # "task"
    BY <2>1 DEF TaskHeld
  <2>4. cur \in [Loops -> TaskItems \union Requests \union Updates \union {NoItem}]
    BY DEF TypeOK
  <2>5. /\ TasksIn(m_tasks[l]) \in Seq(Tasks) /\ TasksIn(Tail(m_tasks[l])) \in Seq(Tasks)
        /\ TasksIn(m_tasks[l]) = IF Head(m_tasks[l]).kind = "task"
                                 THEN <<Head(m_tasks[l]).x>> \o TasksIn(Tail(m_tasks[l]))
                                 ELSE TasksIn(Tail(m_tasks[l]))
    <3>1. m_tasks[l] \in Seq(Items) /\ m_tasks[l] # <<>>
      BY <1>0, <2>1
    <3>2. \A j \in Items : j.kind = "task" => j.x \in Tasks
      BY <1>0
    <3> HIDE DEF Items, Q, R
    <3> QED
      BY ONLY <3>1, <3>2, TasksInTail
  <2>6. CASE i.kind # "task"
    <3>1. \A m \in Loops : TasksIn(m_tasks'[m]) = TasksIn(m_tasks[m])
      BY <1>0, <2>1, <2>2, <2>5, <2>6
    <3>2. \A m \in Loops : cur'[m] = cur[m] \/ (cur'[m].kind # "task" /\ cur[m].kind # "task")
      BY <2>1, <2>2, <2>3, <2>4, <2>6
    <3>3. UNCHANGED Executor!vars
      BY <2>1, <3>1, <3>2, ExecutorStutter
    <3> QED
      BY <3>3
  <2>7. CASE i.kind = "task"
    <3>1. PICK k \in Tasks : k = i.x
      BY <1>0, <2>7
    <3>2. PICK s \in Seq(Tasks) : s = TasksIn(Tail(m_tasks[l]))
      BY <2>5
    <3>3. TasksIn(m_tasks[l]) = <<k>> \o s
      BY <2>2, <2>5, <2>7, <3>1, <3>2
    <3>4. Q[l] # <<>> /\ Head(Q[l]) = k /\ Tail(Q[l]) = s
      BY <3>3, TasksInFirst
    <3>5. Q' = [Q EXCEPT ![l] = Tail(@)]
      <4>1. \A m \in Loops : Q'[m] = IF m = l THEN s ELSE Q[m]
        BY <1>0, <2>1, <3>2
      <4> QED
        BY <3>4, <4>1
    <3>6. R[l] = None
      BY <2>3
    <3>7. R' = [R EXCEPT ![l] = Head(Q[l])]
      BY <2>1, <2>2, <2>4, <2>7, <3>1, <3>4
    <3>8. Executor!Begin(l)
      <4> HIDE DEF Q, R
      <4>1. /\ R[l] = None /\ Q[l] # <<>>
            /\ R' = [R EXCEPT ![l] = Head(Q[l])] /\ Q' = [Q EXCEPT ![l] = Tail(@)]
            /\ UNCHANGED done
        BY <2>1, <3>4, <3>5, <3>6, <3>7
      <4> QED
        BY <4>1 DEF Executor!Begin, Q, R
    <3> QED
      BY <3>8 DEF Executor!Next
  <2> QED
    BY <2>6, <2>7
<1>5. ASSUME NEW l \in Loops, TaskEnd(l)
      PROVE  [Executor!Next]_Executor!vars
  <2>1. /\ pc[l] = "task" /\ done' = done \union {cur[l].x}
        /\ cur' = [cur EXCEPT ![l] = NoItem]
        /\ m_tasks' = m_tasks
    BY <1>5 DEF TaskEnd, queueVars
  <2>2. cur[l] \in TaskItems /\ cur \in [Loops -> TaskItems \union Requests \union Updates \union {NoItem}]
    BY <2>1 DEF TypeOK
  <2>3. R[l] = cur[l].x /\ R[l] # None
    BY <2>2 DEF TaskItems
  <2>4. R' = [R EXCEPT ![l] = None]
    BY <2>1, <2>2 DEF NoItem, Item
  <2>5. Q' = Q
    BY <2>1
  <2>6. Executor!End(l)
    <3> HIDE DEF Q, R
    <3>1. R[l] # None /\ done' = done \union {R[l]} /\ R' = [R EXCEPT ![l] = None] /\ Q' = Q
      BY <2>1, <2>3, <2>4, <2>5
    <3> QED
      BY <3>1 DEF Executor!End, Q, R
  <2> QED
    BY <2>6 DEF Executor!Next
<1> QED
  BY <1>1, <1>2, <1>3, <1>4, <1>5, QuietOrLoud, TasksSameOr

(* EventLoop.cpp implements Executor.h: whatever requests, deletes and     *)
(* ticks come in between, and whatever threads post, every loop runs the   *)
(* tasks posted to it in the order of post(), one at a time and to the end,*)
(* and loses, repeats or invents none.                                     *)
THEOREM LoopsImplementExecutorCorrect == Spec => LoopsImplementExecutor
<1>1. Init => TypeOK /\ CallsFromUserCode /\ TaskHeld
  BY TypeInit DEF Init, CallsFromUserCode, TaskHeld, NoItem, Item
<1>2. TypeOK /\ CallsFromUserCode /\ TaskHeld /\ [Next]_vars
        => TypeOK' /\ CallsFromUserCode' /\ TaskHeld'
  BY TypeStep, CallsStep, TaskHeldStep, QuietOrLoud
<1>3. Init => Executor!Init
  <2> SUFFICES ASSUME Init PROVE Executor!Init
    OBVIOUS
  <2>1. [l \in Loops |-> TasksIn(m_tasks[l])] = [l \in Loops |-> <<>>]
    BY TasksInEmpty DEF Init
  <2>2. [l \in Loops |-> IF cur[l].kind = "task" THEN cur[l].x ELSE None] = [l \in Loops |-> None]
    BY DEF Init, NoItem, Item
  <2>3. done = {}
    BY DEF Init
  <2> QED
    BY <2>1, <2>2, <2>3 DEF Executor!Init
<1>4. TypeOK /\ CallsFromUserCode /\ TaskHeld /\ [Next]_vars => [Executor!Next]_Executor!vars
  BY ExecutorStep
<1> QED
  BY <1>1, <1>2, <1>3, <1>4, PTL DEF Spec, LoopsImplementExecutor, Executor!Spec
============================================================================
