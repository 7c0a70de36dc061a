----------------------------- MODULE EventLoop ------------------------------
(***************************************************************************)
(* The EventLoops of a program and the nodes that live on and move between *)
(* them (src/lib/Core/src/SNFCore/EventLoop.cpp and, for deleteLater() and *)
(* moveToThread(), Node.cpp).                                              *)
(*                                                                         *)
(* A loop is identified with its owner thread.  Each pass of run() drains  *)
(* the task queue, deletes the nodes whose deleteLater() is due, ticks the *)
(* root nodes and then blocks until there is work.  Every critical section *)
(* of the code is one action, and what follows the unlock (the             *)
(* notify_one(), the second half of a move) is an action of its own.  What *)
(* only the owner thread does to m_nodesToDelete joins its neighbour step. *)
(* The order of a list of nodes is abstracted away.                        *)
(* Due timers and ready descriptors, the two phases between deletes and    *)
(* tick, are left to TimerWake: here they only end a wait.                 *)
(***************************************************************************)
EXTENDS Naturals, Sequences, Functions, TLC

CONSTANTS
  Loops,       \* the event loops, and their owner threads
  Clients,     \* threads without a loop
  Tasks,       \* callables for post()
  Nodes,       \* root nodes
  Callers,     \* the threads that may post() and make requests of loops
  Stoppers,    \* the threads that may call stop()
  Retirers,    \* the threads that may retire() loops (ThreadPool::shutdown)
  Overlap,     \* may any two requests about one node overlap?
  TickEffects, \* may update() delete or move other roots at once?
  MaxQueue,    \* bound: requests are posted only to a shorter queue
  None, Dead, Unborn

Threads == Loops \union Clients

ASSUME LoopAssumption ==
  /\ Loops \cap Clients = {} /\ Tasks \cap Nodes = {}
  /\ Callers \subseteq Threads
  /\ Stoppers \subseteq Threads /\ Retirers \subseteq Threads
  /\ Overlap \in BOOLEAN /\ TickEffects \in BOOLEAN
  /\ MaxQueue \in Nat
  /\ None \notin Loops \union Tasks \union Nodes
  /\ Dead \notin Loops /\ Unborn \notin Loops /\ Dead # Unborn

VARIABLES
  m_tasks,         \* per loop, the queue of posted callables
  m_nodesToDelete, \* per loop, the nodes to delete in the next pass
  m_rootNodes,     \* per loop, how often its list of roots holds each node
  m_stop, m_retired,
  pc,              \* where the owner thread is in run()
  passOnly,        \* ... or in runPendingWork(), which never blocks
  cur,             \* the callable, or the update(), the owner thread executes
  batch,           \* the nodes this phase of the pass has yet to come to
  home,            \* the owner of each node (NodeLifetimeBlock::owner)
  call,            \* the framework function each thread is inside of
  posted, done     \* the tasks given to post(), the tasks that have run

queueVars == <<m_tasks, m_nodesToDelete>>
flagVars == <<m_stop, m_retired>>
passVars == <<pc, passOnly, cur, batch>>
nodeVars == <<m_rootNodes, home>>
taskVars == <<posted, done>>
vars == <<queueVars, flagVars, passVars, nodeVars, call, taskVars>>

(* What a queue holds: a posted task, or the closure with which            *)
(* deleteLater() and moveToThread() reach the owner of the node.           *)
Item(k, x, l) == [kind |-> k, x |-> x, to |-> l]
TaskItems == [kind : {"task"}, x : Tasks, to : {None}]
MoveItems == [kind : {"move"}, x : Nodes, to : Loops]
Requests == MoveItems \union [kind : {"delete"}, x : Nodes, to : {None}]
Updates == [kind : {"update"}, x : Nodes, to : {None}]
NoItem == Item("none", None, None)

(* "push" and "notify" are the two steps of post(), "stop" the second half *)
(* of a retirement, "moveOut" and "moveIn" the two halves of applyMoveTo().*)
NoCall == [op |-> "none", l |-> None, w |-> NoItem]
CallType ==
  {NoCall} \union [op : {"push"}, l : Loops, w : Requests]
    \union [op : {"notify", "stop"}, l : Loops, w : {NoItem}]
    \union [op : {"moveOut", "moveIn"}, l : Loops, w : MoveItems]
Call(t, o, l, w) == call' = [call EXCEPT ![t] = [op |-> o, l |-> l, w |-> w]]
Return(t) == call' = [call EXCEPT ![t] = NoCall]
In(t, o) == call[t].op = o

Pcs == {"idle", "tasks", "task", "request", "deletes", "tick", "update",
        "blocked", "woken"}
Goto(l, p) == pc' = [pc EXCEPT ![l] = p]

TypeOK ==
  /\ m_tasks \in [Loops -> Seq(TaskItems \union Requests)]
  /\ m_nodesToDelete \in [Loops -> Seq(Nodes)]
  /\ m_rootNodes \in [Loops -> [Nodes -> Nat]]
  /\ m_stop \in [Loops -> BOOLEAN] /\ m_retired \in [Loops -> BOOLEAN]
  /\ pc \in [Loops -> Pcs]
  /\ passOnly \in [Loops -> BOOLEAN]
  /\ cur \in [Loops -> TaskItems \union Requests \union Updates \union {NoItem}]
  /\ \A l \in Loops : /\ pc[l] = "task" => cur[l] \in TaskItems
                      /\ pc[l] = "request" => cur[l] \in Requests
  /\ batch \in [Loops -> SUBSET Nodes]
  /\ home \in [Nodes -> Loops \union {Dead, Unborn}]
  /\ call \in [Threads -> CallType]
  /\ posted \subseteq Tasks /\ done \subseteq Tasks

Init ==
  /\ m_tasks = [l \in Loops |-> <<>>]
  /\ m_nodesToDelete = [l \in Loops |-> <<>>]
  /\ m_rootNodes = [l \in Loops |-> [n \in Nodes |-> 0]]
  /\ m_stop = [l \in Loops |-> FALSE]
  /\ m_retired = [l \in Loops |-> FALSE]
  /\ pc = [l \in Loops |-> "idle"]
  /\ passOnly = [l \in Loops |-> FALSE]
  /\ cur = [l \in Loops |-> NoItem]
  /\ batch = [l \in Loops |-> {}]
  /\ home = [n \in Nodes |-> Unborn]
  /\ call = [t \in Threads |-> NoCall]
  /\ posted = {} /\ done = {}

Alive(n) == home[n] \in Loops

(* Threads running user code: outside the loop, in a posted task, or in a  *)
(* node's update().                                                        *)
UserCode(t) ==
  /\ In(t, "none")
  /\ t \in Loops => pc[t] \in {"idle", "task", "update"}

(* ... and free to destroy or to move node n on the spot.                  *)
MayChange(l, n) ==
  UserCode(l) /\ (pc[l] = "update" => TickEffects /\ cur[l].x # n)

(* No request of kind k about node n is on its way or being executed.  A   *)
(* move that has not published the new owner yet is none.                  *)
NoRequest(n, k) ==
  /\ \A l \in Loops :
       /\ \A i \in DOMAIN m_tasks[l] : m_tasks[l][i] # Item(k, n, m_tasks[l][i].to)
       /\ cur[l] # Item(k, n, cur[l].to)
       /\ k = "delete" => /\ n \notin Range(m_nodesToDelete[l])
                          /\ pc[l] = "deletes" => n \notin batch[l]
  /\ \A t \in Threads : ~In(t, "moveOut") => call[t].w # Item(k, n, call[t].w.to)

(* The callers' discipline, without which the code breaks (Overlap): two   *)
(* requests about one node overlap only if both are to delete it, or if    *)
(* the first is a move still in its first half.                            *)
MayDelete(n) == Overlap \/ NoRequest(n, "move")
MayMove(n) == Overlap \/ (NoRequest(n, "move") /\ NoRequest(n, "delete"))
Room(l) == Len(m_tasks[l]) < MaxQueue

-----------------------------------------------------------------------------
(* post(): push under the lock, notify after it.                           *)
Post(t, l, k) ==
  /\ UserCode(t) /\ t \in Callers
  /\ k \notin posted
  /\ posted' = posted \union {k}
  /\ m_tasks' = [m_tasks EXCEPT ![l] = Append(@, Item("task", k, None))]
  /\ Call(t, "notify", l, NoItem)
  /\ UNCHANGED <<m_nodesToDelete, flagVars, passVars, nodeVars, done>>

(* ... and of a request whose owner the caller has looked up before.       *)
Push(t) ==
  LET l == call[t].l IN
  /\ In(t, "push")
  /\ m_tasks' = [m_tasks EXCEPT ![l] = Append(@, call[t].w)]
  /\ Call(t, "notify", l, NoItem)
  /\ UNCHANGED <<m_nodesToDelete, flagVars, passVars, nodeVars, taskVars>>

NotifyOne_Missing(t) ==
  /\ In(t, "notify")
  /\ Return(t)
  /\ UNCHANGED <<queueVars, flagVars, passVars, nodeVars, taskVars>>

(* m_condition.notify_one(): only the owner thread ever waits on it.       *)
NotifyOne(t) ==
  LET l == call[t].l IN
  /\ In(t, "notify")
  /\ pc' = [pc EXCEPT ![l] = IF @ = "blocked" THEN "woken" ELSE @]
  /\ Return(t)
  /\ UNCHANGED <<queueVars, flagVars, passOnly, cur, batch, nodeVars, taskVars>>

(* stop(): sets the flag and wakes the loop under the lock.                *)
SetStop(l) ==
  /\ m_stop' = [m_stop EXCEPT ![l] = TRUE]
  /\ pc' = [pc EXCEPT ![l] = IF @ = "blocked" THEN "woken" ELSE @]

Stop(t, l) ==
  /\ UserCode(t) /\ t \in Stoppers
  /\ SetStop(l)
  /\ UNCHANGED <<queueVars, m_retired, passOnly, cur, batch, nodeVars, call, taskVars>>

(* ThreadPool::shutdown() retires a worker's loop, then stops it.          *)
Retire(t, l) ==
  /\ UserCode(t) /\ t \in Retirers
  /\ m_retired' = [m_retired EXCEPT ![l] = TRUE]
  /\ Call(t, "stop", l, NoItem)
  /\ UNCHANGED <<queueVars, m_stop, passVars, nodeVars, taskVars>>

RetireStop(t) ==
  /\ In(t, "stop")
  /\ SetStop(call[t].l)
  /\ Return(t)
  /\ UNCHANGED <<queueVars, m_retired, passOnly, cur, batch, nodeVars, taskVars>>

-----------------------------------------------------------------------------
(* Nodes.  A root node belongs to the loop of the thread that creates it.  *)
CreateNode(l, n) ==
  /\ UserCode(l) /\ home[n] = Unborn
  /\ home' = [home EXCEPT ![n] = l]
  /\ m_rootNodes' = [m_rootNodes EXCEPT ![l][n] = @ + 1]
  /\ UNCHANGED <<queueVars, flagVars, passVars, call, taskVars>>

(* ~Node(): off the root list of the owner.                                *)
Destroy(n) ==
  /\ home' = [home EXCEPT ![n] = Dead]
  /\ m_rootNodes' = [m_rootNodes EXCEPT ![home[n]][n] = 0]

(* delete on the owner thread.                                             *)
DeleteNode(l, n) ==
  /\ MayChange(l, n) /\ home[n] = l
  /\ MayDelete(n)
  /\ Destroy(n)
  /\ UNCHANGED <<queueVars, flagVars, passVars, call, taskVars>>

(* enqueueDelete(): a node is listed at most once.                         *)
EnqueueDelete(l, n) ==
  m_nodesToDelete' = [m_nodesToDelete EXCEPT ![l] =
                        IF n \in Range(@) THEN @ ELSE Append(@, n)]

(* deleteLater() on the owner thread and from elsewhere.                   *)
DeleteLater(l, n) ==
  /\ UserCode(l) /\ home[n] = l
  /\ MayDelete(n)
  /\ EnqueueDelete(l, n)
  /\ UNCHANGED <<m_tasks, flagVars, passVars, nodeVars, call, taskVars>>

PostDeleteToOwner(t, n) ==
  /\ UserCode(t) /\ t \in Callers
  /\ Alive(n) /\ home[n] # t
  /\ MayDelete(n) /\ Room(home[n])
  /\ Call(t, "push", home[n], Item("delete", n, None))
  /\ UNCHANGED <<queueVars, flagVars, passVars, nodeVars, taskVars>>

(* moveToThread() to another loop: at once on the owner thread, otherwise  *)
(* as a request to the owner.  A retired target is refused.                *)
MoveToThread(l, n, target) ==
  /\ MayChange(l, n) /\ home[n] = l /\ target # l
  /\ MayMove(n)
  /\ ~m_retired[target]
  /\ Call(l, "moveOut", target, Item("move", n, target))
  /\ UNCHANGED <<queueVars, flagVars, passVars, nodeVars, taskVars>>

PostMoveToOwner(t, n, target) ==
  /\ UserCode(t) /\ t \in Callers
  /\ Alive(n) /\ home[n] # t
  /\ MayMove(n) /\ Room(home[n])
  /\ ~m_retired[target]
  /\ Call(t, "push", home[n], Item("move", n, target))
  /\ UNCHANGED <<queueVars, flagVars, passVars, nodeVars, taskVars>>

(* applyMoveTo(): off the old loop's root list, the new owner published,   *)
(* and only then onto the new loop's root list.                            *)
MoveOut_KeepsRoot(l) ==
  LET n == call[l].w.x
      target == call[l].l IN
  /\ In(l, "moveOut")
  /\ home' = [home EXCEPT ![n] = target]
  /\ Call(l, "moveIn", target, call[l].w)
  /\ UNCHANGED <<m_rootNodes, queueVars, flagVars, passVars, taskVars>>
MoveOut(l) ==
  LET n == call[l].w.x
      target == call[l].l IN
  /\ In(l, "moveOut")
  /\ m_rootNodes' = [m_rootNodes EXCEPT ![l][n] = 0]
  /\ home' = [home EXCEPT ![n] = target]
  /\ Call(l, "moveIn", target, call[l].w)
  /\ UNCHANGED <<queueVars, flagVars, passVars, taskVars>>

(* The node is not announced to its new loop. *)
MoveIn_Forgotten(l) ==
  /\ In(l, "moveIn")
  /\ Return(l)
  /\ UNCHANGED <<queueVars, flagVars, passVars, nodeVars, taskVars>>

MoveIn(l) ==
  LET n == call[l].w.x
      target == call[l].l IN
  /\ In(l, "moveIn")
  /\ m_rootNodes' = [m_rootNodes EXCEPT ![target][n] = @ + 1]
  /\ Call(l, "notify", target, NoItem)
  /\ UNCHANGED <<queueVars, flagVars, passVars, home, taskVars>>

-----------------------------------------------------------------------------
(* run(): the request to stop is consumed at the end, so that a stop()     *)
(* that comes before run() is not lost.                                    *)
Run_ResetStop(l) ==
  /\ pc[l] = "idle" /\ In(l, "none")
  /\ m_stop' = [m_stop EXCEPT ![l] = FALSE]
  /\ Goto(l, "tasks")
  /\ UNCHANGED <<queueVars, m_retired, passOnly, cur, batch, nodeVars, call, taskVars>>

Run(l) ==
  /\ pc[l] = "idle" /\ In(l, "none")
  /\ Goto(l, "tasks")
  /\ UNCHANGED <<queueVars, flagVars, passOnly, cur, batch, nodeVars, call, taskVars>>

(* runPendingWork(), from code that is not inside run(): a single pass. (A *)
(* task that calls it would drain the queue it is part of; this nesting is *)
(* left out.)                                                              *)
RunPendingWork(l) ==
  /\ pc[l] = "idle" /\ In(l, "none")
  /\ Goto(l, "tasks")
  /\ passOnly' = [passOnly EXCEPT ![l] = TRUE]
  /\ UNCHANGED <<queueVars, flagVars, cur, batch, nodeVars, call, taskVars>>

(* popNextTask().                                                          *)
Pop_Last(q) == [item |-> q[Len(q)], rest |-> SubSeq(q, 1, Len(q) - 1)]
Pop(q) == [item |-> Head(q), rest |-> Tail(q)]

PopNextTask(l) ==
  /\ pc[l] = "tasks" /\ In(l, "none")
  /\ m_tasks[l] # <<>>
  /\ cur' = [cur EXCEPT ![l] = Pop(m_tasks[l]).item]
  /\ m_tasks' = [m_tasks EXCEPT ![l] = Pop(m_tasks[l]).rest]
  /\ Goto(l, IF cur'[l].kind = "task" THEN "task" ELSE "request")
  /\ UNCHANGED <<m_nodesToDelete, flagVars, passOnly, batch, nodeVars, call, taskVars>>

TaskEnd(l) ==
  /\ pc[l] = "task" /\ In(l, "none")
  /\ done' = done \union {cur[l].x}
  /\ cur' = [cur EXCEPT ![l] = NoItem]
  /\ Goto(l, "tasks")
  /\ UNCHANGED <<queueVars, flagVars, passOnly, batch, nodeVars, call, posted>>

(* The closures of postDeleteToOwner() and postMoveToOwner(): nothing for  *)
(* a node that is gone, forwarded for one that has moved on, else done.    *)
RequestOver(l) == Goto(l, "tasks") /\ cur' = [cur EXCEPT ![l] = NoItem]

RequestTooLate(l) ==
  /\ pc[l] = "request"
  /\ ~Alive(cur[l].x)
  /\ RequestOver(l)
  /\ UNCHANGED <<queueVars, flagVars, passOnly, batch, nodeVars, call, taskVars>>

ForwardRequest_Unchecked(l) ==
  /\ pc[l] = "request"
  /\ home[cur[l].x] # l
  /\ Call(l, "push", home[cur[l].x], cur[l])
  /\ RequestOver(l)
  /\ UNCHANGED <<queueVars, flagVars, passOnly, batch, nodeVars, taskVars>>
ForwardRequest(l) ==
  /\ pc[l] = "request"
  /\ Alive(cur[l].x) /\ home[cur[l].x] # l
  /\ Call(l, "push", home[cur[l].x], cur[l])
  /\ RequestOver(l)
  /\ UNCHANGED <<queueVars, flagVars, passOnly, batch, nodeVars, taskVars>>

RunDelete(l) ==
  /\ pc[l] = "request" /\ cur[l].kind = "delete"
  /\ home[cur[l].x] = l
  /\ EnqueueDelete(l, cur[l].x)
  /\ RequestOver(l)
  /\ UNCHANGED <<m_tasks, flagVars, passOnly, batch, nodeVars, call, taskVars>>

RunMove(l) ==
  LET target == cur[l].to IN
  /\ pc[l] = "request" /\ cur[l].kind = "move"
  /\ home[cur[l].x] = l
  /\ IF target = l \/ m_retired[target]
     THEN UNCHANGED call
     ELSE Call(l, "moveOut", target, cur[l])
  /\ RequestOver(l)
  /\ UNCHANGED <<queueVars, flagVars, passOnly, batch, nodeVars, taskVars>>

(* The queue is seen empty, and takePendingDeletes().                      *)
TakePendingDeletes(l) ==
  /\ pc[l] = "tasks" /\ In(l, "none")
  /\ m_tasks[l] = <<>>
  /\ batch' = [batch EXCEPT ![l] = Range(m_nodesToDelete[l])]
  /\ m_nodesToDelete' = [m_nodesToDelete EXCEPT ![l] = <<>>]
  /\ Goto(l, "deletes")
  /\ UNCHANGED <<m_tasks, flagVars, passOnly, cur, nodeVars, call, taskVars>>

DeleteNext(l) ==
  /\ pc[l] = "deletes"
  /\ \E n \in batch[l] :
       /\ batch' = [batch EXCEPT ![l] = @ \ {n}]
       /\ IF Alive(n) THEN Destroy(n) ELSE UNCHANGED nodeVars
  /\ UNCHANGED <<queueVars, flagVars, pc, passOnly, cur, call, taskVars>>

(* The tick: run() of every root of a snapshot of the list.                *)
SnapshotRoots(l) ==
  /\ pc[l] = "deletes"
  /\ batch[l] = {}
  /\ batch' = [batch EXCEPT ![l] = {n \in Nodes : m_rootNodes[l][n] > 0}]
  /\ Goto(l, "tick")
  /\ UNCHANGED <<queueVars, flagVars, passOnly, cur, nodeVars, call, taskVars>>

TickNext(l) ==
  /\ pc[l] = "tick"
  /\ \E n \in batch[l] :
       /\ cur' = [cur EXCEPT ![l] = Item("update", n, None)]
       /\ batch' = [batch EXCEPT ![l] = @ \ {n}]
  /\ Goto(l, "update")
  /\ UNCHANGED <<queueVars, flagVars, passOnly, nodeVars, call, taskVars>>

UpdateEnd(l) ==
  /\ pc[l] = "update" /\ In(l, "none")
  /\ cur' = [cur EXCEPT ![l] = NoItem]
  /\ Goto(l, "tick")
  /\ UNCHANGED <<queueVars, flagVars, passOnly, batch, nodeVars, call, taskVars>>

PassOver(l) ==
  /\ pc[l] = "tick" /\ passOnly[l]
  /\ batch[l] = {}
  /\ Goto(l, "idle")
  /\ passOnly' = [passOnly EXCEPT ![l] = FALSE]
  /\ UNCHANGED <<queueVars, flagVars, cur, batch, nodeVars, call, taskVars>>

-----------------------------------------------------------------------------
(* The wait at the end of a pass, and what a woken loop re-evaluates.      *)
HasWork_TasksOnly(l) == m_tasks[l] # <<>>
HasWork(l) == m_tasks[l] # <<>> \/ m_nodesToDelete[l] # <<>>

AtWait(l) ==
  \/ pc[l] = "woken"
  \/ pc[l] = "tick" /\ batch[l] = {} /\ ~passOnly[l]

WaitExit(l) ==
  /\ AtWait(l)
  /\ m_stop[l]
  /\ m_stop' = [m_stop EXCEPT ![l] = FALSE]
  /\ Goto(l, "idle")
  /\ UNCHANGED <<queueVars, m_retired, passOnly, cur, batch, nodeVars, call, taskVars>>

WaitPass(l) ==
  /\ AtWait(l)
  /\ ~m_stop[l] /\ HasWork(l)
  /\ Goto(l, "tasks")
  /\ UNCHANGED <<queueVars, flagVars, passOnly, cur, batch, nodeVars, call, taskVars>>

WaitBlock(l) ==
  /\ AtWait(l)
  /\ ~m_stop[l] /\ ~HasWork(l)
  /\ Goto(l, "blocked")
  /\ UNCHANGED <<queueVars, flagVars, passOnly, cur, batch, nodeVars, call, taskVars>>

(* A deadline passes, a descriptor is ready, or a new timer ends the wait. *)
TimerWake(l) ==
  /\ pc[l] = "blocked" /\ ~m_stop[l]
  /\ Goto(l, "tasks")
  /\ UNCHANGED <<queueVars, flagVars, passOnly, cur, batch, nodeVars, call, taskVars>>

-----------------------------------------------------------------------------
UserStep(t) ==
  \/ \E l \in Loops, k \in Tasks : Post(t, l, k)
  \/ \E l \in Loops : Stop(t, l) \/ Retire(t, l)
  \/ \E n \in Nodes : PostDeleteToOwner(t, n)
  \/ \E n \in Nodes, l \in Loops : PostMoveToOwner(t, n, l)

OwnerStep(l) ==
  \/ \E n \in Nodes : CreateNode(l, n) \/ DeleteNode(l, n) \/ DeleteLater(l, n)
  \/ \E n \in Nodes, target \in Loops : MoveToThread(l, n, target)

(* A framework function that has begun.                                    *)
Continue(t) == Push(t) \/ NotifyOne(t) \/ RetireStop(t)
ContinueMove(l) == MoveOut(l) \/ MoveIn(l)

PassStep(l) ==
  \/ PopNextTask(l) \/ TaskEnd(l)
  \/ RequestTooLate(l) \/ ForwardRequest(l) \/ RunDelete(l) \/ RunMove(l)
  \/ TakePendingDeletes(l) \/ DeleteNext(l)
  \/ SnapshotRoots(l) \/ TickNext(l) \/ UpdateEnd(l) \/ PassOver(l)
  \/ WaitExit(l) \/ WaitPass(l) \/ WaitBlock(l)

Next ==
  \/ \E t \in Threads : UserStep(t) \/ Continue(t)
  \/ \E l \in Loops :
       \/ OwnerStep(l) \/ ContinueMove(l)
       \/ Run(l) \/ RunPendingWork(l) \/ PassStep(l) \/ TimerWake(l)

Spec == Init /\ [][Next]_vars

(* A thread inside a framework function or a pass of its loop goes on, and *)
(* a task or an update() returns however many calls it makes first.        *)
(* Nobody has to call anything, run() included, and no timer has to wake.  *)
Fairness ==
  /\ \A t \in Threads : WF_vars(Continue(t))
  /\ \A l \in Loops : /\ WF_vars(ContinueMove(l)) /\ WF_vars(PassStep(l))
                      /\ SF_vars(TaskEnd(l)) /\ SF_vars(UpdateEnd(l))

LiveSpec == Spec /\ Fairness

-----------------------------------------------------------------------------
(* The notify_one() of post() comes after the unlock: still, a loop sleeps *)
(* on queued work, or on a request to stop, only while the thread that     *)
(* queued the work is about to wake it.                                    *)
NoLostWakeup ==
  \A l \in Loops : pc[l] = "blocked" =>
    /\ ~m_stop[l]
    /\ HasWork(l) => \E t \in Threads : In(t, "notify") /\ call[t].l = l

(* The posted tasks in a queue, without the requests between them.         *)
TasksIn(q) ==
  LET tasks[n \in 0 .. Len(q)] ==
        IF n = 0 THEN <<>>
        ELSE IF q[n].kind = "task" THEN Append(tasks[n - 1], q[n].x) ELSE tasks[n - 1]
  IN tasks[Len(q)]

(* Executor.h: a loop runs the tasks posted to it one at a time and in the *)
(* order of post(), whatever other closures and phases come in between.    *)
Executor == INSTANCE SerialExecutor WITH
  Executors <- Loops,
  Work <- Tasks,
  Idle <- None,
  queue <- [l \in Loops |-> TasksIn(m_tasks[l])],
  running <- [l \in Loops |-> IF cur[l].kind = "task" THEN cur[l].x ELSE None],
  finished <- done
LoopsImplementExecutor == Executor!Spec

(* A node is updated and deleted by the loop that owns it, and no node is  *)
(* touched once it is gone, although a pass works on copies of the lists.  *)
OwnerOnly ==
  \A l \in Loops :
    /\ pc[l] = "update" => home[cur[l].x] = l
    /\ pc[l] = "deletes" => \A n \in batch[l] : home[n] \in {l, Dead}

(* A live node is on the root list of its owner, once, and on no other,    *)
(* except while applyMoveTo() is taking it from one list to the other.     *)
RegisteredOnce ==
  \A n \in Nodes, l \in Loops :
    m_rootNodes[l][n] =
      IF home[n] = l /\ ~\E u \in Loops : In(u, "moveIn") /\ call[u].w.x = n
      THEN 1 ELSE 0

(* Executor.h, thread-affinity.md: a node belongs to one loop, which alone *)
(* lists it, updates it and deletes it.                                    *)
NodesAtHome == OwnerOnly /\ RegisteredOnce

Running(l) == pc[l] # "idle" /\ ~passOnly[l]
(* No closure is left to run, from some moment on. *)
WorkCeases(l) == <>[](m_tasks[l] = <<>>)

(* post() to a running loop: the task runs unless the loop is stopped.     *)
PostedTasksRun ==
  \A l \in Loops, k \in Tasks :
    Running(l) /\ (\E i \in DOMAIN m_tasks[l] : m_tasks[l][i].x = k)
      ~> k \in done \/ ~Running(l)

(* deleteLater() of a node of a running loop, asked for on any thread.     *)
RequestedDeletesHappen ==
  \A l \in Loops, n \in Nodes :
    WorkCeases(l) =>
      (Running(l) /\ ~NoRequest(n, "delete") /\ home[n] = l
         ~> home[n] = Dead \/ ~Running(l))

(* "a stop() issued from another thread before this thread reaches run()   *)
(* must not be lost": a request to stop ends a run(), the present one or   *)
(* the next, if there is one, as soon as the loop runs out of work.        *)
StopEndsRun ==
  \A l \in Loops :
    WorkCeases(l) =>
      (m_stop[l] ~> [](~Running(l)) \/ (~Running(l) /\ ~m_stop[l]))

(* Tasks, deletes and stops that are asked for happen.                     *)
LoopGetsDone == PostedTasksRun /\ RequestedDeletesHappen /\ StopEndsRun

-----------------------------------------------------------------------------
(* For TLC: loops are interchangeable when all or none of them may stop    *)
(* and retire.                                                             *)
LoopSymmetry ==
  Permutations(Loops) \union Permutations(Tasks) \union Permutations(Nodes)
=============================================================================
