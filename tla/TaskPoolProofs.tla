--------------------------- MODULE TaskPoolProofs ---------------------------
(***************************************************************************)
(* Proofs about TaskPool for any number of workers, clients, strands,      *)
(* nodes and messages.                                                     *)
(***************************************************************************)
EXTENDS TaskPool, FiniteSetTheorems, TLAPS

(* What the program counters say about the registers of a thread: the      *)
(* functions it is inside of have their arguments, and a worker is inside  *)
(* a function only while it runs user code or reschedules its strand.      *)
CallsOK ==
  \A t \in Threads :
    /\ call[t].op \in {"post", "sched", "unsched", "move", "release", "clear"} => call[t].s \in Strands
    /\ call[t].op = "post" => call[t].x \in Msgs
    /\ call[t].op \in {"acquire", "move"} => call[t].x \in Nodes
    /\ call[t].op \in {"unsched", "destroy", "clear"} => m_joined

WorkersOK ==
  \A w \in Workers :
    /\ wpc[w] \in DrainPcs \union {"recycle"} => cur[w] \in Strands
    /\ wpc[w] = "stask" => msg[w] \in Msgs
    /\ wpc[w] = "task" => msg[w] \in Jobs
    /\ wpc[w] \notin {"task", "stask", "taskEnd"} => In(w, "none")
    /\ wpc[w] = "drain" => ran[w] \in 0 .. BatchSize
    /\ wpc[w] = "stask" => ran[w] < BatchSize

(* Teardown starts only after the last worker left.                        *)
TeardownOK ==
  /\ m_joined => \A w \in Workers : wpc[w] = "exited"
  /\ m_retired # {} => m_joined

Inv == TypeOK /\ CallsOK /\ WorkersOK /\ TeardownOK
LEMMA InvStep == Inv /\ m_activeTasks' \in Nat /\ [Next]_vars => Inv'
<1> SUFFICES ASSUME Inv /\ m_activeTasks' \in Nat, [Next]_vars PROVE Inv'
  OBVIOUS
<1>1. ASSUME NEW t \in Threads, NEW j \in Jobs, Start(t, j) PROVE Inv'
  BY <1>1, PoolAssumption DEF Start, Call, UserCode, Inv, TypeOK, WorkerPcs, CallsOK, WorkersOK, TeardownOK,
         Threads, In, NoCall, DrainPcs, Ops, CallType, poolVars, workerVars, recycleVars, strandVars, nodeVars
<1>2. ASSUME NEW t \in Threads, NEW s \in Strands, NEW m \in Msgs, PostEnter(t, s, m) PROVE Inv'
  BY <1>2, PoolAssumption DEF PostEnter, Call, UserCode, Inv, TypeOK, WorkerPcs, CallsOK, WorkersOK, TeardownOK,
         Threads, In, NoCall, DrainPcs, Ops, CallType, poolVars, workerVars, recycleVars, strandVars, nodeVars
<1>3. ASSUME NEW t \in Threads, NEW n \in Nodes, MoveToTaskPool(t, n) PROVE Inv'
  BY <1>3, PoolAssumption DEF MoveToTaskPool, Call, UserCode, Inv, TypeOK, WorkerPcs, CallsOK, WorkersOK, TeardownOK,
         Threads, In, NoCall, DrainPcs, Ops, CallType, poolVars, workerVars, recycleVars, strandVars, nodeVars
<1>4. ASSUME NEW t \in Threads, NotifyOne(t) PROVE Inv'
  <2>1. /\ wpc' \in [Workers -> WorkerPcs]
        /\ \A w \in Workers : wpc'[w] = wpc[w] \/ (wpc[w] = "wait" /\ wpc'[w] = "loop")
    BY <1>4 DEF NotifyOne, Inv, TypeOK, WorkerPcs
  <2> QED
    BY <1>4, <2>1, PoolAssumption DEF NotifyOne, Return, Inv, TypeOK, WorkerPcs, CallsOK, WorkersOK, TeardownOK,
         Threads, In, NoCall, DrainPcs, Ops, CallType, poolVars, workerVars, recycleVars, strandVars, nodeVars
<1>5. ASSUME NEW t \in Threads, PostPush(t) PROVE Inv'
  BY <1>5, PoolAssumption DEF PostPush, Return, Inv, TypeOK, WorkerPcs, CallsOK, WorkersOK, TeardownOK,
         Threads, In, NoCall, DrainPcs, Ops, CallType, poolVars, workerVars, recycleVars, strandVars, nodeVars
<1>6. ASSUME NEW t \in Threads, PostPushAndSchedule(t) PROVE Inv'
  BY <1>6, PoolAssumption DEF PostPushAndSchedule, Call, Inv, TypeOK, WorkerPcs, CallsOK, WorkersOK, TeardownOK,
         Threads, In, NoCall, DrainPcs, Ops, CallType, poolVars, workerVars, recycleVars, strandVars, nodeVars
<1>7. ASSUME NEW t \in Threads, EnqueueStrandDrain(t) PROVE Inv'
  BY <1>7, PoolAssumption DEF EnqueueStrandDrain, Call, Inv, TypeOK, WorkerPcs, CallsOK, WorkersOK, TeardownOK,
         Threads, In, NoCall, DrainPcs, Ops, CallType, poolVars, workerVars, recycleVars, strandVars, nodeVars
<1>8. ASSUME NEW t \in Threads, RefuseStrandDrain(t) PROVE Inv'
  BY <1>8, PoolAssumption DEF RefuseStrandDrain, Call, Inv, TypeOK, WorkerPcs, CallsOK, WorkersOK, TeardownOK,
         Threads, In, NoCall, DrainPcs, Ops, CallType, poolVars, workerVars, recycleVars, strandVars, nodeVars
<1>9. ASSUME NEW t \in Threads, Unschedule(t) PROVE Inv'
  BY <1>9, PoolAssumption DEF Unschedule, Return, Inv, TypeOK, WorkerPcs, CallsOK, WorkersOK, TeardownOK,
         Threads, In, NoCall, DrainPcs, Ops, CallType, poolVars, workerVars, recycleVars, strandVars, nodeVars
<1>10. ASSUME NEW t \in Threads, ReuseStrand(t) PROVE Inv'
  BY <1>10, PoolAssumption DEF ReuseStrand, Call, Inv, TypeOK, WorkerPcs, CallsOK, WorkersOK, TeardownOK,
         Threads, In, NoCall, DrainPcs, Ops, CallType, poolVars, workerVars, recycleVars, strandVars, nodeVars
<1>11. ASSUME NEW t \in Threads, NEW s \in Strands, NewStrand(t, s) PROVE Inv'
  BY <1>11, PoolAssumption DEF NewStrand, Call, Inv, TypeOK, WorkerPcs, CallsOK, WorkersOK, TeardownOK,
         Threads, In, NoCall, DrainPcs, Ops, CallType, poolVars, workerVars, recycleVars, strandVars, nodeVars
<1>12. ASSUME NEW t \in Threads, ApplyMoveTo(t) PROVE Inv'
  BY <1>12, PoolAssumption DEF ApplyMoveTo, Call, Inv, TypeOK, WorkerPcs, CallsOK, WorkersOK, TeardownOK,
         Threads, In, NoCall, DrainPcs, Ops, CallType, poolVars, workerVars, recycleVars, strandVars, nodeVars
<1>13. ASSUME NEW t \in Threads, ReleaseStrandReservation(t) PROVE Inv'
  BY <1>13, PoolAssumption DEF ReleaseStrandReservation, Return, Inv, TypeOK, WorkerPcs, CallsOK, WorkersOK, TeardownOK,
         Threads, In, NoCall, DrainPcs, Ops, CallType, poolVars, workerVars, recycleVars, strandVars, nodeVars
<1>14. ASSUME NEW t \in Threads, WaitForDoneReturn(t) PROVE Inv'
  BY <1>14, PoolAssumption DEF WaitForDoneReturn, Return, Inv, TypeOK, WorkerPcs, CallsOK, WorkersOK, TeardownOK,
         Threads, In, NoCall, DrainPcs, Ops, CallType, poolVars, workerVars, recycleVars, strandVars, nodeVars
<1>15. ASSUME NEW t \in Threads, WaitForDoneBlock(t) PROVE Inv'
  BY <1>15, PoolAssumption DEF WaitForDoneBlock, Call, Inv, TypeOK, WorkerPcs, CallsOK, WorkersOK, TeardownOK,
         Threads, In, NoCall, DrainPcs, Ops, CallType, poolVars, workerVars, recycleVars, strandVars, nodeVars
<1>16. ASSUME NEW w \in Workers, TakeJob(w) PROVE Inv'
  BY <1>16, PoolAssumption DEF TakeJob, HasWork, Inv, TypeOK, WorkerPcs, CallsOK, WorkersOK, TeardownOK,
         Threads, In, NoCall, DrainPcs, Ops, CallType, poolVars, workerVars, recycleVars, strandVars, nodeVars
<1>17. ASSUME NEW w \in Workers, TakeDrain(w) PROVE Inv'
  BY <1>17, PoolAssumption DEF TakeDrain, HasWork, Inv, TypeOK, WorkerPcs, CallsOK, WorkersOK, TeardownOK,
         Threads, In, NoCall, DrainPcs, Ops, CallType, poolVars, workerVars, recycleVars, strandVars, nodeVars
<1>18. ASSUME NEW w \in Workers, WaitOrExit(w) PROVE Inv'
  BY <1>18, PoolAssumption DEF WaitOrExit, Inv, TypeOK, WorkerPcs, CallsOK, WorkersOK, TeardownOK,
         Threads, In, NoCall, DrainPcs, Ops, CallType, poolVars, workerVars, recycleVars, strandVars, nodeVars
<1>19. ASSUME NEW w \in Workers, JobEnd(w) PROVE Inv'
  BY <1>19, PoolAssumption DEF JobEnd, Inv, TypeOK, WorkerPcs, CallsOK, WorkersOK, TeardownOK,
         Threads, In, NoCall, DrainPcs, Ops, CallType, poolVars, workerVars, recycleVars, strandVars, nodeVars
<1>20. ASSUME NEW w \in Workers, DrainNext(w) PROVE Inv'
  BY <1>20, PoolAssumption DEF DrainNext, BatchLeft, Inv, TypeOK, WorkerPcs, CallsOK, WorkersOK, TeardownOK,
         Threads, In, NoCall, DrainPcs, Ops, CallType, poolVars, workerVars, recycleVars, strandVars, nodeVars
<1>21. ASSUME NEW w \in Workers, DrainBatchOver(w) PROVE Inv'
  BY <1>21, PoolAssumption DEF DrainBatchOver, Inv, TypeOK, WorkerPcs, CallsOK, WorkersOK, TeardownOK,
         Threads, In, NoCall, DrainPcs, Ops, CallType, poolVars, workerVars, recycleVars, strandVars, nodeVars
<1>22. ASSUME NEW w \in Workers, StrandTaskEnd(w) PROVE Inv'
  BY <1>22, PoolAssumption DEF StrandTaskEnd, Inv, TypeOK, WorkerPcs, CallsOK, WorkersOK, TeardownOK,
         Threads, In, NoCall, DrainPcs, Ops, CallType, poolVars, workerVars, recycleVars, strandVars, nodeVars
<1>23. ASSUME NEW w \in Workers, RunPendingDeletes(w) PROVE Inv'
  BY <1>23, PoolAssumption DEF RunPendingDeletes, Inv, TypeOK, WorkerPcs, CallsOK, WorkersOK, TeardownOK,
         Threads, In, NoCall, DrainPcs, Ops, CallType, poolVars, workerVars, recycleVars, strandVars, nodeVars
<1>24. ASSUME NEW w \in Workers, DrainAgain(w) PROVE Inv'
  BY <1>24, PoolAssumption DEF DrainAgain, Call, Inv, TypeOK, WorkerPcs, CallsOK, WorkersOK, TeardownOK,
         Threads, In, NoCall, DrainPcs, Ops, CallType, poolVars, workerVars, recycleVars, strandVars, nodeVars
<1>25. ASSUME NEW w \in Workers, DrainDone(w) PROVE Inv'
  BY <1>25, PoolAssumption DEF DrainDone, Inv, TypeOK, WorkerPcs, CallsOK, WorkersOK, TeardownOK,
         Threads, In, NoCall, DrainPcs, Ops, CallType, poolVars, workerVars, recycleVars, strandVars, nodeVars
<1>26. ASSUME NEW w \in Workers, RecycleStrandIfIdle(w) PROVE Inv'
  BY <1>26, PoolAssumption DEF RecycleStrandIfIdle, Inv, TypeOK, WorkerPcs, CallsOK, WorkersOK, TeardownOK,
         Threads, In, NoCall, DrainPcs, Ops, CallType, poolVars, workerVars, recycleVars, strandVars, nodeVars
<1>27. ASSUME NEW w \in Workers, TaskEnd(w) PROVE Inv'
  BY <1>27, PoolAssumption DEF TaskEnd, Inv, TypeOK, WorkerPcs, CallsOK, WorkersOK, TeardownOK,
         Threads, In, NoCall, DrainPcs, Ops, CallType, poolVars, workerVars, recycleVars, strandVars, nodeVars
<1>28. ASSUME NEW w \in Workers, SpuriousWake(w) PROVE Inv'
  BY <1>28, PoolAssumption DEF SpuriousWake, Inv, TypeOK, WorkerPcs, CallsOK, WorkersOK, TeardownOK,
         Threads, In, NoCall, DrainPcs, Ops, CallType, poolVars, workerVars, recycleVars, strandVars, nodeVars
<1>29. ASSUME NEW w \in Workers, NEW n \in Nodes, CreateNode(w, n) PROVE Inv'
  <2>1. cur[w] \in Strands
    BY <1>29 DEF CreateNode, Inv, WorkersOK, DrainPcs
  <2> QED
    BY <1>29, <2>1 DEF CreateNode, Inv, TypeOK, WorkerPcs, CallsOK, WorkersOK, TeardownOK,
         Threads, In, NoCall, DrainPcs, Ops, CallType, poolVars, workerVars, recycleVars, strandVars, nodeVars
<1>30. ASSUME NEW w \in Workers, NEW n \in Nodes, EnqueueDelete(w, n) PROVE Inv'
  BY <1>30, PoolAssumption DEF EnqueueDelete, Inv, TypeOK, WorkerPcs, CallsOK, WorkersOK, TeardownOK,
         Threads, In, NoCall, DrainPcs, Ops, CallType, poolVars, workerVars, recycleVars, strandVars, nodeVars
<1>31. ASSUME NEW w \in Workers, NEW n \in Nodes, MoveToThread(w, n) PROVE Inv'
  BY <1>31, PoolAssumption DEF MoveToThread, Inv, TypeOK, WorkerPcs, CallsOK, WorkersOK, TeardownOK,
         Threads, In, NoCall, DrainPcs, Ops, CallType, poolVars, workerVars, recycleVars, strandVars, nodeVars
<1>32. ASSUME NEW t \in Clients, WaitForDone(t) PROVE Inv'
  BY <1>32, PoolAssumption DEF WaitForDone, Call, Inv, TypeOK, WorkerPcs, CallsOK, WorkersOK, TeardownOK,
         Threads, In, NoCall, DrainPcs, Ops, CallType, poolVars, workerVars, recycleVars, strandVars, nodeVars
<1>33. ASSUME NEW t \in Clients, Shutdown(t) PROVE Inv'
  BY <1>33, PoolAssumption DEF Shutdown, Call, Inv, TypeOK, WorkerPcs, CallsOK, WorkersOK, TeardownOK,
         Threads, In, NoCall, DrainPcs, Ops, CallType, poolVars, workerVars, recycleVars, strandVars, nodeVars
<1>34. ASSUME NEW t \in Clients, NotifyAll(t) PROVE Inv'
  BY <1>34, PoolAssumption DEF NotifyAll, Call, Inv, TypeOK, WorkerPcs, CallsOK, WorkersOK, TeardownOK,
         Threads, In, NoCall, DrainPcs, Ops, CallType, poolVars, workerVars, recycleVars, strandVars, nodeVars
<1>35. ASSUME NEW t \in Clients, JoinWorkers(t) PROVE Inv'
  BY <1>35, PoolAssumption DEF JoinWorkers, Call, Inv, TypeOK, WorkerPcs, CallsOK, WorkersOK, TeardownOK,
         Threads, In, NoCall, DrainPcs, Ops, CallType, poolVars, workerVars, recycleVars, strandVars, nodeVars
<1>36. ASSUME NEW t \in Clients, DestroyRemainingNodes(t) PROVE Inv'
  BY <1>36, PoolAssumption DEF DestroyRemainingNodes, Call, Inv, TypeOK, WorkerPcs, CallsOK, WorkersOK, TeardownOK,
         Threads, In, NoCall, DrainPcs, Ops, CallType, poolVars, workerVars, recycleVars, strandVars, nodeVars
<1>37. ASSUME NEW t \in Clients, ClearStrandQueue(t) PROVE Inv'
  BY <1>37, PoolAssumption DEF ClearStrandQueue, Call, Inv, TypeOK, WorkerPcs, CallsOK, WorkersOK, TeardownOK,
         Threads, In, NoCall, DrainPcs, Ops, CallType, poolVars, workerVars, recycleVars, strandVars, nodeVars
<1>38. ASSUME NEW t \in Clients, ShutdownReturn(t) PROVE Inv'
  BY <1>38, PoolAssumption DEF ShutdownReturn, Return, Inv, TypeOK, WorkerPcs, CallsOK, WorkersOK, TeardownOK,
         Threads, In, NoCall, DrainPcs, Ops, CallType, poolVars, workerVars, recycleVars, strandVars, nodeVars
<1>39. CASE UNCHANGED vars
  BY <1>39 DEF vars, Inv, TypeOK, WorkerPcs, CallsOK, WorkersOK, TeardownOK,
         Threads, In, NoCall, DrainPcs, Ops, CallType, poolVars, workerVars, recycleVars, strandVars, nodeVars
<1> QED
  BY <1>1, <1>2, <1>3, <1>4, <1>5, <1>6, <1>7, <1>8, <1>9, <1>10, <1>11, <1>12, <1>13, <1>14,
     <1>15, <1>16, <1>17, <1>18, <1>19, <1>20, <1>21, <1>22, <1>23, <1>24, <1>25, <1>26, <1>27, <1>28,
     <1>29, <1>30, <1>31, <1>32, <1>33, <1>34, <1>35, <1>36, <1>37, <1>38, <1>39
     DEF Next, Continue, WorkerStep, ShutdownStep

(* Every action that moves a worker between holding a task and not holding *)
(* one counts it; the others leave both sides alone.                       *)
LEMMA ActiveStep == Inv /\ ActiveTasksExact /\ [Next]_vars => ActiveTasksExact'
<1> SUFFICES ASSUME Inv /\ ActiveTasksExact, [Next]_vars PROVE ActiveTasksExact'
  OBVIOUS
<1>f. IsFiniteSet(Busy)
  BY PoolAssumption, FS_Subset DEF Busy
<1>1. ASSUME NEW t \in Threads, NEW j \in Jobs, Start(t, j) PROVE Busy' = Busy /\ UNCHANGED m_activeTasks
  BY <1>1 DEF Start, Call, UserCode, Busy, Inv, TypeOK, WorkerPcs,
         poolVars, workerVars, recycleVars, strandVars, nodeVars
<1>2. ASSUME NEW t \in Threads, NEW s \in Strands, NEW m \in Msgs, PostEnter(t, s, m) PROVE Busy' = Busy /\ UNCHANGED m_activeTasks
  BY <1>2 DEF PostEnter, Call, UserCode, Busy, Inv, TypeOK, WorkerPcs,
         poolVars, workerVars, recycleVars, strandVars, nodeVars
<1>3. ASSUME NEW t \in Threads, NEW n \in Nodes, MoveToTaskPool(t, n) PROVE Busy' = Busy /\ UNCHANGED m_activeTasks
  BY <1>3 DEF MoveToTaskPool, Call, UserCode, Busy, Inv, TypeOK, WorkerPcs,
         poolVars, workerVars, recycleVars, strandVars, nodeVars
<1>4. ASSUME NEW t \in Threads, NotifyOne(t) PROVE Busy' = Busy /\ UNCHANGED m_activeTasks
  BY <1>4 DEF NotifyOne, Return, Busy, Inv, TypeOK, WorkerPcs,
         poolVars, workerVars, recycleVars, strandVars, nodeVars
<1>5. ASSUME NEW t \in Threads, PostPush(t) PROVE Busy' = Busy /\ UNCHANGED m_activeTasks
  BY <1>5 DEF PostPush, Return, Busy, Inv, TypeOK, WorkerPcs,
         poolVars, workerVars, recycleVars, strandVars, nodeVars
<1>6. ASSUME NEW t \in Threads, PostPushAndSchedule(t) PROVE Busy' = Busy /\ UNCHANGED m_activeTasks
  BY <1>6 DEF PostPushAndSchedule, Call, Busy, Inv, TypeOK, WorkerPcs,
         poolVars, workerVars, recycleVars, strandVars, nodeVars
<1>7. ASSUME NEW t \in Threads, EnqueueStrandDrain(t) PROVE Busy' = Busy /\ UNCHANGED m_activeTasks
  BY <1>7 DEF EnqueueStrandDrain, Call, Busy, Inv, TypeOK, WorkerPcs,
         poolVars, workerVars, recycleVars, strandVars, nodeVars
<1>8. ASSUME NEW t \in Threads, RefuseStrandDrain(t) PROVE Busy' = Busy /\ UNCHANGED m_activeTasks
  BY <1>8 DEF RefuseStrandDrain, Call, Busy, Inv, TypeOK, WorkerPcs,
         poolVars, workerVars, recycleVars, strandVars, nodeVars
<1>9. ASSUME NEW t \in Threads, Unschedule(t) PROVE Busy' = Busy /\ UNCHANGED m_activeTasks
  BY <1>9 DEF Unschedule, Return, Busy, Inv, TypeOK, WorkerPcs,
         poolVars, workerVars, recycleVars, strandVars, nodeVars
<1>10. ASSUME NEW t \in Threads, ReuseStrand(t) PROVE Busy' = Busy /\ UNCHANGED m_activeTasks
  BY <1>10 DEF ReuseStrand, Call, Busy, Inv, TypeOK, WorkerPcs,
         poolVars, workerVars, recycleVars, strandVars, nodeVars
<1>11. ASSUME NEW t \in Threads, NEW s \in Strands, NewStrand(t, s) PROVE Busy' = Busy /\ UNCHANGED m_activeTasks
  BY <1>11 DEF NewStrand, Call, Busy, Inv, TypeOK, WorkerPcs,
         poolVars, workerVars, recycleVars, strandVars, nodeVars
<1>12. ASSUME NEW t \in Threads, ApplyMoveTo(t) PROVE Busy' = Busy /\ UNCHANGED m_activeTasks
  BY <1>12 DEF ApplyMoveTo, Call, Busy, Inv, TypeOK, WorkerPcs,
         poolVars, workerVars, recycleVars, strandVars, nodeVars
<1>13. ASSUME NEW t \in Threads, ReleaseStrandReservation(t) PROVE Busy' = Busy /\ UNCHANGED m_activeTasks
  BY <1>13 DEF ReleaseStrandReservation, Return, Busy, Inv, TypeOK, WorkerPcs,
         poolVars, workerVars, recycleVars, strandVars, nodeVars
<1>14. ASSUME NEW t \in Threads, WaitForDoneReturn(t) PROVE Busy' = Busy /\ UNCHANGED m_activeTasks
  BY <1>14 DEF WaitForDoneReturn, Return, Busy, Inv, TypeOK, WorkerPcs,
         poolVars, workerVars, recycleVars, strandVars, nodeVars
<1>15. ASSUME NEW t \in Threads, WaitForDoneBlock(t) PROVE Busy' = Busy /\ UNCHANGED m_activeTasks
  BY <1>15 DEF WaitForDoneBlock, Call, Busy, Inv, TypeOK, WorkerPcs,
         poolVars, workerVars, recycleVars, strandVars, nodeVars
<1>16. ASSUME NEW w \in Workers, TakeJob(w) PROVE ActiveTasksExact'
  <2>1. w \notin Busy /\ Busy' = Busy \union {w}
    BY <1>16 DEF TakeJob, Busy, Inv, TypeOK, WorkerPcs
  <2>2. m_activeTasks' = Cardinality(Busy) + 1
    BY <1>16 DEF TakeJob, ActiveAfterTake, ActiveTasksExact
  <2> QED
    BY <2>1, <2>2, <1>f, FS_AddElement DEF ActiveTasksExact
<1>17. ASSUME NEW w \in Workers, TakeDrain(w) PROVE ActiveTasksExact'
  <2>1. w \notin Busy /\ Busy' = Busy \union {w}
    BY <1>17 DEF TakeDrain, Busy, Inv, TypeOK, WorkerPcs
  <2>2. m_activeTasks' = Cardinality(Busy) + 1
    BY <1>17 DEF TakeDrain, ActiveAfterTake, ActiveTasksExact
  <2> QED
    BY <2>1, <2>2, <1>f, FS_AddElement DEF ActiveTasksExact
<1>18. ASSUME NEW w \in Workers, WaitOrExit(w) PROVE Busy' = Busy /\ UNCHANGED m_activeTasks
  BY <1>18 DEF WaitOrExit, Busy, Inv, TypeOK, WorkerPcs,
         poolVars, workerVars, recycleVars, strandVars, nodeVars
<1>19. ASSUME NEW w \in Workers, JobEnd(w) PROVE Busy' = Busy /\ UNCHANGED m_activeTasks
  BY <1>19 DEF JobEnd, Busy, Inv, TypeOK, WorkerPcs,
         poolVars, workerVars, recycleVars, strandVars, nodeVars
<1>20. ASSUME NEW w \in Workers, DrainNext(w) PROVE Busy' = Busy /\ UNCHANGED m_activeTasks
  BY <1>20 DEF DrainNext, BatchLeft, Busy, Inv, TypeOK, WorkerPcs,
         poolVars, workerVars, recycleVars, strandVars, nodeVars
<1>21. ASSUME NEW w \in Workers, DrainBatchOver(w) PROVE Busy' = Busy /\ UNCHANGED m_activeTasks
  BY <1>21 DEF DrainBatchOver, Busy, Inv, TypeOK, WorkerPcs,
         poolVars, workerVars, recycleVars, strandVars, nodeVars
<1>22. ASSUME NEW w \in Workers, StrandTaskEnd(w) PROVE Busy' = Busy /\ UNCHANGED m_activeTasks
  BY <1>22 DEF StrandTaskEnd, Busy, Inv, TypeOK, WorkerPcs,
         poolVars, workerVars, recycleVars, strandVars, nodeVars
<1>23. ASSUME NEW w \in Workers, RunPendingDeletes(w) PROVE Busy' = Busy /\ UNCHANGED m_activeTasks
  BY <1>23 DEF RunPendingDeletes, Busy, Inv, TypeOK, WorkerPcs,
         poolVars, workerVars, recycleVars, strandVars, nodeVars
<1>24. ASSUME NEW w \in Workers, DrainAgain(w) PROVE Busy' = Busy /\ UNCHANGED m_activeTasks
  BY <1>24 DEF DrainAgain, Call, Busy, Inv, TypeOK, WorkerPcs,
         poolVars, workerVars, recycleVars, strandVars, nodeVars
<1>25. ASSUME NEW w \in Workers, DrainDone(w) PROVE Busy' = Busy /\ UNCHANGED m_activeTasks
  BY <1>25 DEF DrainDone, Busy, Inv, TypeOK, WorkerPcs,
         poolVars, workerVars, recycleVars, strandVars, nodeVars
<1>26. ASSUME NEW w \in Workers, RecycleStrandIfIdle(w) PROVE Busy' = Busy /\ UNCHANGED m_activeTasks
  BY <1>26 DEF RecycleStrandIfIdle, Busy, Inv, TypeOK, WorkerPcs,
         poolVars, workerVars, recycleVars, strandVars, nodeVars
<1>27. ASSUME NEW w \in Workers, TaskEnd(w) PROVE ActiveTasksExact'
  <2>1. w \in Busy /\ Busy' = Busy \ {w}
    BY <1>27 DEF TaskEnd, Busy, Inv, TypeOK, WorkerPcs
  <2>2. m_activeTasks' = Cardinality(Busy) - 1
    BY <1>27 DEF TaskEnd, ActiveTasksExact
  <2> QED
    BY <2>1, <2>2, <1>f, FS_RemoveElement DEF ActiveTasksExact
<1>28. ASSUME NEW w \in Workers, SpuriousWake(w) PROVE Busy' = Busy /\ UNCHANGED m_activeTasks
  BY <1>28 DEF SpuriousWake, Busy, Inv, TypeOK, WorkerPcs,
         poolVars, workerVars, recycleVars, strandVars, nodeVars
<1>29. ASSUME NEW w \in Workers, NEW n \in Nodes, CreateNode(w, n) PROVE Busy' = Busy /\ UNCHANGED m_activeTasks
  BY <1>29 DEF CreateNode, Busy, Inv, TypeOK, WorkerPcs,
         poolVars, workerVars, recycleVars, strandVars, nodeVars
<1>30. ASSUME NEW w \in Workers, NEW n \in Nodes, EnqueueDelete(w, n) PROVE Busy' = Busy /\ UNCHANGED m_activeTasks
  BY <1>30 DEF EnqueueDelete, Busy, Inv, TypeOK, WorkerPcs,
         poolVars, workerVars, recycleVars, strandVars, nodeVars
<1>31. ASSUME NEW w \in Workers, NEW n \in Nodes, MoveToThread(w, n) PROVE Busy' = Busy /\ UNCHANGED m_activeTasks
  BY <1>31 DEF MoveToThread, Busy, Inv, TypeOK, WorkerPcs,
         poolVars, workerVars, recycleVars, strandVars, nodeVars
<1>32. ASSUME NEW t \in Clients, WaitForDone(t) PROVE Busy' = Busy /\ UNCHANGED m_activeTasks
  BY <1>32 DEF WaitForDone, Call, Busy, Inv, TypeOK, WorkerPcs,
         poolVars, workerVars, recycleVars, strandVars, nodeVars
<1>33. ASSUME NEW t \in Clients, Shutdown(t) PROVE Busy' = Busy /\ UNCHANGED m_activeTasks
  BY <1>33 DEF Shutdown, Call, Busy, Inv, TypeOK, WorkerPcs,
         poolVars, workerVars, recycleVars, strandVars, nodeVars
<1>34. ASSUME NEW t \in Clients, NotifyAll(t) PROVE Busy' = Busy /\ UNCHANGED m_activeTasks
  BY <1>34 DEF NotifyAll, Call, Busy, Inv, TypeOK, WorkerPcs,
         poolVars, workerVars, recycleVars, strandVars, nodeVars
<1>35. ASSUME NEW t \in Clients, JoinWorkers(t) PROVE Busy' = Busy /\ UNCHANGED m_activeTasks
  BY <1>35 DEF JoinWorkers, Call, Busy, Inv, TypeOK, WorkerPcs,
         poolVars, workerVars, recycleVars, strandVars, nodeVars
<1>36. ASSUME NEW t \in Clients, DestroyRemainingNodes(t) PROVE Busy' = Busy /\ UNCHANGED m_activeTasks
  BY <1>36 DEF DestroyRemainingNodes, Call, Busy, Inv, TypeOK, WorkerPcs,
         poolVars, workerVars, recycleVars, strandVars, nodeVars
<1>37. ASSUME NEW t \in Clients, ClearStrandQueue(t) PROVE Busy' = Busy /\ UNCHANGED m_activeTasks
  BY <1>37 DEF ClearStrandQueue, Call, Busy, Inv, TypeOK, WorkerPcs,
         poolVars, workerVars, recycleVars, strandVars, nodeVars
<1>38. ASSUME NEW t \in Clients, ShutdownReturn(t) PROVE Busy' = Busy /\ UNCHANGED m_activeTasks
  BY <1>38 DEF ShutdownReturn, Return, Busy, Inv, TypeOK, WorkerPcs,
         poolVars, workerVars, recycleVars, strandVars, nodeVars
<1>39. CASE UNCHANGED vars
  BY <1>39 DEF vars, ActiveTasksExact, Busy, poolVars, workerVars, recycleVars, strandVars, nodeVars
<1> QED
  BY <1>1, <1>2, <1>3, <1>4, <1>5, <1>6, <1>7, <1>8, <1>9, <1>10, <1>11, <1>12, <1>13, <1>14,
     <1>15, <1>16, <1>17, <1>18, <1>19, <1>20, <1>21, <1>22, <1>23, <1>24, <1>25, <1>26, <1>27, <1>28,
     <1>29, <1>30, <1>31, <1>32, <1>33, <1>34, <1>35, <1>36, <1>37, <1>38, <1>39
     DEF Next, Continue, WorkerStep, ShutdownStep, ActiveTasksExact

(* What queuing and taking an entry does to the places of a drain.         *)
LEMMA QueueAppend ==
  ASSUME TypeOK, NEW x \in Jobs \union Strands, m_queue' = Append(m_queue, x), NEW s \in Strands
  PROVE  /\ x # s => QueuedAt(s)' = QueuedAt(s)
         /\ x = s => QueuedAt(s)' = QueuedAt(s) \union {Len(m_queue) + 1}
<1>1. /\ DOMAIN m_queue = 1 .. Len(m_queue) /\ Len(m_queue) \in Nat
      /\ DOMAIN m_queue' = 1 .. Len(m_queue) + 1
      /\ \A i \in 1 .. Len(m_queue) : m_queue'[i] = m_queue[i]
      /\ m_queue'[Len(m_queue) + 1] = x
  BY DEF TypeOK
<1> QED
  BY <1>1 DEF QueuedAt

LEMMA QueueTail ==
  ASSUME TypeOK, m_queue # <<>>, m_queue' = Tail(m_queue), NEW s \in Strands
  PROVE  /\ \A i \in QueuedAt(s)' : i \in Nat \ {0} /\ i + 1 \in QueuedAt(s)
         /\ \A i \in QueuedAt(s) : i \in Nat /\ (i = 1 \/ i - 1 \in QueuedAt(s)')
         /\ 1 \in QueuedAt(s) <=> Head(m_queue) = s
BY DEF QueuedAt, TypeOK

(* Most actions move no drain.                                            *)
PlacesSame ==
  /\ UNCHANGED m_scheduled
  /\ \A s \in Strands : /\ QueuedAt(s)' = QueuedAt(s)
                        /\ DrainedBy(s)' = DrainedBy(s)
                        /\ ScheduledBy(s)' = ScheduledBy(s)

LEMMA DrainStep == Inv /\ OneDrainPerStrand /\ [Next]_vars => OneDrainPerStrand'
<1> SUFFICES ASSUME Inv /\ OneDrainPerStrand, [Next]_vars PROVE OneDrainPerStrand'
  OBVIOUS
<1>1. ASSUME NEW t \in Threads, NEW j \in Jobs, Start(t, j) PROVE OneDrainPerStrand'
  <2>1. \A s \in Strands : QueuedAt(s)' = QueuedAt(s)
    BY <1>1, QueueAppend, PoolAssumption DEF Start, Inv
  <2>2. UNCHANGED m_scheduled /\ \A s \in Strands : DrainedBy(s)' = DrainedBy(s) /\ ScheduledBy(s)' = ScheduledBy(s)
    BY <1>1 DEF Start, Call, UserCode, QueuedAt, DrainedBy, ScheduledBy, Inv, TypeOK, CallType,
         Threads, In, NoCall, DrainPcs, WorkerPcs, poolVars, workerVars, recycleVars, strandVars, nodeVars
  <2> QED
    BY <2>1, <2>2 DEF OneDrainPerStrand, OneDrain
<1>2. ASSUME NEW t \in Threads, NEW s \in Strands, NEW m \in Msgs, PostEnter(t, s, m) PROVE PlacesSame
  BY <1>2 DEF PostEnter, Call, UserCode, PlacesSame, QueuedAt, DrainedBy, ScheduledBy, Inv, TypeOK, CallType,
         Threads, In, NoCall, DrainPcs, WorkerPcs, poolVars, workerVars, recycleVars, strandVars, nodeVars
<1>3. ASSUME NEW t \in Threads, NEW n \in Nodes, MoveToTaskPool(t, n) PROVE PlacesSame
  BY <1>3 DEF MoveToTaskPool, Call, UserCode, PlacesSame, QueuedAt, DrainedBy, ScheduledBy, Inv, TypeOK, CallType,
         Threads, In, NoCall, DrainPcs, WorkerPcs, poolVars, workerVars, recycleVars, strandVars, nodeVars
<1>4. ASSUME NEW t \in Threads, NotifyOne(t) PROVE PlacesSame
  BY <1>4 DEF NotifyOne, Return, PlacesSame, QueuedAt, DrainedBy, ScheduledBy, Inv, TypeOK, CallType,
         Threads, In, NoCall, DrainPcs, WorkerPcs, poolVars, workerVars, recycleVars, strandVars, nodeVars
<1>5. ASSUME NEW t \in Threads, PostPush(t) PROVE PlacesSame
  BY <1>5 DEF PostPush, Return, PlacesSame, QueuedAt, DrainedBy, ScheduledBy, Inv, TypeOK, CallType,
         Threads, In, NoCall, DrainPcs, WorkerPcs, poolVars, workerVars, recycleVars, strandVars, nodeVars
<1>6. ASSUME NEW t \in Threads, PostPushAndSchedule(t) PROVE OneDrainPerStrand'
  <2>1. \A s \in Strands : QueuedAt(s)' = QueuedAt(s) /\ DrainedBy(s)' = DrainedBy(s)
    BY <1>6 DEF PostPushAndSchedule, QueuedAt, DrainedBy, ScheduledBy, Inv, TypeOK, CallType,
         Threads, In, NoCall, DrainPcs, WorkerPcs, poolVars, workerVars, recycleVars, strandVars, nodeVars
  <2>2. \A s \in Strands : ScheduledBy(s)' = IF s = call[t].s THEN ScheduledBy(s) \union {t} ELSE ScheduledBy(s)
    BY <1>6 DEF PostPushAndSchedule, Call, QueuedAt, DrainedBy, ScheduledBy, Inv, TypeOK, CallType,
         Threads, In, NoCall, DrainPcs, WorkerPcs, poolVars, workerVars, recycleVars, strandVars, nodeVars
  <2> QED
    BY <1>6, <2>1, <2>2 DEF PostPushAndSchedule, NeedsSchedule, OneDrainPerStrand, OneDrain
<1>7. ASSUME NEW t \in Threads, EnqueueStrandDrain(t) PROVE OneDrainPerStrand'
  <2>1. call[t].s \in Strands /\ t \in ScheduledBy(call[t].s)
    BY <1>7 DEF EnqueueStrandDrain, In, ScheduledBy, Inv, CallsOK
  <2>2. \A s \in Strands : QueuedAt(s)' = IF s = call[t].s THEN QueuedAt(s) \union {Len(m_queue) + 1} ELSE QueuedAt(s)
    BY <1>7, <2>1, QueueAppend DEF EnqueueStrandDrain, Inv
  <2>3. \A s \in Strands : /\ ScheduledBy(s)' = IF s = call[t].s THEN ScheduledBy(s) \ {t} ELSE ScheduledBy(s)
                          /\ DrainedBy(s)' = DrainedBy(s)
    BY <1>7, <2>1 DEF EnqueueStrandDrain, Call, QueuedAt, DrainedBy, ScheduledBy, Inv, TypeOK, CallType,
         Threads, In, NoCall, DrainPcs, WorkerPcs, poolVars, workerVars, recycleVars, strandVars, nodeVars
  <2> QED
    BY <1>7, <2>1, <2>2, <2>3 DEF EnqueueStrandDrain, OneDrainPerStrand, OneDrain, strandVars
<1>8. ASSUME NEW t \in Threads, RefuseStrandDrain(t) PROVE PlacesSame
  BY <1>8 DEF RefuseStrandDrain, Call, PlacesSame, QueuedAt, DrainedBy, ScheduledBy, Inv, TypeOK, CallType,
         Threads, In, NoCall, DrainPcs, WorkerPcs, poolVars, workerVars, recycleVars, strandVars, nodeVars
<1>9. ASSUME NEW t \in Threads, Unschedule(t) PROVE OneDrainPerStrand'
  <2>1. call[t].s \in Strands /\ t \in ScheduledBy(call[t].s)
    BY <1>9 DEF Unschedule, In, ScheduledBy, Inv, CallsOK
  <2>2. \A s \in Strands : /\ ScheduledBy(s)' = IF s = call[t].s THEN ScheduledBy(s) \ {t} ELSE ScheduledBy(s)
                          /\ DrainedBy(s)' = DrainedBy(s) /\ QueuedAt(s)' = QueuedAt(s)
    BY <1>9, <2>1 DEF Unschedule, Return, QueuedAt, DrainedBy, ScheduledBy, Inv, TypeOK, CallType,
         Threads, In, NoCall, DrainPcs, WorkerPcs, poolVars, workerVars, recycleVars, strandVars, nodeVars
  <2> QED
    BY <1>9, <2>1, <2>2 DEF Unschedule, OneDrainPerStrand, OneDrain
<1>10. ASSUME NEW t \in Threads, ReuseStrand(t) PROVE PlacesSame
  BY <1>10 DEF ReuseStrand, Call, PlacesSame, QueuedAt, DrainedBy, ScheduledBy, Inv, TypeOK, CallType,
         Threads, In, NoCall, DrainPcs, WorkerPcs, poolVars, workerVars, recycleVars, strandVars, nodeVars
<1>11. ASSUME NEW t \in Threads, NEW s \in Strands, NewStrand(t, s) PROVE PlacesSame
  BY <1>11 DEF NewStrand, Call, PlacesSame, QueuedAt, DrainedBy, ScheduledBy, Inv, TypeOK, CallType,
         Threads, In, NoCall, DrainPcs, WorkerPcs, poolVars, workerVars, recycleVars, strandVars, nodeVars
<1>12. ASSUME NEW t \in Threads, ApplyMoveTo(t) PROVE PlacesSame
  BY <1>12 DEF ApplyMoveTo, Call, PlacesSame, QueuedAt, DrainedBy, ScheduledBy, Inv, TypeOK, CallType,
         Threads, In, NoCall, DrainPcs, WorkerPcs, poolVars, workerVars, recycleVars, strandVars, nodeVars
<1>13. ASSUME NEW t \in Threads, ReleaseStrandReservation(t) PROVE PlacesSame
  BY <1>13 DEF ReleaseStrandReservation, Return, PlacesSame, QueuedAt, DrainedBy, ScheduledBy, Inv, TypeOK, CallType,
         Threads, In, NoCall, DrainPcs, WorkerPcs, poolVars, workerVars, recycleVars, strandVars, nodeVars
<1>14. ASSUME NEW t \in Threads, WaitForDoneReturn(t) PROVE PlacesSame
  BY <1>14 DEF WaitForDoneReturn, Return, PlacesSame, QueuedAt, DrainedBy, ScheduledBy, Inv, TypeOK, CallType,
         Threads, In, NoCall, DrainPcs, WorkerPcs, poolVars, workerVars, recycleVars, strandVars, nodeVars
<1>15. ASSUME NEW t \in Threads, WaitForDoneBlock(t) PROVE PlacesSame
  BY <1>15 DEF WaitForDoneBlock, Call, PlacesSame, QueuedAt, DrainedBy, ScheduledBy, Inv, TypeOK, CallType,
         Threads, In, NoCall, DrainPcs, WorkerPcs, poolVars, workerVars, recycleVars, strandVars, nodeVars
<1>16. ASSUME NEW w \in Workers, TakeJob(w) PROVE OneDrainPerStrand'
  <2>1. UNCHANGED m_scheduled /\ \A s \in Strands : DrainedBy(s)' = DrainedBy(s) /\ ScheduledBy(s)' = ScheduledBy(s)
    BY <1>16 DEF TakeJob, QueuedAt, DrainedBy, ScheduledBy, Inv, TypeOK, CallType,
         Threads, In, NoCall, DrainPcs, WorkerPcs, poolVars, workerVars, recycleVars, strandVars, nodeVars
  <2>2. \A s \in Strands : /\ \A i \in QueuedAt(s)' : i \in Nat \ {0} /\ i + 1 \in QueuedAt(s)
                          /\ \A i \in QueuedAt(s) : i \in Nat /\ i # 1 /\ i - 1 \in QueuedAt(s)'
    BY <1>16, QueueTail, PoolAssumption DEF TakeJob, HasWork, Inv
  <2>3. \A s \in Strands : QueuedAt(s)' # {} <=> QueuedAt(s) # {}
    BY <2>2
  <2>4. \A s \in Strands : (\A i, j \in QueuedAt(s) : i = j) => (\A i, j \in QueuedAt(s)' : i = j)
    BY <2>2
  <2> QED
    BY <2>1, <2>3, <2>4 DEF OneDrainPerStrand, OneDrain
<1>17. ASSUME NEW w \in Workers, TakeDrain(w) PROVE OneDrainPerStrand'
  <2>0. PICK h \in Strands : h = Head(m_queue)
    BY <1>17 DEF TakeDrain
  <2>1. UNCHANGED m_scheduled /\ \A s \in Strands : ScheduledBy(s)' = ScheduledBy(s)
    BY <1>17 DEF TakeDrain, QueuedAt, DrainedBy, ScheduledBy, Inv, TypeOK, CallType,
         Threads, In, NoCall, DrainPcs, WorkerPcs, poolVars, workerVars, recycleVars, strandVars, nodeVars
  <2>2. \A s \in Strands : /\ \A i \in QueuedAt(s)' : i \in Nat \ {0} /\ i + 1 \in QueuedAt(s)
                          /\ \A i \in QueuedAt(s) : i \in Nat /\ (i = 1 \/ i - 1 \in QueuedAt(s)')
                          /\ 1 \in QueuedAt(s) <=> h = s
    BY <1>17, <2>0, QueueTail DEF TakeDrain, HasWork, Inv
  <2>3. \A s \in Strands : DrainedBy(s)' = IF s = h THEN DrainedBy(s) \union {w} ELSE DrainedBy(s)
    BY <1>17, <2>0 DEF TakeDrain, QueuedAt, DrainedBy, ScheduledBy, Inv, TypeOK, CallType,
         Threads, In, NoCall, DrainPcs, WorkerPcs, poolVars, workerVars, recycleVars, strandVars, nodeVars
  <2>5. 1 \in QueuedAt(h)
    BY <1>17, <2>0, QueueTail DEF TakeDrain, HasWork, Inv
  <2>9. OneDrain(h)
    BY DEF OneDrainPerStrand
  <2>6. h \in m_scheduled /\ QueuedAt(h)' = {} /\ DrainedBy(h) = {} /\ ScheduledBy(h) = {}
    BY <2>2, <2>5, <2>9 DEF OneDrain
  <2>7. OneDrain(h)'
    BY <2>1, <2>3, <2>6 DEF OneDrain
  <2>8. ASSUME NEW s \in Strands, s # h PROVE OneDrain(s)'
    <3>1. OneDrain(s) /\ ScheduledBy(s)' = ScheduledBy(s) /\ DrainedBy(s)' = DrainedBy(s)
      BY <2>1, <2>3, <2>8 DEF OneDrainPerStrand
    <3>2. /\ \A i \in QueuedAt(s)' : i \in Nat /\ i + 1 \in QueuedAt(s)
          /\ \A i \in QueuedAt(s) : i \in Nat /\ i - 1 \in QueuedAt(s)'
      BY <1>17, <2>0, <2>8, QueueTail DEF TakeDrain, HasWork, Inv
    <3>3. QueuedAt(s)' # {} <=> QueuedAt(s) # {}
      BY <3>2
    <3>4. (\A i, j \in QueuedAt(s) : i = j) => (\A i, j \in QueuedAt(s)' : i = j)
      BY <3>2
    <3> QED
      BY <2>1, <3>1, <3>3, <3>4 DEF OneDrain
  <2> QED
    BY <2>7, <2>8 DEF OneDrainPerStrand
<1>18. ASSUME NEW w \in Workers, WaitOrExit(w) PROVE PlacesSame
  BY <1>18 DEF WaitOrExit, PlacesSame, QueuedAt, DrainedBy, ScheduledBy, Inv, TypeOK, CallType,
         Threads, In, NoCall, DrainPcs, WorkerPcs, poolVars, workerVars, recycleVars, strandVars, nodeVars
<1>19. ASSUME NEW w \in Workers, JobEnd(w) PROVE PlacesSame
  BY <1>19 DEF JobEnd, PlacesSame, QueuedAt, DrainedBy, ScheduledBy, Inv, TypeOK, CallType,
         Threads, In, NoCall, DrainPcs, WorkerPcs, poolVars, workerVars, recycleVars, strandVars, nodeVars
<1>20. ASSUME NEW w \in Workers, DrainNext(w) PROVE PlacesSame
  BY <1>20 DEF DrainNext, BatchLeft, PlacesSame, QueuedAt, DrainedBy, ScheduledBy, Inv, TypeOK, CallType,
         Threads, In, NoCall, DrainPcs, WorkerPcs, poolVars, workerVars, recycleVars, strandVars, nodeVars
<1>21. ASSUME NEW w \in Workers, DrainBatchOver(w) PROVE PlacesSame
  BY <1>21 DEF DrainBatchOver, PlacesSame, QueuedAt, DrainedBy, ScheduledBy, Inv, TypeOK, CallType,
         Threads, In, NoCall, DrainPcs, WorkerPcs, poolVars, workerVars, recycleVars, strandVars, nodeVars
<1>22. ASSUME NEW w \in Workers, StrandTaskEnd(w) PROVE PlacesSame
  BY <1>22 DEF StrandTaskEnd, PlacesSame, QueuedAt, DrainedBy, ScheduledBy, Inv, TypeOK, CallType,
         Threads, In, NoCall, DrainPcs, WorkerPcs, poolVars, workerVars, recycleVars, strandVars, nodeVars
<1>23. ASSUME NEW w \in Workers, RunPendingDeletes(w) PROVE PlacesSame
  BY <1>23 DEF RunPendingDeletes, PlacesSame, QueuedAt, DrainedBy, ScheduledBy, Inv, TypeOK, CallType,
         Threads, In, NoCall, DrainPcs, WorkerPcs, poolVars, workerVars, recycleVars, strandVars, nodeVars
<1>24. ASSUME NEW w \in Workers, DrainAgain(w) PROVE OneDrainPerStrand'
  <2>1. cur[w] \in Strands /\ w \in DrainedBy(cur[w]) /\ w \in Threads /\ In(w, "none")
    BY <1>24 DEF DrainAgain, DrainedBy, DrainPcs, Inv, WorkersOK, Threads
  <2>2. UNCHANGED m_scheduled /\ \A s \in Strands : QueuedAt(s)' = QueuedAt(s)
    BY <1>24 DEF DrainAgain, QueuedAt, DrainedBy, ScheduledBy, Inv, TypeOK, CallType,
         Threads, In, NoCall, DrainPcs, WorkerPcs, poolVars, workerVars, recycleVars, strandVars, nodeVars
  <2>3. \A s \in Strands : DrainedBy(s)' = IF s = cur[w] THEN DrainedBy(s) \ {w} ELSE DrainedBy(s)
    BY <1>24, <2>1 DEF DrainAgain, QueuedAt, DrainedBy, ScheduledBy, Inv, TypeOK, CallType,
         Threads, In, NoCall, DrainPcs, WorkerPcs, poolVars, workerVars, recycleVars, strandVars, nodeVars
  <2>4. \A s \in Strands : ScheduledBy(s)' = IF s = cur[w] THEN ScheduledBy(s) \union {w} ELSE ScheduledBy(s)
    BY <1>24, <2>1 DEF DrainAgain, Call, QueuedAt, DrainedBy, ScheduledBy, Inv, TypeOK, CallType,
         Threads, In, NoCall, DrainPcs, WorkerPcs, poolVars, workerVars, recycleVars, strandVars, nodeVars
  <2> QED
    BY <2>1, <2>2, <2>3, <2>4 DEF OneDrainPerStrand, OneDrain
<1>25. ASSUME NEW w \in Workers, DrainDone(w) PROVE OneDrainPerStrand'
  <2>1. cur[w] \in Strands /\ w \in DrainedBy(cur[w])
    BY <1>25 DEF DrainDone, DrainedBy, DrainPcs, Inv, WorkersOK
  <2>2. \A s \in Strands : QueuedAt(s)' = QueuedAt(s) /\ ScheduledBy(s)' = ScheduledBy(s)
    BY <1>25 DEF DrainDone, QueuedAt, DrainedBy, ScheduledBy, Inv, TypeOK, CallType,
         Threads, In, NoCall, DrainPcs, WorkerPcs, poolVars, workerVars, recycleVars, strandVars, nodeVars
  <2>3. \A s \in Strands : DrainedBy(s)' = IF s = cur[w] THEN DrainedBy(s) \ {w} ELSE DrainedBy(s)
    BY <1>25, <2>1 DEF DrainDone, QueuedAt, DrainedBy, ScheduledBy, Inv, TypeOK, CallType,
         Threads, In, NoCall, DrainPcs, WorkerPcs, poolVars, workerVars, recycleVars, strandVars, nodeVars
  <2> QED
    BY <1>25, <2>1, <2>2, <2>3 DEF DrainDone, OneDrainPerStrand, OneDrain
<1>26. ASSUME NEW w \in Workers, RecycleStrandIfIdle(w) PROVE PlacesSame
  BY <1>26 DEF RecycleStrandIfIdle, PlacesSame, QueuedAt, DrainedBy, ScheduledBy, Inv, TypeOK, CallType,
         Threads, In, NoCall, DrainPcs, WorkerPcs, poolVars, workerVars, recycleVars, strandVars, nodeVars
<1>27. ASSUME NEW w \in Workers, TaskEnd(w) PROVE PlacesSame
  BY <1>27 DEF TaskEnd, PlacesSame, QueuedAt, DrainedBy, ScheduledBy, Inv, TypeOK, CallType,
         Threads, In, NoCall, DrainPcs, WorkerPcs, poolVars, workerVars, recycleVars, strandVars, nodeVars
<1>28. ASSUME NEW w \in Workers, SpuriousWake(w) PROVE PlacesSame
  BY <1>28 DEF SpuriousWake, PlacesSame, QueuedAt, DrainedBy, ScheduledBy, Inv, TypeOK, CallType,
         Threads, In, NoCall, DrainPcs, WorkerPcs, poolVars, workerVars, recycleVars, strandVars, nodeVars
<1>29. ASSUME NEW w \in Workers, NEW n \in Nodes, CreateNode(w, n) PROVE PlacesSame
  BY <1>29 DEF CreateNode, PlacesSame, QueuedAt, DrainedBy, ScheduledBy, Inv, TypeOK, CallType,
         Threads, In, NoCall, DrainPcs, WorkerPcs, poolVars, workerVars, recycleVars, strandVars, nodeVars
<1>30. ASSUME NEW w \in Workers, NEW n \in Nodes, EnqueueDelete(w, n) PROVE PlacesSame
  BY <1>30 DEF EnqueueDelete, PlacesSame, QueuedAt, DrainedBy, ScheduledBy, Inv, TypeOK, CallType,
         Threads, In, NoCall, DrainPcs, WorkerPcs, poolVars, workerVars, recycleVars, strandVars, nodeVars
<1>31. ASSUME NEW w \in Workers, NEW n \in Nodes, MoveToThread(w, n) PROVE PlacesSame
  BY <1>31 DEF MoveToThread, PlacesSame, QueuedAt, DrainedBy, ScheduledBy, Inv, TypeOK, CallType,
         Threads, In, NoCall, DrainPcs, WorkerPcs, poolVars, workerVars, recycleVars, strandVars, nodeVars
<1>32. ASSUME NEW t \in Clients, WaitForDone(t) PROVE PlacesSame
  BY <1>32 DEF WaitForDone, Call, PlacesSame, QueuedAt, DrainedBy, ScheduledBy, Inv, TypeOK, CallType,
         Threads, In, NoCall, DrainPcs, WorkerPcs, poolVars, workerVars, recycleVars, strandVars, nodeVars
<1>33. ASSUME NEW t \in Clients, Shutdown(t) PROVE PlacesSame
  BY <1>33 DEF Shutdown, Call, PlacesSame, QueuedAt, DrainedBy, ScheduledBy, Inv, TypeOK, CallType,
         Threads, In, NoCall, DrainPcs, WorkerPcs, poolVars, workerVars, recycleVars, strandVars, nodeVars
<1>34. ASSUME NEW t \in Clients, NotifyAll(t) PROVE PlacesSame
  BY <1>34 DEF NotifyAll, Call, PlacesSame, QueuedAt, DrainedBy, ScheduledBy, Inv, TypeOK, CallType,
         Threads, In, NoCall, DrainPcs, WorkerPcs, poolVars, workerVars, recycleVars, strandVars, nodeVars
<1>35. ASSUME NEW t \in Clients, JoinWorkers(t) PROVE PlacesSame
  BY <1>35 DEF JoinWorkers, Call, PlacesSame, QueuedAt, DrainedBy, ScheduledBy, Inv, TypeOK, CallType,
         Threads, In, NoCall, DrainPcs, WorkerPcs, poolVars, workerVars, recycleVars, strandVars, nodeVars
<1>36. ASSUME NEW t \in Clients, DestroyRemainingNodes(t) PROVE PlacesSame
  BY <1>36 DEF DestroyRemainingNodes, Call, PlacesSame, QueuedAt, DrainedBy, ScheduledBy, Inv, TypeOK, CallType,
         Threads, In, NoCall, DrainPcs, WorkerPcs, poolVars, workerVars, recycleVars, strandVars, nodeVars
<1>37. ASSUME NEW t \in Clients, ClearStrandQueue(t) PROVE PlacesSame
  BY <1>37 DEF ClearStrandQueue, Call, PlacesSame, QueuedAt, DrainedBy, ScheduledBy, Inv, TypeOK, CallType,
         Threads, In, NoCall, DrainPcs, WorkerPcs, poolVars, workerVars, recycleVars, strandVars, nodeVars
<1>38. ASSUME NEW t \in Clients, ShutdownReturn(t) PROVE PlacesSame
  BY <1>38 DEF ShutdownReturn, Return, PlacesSame, QueuedAt, DrainedBy, ScheduledBy, Inv, TypeOK, CallType,
         Threads, In, NoCall, DrainPcs, WorkerPcs, poolVars, workerVars, recycleVars, strandVars, nodeVars
<1>39. CASE UNCHANGED vars
  BY <1>39 DEF vars, PlacesSame, OneDrainPerStrand, OneDrain, QueuedAt, DrainedBy, ScheduledBy, poolVars, workerVars, recycleVars, strandVars, nodeVars
<1> QED
  BY <1>1, <1>2, <1>3, <1>4, <1>5, <1>6, <1>7, <1>8, <1>9, <1>10, <1>11, <1>12, <1>13, <1>14,
     <1>15, <1>16, <1>17, <1>18, <1>19, <1>20, <1>21, <1>22, <1>23, <1>24, <1>25, <1>26, <1>27, <1>28,
     <1>29, <1>30, <1>31, <1>32, <1>33, <1>34, <1>35, <1>36, <1>37, <1>38, <1>39
     DEF Next, Continue, WorkerStep, ShutdownStep,
         PlacesSame, OneDrainPerStrand, OneDrain

(* Only a refused schedule() clears the flag while work is queued, and the *)
(* pool refuses only once it is joined.                                    *)
LEMMA QueuedWorkStep == Inv /\ QueuedWorkHasADrain /\ [Next]_vars => QueuedWorkHasADrain'
<1> SUFFICES ASSUME Inv /\ QueuedWorkHasADrain, [Next]_vars PROVE QueuedWorkHasADrain'
  OBVIOUS
<1>1. ASSUME NEW t \in Threads, NEW j \in Jobs, Start(t, j) PROVE QueuedWorkHasADrain'
  BY <1>1 DEF Start, Call, UserCode, QueuedWorkHasADrain, Inv, TypeOK, CallsOK, WorkersOK, TeardownOK,
         DrainPcs, In, poolVars, workerVars, recycleVars, strandVars, nodeVars
<1>2. ASSUME NEW t \in Threads, NEW s \in Strands, NEW m \in Msgs, PostEnter(t, s, m) PROVE QueuedWorkHasADrain'
  BY <1>2 DEF PostEnter, Call, UserCode, QueuedWorkHasADrain, Inv, TypeOK, CallsOK, WorkersOK, TeardownOK,
         DrainPcs, In, poolVars, workerVars, recycleVars, strandVars, nodeVars
<1>3. ASSUME NEW t \in Threads, NEW n \in Nodes, MoveToTaskPool(t, n) PROVE QueuedWorkHasADrain'
  BY <1>3 DEF MoveToTaskPool, Call, UserCode, QueuedWorkHasADrain, Inv, TypeOK, CallsOK, WorkersOK, TeardownOK,
         DrainPcs, In, poolVars, workerVars, recycleVars, strandVars, nodeVars
<1>4. ASSUME NEW t \in Threads, NotifyOne(t) PROVE QueuedWorkHasADrain'
  BY <1>4 DEF NotifyOne, Return, QueuedWorkHasADrain, Inv, TypeOK, CallsOK, WorkersOK, TeardownOK,
         DrainPcs, In, poolVars, workerVars, recycleVars, strandVars, nodeVars
<1>5. ASSUME NEW t \in Threads, PostPush(t) PROVE QueuedWorkHasADrain'
  BY <1>5 DEF PostPush, NeedsSchedule, QueuedWorkHasADrain, Inv, TypeOK, CallsOK, WorkersOK, TeardownOK,
         DrainPcs, In, poolVars, workerVars, recycleVars, strandVars, nodeVars
<1>6. ASSUME NEW t \in Threads, PostPushAndSchedule(t) PROVE QueuedWorkHasADrain'
  BY <1>6 DEF PostPushAndSchedule, QueuedWorkHasADrain, Inv, TypeOK, CallsOK, WorkersOK, TeardownOK,
         DrainPcs, In, poolVars, workerVars, recycleVars, strandVars, nodeVars
<1>7. ASSUME NEW t \in Threads, EnqueueStrandDrain(t) PROVE QueuedWorkHasADrain'
  BY <1>7 DEF EnqueueStrandDrain, Call, QueuedWorkHasADrain, Inv, TypeOK, CallsOK, WorkersOK, TeardownOK,
         DrainPcs, In, poolVars, workerVars, recycleVars, strandVars, nodeVars
<1>8. ASSUME NEW t \in Threads, RefuseStrandDrain(t) PROVE QueuedWorkHasADrain'
  BY <1>8 DEF RefuseStrandDrain, Call, QueuedWorkHasADrain, Inv, TypeOK, CallsOK, WorkersOK, TeardownOK,
         DrainPcs, In, poolVars, workerVars, recycleVars, strandVars, nodeVars
<1>9. ASSUME NEW t \in Threads, Unschedule(t) PROVE QueuedWorkHasADrain'
  BY <1>9 DEF Unschedule, Return, QueuedWorkHasADrain, Inv, TypeOK, CallsOK, WorkersOK, TeardownOK,
         DrainPcs, In, poolVars, workerVars, recycleVars, strandVars, nodeVars
<1>10. ASSUME NEW t \in Threads, ReuseStrand(t) PROVE QueuedWorkHasADrain'
  BY <1>10 DEF ReuseStrand, Call, QueuedWorkHasADrain, Inv, TypeOK, CallsOK, WorkersOK, TeardownOK,
         DrainPcs, In, poolVars, workerVars, recycleVars, strandVars, nodeVars
<1>11. ASSUME NEW t \in Threads, NEW s \in Strands, NewStrand(t, s) PROVE QueuedWorkHasADrain'
  BY <1>11 DEF NewStrand, Call, QueuedWorkHasADrain, Inv, TypeOK, CallsOK, WorkersOK, TeardownOK,
         DrainPcs, In, poolVars, workerVars, recycleVars, strandVars, nodeVars
<1>12. ASSUME NEW t \in Threads, ApplyMoveTo(t) PROVE QueuedWorkHasADrain'
  BY <1>12 DEF ApplyMoveTo, Call, QueuedWorkHasADrain, Inv, TypeOK, CallsOK, WorkersOK, TeardownOK,
         DrainPcs, In, poolVars, workerVars, recycleVars, strandVars, nodeVars
<1>13. ASSUME NEW t \in Threads, ReleaseStrandReservation(t) PROVE QueuedWorkHasADrain'
  BY <1>13 DEF ReleaseStrandReservation, Return, QueuedWorkHasADrain, Inv, TypeOK, CallsOK, WorkersOK, TeardownOK,
         DrainPcs, In, poolVars, workerVars, recycleVars, strandVars, nodeVars
<1>14. ASSUME NEW t \in Threads, WaitForDoneReturn(t) PROVE QueuedWorkHasADrain'
  BY <1>14 DEF WaitForDoneReturn, Return, QueuedWorkHasADrain, Inv, TypeOK, CallsOK, WorkersOK, TeardownOK,
         DrainPcs, In, poolVars, workerVars, recycleVars, strandVars, nodeVars
<1>15. ASSUME NEW t \in Threads, WaitForDoneBlock(t) PROVE QueuedWorkHasADrain'
  BY <1>15 DEF WaitForDoneBlock, Call, QueuedWorkHasADrain, Inv, TypeOK, CallsOK, WorkersOK, TeardownOK,
         DrainPcs, In, poolVars, workerVars, recycleVars, strandVars, nodeVars
<1>16. ASSUME NEW w \in Workers, TakeJob(w) PROVE QueuedWorkHasADrain'
  BY <1>16 DEF TakeJob, HasWork, QueuedWorkHasADrain, Inv, TypeOK, CallsOK, WorkersOK, TeardownOK,
         DrainPcs, In, poolVars, workerVars, recycleVars, strandVars, nodeVars
<1>17. ASSUME NEW w \in Workers, TakeDrain(w) PROVE QueuedWorkHasADrain'
  BY <1>17 DEF TakeDrain, HasWork, QueuedWorkHasADrain, Inv, TypeOK, CallsOK, WorkersOK, TeardownOK,
         DrainPcs, In, poolVars, workerVars, recycleVars, strandVars, nodeVars
<1>18. ASSUME NEW w \in Workers, WaitOrExit(w) PROVE QueuedWorkHasADrain'
  BY <1>18 DEF WaitOrExit, QueuedWorkHasADrain, Inv, TypeOK, CallsOK, WorkersOK, TeardownOK,
         DrainPcs, In, poolVars, workerVars, recycleVars, strandVars, nodeVars
<1>19. ASSUME NEW w \in Workers, JobEnd(w) PROVE QueuedWorkHasADrain'
  BY <1>19 DEF JobEnd, QueuedWorkHasADrain, Inv, TypeOK, CallsOK, WorkersOK, TeardownOK,
         DrainPcs, In, poolVars, workerVars, recycleVars, strandVars, nodeVars
<1>20. ASSUME NEW w \in Workers, DrainNext(w) PROVE QueuedWorkHasADrain'
  BY <1>20 DEF DrainNext, BatchLeft, QueuedWorkHasADrain, Inv, TypeOK, CallsOK, WorkersOK, TeardownOK,
         DrainPcs, In, poolVars, workerVars, recycleVars, strandVars, nodeVars
<1>21. ASSUME NEW w \in Workers, DrainBatchOver(w) PROVE QueuedWorkHasADrain'
  BY <1>21 DEF DrainBatchOver, QueuedWorkHasADrain, Inv, TypeOK, CallsOK, WorkersOK, TeardownOK,
         DrainPcs, In, poolVars, workerVars, recycleVars, strandVars, nodeVars
<1>22. ASSUME NEW w \in Workers, StrandTaskEnd(w) PROVE QueuedWorkHasADrain'
  BY <1>22 DEF StrandTaskEnd, QueuedWorkHasADrain, Inv, TypeOK, CallsOK, WorkersOK, TeardownOK,
         DrainPcs, In, poolVars, workerVars, recycleVars, strandVars, nodeVars
<1>23. ASSUME NEW w \in Workers, RunPendingDeletes(w) PROVE QueuedWorkHasADrain'
  BY <1>23 DEF RunPendingDeletes, QueuedWorkHasADrain, Inv, TypeOK, CallsOK, WorkersOK, TeardownOK,
         DrainPcs, In, poolVars, workerVars, recycleVars, strandVars, nodeVars
<1>24. ASSUME NEW w \in Workers, DrainAgain(w) PROVE QueuedWorkHasADrain'
  BY <1>24 DEF DrainAgain, Call, QueuedWorkHasADrain, Inv, TypeOK, CallsOK, WorkersOK, TeardownOK,
         DrainPcs, In, poolVars, workerVars, recycleVars, strandVars, nodeVars
<1>25. ASSUME NEW w \in Workers, DrainDone(w) PROVE QueuedWorkHasADrain'
  BY <1>25 DEF DrainDone, More, QueuedWorkHasADrain, Inv, TypeOK, CallsOK, WorkersOK, TeardownOK,
         DrainPcs, In, poolVars, workerVars, recycleVars, strandVars, nodeVars
<1>26. ASSUME NEW w \in Workers, RecycleStrandIfIdle(w) PROVE QueuedWorkHasADrain'
  BY <1>26 DEF RecycleStrandIfIdle, QueuedWorkHasADrain, Inv, TypeOK, CallsOK, WorkersOK, TeardownOK,
         DrainPcs, In, poolVars, workerVars, recycleVars, strandVars, nodeVars
<1>27. ASSUME NEW w \in Workers, TaskEnd(w) PROVE QueuedWorkHasADrain'
  BY <1>27 DEF TaskEnd, QueuedWorkHasADrain, Inv, TypeOK, CallsOK, WorkersOK, TeardownOK,
         DrainPcs, In, poolVars, workerVars, recycleVars, strandVars, nodeVars
<1>28. ASSUME NEW w \in Workers, SpuriousWake(w) PROVE QueuedWorkHasADrain'
  BY <1>28 DEF SpuriousWake, QueuedWorkHasADrain, Inv, TypeOK, CallsOK, WorkersOK, TeardownOK,
         DrainPcs, In, poolVars, workerVars, recycleVars, strandVars, nodeVars
<1>29. ASSUME NEW w \in Workers, NEW n \in Nodes, CreateNode(w, n) PROVE QueuedWorkHasADrain'
  BY <1>29 DEF CreateNode, QueuedWorkHasADrain, Inv, TypeOK, CallsOK, WorkersOK, TeardownOK,
         DrainPcs, In, poolVars, workerVars, recycleVars, strandVars, nodeVars
<1>30. ASSUME NEW w \in Workers, NEW n \in Nodes, EnqueueDelete(w, n) PROVE QueuedWorkHasADrain'
  BY <1>30 DEF EnqueueDelete, QueuedWorkHasADrain, Inv, TypeOK, CallsOK, WorkersOK, TeardownOK,
         DrainPcs, In, poolVars, workerVars, recycleVars, strandVars, nodeVars
<1>31. ASSUME NEW w \in Workers, NEW n \in Nodes, MoveToThread(w, n) PROVE QueuedWorkHasADrain'
  BY <1>31 DEF MoveToThread, QueuedWorkHasADrain, Inv, TypeOK, CallsOK, WorkersOK, TeardownOK,
         DrainPcs, In, poolVars, workerVars, recycleVars, strandVars, nodeVars
<1>32. ASSUME NEW t \in Clients, WaitForDone(t) PROVE QueuedWorkHasADrain'
  BY <1>32 DEF WaitForDone, Call, QueuedWorkHasADrain, Inv, TypeOK, CallsOK, WorkersOK, TeardownOK,
         DrainPcs, In, poolVars, workerVars, recycleVars, strandVars, nodeVars
<1>33. ASSUME NEW t \in Clients, Shutdown(t) PROVE QueuedWorkHasADrain'
  BY <1>33 DEF Shutdown, Call, QueuedWorkHasADrain, Inv, TypeOK, CallsOK, WorkersOK, TeardownOK,
         DrainPcs, In, poolVars, workerVars, recycleVars, strandVars, nodeVars
<1>34. ASSUME NEW t \in Clients, NotifyAll(t) PROVE QueuedWorkHasADrain'
  BY <1>34 DEF NotifyAll, Call, QueuedWorkHasADrain, Inv, TypeOK, CallsOK, WorkersOK, TeardownOK,
         DrainPcs, In, poolVars, workerVars, recycleVars, strandVars, nodeVars
<1>35. ASSUME NEW t \in Clients, JoinWorkers(t) PROVE QueuedWorkHasADrain'
  BY <1>35 DEF JoinWorkers, Call, QueuedWorkHasADrain, Inv, TypeOK, CallsOK, WorkersOK, TeardownOK,
         DrainPcs, In, poolVars, workerVars, recycleVars, strandVars, nodeVars
<1>36. ASSUME NEW t \in Clients, DestroyRemainingNodes(t) PROVE QueuedWorkHasADrain'
  BY <1>36 DEF DestroyRemainingNodes, Call, QueuedWorkHasADrain, Inv, TypeOK, CallsOK, WorkersOK, TeardownOK,
         DrainPcs, In, poolVars, workerVars, recycleVars, strandVars, nodeVars
<1>37. ASSUME NEW t \in Clients, ClearStrandQueue(t) PROVE QueuedWorkHasADrain'
  BY <1>37 DEF ClearStrandQueue, Call, QueuedWorkHasADrain, Inv, TypeOK, CallsOK, WorkersOK, TeardownOK,
         DrainPcs, In, poolVars, workerVars, recycleVars, strandVars, nodeVars
<1>38. ASSUME NEW t \in Clients, ShutdownReturn(t) PROVE QueuedWorkHasADrain'
  BY <1>38 DEF ShutdownReturn, Return, QueuedWorkHasADrain, Inv, TypeOK, CallsOK, WorkersOK, TeardownOK,
         DrainPcs, In, poolVars, workerVars, recycleVars, strandVars, nodeVars
<1>39. CASE UNCHANGED vars
  BY <1>39 DEF vars, QueuedWorkHasADrain, Inv, TypeOK, CallsOK, WorkersOK, TeardownOK,
         DrainPcs, In, poolVars, workerVars, recycleVars, strandVars, nodeVars
<1> QED
  BY <1>1, <1>2, <1>3, <1>4, <1>5, <1>6, <1>7, <1>8, <1>9, <1>10, <1>11, <1>12, <1>13, <1>14,
     <1>15, <1>16, <1>17, <1>18, <1>19, <1>20, <1>21, <1>22, <1>23, <1>24, <1>25, <1>26, <1>27, <1>28,
     <1>29, <1>30, <1>31, <1>32, <1>33, <1>34, <1>35, <1>36, <1>37, <1>38, <1>39
     DEF Next, Continue, WorkerStep, ShutdownStep

-----------------------------------------------------------------------------
PoolInv == Inv /\ ActiveTasksExact /\ OneDrainPerStrand /\ QueuedWorkHasADrain

LEMMA PoolInvInit == Init => PoolInv
<1> SUFFICES ASSUME Init PROVE PoolInv
  OBVIOUS
<1>1. Inv
  <2>1. call \in [Threads -> CallType] /\ \A t \in Threads : call[t].op = "none"
    BY DEF Init, NoCall, CallType, Ops
  <2>2. ran \in [Workers -> 0 .. BatchSize]
    BY PoolAssumption DEF Init
  <2>3. sQueue \in [Strands -> Seq(Msgs)] /\ m_queue \in Seq(Jobs \union Strands) /\ m_freeStrands \in Seq(Strands)
    BY DEF Init
  <2>4. wpc \in [Workers -> WorkerPcs] /\ cur \in [Workers -> Strands \union {NoStrand}]
    BY DEF Init, WorkerPcs
  <2>5. TypeOK
    BY <2>1, <2>2, <2>3, <2>4 DEF Init, TypeOK
  <2>6. CallsOK /\ WorkersOK /\ TeardownOK
    BY <2>1 DEF Init, CallsOK, WorkersOK, TeardownOK, In, DrainPcs, Threads
  <2> QED
    BY <2>5, <2>6 DEF Inv
<1>2. Busy = {}
  BY DEF Init, Busy
<1>3. ActiveTasksExact
  BY <1>2, FS_EmptySet DEF Init, ActiveTasksExact
<1>4. ASSUME NEW s \in Strands PROVE QueuedAt(s) = {} /\ DrainedBy(s) = {} /\ ScheduledBy(s) = {}
  BY DEF Init, QueuedAt, DrainedBy, ScheduledBy, DrainPcs, NoCall
<1>5. OneDrainPerStrand
  BY <1>4 DEF Init, OneDrainPerStrand, OneDrain
<1>6. QueuedWorkHasADrain
  BY DEF Init, QueuedWorkHasADrain
<1> QED
  BY <1>1, <1>3, <1>5, <1>6 DEF PoolInv

LEMMA PoolInvStep == PoolInv /\ [Next]_vars => PoolInv'
<1> SUFFICES ASSUME PoolInv, [Next]_vars PROVE PoolInv'
  OBVIOUS
<1>1. Inv /\ ActiveTasksExact /\ OneDrainPerStrand /\ QueuedWorkHasADrain
  BY DEF PoolInv
<1>2. ActiveTasksExact'
  BY <1>1, ActiveStep
<1>3. m_activeTasks' \in Nat
  BY <1>2, PoolAssumption, FS_Subset, FS_CardinalityType DEF ActiveTasksExact, Busy
<1>4. Inv'
  BY <1>1, <1>3, InvStep
<1>5. OneDrainPerStrand'
  BY <1>1, DrainStep
<1>6. QueuedWorkHasADrain'
  BY <1>1, QueuedWorkStep
<1> QED
  BY <1>2, <1>4, <1>5, <1>6 DEF PoolInv

(* The inductive invariant: types, registers, the count of active tasks,   *)
(* one drain per scheduled strand, a drain for all queued work.            *)
THEOREM PoolInvariant == Spec => []PoolInv
BY PoolInvInit, PoolInvStep, PTL DEF Spec

(* TypeOK holds for every pool: registers and queues of TaskPool.cpp and   *)
(* Strand.cpp keep their types, m_activeTasks never goes below zero and a  *)
(* batch never runs more than kBatchSize tasks.                            *)
THEOREM TypeCorrect == Spec => []TypeOK
<1>1. PoolInv => TypeOK
  BY DEF PoolInv, Inv
<1> QED
  BY <1>1, PoolInvariant, PTL

(* m_activeTasks is exact in every pool, so waitForDone() tests what it    *)
(* says.                                                                   *)
THEOREM ActiveTasksCorrect == Spec => []ActiveTasksExact
<1>1. PoolInv => ActiveTasksExact
  BY DEF PoolInv
<1> QED
  BY <1>1, PoolInvariant, PTL

(* A strand of any pool has a drain queued or running exactly while its    *)
(* m_scheduled is set, and only one.                                       *)
THEOREM OneDrainCorrect == Spec => []OneDrainPerStrand
<1>1. PoolInv => OneDrainPerStrand
  BY DEF PoolInv
<1> QED
  BY <1>1, PoolInvariant, PTL

(* Work posted to a strand is never left without a drain while the pool    *)
(* runs, whatever the interleaving of post() with the end of drain().      *)
THEOREM QueuedWorkCorrect == Spec => []QueuedWorkHasADrain
<1>1. PoolInv => QueuedWorkHasADrain
  BY DEF PoolInv
<1> QED
  BY <1>1, PoolInvariant, PTL

(* No two workers are ever inside the same strand, and none is inside a    *)
(* strand that shutdown() tears down.                                      *)
THEOREM StrandsSerialCorrect == Spec => []StrandsAreSerial
<1>1. PoolInv => StrandsAreSerial
  <2> SUFFICES ASSUME PoolInv, NEW s \in Strands
               PROVE  /\ \A v, w \in Inside(s) : v = w
                      /\ s \in m_retired => Inside(s) = {}
    BY DEF StrandsAreSerial
  <2>1. Inside(s) \subseteq DrainedBy(s)
    BY DEF Inside, DrainedBy, DrainPcs
  <2>2. \A v, w \in DrainedBy(s) : v = w
    BY DEF PoolInv, OneDrainPerStrand, OneDrain
  <2>3. s \in m_retired => Inside(s) = {}
    BY DEF PoolInv, Inv, TeardownOK, Inside
  <2> QED
    BY <2>1, <2>2, <2>3
<1> QED
  BY <1>1, PoolInvariant, PTL

(* The four together: what the runs check of a small pool holds for every  *)
(* number of workers, clients, jobs, strands and nodes.                    *)
THEOREM PoolSafeCorrect == Spec => []PoolSafe
<1>1. ActiveTasksExact /\ OneDrainPerStrand /\ QueuedWorkHasADrain /\ StrandsAreSerial => PoolSafe
  BY DEF PoolSafe
<1> QED
  BY <1>1, ActiveTasksCorrect, OneDrainCorrect, QueuedWorkCorrect, StrandsSerialCorrect, PTL

-----------------------------------------------------------------------------
(* The threads between taking a strand and giving its reservation back.    *)
Holding(t) == call[t].op \in {"move", "release"}

(* Whatever names a strand names one that was created.                     *)
StrandsKnown ==
  /\ m_scheduled \subseteq m_strands /\ m_reserved \subseteq m_strands
  /\ \A t \in Threads : call[t].op = "post" => call[t].s \in m_strands
  /\ \A w \in Workers : wpc[w] = "recycle" => cur[w] \in m_strands

(* A strand in the hands of a thread is reserved, for that thread alone.   *)
ReservationsHeld ==
  /\ \A t \in Threads : Holding(t) => call[t].s \in m_reserved
  /\ \A t, u \in Threads : Holding(t) /\ Holding(u) /\ call[t].s = call[u].s => t = u

RecycleInv == StrandsKnown /\ ReservationsHeld /\ FreeStrandsAreUnused

(* What most actions do to the strands' recycling: nothing.                *)
RecycleFrame ==
  /\ UNCHANGED <<m_strands, m_freeStrands, m_reserved, m_scheduled, home>>
  /\ \A t \in Threads : call'[t] = call[t] \/ call'[t].op \notin {"post", "move", "release"}
  /\ \A w \in Workers : wpc'[w] = "recycle" => wpc[w] = "recycle" /\ cur'[w] = cur[w]

(* The list with one more strand at its end.                               *)
LEMMA FreeAppend ==
  ASSUME TypeOK, NEW s \in Strands, m_freeStrands' = Append(m_freeStrands, s), s \notin Range(m_freeStrands),
         \A i, j \in DOMAIN m_freeStrands : m_freeStrands[i] = m_freeStrands[j] => i = j
  PROVE  /\ \A i, j \in DOMAIN m_freeStrands' : m_freeStrands'[i] = m_freeStrands'[j] => i = j
         /\ Range(m_freeStrands') = Range(m_freeStrands) \union {s}
<1>1. /\ DOMAIN m_freeStrands = 1 .. Len(m_freeStrands) /\ Len(m_freeStrands) \in Nat
      /\ DOMAIN m_freeStrands' = 1 .. Len(m_freeStrands) + 1
      /\ \A i \in 1 .. Len(m_freeStrands) : m_freeStrands'[i] = m_freeStrands[i]
      /\ m_freeStrands'[Len(m_freeStrands) + 1] = s
  BY DEF TypeOK
<1>2. \A i \in 1 .. Len(m_freeStrands) : m_freeStrands[i] # s
  BY <1>1 DEF Range
<1>3. \A i, j \in 1 .. Len(m_freeStrands) + 1 : m_freeStrands'[i] = m_freeStrands'[j] => i = j
  BY <1>1, <1>2
<1>4. Range(m_freeStrands') = Range(m_freeStrands) \union {s}
  BY <1>1 DEF Range
<1> QED
  BY <1>1, <1>3, <1>4

(* ... and without its last one, which acquireStrand() hands out.          *)
LEMMA FreeFront ==
  ASSUME TypeOK, m_freeStrands # <<>>, m_freeStrands' = SubSeq(m_freeStrands, 1, Len(m_freeStrands) - 1),
         \A i, j \in DOMAIN m_freeStrands : m_freeStrands[i] = m_freeStrands[j] => i = j
  PROVE  /\ m_freeStrands[Len(m_freeStrands)] \in Range(m_freeStrands)
         /\ m_freeStrands[Len(m_freeStrands)] \notin Range(m_freeStrands')
         /\ Range(m_freeStrands) = Range(m_freeStrands') \union {m_freeStrands[Len(m_freeStrands)]}
         /\ \A i, j \in DOMAIN m_freeStrands' : m_freeStrands'[i] = m_freeStrands'[j] => i = j
<1> DEFINE n == Len(m_freeStrands)
<1>1. /\ n \in Nat \ {0} /\ DOMAIN m_freeStrands = 1 .. n /\ DOMAIN m_freeStrands' = 1 .. n - 1
      /\ \A i \in 1 .. n - 1 : m_freeStrands'[i] = m_freeStrands[i]
  BY DEF TypeOK
<1> HIDE DEF n
<1>2. n \in 1 .. n /\ 1 .. n = (1 .. n - 1) \union {n} /\ n \notin 1 .. n - 1
  BY <1>1
<1>3. m_freeStrands[n] \in Range(m_freeStrands)
  BY <1>1, <1>2 DEF Range
<1>4. m_freeStrands[n] \notin Range(m_freeStrands')
  BY <1>1, <1>2 DEF Range
<1>5. Range(m_freeStrands) = Range(m_freeStrands') \union {m_freeStrands[n]}
  <2>1. ASSUME NEW x \in Range(m_freeStrands), x # m_freeStrands[n] PROVE x \in Range(m_freeStrands')
    <3>1. PICK i \in 1 .. n : x = m_freeStrands[i]
      BY <1>1 DEF Range
    <3>2. i \in 1 .. n - 1 /\ x = m_freeStrands'[i]
      BY <1>1, <1>2, <2>1, <3>1
    <3> QED
      BY <1>1, <3>2 DEF Range
  <2>2. \A x \in Range(m_freeStrands') : x \in Range(m_freeStrands)
    BY <1>1, <1>2 DEF Range
  <2> QED
    BY <2>1, <2>2, <1>3
<1>6. \A i, j \in DOMAIN m_freeStrands' : m_freeStrands'[i] = m_freeStrands'[j] => i = j
  BY <1>1, <1>2
<1> QED
  BY <1>3, <1>4, <1>5, <1>6 DEF n

(* The free list is touched by acquireStrand(), by releaseStrandReservation() *)
(* and by recycleStrandIfIdle(); a free strand gets no node since only a   *)
(* strand that is reserved or already owns a node does.                    *)
LEMMA RecycleStep == PoolInv /\ RecycleInv /\ [Next]_vars => RecycleInv'
<1> SUFFICES ASSUME PoolInv, RecycleInv, [Next]_vars PROVE RecycleInv'
  OBVIOUS
<1>i. Inv
  BY DEF PoolInv
<1>f. RecycleFrame => RecycleInv'
  BY <1>i DEF RecycleFrame, RecycleInv, StrandsKnown, ReservationsHeld, Holding, FreeStrandsAreUnused, LiveOn
<1>1. ASSUME NEW t \in Threads, NEW j \in Jobs, Start(t, j) PROVE RecycleFrame
  BY <1>i, <1>1 DEF Start, Call, UserCode, RecycleFrame, Inv, TypeOK, CallType, Threads, In, NoCall,
         WorkerPcs, poolVars, workerVars, recycleVars, strandVars, nodeVars
<1>2. ASSUME NEW t \in Threads, NEW s \in Strands, NEW m \in Msgs, PostEnter(t, s, m) PROVE RecycleInv'
  BY <1>i, <1>2 DEF PostEnter, Call, UserCode, RecycleInv, StrandsKnown, ReservationsHeld,
         FreeStrandsAreUnused, LiveOn, Holding, Inv, TypeOK, CallType, Threads, In, NoCall,
         WorkerPcs, poolVars, workerVars, recycleVars, strandVars, nodeVars
<1>3. ASSUME NEW t \in Threads, NEW n \in Nodes, MoveToTaskPool(t, n) PROVE RecycleFrame
  BY <1>i, <1>3 DEF MoveToTaskPool, Call, UserCode, RecycleFrame, Inv, TypeOK, CallType, Threads, In,
         NoCall, WorkerPcs, poolVars, workerVars, recycleVars, strandVars, nodeVars
<1>4. ASSUME NEW t \in Threads, NotifyOne(t) PROVE RecycleFrame
  BY <1>i, <1>4 DEF NotifyOne, Return, RecycleFrame, Inv, TypeOK, CallType, Threads, In, NoCall, WorkerPcs,
         poolVars, workerVars, recycleVars, strandVars, nodeVars
<1>5. ASSUME NEW t \in Threads, PostPush(t) PROVE RecycleFrame
  BY <1>i, <1>5 DEF PostPush, Return, RecycleFrame, Inv, TypeOK, CallType, Threads, In, NoCall, WorkerPcs,
         poolVars, workerVars, recycleVars, strandVars, nodeVars
<1>6. ASSUME NEW t \in Threads, PostPushAndSchedule(t) PROVE RecycleInv'
  BY <1>i, <1>6 DEF PostPushAndSchedule, Call, RecycleInv, StrandsKnown, ReservationsHeld,
         FreeStrandsAreUnused, LiveOn, Holding, Inv, TypeOK, CallType, Threads, In, NoCall,
         WorkerPcs, poolVars, workerVars, recycleVars, strandVars, nodeVars
<1>7. ASSUME NEW t \in Threads, EnqueueStrandDrain(t) PROVE RecycleFrame
  BY <1>i, <1>7 DEF EnqueueStrandDrain, Call, RecycleFrame, Inv, TypeOK, CallType, Threads, In, NoCall,
         WorkerPcs, poolVars, workerVars, recycleVars, strandVars, nodeVars
<1>8. ASSUME NEW t \in Threads, RefuseStrandDrain(t) PROVE RecycleFrame
  BY <1>i, <1>8 DEF RefuseStrandDrain, Call, RecycleFrame, Inv, TypeOK, CallType, Threads, In, NoCall,
         WorkerPcs, poolVars, workerVars, recycleVars, strandVars, nodeVars
<1>9. ASSUME NEW t \in Threads, Unschedule(t) PROVE RecycleInv'
  BY <1>i, <1>9 DEF Unschedule, Return, RecycleInv, StrandsKnown, ReservationsHeld, FreeStrandsAreUnused,
         LiveOn, Holding, Inv, TypeOK, CallType, Threads, In, NoCall, WorkerPcs, poolVars,
         workerVars, recycleVars, strandVars, nodeVars
<1>10. ASSUME NEW t \in Threads, ReuseStrand(t) PROVE RecycleInv'
  <2>1. PICK s \in Strands : s = m_freeStrands[Len(m_freeStrands)]
    BY <1>i, <1>10 DEF ReuseStrand, Inv, TypeOK
  <2>2. /\ s \in Range(m_freeStrands) /\ s \notin Range(m_freeStrands')
        /\ Range(m_freeStrands) = Range(m_freeStrands') \union {s}
        /\ \A i, j \in DOMAIN m_freeStrands' : m_freeStrands'[i] = m_freeStrands'[j] => i = j
    BY <1>i, <1>10, <2>1, FreeFront DEF ReuseStrand, Inv, RecycleInv, FreeStrandsAreUnused
  <2>3. s \in m_strands \ m_reserved
    BY <2>2 DEF RecycleInv, FreeStrandsAreUnused
  <2>5. FreeStrandsAreUnused'
    BY <1>i, <1>10, <2>1, <2>2 DEF ReuseStrand, RecycleInv, FreeStrandsAreUnused, LiveOn, nodeVars
  <2>6. /\ call' = [call EXCEPT ![t] = [op |-> "move", s |-> s, x |-> call[t].x]]
        /\ m_reserved' = m_reserved \union {s}
        /\ UNCHANGED <<wpc, cur, m_strands, m_scheduled>>
    BY <1>i, <1>10, <2>1 DEF ReuseStrand, Call, workerVars, strandVars
  <2>7. StrandsKnown' /\ ReservationsHeld'
    BY <1>i, <2>3, <2>6 DEF RecycleInv, StrandsKnown, ReservationsHeld, Holding, Inv, TypeOK, CallType
  <2> QED
    BY <2>5, <2>7 DEF RecycleInv
<1>11. ASSUME NEW t \in Threads, NEW s \in Strands, NewStrand(t, s) PROVE RecycleInv'
  BY <1>i, <1>11 DEF NewStrand, Call, RecycleInv, StrandsKnown, ReservationsHeld, FreeStrandsAreUnused,
         LiveOn, Holding, Inv, TypeOK, CallType, Threads, In, NoCall, WorkerPcs, poolVars,
         workerVars, recycleVars, strandVars, nodeVars
<1>12. ASSUME NEW t \in Threads, ApplyMoveTo(t) PROVE RecycleInv'
  BY <1>i, <1>12 DEF ApplyMoveTo, Call, RecycleInv, StrandsKnown, ReservationsHeld, FreeStrandsAreUnused,
         LiveOn, Holding, Inv, TypeOK, CallType, Threads, In, NoCall, WorkerPcs, poolVars,
         workerVars, recycleVars, strandVars, nodeVars
<1>13. ASSUME NEW t \in Threads, ReleaseStrandReservation(t) PROVE RecycleInv'
  <2>1. call[t].s \in m_strands /\ call[t].s \in Strands
    BY <1>i, <1>13 DEF ReleaseStrandReservation, In, Inv, TypeOK, RecycleInv, StrandsKnown, ReservationsHeld, Holding
  <2>2. FreeStrandsAreUnused'
    <3>1. CASE m_freeStrands' = m_freeStrands
      BY <1>i, <1>13, <3>1 DEF ReleaseStrandReservation, RecycleInv, FreeStrandsAreUnused, LiveOn, nodeVars
    <3>2. CASE /\ m_freeStrands' = Append(m_freeStrands, call[t].s) /\ call[t].s \notin Range(m_freeStrands)
               /\ call[t].s \notin m_reserved' /\ LiveOn(call[t].s) = {}
      BY <1>i, <1>13, <2>1, <3>2, FreeAppend DEF ReleaseStrandReservation, Inv, RecycleInv, FreeStrandsAreUnused, LiveOn, nodeVars
    <3> QED
      BY <1>i, <1>13, <3>1, <3>2 DEF ReleaseStrandReservation, IsRecyclable
  <2>3. StrandsKnown' /\ ReservationsHeld'
    BY <1>i, <1>13 DEF ReleaseStrandReservation, Return, RecycleInv, StrandsKnown, ReservationsHeld, Holding,
         Inv, TypeOK, CallType, Threads, In, NoCall, WorkerPcs, poolVars, workerVars, recycleVars, strandVars, nodeVars
  <2> QED
    BY <2>2, <2>3 DEF RecycleInv
<1>14. ASSUME NEW t \in Threads, WaitForDoneReturn(t) PROVE RecycleFrame
  BY <1>i, <1>14 DEF WaitForDoneReturn, Return, RecycleFrame, Inv, TypeOK, CallType, Threads, In, NoCall,
         WorkerPcs, poolVars, workerVars, recycleVars, strandVars, nodeVars
<1>15. ASSUME NEW t \in Threads, WaitForDoneBlock(t) PROVE RecycleFrame
  BY <1>i, <1>15 DEF WaitForDoneBlock, Call, RecycleFrame, Inv, TypeOK, CallType, Threads, In, NoCall,
         WorkerPcs, poolVars, workerVars, recycleVars, strandVars, nodeVars
<1>16. ASSUME NEW w \in Workers, TakeJob(w) PROVE RecycleFrame
  BY <1>i, <1>16 DEF TakeJob, RecycleFrame, Inv, TypeOK, CallType, Threads, In, NoCall, WorkerPcs,
         poolVars, workerVars, recycleVars, strandVars, nodeVars
<1>17. ASSUME NEW w \in Workers, TakeDrain(w) PROVE RecycleFrame
  BY <1>i, <1>17 DEF TakeDrain, RecycleFrame, Inv, TypeOK, CallType, Threads, In, NoCall, WorkerPcs,
         poolVars, workerVars, recycleVars, strandVars, nodeVars
<1>18. ASSUME NEW w \in Workers, WaitOrExit(w) PROVE RecycleFrame
  BY <1>i, <1>18 DEF WaitOrExit, RecycleFrame, Inv, TypeOK, CallType, Threads, In, NoCall, WorkerPcs,
         poolVars, workerVars, recycleVars, strandVars, nodeVars
<1>19. ASSUME NEW w \in Workers, JobEnd(w) PROVE RecycleFrame
  BY <1>i, <1>19 DEF JobEnd, RecycleFrame, Inv, TypeOK, CallType, Threads, In, NoCall, WorkerPcs, poolVars,
         workerVars, recycleVars, strandVars, nodeVars
<1>20. ASSUME NEW w \in Workers, DrainNext(w) PROVE RecycleFrame
  BY <1>i, <1>20 DEF DrainNext, RecycleFrame, Inv, TypeOK, CallType, Threads, In, NoCall, WorkerPcs,
         poolVars, workerVars, recycleVars, strandVars, nodeVars
<1>21. ASSUME NEW w \in Workers, DrainBatchOver(w) PROVE RecycleFrame
  BY <1>i, <1>21 DEF DrainBatchOver, RecycleFrame, Inv, TypeOK, CallType, Threads, In, NoCall, WorkerPcs,
         poolVars, workerVars, recycleVars, strandVars, nodeVars
<1>22. ASSUME NEW w \in Workers, StrandTaskEnd(w) PROVE RecycleFrame
  BY <1>i, <1>22 DEF StrandTaskEnd, RecycleFrame, Inv, TypeOK, CallType, Threads, In, NoCall, WorkerPcs,
         poolVars, workerVars, recycleVars, strandVars, nodeVars
<1>23. ASSUME NEW w \in Workers, RunPendingDeletes(w) PROVE RecycleInv'
  BY <1>i, <1>23, PoolAssumption DEF RunPendingDeletes, RecycleInv, StrandsKnown, ReservationsHeld,
         FreeStrandsAreUnused, LiveOn, Holding, Inv, TypeOK, CallType, Threads, In, NoCall,
         WorkerPcs, poolVars, workerVars, recycleVars, strandVars, nodeVars
<1>24. ASSUME NEW w \in Workers, DrainAgain(w) PROVE RecycleFrame
  BY <1>i, <1>24 DEF DrainAgain, Call, RecycleFrame, Inv, TypeOK, CallType, Threads, In, NoCall, WorkerPcs,
         poolVars, workerVars, recycleVars, strandVars, nodeVars
<1>25. ASSUME NEW w \in Workers, DrainDone(w) PROVE RecycleInv'
  <2>1. cur[w] \in m_scheduled
    BY <1>i, <1>25 DEF DrainDone, DrainedBy, DrainPcs, PoolInv, Inv, WorkersOK, OneDrainPerStrand, OneDrain
  <2> QED
    BY <1>i, <1>25, <2>1 DEF DrainDone, RecycleInv, StrandsKnown, ReservationsHeld, FreeStrandsAreUnused, LiveOn, Holding,
         Inv, TypeOK, CallType, Threads, In, NoCall, WorkerPcs, poolVars, workerVars, recycleVars, strandVars, nodeVars
<1>26. ASSUME NEW w \in Workers, RecycleStrandIfIdle(w) PROVE RecycleInv'
  <2>1. cur[w] \in m_strands /\ cur[w] \in Strands
    BY <1>i, <1>26 DEF RecycleStrandIfIdle, Inv, TypeOK, RecycleInv, StrandsKnown
  <2>2. FreeStrandsAreUnused'
    <3>1. CASE m_freeStrands' = m_freeStrands
      BY <1>i, <1>26, <3>1 DEF RecycleStrandIfIdle, RecycleInv, FreeStrandsAreUnused, LiveOn, nodeVars
    <3>2. CASE /\ m_freeStrands' = Append(m_freeStrands, cur[w]) /\ cur[w] \notin Range(m_freeStrands)
               /\ cur[w] \notin m_reserved' /\ LiveOn(cur[w]) = {}
      BY <1>i, <1>26, <2>1, <3>2, FreeAppend DEF RecycleStrandIfIdle, Inv, RecycleInv, FreeStrandsAreUnused, LiveOn, nodeVars
    <3> QED
      BY <1>i, <1>26, <3>1, <3>2 DEF RecycleStrandIfIdle, IsRecyclable
  <2>3. StrandsKnown' /\ ReservationsHeld'
    BY <1>i, <1>26 DEF RecycleStrandIfIdle, Return, RecycleInv, StrandsKnown, ReservationsHeld, Holding,
         Inv, TypeOK, CallType, Threads, In, NoCall, WorkerPcs, poolVars, workerVars, recycleVars, strandVars, nodeVars
  <2> QED
    BY <2>2, <2>3 DEF RecycleInv
<1>27. ASSUME NEW w \in Workers, TaskEnd(w) PROVE RecycleFrame
  BY <1>i, <1>27 DEF TaskEnd, RecycleFrame, Inv, TypeOK, CallType, Threads, In, NoCall, WorkerPcs,
         poolVars, workerVars, recycleVars, strandVars, nodeVars
<1>28. ASSUME NEW w \in Workers, SpuriousWake(w) PROVE RecycleFrame
  BY <1>i, <1>28 DEF SpuriousWake, RecycleFrame, Inv, TypeOK, CallType, Threads, In, NoCall, WorkerPcs,
         poolVars, workerVars, recycleVars, strandVars, nodeVars
<1>29. ASSUME NEW w \in Workers, NEW n \in Nodes, CreateNode(w, n) PROVE RecycleInv'
  BY <1>i, <1>29 DEF CreateNode, RecycleInv, StrandsKnown, ReservationsHeld, FreeStrandsAreUnused, LiveOn,
         Holding, Inv, TypeOK, CallType, Threads, In, NoCall, WorkerPcs, poolVars, workerVars,
         recycleVars, strandVars, nodeVars
<1>30. ASSUME NEW w \in Workers, NEW n \in Nodes, EnqueueDelete(w, n) PROVE RecycleFrame
  BY <1>i, <1>30 DEF EnqueueDelete, RecycleFrame, Inv, TypeOK, CallType, Threads, In, NoCall, WorkerPcs,
         poolVars, workerVars, recycleVars, strandVars, nodeVars
<1>31. ASSUME NEW w \in Workers, NEW n \in Nodes, MoveToThread(w, n) PROVE RecycleInv'
  BY <1>i, <1>31, PoolAssumption DEF MoveToThread, RecycleInv, StrandsKnown, ReservationsHeld,
         FreeStrandsAreUnused, LiveOn, Holding, Inv, TypeOK, CallType, Threads, In, NoCall,
         WorkerPcs, poolVars, workerVars, recycleVars, strandVars, nodeVars
<1>32. ASSUME NEW t \in Clients, WaitForDone(t) PROVE RecycleFrame
  BY <1>i, <1>32 DEF WaitForDone, Call, RecycleFrame, Inv, TypeOK, CallType, Threads, In, NoCall,
         WorkerPcs, poolVars, workerVars, recycleVars, strandVars, nodeVars
<1>33. ASSUME NEW t \in Clients, Shutdown(t) PROVE RecycleFrame
  BY <1>i, <1>33 DEF Shutdown, Call, RecycleFrame, Inv, TypeOK, CallType, Threads, In, NoCall, WorkerPcs,
         poolVars, workerVars, recycleVars, strandVars, nodeVars
<1>34. ASSUME NEW t \in Clients, NotifyAll(t) PROVE RecycleFrame
  BY <1>i, <1>34 DEF NotifyAll, Call, RecycleFrame, Inv, TypeOK, CallType, Threads, In, NoCall, WorkerPcs,
         poolVars, workerVars, recycleVars, strandVars, nodeVars
<1>35. ASSUME NEW t \in Clients, JoinWorkers(t) PROVE RecycleFrame
  BY <1>i, <1>35 DEF JoinWorkers, Call, RecycleFrame, Inv, TypeOK, CallType, Threads, In, NoCall,
         WorkerPcs, poolVars, workerVars, recycleVars, strandVars, nodeVars
<1>36. ASSUME NEW t \in Clients, DestroyRemainingNodes(t) PROVE RecycleInv'
  BY <1>i, <1>36, PoolAssumption DEF DestroyRemainingNodes, Call, RecycleInv, StrandsKnown,
         ReservationsHeld, FreeStrandsAreUnused, LiveOn, Holding, Inv, TypeOK, CallType, Threads,
         In, NoCall, WorkerPcs, poolVars, workerVars, recycleVars, strandVars, nodeVars
<1>37. ASSUME NEW t \in Clients, ClearStrandQueue(t) PROVE RecycleFrame
  BY <1>i, <1>37 DEF ClearStrandQueue, Call, RecycleFrame, Inv, TypeOK, CallType, Threads, In, NoCall,
         WorkerPcs, poolVars, workerVars, recycleVars, strandVars, nodeVars
<1>38. ASSUME NEW t \in Clients, ShutdownReturn(t) PROVE RecycleFrame
  BY <1>i, <1>38 DEF ShutdownReturn, Return, RecycleFrame, Inv, TypeOK, CallType, Threads, In, NoCall,
         WorkerPcs, poolVars, workerVars, recycleVars, strandVars, nodeVars
<1>39. CASE UNCHANGED vars
  BY <1>39, <1>f DEF vars, RecycleFrame, Threads, poolVars, workerVars, recycleVars, strandVars, nodeVars
<1> QED
  BY <1>1, <1>2, <1>3, <1>4, <1>5, <1>6, <1>7, <1>8, <1>9, <1>10, <1>11, <1>12, <1>13, <1>14,
     <1>15, <1>16, <1>17, <1>18, <1>19, <1>20, <1>21, <1>22, <1>23, <1>24, <1>25, <1>26,
     <1>27, <1>28, <1>29, <1>30, <1>31, <1>32, <1>33, <1>34, <1>35, <1>36, <1>37, <1>38,
     <1>39, <1>f
     DEF Next, Continue, WorkerStep, ShutdownStep

-----------------------------------------------------------------------------
(* The threads on their way from acquireStrand()'s test to applyMoveTo().  *)
Moving(t) == call[t].op \in {"acquire", "move"}

(* A node is moved by one thread, its owner: a client outside the pool, or *)
(* the worker in a slot of its strand, where it awaits no deletion.        *)
MovesAreExclusive ==
  /\ \A t \in Threads : Moving(t) =>
       \/ t \in Clients /\ home[call[t].x] = Elsewhere
       \/ /\ t \in Workers /\ wpc[t] = "stask"
          /\ home[call[t].x] = cur[t] /\ call[t].x \notin m_pendingDeletes[cur[t]]
  /\ \A t, u \in Threads : Moving(t) /\ Moving(u) /\ call[t].x = call[u].x => t = u

(* What a strand is to delete lives on it.                                 *)
DeletesAtHome == \A s \in Strands : \A n \in m_pendingDeletes[s] : home[n] = s

MovesInv == MovesAreExclusive /\ DeletesAtHome

MovesFrame ==
  /\ UNCHANGED nodeVars
  /\ \A t \in Threads : call'[t].op \in {"acquire", "move"} =>
       /\ Moving(t) /\ call'[t].x = call[t].x
       /\ t \in Workers => wpc'[t] = wpc[t] /\ cur'[t] = cur[t]

(* Unless a slot moves a node whose deletion it has asked for, a node      *)
(* leaves its strand only with nothing of it left behind.                  *)
LEMMA MovesStep ==
  ASSUME ~ MoveAfterDelete
  PROVE  PoolInv /\ MovesInv /\ [Next]_vars => MovesInv'
<1> SUFFICES ASSUME PoolInv, MovesInv, [Next]_vars PROVE MovesInv'
  OBVIOUS
<1>i. Inv
  BY DEF PoolInv
<1>m. ~ MoveAfterDelete
  OBVIOUS
<1>s. \A v, w \in Workers : wpc[v] \in DrainPcs /\ wpc[w] \in DrainPcs /\ cur[v] = cur[w] => v = w
  BY DEF PoolInv, Inv, WorkersOK, OneDrainPerStrand, OneDrain, DrainedBy
<1>f. MovesFrame => MovesInv'
  BY <1>i DEF MovesFrame, MovesInv, MovesAreExclusive, DeletesAtHome, Moving, nodeVars
<1>1. ASSUME NEW t \in Threads, NEW j \in Jobs, Start(t, j) PROVE MovesFrame
  BY <1>i, <1>1, PoolAssumption DEF Start, Call, UserCode, MovesFrame, Moving, Inv, TypeOK, CallType,
         WorkersOK, Threads, In, NoCall, WorkerPcs, DrainPcs, poolVars, workerVars, recycleVars,
         strandVars, nodeVars
<1>2. ASSUME NEW t \in Threads, NEW s \in Strands, NEW m \in Msgs, PostEnter(t, s, m) PROVE MovesFrame
  BY <1>i, <1>2, PoolAssumption DEF PostEnter, Call, UserCode, MovesFrame, Moving, Inv, TypeOK,
         CallType, WorkersOK, Threads, In, NoCall, WorkerPcs, DrainPcs, poolVars, workerVars,
         recycleVars, strandVars, nodeVars
<1>3. ASSUME NEW t \in Threads, NEW n \in Nodes, MoveToTaskPool(t, n) PROVE MovesInv'
  BY <1>i, <1>3, PoolAssumption, <1>m DEF MoveToTaskPool, Call, UserCode, MovesInv,
         MovesAreExclusive, DeletesAtHome, Moving, Inv, TypeOK, CallType, WorkersOK, Threads, In,
         NoCall, WorkerPcs, DrainPcs, poolVars, workerVars, recycleVars, strandVars, nodeVars
<1>4. ASSUME NEW t \in Threads, NotifyOne(t) PROVE MovesFrame
  BY <1>i, <1>4, PoolAssumption DEF NotifyOne, Return, MovesFrame, Moving, Inv, TypeOK, CallType,
         WorkersOK, Threads, In, NoCall, WorkerPcs, DrainPcs, poolVars, workerVars, recycleVars,
         strandVars, nodeVars
<1>5. ASSUME NEW t \in Threads, PostPush(t) PROVE MovesFrame
  BY <1>i, <1>5, PoolAssumption DEF PostPush, Return, MovesFrame, Moving, Inv, TypeOK, CallType,
         WorkersOK, Threads, In, NoCall, WorkerPcs, DrainPcs, poolVars, workerVars, recycleVars,
         strandVars, nodeVars
<1>6. ASSUME NEW t \in Threads, PostPushAndSchedule(t) PROVE MovesFrame
  BY <1>i, <1>6, PoolAssumption DEF PostPushAndSchedule, Call, MovesFrame, Moving, Inv, TypeOK,
         CallType, WorkersOK, Threads, In, NoCall, WorkerPcs, DrainPcs, poolVars, workerVars,
         recycleVars, strandVars, nodeVars
<1>7. ASSUME NEW t \in Threads, EnqueueStrandDrain(t) PROVE MovesFrame
  BY <1>i, <1>7, PoolAssumption DEF EnqueueStrandDrain, Call, MovesFrame, Moving, Inv, TypeOK,
         CallType, WorkersOK, Threads, In, NoCall, WorkerPcs, DrainPcs, poolVars, workerVars,
         recycleVars, strandVars, nodeVars
<1>8. ASSUME NEW t \in Threads, RefuseStrandDrain(t) PROVE MovesFrame
  BY <1>i, <1>8, PoolAssumption DEF RefuseStrandDrain, Call, MovesFrame, Moving, Inv, TypeOK,
         CallType, WorkersOK, Threads, In, NoCall, WorkerPcs, DrainPcs, poolVars, workerVars,
         recycleVars, strandVars, nodeVars
<1>9. ASSUME NEW t \in Threads, Unschedule(t) PROVE MovesFrame
  BY <1>i, <1>9, PoolAssumption DEF Unschedule, Return, MovesFrame, Moving, Inv, TypeOK, CallType,
         WorkersOK, Threads, In, NoCall, WorkerPcs, DrainPcs, poolVars, workerVars, recycleVars,
         strandVars, nodeVars
<1>10. ASSUME NEW t \in Threads, ReuseStrand(t) PROVE MovesFrame
  BY <1>i, <1>10, PoolAssumption DEF ReuseStrand, Call, MovesFrame, Moving, Inv, TypeOK, CallType,
         WorkersOK, Threads, In, NoCall, WorkerPcs, DrainPcs, poolVars, workerVars, recycleVars,
         strandVars, nodeVars
<1>11. ASSUME NEW t \in Threads, NEW s \in Strands, NewStrand(t, s) PROVE MovesFrame
  BY <1>i, <1>11, PoolAssumption DEF NewStrand, Call, MovesFrame, Moving, Inv, TypeOK, CallType,
         WorkersOK, Threads, In, NoCall, WorkerPcs, DrainPcs, poolVars, workerVars, recycleVars,
         strandVars, nodeVars
<1>12. ASSUME NEW t \in Threads, ApplyMoveTo(t) PROVE MovesInv'
  BY <1>i, <1>12, PoolAssumption, <1>s DEF ApplyMoveTo, Call, MovesInv, MovesAreExclusive,
         DeletesAtHome, Moving, Inv, TypeOK, CallType, WorkersOK, Threads, In, NoCall, WorkerPcs,
         DrainPcs, poolVars, workerVars, recycleVars, strandVars, nodeVars
<1>13. ASSUME NEW t \in Threads, ReleaseStrandReservation(t) PROVE MovesFrame
  BY <1>i, <1>13, PoolAssumption DEF ReleaseStrandReservation, Return, MovesFrame, Moving, Inv,
         TypeOK, CallType, WorkersOK, Threads, In, NoCall, WorkerPcs, DrainPcs, poolVars,
         workerVars, recycleVars, strandVars, nodeVars
<1>14. ASSUME NEW t \in Threads, WaitForDoneReturn(t) PROVE MovesFrame
  BY <1>i, <1>14, PoolAssumption DEF WaitForDoneReturn, Return, MovesFrame, Moving, Inv, TypeOK,
         CallType, WorkersOK, Threads, In, NoCall, WorkerPcs, DrainPcs, poolVars, workerVars,
         recycleVars, strandVars, nodeVars
<1>15. ASSUME NEW t \in Threads, WaitForDoneBlock(t) PROVE MovesFrame
  BY <1>i, <1>15, PoolAssumption DEF WaitForDoneBlock, Call, MovesFrame, Moving, Inv, TypeOK,
         CallType, WorkersOK, Threads, In, NoCall, WorkerPcs, DrainPcs, poolVars, workerVars,
         recycleVars, strandVars, nodeVars
<1>16. ASSUME NEW w \in Workers, TakeJob(w) PROVE MovesFrame
  BY <1>i, <1>16, PoolAssumption DEF TakeJob, MovesFrame, Moving, Inv, TypeOK, CallType, WorkersOK,
         Threads, In, NoCall, WorkerPcs, DrainPcs, poolVars, workerVars, recycleVars, strandVars,
         nodeVars
<1>17. ASSUME NEW w \in Workers, TakeDrain(w) PROVE MovesFrame
  BY <1>i, <1>17, PoolAssumption DEF TakeDrain, MovesFrame, Moving, Inv, TypeOK, CallType, WorkersOK,
         Threads, In, NoCall, WorkerPcs, DrainPcs, poolVars, workerVars, recycleVars, strandVars,
         nodeVars
<1>18. ASSUME NEW w \in Workers, WaitOrExit(w) PROVE MovesFrame
  BY <1>i, <1>18, PoolAssumption DEF WaitOrExit, MovesFrame, Moving, Inv, TypeOK, CallType,
         WorkersOK, Threads, In, NoCall, WorkerPcs, DrainPcs, poolVars, workerVars, recycleVars,
         strandVars, nodeVars
<1>19. ASSUME NEW w \in Workers, JobEnd(w) PROVE MovesFrame
  BY <1>i, <1>19, PoolAssumption DEF JobEnd, MovesFrame, Moving, Inv, TypeOK, CallType, WorkersOK,
         Threads, In, NoCall, WorkerPcs, DrainPcs, poolVars, workerVars, recycleVars, strandVars,
         nodeVars
<1>20. ASSUME NEW w \in Workers, DrainNext(w) PROVE MovesFrame
  BY <1>i, <1>20, PoolAssumption DEF DrainNext, MovesFrame, Moving, Inv, TypeOK, CallType, WorkersOK,
         Threads, In, NoCall, WorkerPcs, DrainPcs, poolVars, workerVars, recycleVars, strandVars,
         nodeVars
<1>21. ASSUME NEW w \in Workers, DrainBatchOver(w) PROVE MovesFrame
  BY <1>i, <1>21, PoolAssumption DEF DrainBatchOver, MovesFrame, Moving, Inv, TypeOK, CallType,
         WorkersOK, Threads, In, NoCall, WorkerPcs, DrainPcs, poolVars, workerVars, recycleVars,
         strandVars, nodeVars
<1>22. ASSUME NEW w \in Workers, StrandTaskEnd(w) PROVE MovesFrame
  BY <1>i, <1>22, PoolAssumption DEF StrandTaskEnd, MovesFrame, Moving, Inv, TypeOK, CallType,
         WorkersOK, Threads, In, NoCall, WorkerPcs, DrainPcs, poolVars, workerVars, recycleVars,
         strandVars, nodeVars
<1>23. ASSUME NEW w \in Workers, RunPendingDeletes(w) PROVE MovesInv'
  <2> DEFINE s == cur[w]
  <2>1. /\ s \in Strands /\ UNCHANGED <<cur, call>>
        /\ home' = [n \in Nodes |-> IF n \in m_pendingDeletes[s] THEN Dead ELSE home[n]]
        /\ m_pendingDeletes' = [m_pendingDeletes EXCEPT ![s] = {}]
        /\ \A v \in Workers : wpc[v] = "stask" => wpc'[v] = "stask"
    BY <1>i, <1>23 DEF RunPendingDeletes, DrainPcs, Inv, TypeOK, WorkersOK
  <2> HIDE DEF s
  <2>2. DeletesAtHome'
    BY <1>i, <2>1 DEF MovesInv, DeletesAtHome, Inv, TypeOK
  <2>3. \A t \in Threads : Moving(t) => call[t].x \in Nodes /\ call[t].x \notin m_pendingDeletes[s]
    BY <1>i, <2>1, PoolAssumption DEF MovesInv, DeletesAtHome, MovesAreExclusive, Moving, Inv, CallsOK
  <2>4. MovesAreExclusive'
    BY <1>i, <2>1, <2>3 DEF MovesInv, MovesAreExclusive, Moving, Inv, TypeOK
  <2> QED
    BY <2>2, <2>4 DEF MovesInv
<1>24. ASSUME NEW w \in Workers, DrainAgain(w) PROVE MovesFrame
  BY <1>i, <1>24, PoolAssumption DEF DrainAgain, Call, MovesFrame, Moving, Inv, TypeOK, CallType,
         WorkersOK, Threads, In, NoCall, WorkerPcs, DrainPcs, poolVars, workerVars, recycleVars,
         strandVars, nodeVars
<1>25. ASSUME NEW w \in Workers, DrainDone(w) PROVE MovesFrame
  BY <1>i, <1>25, PoolAssumption DEF DrainDone, MovesFrame, Moving, Inv, TypeOK, CallType, WorkersOK,
         Threads, In, NoCall, WorkerPcs, DrainPcs, poolVars, workerVars, recycleVars, strandVars,
         nodeVars
<1>26. ASSUME NEW w \in Workers, RecycleStrandIfIdle(w) PROVE MovesFrame
  BY <1>i, <1>26, PoolAssumption DEF RecycleStrandIfIdle, MovesFrame, Moving, Inv, TypeOK, CallType,
         WorkersOK, Threads, In, NoCall, WorkerPcs, DrainPcs, poolVars, workerVars, recycleVars,
         strandVars, nodeVars
<1>27. ASSUME NEW w \in Workers, TaskEnd(w) PROVE MovesFrame
  BY <1>i, <1>27, PoolAssumption DEF TaskEnd, MovesFrame, Moving, Inv, TypeOK, CallType, WorkersOK,
         Threads, In, NoCall, WorkerPcs, DrainPcs, poolVars, workerVars, recycleVars, strandVars,
         nodeVars
<1>28. ASSUME NEW w \in Workers, SpuriousWake(w) PROVE MovesFrame
  BY <1>i, <1>28, PoolAssumption DEF SpuriousWake, MovesFrame, Moving, Inv, TypeOK, CallType,
         WorkersOK, Threads, In, NoCall, WorkerPcs, DrainPcs, poolVars, workerVars, recycleVars,
         strandVars, nodeVars
<1>29. ASSUME NEW w \in Workers, NEW n \in Nodes, CreateNode(w, n) PROVE MovesInv'
  BY <1>i, <1>29, PoolAssumption, <1>s DEF CreateNode, MovesInv, MovesAreExclusive, DeletesAtHome,
         Moving, Inv, TypeOK, CallType, WorkersOK, Threads, In, NoCall, WorkerPcs, DrainPcs,
         poolVars, workerVars, recycleVars, strandVars, nodeVars
<1>30. ASSUME NEW w \in Workers, NEW n \in Nodes, EnqueueDelete(w, n) PROVE MovesInv'
  BY <1>i, <1>30, PoolAssumption, <1>s DEF EnqueueDelete, MovesInv, MovesAreExclusive, DeletesAtHome,
         Moving, OwnerIsCurrent, Inv, TypeOK, CallType, WorkersOK, Threads, In, NoCall, WorkerPcs,
         DrainPcs, poolVars, workerVars, recycleVars, strandVars, nodeVars
<1>31. ASSUME NEW w \in Workers, NEW n \in Nodes, MoveToThread(w, n) PROVE MovesInv'
  BY <1>i, <1>31, PoolAssumption, <1>m, <1>s DEF MoveToThread, MovesInv, MovesAreExclusive,
         DeletesAtHome, Moving, Inv, TypeOK, CallType, WorkersOK, Threads, In, NoCall, WorkerPcs,
         DrainPcs, poolVars, workerVars, recycleVars, strandVars, nodeVars
<1>32. ASSUME NEW t \in Clients, WaitForDone(t) PROVE MovesFrame
  BY <1>i, <1>32, PoolAssumption DEF WaitForDone, Call, MovesFrame, Moving, Inv, TypeOK, CallType,
         WorkersOK, Threads, In, NoCall, WorkerPcs, DrainPcs, poolVars, workerVars, recycleVars,
         strandVars, nodeVars
<1>33. ASSUME NEW t \in Clients, Shutdown(t) PROVE MovesFrame
  BY <1>i, <1>33, PoolAssumption DEF Shutdown, Call, MovesFrame, Moving, Inv, TypeOK, CallType,
         WorkersOK, Threads, In, NoCall, WorkerPcs, DrainPcs, poolVars, workerVars, recycleVars,
         strandVars, nodeVars
<1>34. ASSUME NEW t \in Clients, NotifyAll(t) PROVE MovesFrame
  BY <1>i, <1>34, PoolAssumption DEF NotifyAll, Call, MovesFrame, Moving, Inv, TypeOK, CallType,
         WorkersOK, Threads, In, NoCall, WorkerPcs, DrainPcs, poolVars, workerVars, recycleVars,
         strandVars, nodeVars
<1>35. ASSUME NEW t \in Clients, JoinWorkers(t) PROVE MovesFrame
  BY <1>i, <1>35, PoolAssumption DEF JoinWorkers, Call, MovesFrame, Moving, Inv, TypeOK, CallType,
         WorkersOK, Threads, In, NoCall, WorkerPcs, DrainPcs, poolVars, workerVars, recycleVars,
         strandVars, nodeVars
<1>36. ASSUME NEW t \in Clients, DestroyRemainingNodes(t) PROVE MovesInv'
  <2>1. PICK s \in sdTodo : /\ home' = [n \in Nodes |-> IF n \in m_pendingDeletes[s] \union LiveOn(s) THEN Dead ELSE home[n]]
                           /\ m_pendingDeletes' = [m_pendingDeletes EXCEPT ![s] = {}]
                           /\ Call(t, "clear", s, NoMsg)
    BY <1>i, <1>36 DEF DestroyRemainingNodes
  <2>2. \A w \in Workers : wpc[w] # "stask"
    BY <1>i, <1>36 DEF DestroyRemainingNodes, Inv, CallsOK, TeardownOK, In, Threads
  <2>3. s \in Strands
    BY <1>i, <1>36 DEF Inv, TypeOK
  <2>4. \A u \in Threads : Moving(u)' => Moving(u) /\ call'[u].x = call[u].x
    BY <1>i, <1>36, <2>1 DEF Call, Moving, Inv, TypeOK, Threads
  <2>5. DeletesAtHome'
    BY <1>i, <2>1, <2>3 DEF LiveOn, MovesInv, DeletesAtHome, Inv, TypeOK
  <2>6. \A u \in Threads : Moving(u) => /\ u \in Clients /\ home[call[u].x] = Elsewhere
                                       /\ call[u].x \in Nodes /\ call[u].x \notin m_pendingDeletes[s] \union LiveOn(s)
    BY <1>i, <2>2, <2>3, PoolAssumption DEF LiveOn, MovesInv, DeletesAtHome, MovesAreExclusive, Moving, Inv, CallsOK
  <2>7. MovesAreExclusive'
    BY <1>i, <2>1, <2>4, <2>6 DEF MovesInv, MovesAreExclusive, Moving
  <2> QED
    BY <2>5, <2>7 DEF MovesInv
<1>37. ASSUME NEW t \in Clients, ClearStrandQueue(t) PROVE MovesFrame
  BY <1>i, <1>37, PoolAssumption DEF ClearStrandQueue, Call, MovesFrame, Moving, Inv, TypeOK,
         CallType, WorkersOK, Threads, In, NoCall, WorkerPcs, DrainPcs, poolVars, workerVars,
         recycleVars, strandVars, nodeVars
<1>38. ASSUME NEW t \in Clients, ShutdownReturn(t) PROVE MovesFrame
  BY <1>i, <1>38, PoolAssumption DEF ShutdownReturn, Return, MovesFrame, Moving, Inv, TypeOK,
         CallType, WorkersOK, Threads, In, NoCall, WorkerPcs, DrainPcs, poolVars, workerVars,
         recycleVars, strandVars, nodeVars
<1>39. CASE UNCHANGED vars
  BY <1>39, <1>f DEF vars, MovesFrame, Moving, Threads, poolVars, workerVars, recycleVars, strandVars, nodeVars
<1> QED
  BY <1>1, <1>2, <1>3, <1>4, <1>5, <1>6, <1>7, <1>8, <1>9, <1>10, <1>11, <1>12, <1>13, <1>14,
     <1>15, <1>16, <1>17, <1>18, <1>19, <1>20, <1>21, <1>22, <1>23, <1>24, <1>25, <1>26,
     <1>27, <1>28, <1>29, <1>30, <1>31, <1>32, <1>33, <1>34, <1>35, <1>36, <1>37, <1>38,
     <1>39, <1>f
     DEF Next, Continue, WorkerStep, ShutdownStep

(* What keeps an idle strand on the free list, or on its way there.        *)
IdleFrame ==
  /\ UNCHANGED <<recycleVars, home, m_joined>>
  /\ m_scheduled \subseteq m_scheduled'
  /\ \A w \in Workers : wpc[w] = "recycle" => wpc'[w] = "recycle" /\ cur'[w] = cur[w]

(* A strand becomes idle when its drain ends, when its reservation is      *)
(* given back or when its last node goes; the first two put it on the free *)
(* list, and a node goes only while a drain of its strand is running.      *)
LEMMA IdleStep ==
  ASSUME ~ MoveAfterDelete
  PROVE  PoolInv /\ RecycleInv /\ MovesInv /\ IdleStrandsAreFree /\ [Next]_vars => IdleStrandsAreFree'
<1> SUFFICES ASSUME PoolInv, RecycleInv, MovesInv, IdleStrandsAreFree, [Next]_vars PROVE IdleStrandsAreFree'
  OBVIOUS
<1>i. Inv
  BY DEF PoolInv
<1>s. \A w \in Workers : wpc[w] \in DrainPcs => cur[w] \in m_scheduled
  BY DEF PoolInv, Inv, WorkersOK, OneDrainPerStrand, OneDrain, DrainedBy
<1>f. IdleFrame => IdleStrandsAreFree'
  BY <1>i DEF IdleFrame, IdleStrandsAreFree, LiveOn, recycleVars
<1>1. ASSUME NEW t \in Threads, NEW j \in Jobs, Start(t, j) PROVE IdleFrame
  BY <1>i, <1>1, PoolAssumption DEF Start, Call, UserCode, IdleFrame, Inv, TypeOK, CallType,
         WorkersOK, Threads, In, NoCall, WorkerPcs, DrainPcs, poolVars, workerVars, recycleVars,
         strandVars, nodeVars
<1>2. ASSUME NEW t \in Threads, NEW s \in Strands, NEW m \in Msgs, PostEnter(t, s, m) PROVE IdleFrame
  BY <1>i, <1>2, PoolAssumption DEF PostEnter, Call, UserCode, IdleFrame, Inv, TypeOK, CallType,
         WorkersOK, Threads, In, NoCall, WorkerPcs, DrainPcs, poolVars, workerVars, recycleVars,
         strandVars, nodeVars
<1>3. ASSUME NEW t \in Threads, NEW n \in Nodes, MoveToTaskPool(t, n) PROVE IdleFrame
  BY <1>i, <1>3, PoolAssumption DEF MoveToTaskPool, Call, UserCode, IdleFrame, Inv, TypeOK, CallType,
         WorkersOK, Threads, In, NoCall, WorkerPcs, DrainPcs, poolVars, workerVars, recycleVars,
         strandVars, nodeVars
<1>4. ASSUME NEW t \in Threads, NotifyOne(t) PROVE IdleFrame
  BY <1>i, <1>4, PoolAssumption DEF NotifyOne, Return, IdleFrame, Inv, TypeOK, CallType, WorkersOK,
         Threads, In, NoCall, WorkerPcs, DrainPcs, poolVars, workerVars, recycleVars, strandVars,
         nodeVars
<1>5. ASSUME NEW t \in Threads, PostPush(t) PROVE IdleFrame
  BY <1>i, <1>5, PoolAssumption DEF PostPush, Return, IdleFrame, Inv, TypeOK, CallType, WorkersOK,
         Threads, In, NoCall, WorkerPcs, DrainPcs, poolVars, workerVars, recycleVars, strandVars,
         nodeVars
<1>6. ASSUME NEW t \in Threads, PostPushAndSchedule(t) PROVE IdleFrame
  BY <1>i, <1>6, PoolAssumption DEF PostPushAndSchedule, Call, IdleFrame, Inv, TypeOK, CallType,
         WorkersOK, Threads, In, NoCall, WorkerPcs, DrainPcs, poolVars, workerVars, recycleVars,
         strandVars, nodeVars
<1>7. ASSUME NEW t \in Threads, EnqueueStrandDrain(t) PROVE IdleFrame
  BY <1>i, <1>7, PoolAssumption DEF EnqueueStrandDrain, Call, IdleFrame, Inv, TypeOK, CallType,
         WorkersOK, Threads, In, NoCall, WorkerPcs, DrainPcs, poolVars, workerVars, recycleVars,
         strandVars, nodeVars
<1>8. ASSUME NEW t \in Threads, RefuseStrandDrain(t) PROVE IdleFrame
  BY <1>i, <1>8, PoolAssumption DEF RefuseStrandDrain, Call, IdleFrame, Inv, TypeOK, CallType,
         WorkersOK, Threads, In, NoCall, WorkerPcs, DrainPcs, poolVars, workerVars, recycleVars,
         strandVars, nodeVars
<1>9. ASSUME NEW t \in Threads, Unschedule(t) PROVE IdleStrandsAreFree'
  BY <1>i, <1>9, PoolAssumption DEF Unschedule, Return, IdleStrandsAreFree, LiveOn, CallsOK, Inv,
         TypeOK, CallType, WorkersOK, Threads, In, NoCall, WorkerPcs, DrainPcs, poolVars,
         workerVars, recycleVars, strandVars, nodeVars
<1>10. ASSUME NEW t \in Threads, ReuseStrand(t) PROVE IdleStrandsAreFree'
  <2>1. PICK s \in Strands : s = m_freeStrands[Len(m_freeStrands)]
    BY <1>i, <1>10 DEF ReuseStrand, Inv, TypeOK
  <2>2. Range(m_freeStrands) = Range(m_freeStrands') \union {s}
    BY <1>i, <1>10, <2>1, FreeFront DEF ReuseStrand, Inv, RecycleInv, FreeStrandsAreUnused
  <2>3. m_reserved' = m_reserved \union {s} /\ UNCHANGED <<m_strands, m_scheduled, m_joined, home, wpc, cur>>
    BY <1>i, <1>10, <2>1 DEF ReuseStrand, poolVars, workerVars, strandVars, nodeVars
  <2> QED
    <3>1. \A k \in Strands : LiveOn(k)' = LiveOn(k)
      BY <2>3 DEF LiveOn
    <3> SUFFICES ASSUME ~ m_joined', NEW k \in m_strands'
                 PROVE  \/ k \in Range(m_freeStrands') \union m_reserved' \union m_scheduled' \/ LiveOn(k)' # {}
                        \/ \E v \in Workers : wpc'[v] = "recycle" /\ cur'[v] = k
      BY DEF IdleStrandsAreFree
    <3>2. ~ m_joined /\ k \in m_strands /\ k \in Strands
      BY <1>i, <2>3 DEF Inv, TypeOK
    <3>3. k \in Range(m_freeStrands) \union m_reserved \union m_scheduled => k \in Range(m_freeStrands') \union m_reserved' \union m_scheduled'
      BY <2>2, <2>3
    <3> QED
      BY <2>3, <3>1, <3>2, <3>3 DEF IdleStrandsAreFree
<1>11. ASSUME NEW t \in Threads, NEW s \in Strands, NewStrand(t, s) PROVE IdleStrandsAreFree'
  <2>1. /\ m_strands' = m_strands \union {s} /\ m_reserved' = m_reserved \union {s}
        /\ UNCHANGED <<m_freeStrands, m_scheduled, m_joined, home, wpc, cur>>
    BY <1>i, <1>11 DEF NewStrand, poolVars, workerVars, strandVars, nodeVars
  <2>2. \A k \in Strands : LiveOn(k)' = LiveOn(k)
    BY <2>1 DEF LiveOn
  <2> QED
    BY <1>i, <2>1, <2>2 DEF IdleStrandsAreFree, Inv, TypeOK
<1>12. ASSUME NEW t \in Threads, ApplyMoveTo(t) PROVE IdleStrandsAreFree'
  <2>1. call[t].s \in m_reserved /\ call[t].x \in Nodes
    BY <1>i, <1>12 DEF ApplyMoveTo, In, RecycleInv, ReservationsHeld, Holding, CallsOK, Inv
  <2>2. home[call[t].x] \in m_scheduled \/ home[call[t].x] = Elsewhere
    BY <1>i, <1>12, <1>s DEF ApplyMoveTo, In, DrainPcs, MovesInv, MovesAreExclusive, Moving
  <2>3. \A n \in Nodes : n # call[t].x => home'[n] = home[n]
    BY <1>i, <1>12 DEF ApplyMoveTo, Inv, TypeOK
  <2>4. \A s \in Strands : s \notin m_scheduled /\ LiveOn(s) # {} => LiveOn(s)' # {}
    BY <2>2, <2>3, PoolAssumption DEF LiveOn
  <2> QED
    BY <1>i, <1>12, <2>1, <2>4 DEF ApplyMoveTo, IdleStrandsAreFree, poolVars, workerVars, recycleVars, strandVars, Inv, TypeOK
<1>13. ASSUME NEW t \in Threads, ReleaseStrandReservation(t) PROVE IdleStrandsAreFree'
  <2>0. PICK s \in Strands : s = call[t].s
    BY <1>i, <1>13 DEF ReleaseStrandReservation, In, Inv, CallsOK, WorkersOK
  <2>1. Range(m_freeStrands) \subseteq Range(m_freeStrands')
    BY <1>i, <1>13, <2>0, FreeAppend DEF ReleaseStrandReservation, IsRecyclable, Inv, RecycleInv, FreeStrandsAreUnused
  <2>2. IsRecyclable(s, m_reserved') => s \in Range(m_freeStrands')
    BY <1>i, <1>13, <2>0, FreeAppend DEF ReleaseStrandReservation, IsRecyclable, Inv, RecycleInv, FreeStrandsAreUnused
  <2>3. ~ m_joined => IsRecyclable(s, m_reserved') \/ s \in Range(m_freeStrands) \union m_reserved' \union m_scheduled \/ LiveOn(s) # {}
    BY <2>0 DEF IsRecyclable, PoolInv, QueuedWorkHasADrain
  <2>4. /\ UNCHANGED <<m_strands, m_scheduled, m_joined, home>> /\ m_reserved \subseteq m_reserved' \union {s}
        /\ \A v \in Workers : wpc[v] = "recycle" => cur'[v] = cur[v] /\ (wpc'[v] = "recycle" \/ cur[v] = s)
    BY <1>i, <1>13, <2>0 DEF ReleaseStrandReservation, Inv, TypeOK, poolVars, workerVars, strandVars, nodeVars
  <2>5. \A k \in m_strands : ~ m_joined =>
          k = s \/ k \in Range(m_freeStrands') \union m_reserved' \union m_scheduled' \/ LiveOn(k)' # {}
            \/ \E v \in Workers : wpc'[v] = "recycle" /\ cur'[v] = k
    BY <2>1, <2>4 DEF IdleStrandsAreFree, LiveOn
  <2>6. ~ m_joined => s \in Range(m_freeStrands') \union m_reserved' \union m_scheduled' \/ LiveOn(s)' # {}
    <3>1. LiveOn(s)' = LiveOn(s) /\ m_scheduled' = m_scheduled
      BY <2>4 DEF LiveOn
    <3> QED
      BY <2>1, <2>2, <2>3, <3>1
  <2> QED
    <3> SUFFICES ASSUME ~ m_joined', NEW k \in m_strands'
                 PROVE  \/ k \in Range(m_freeStrands') \union m_reserved' \union m_scheduled' \/ LiveOn(k)' # {}
                        \/ \E v \in Workers : wpc'[v] = "recycle" /\ cur'[v] = k
      BY DEF IdleStrandsAreFree
    <3>1. ~ m_joined /\ k \in m_strands
      BY <2>4
    <3> QED
      BY <2>5, <2>6, <3>1
<1>14. ASSUME NEW t \in Threads, WaitForDoneReturn(t) PROVE IdleFrame
  BY <1>i, <1>14, PoolAssumption DEF WaitForDoneReturn, Return, IdleFrame, Inv, TypeOK, CallType,
         WorkersOK, Threads, In, NoCall, WorkerPcs, DrainPcs, poolVars, workerVars, recycleVars,
         strandVars, nodeVars
<1>15. ASSUME NEW t \in Threads, WaitForDoneBlock(t) PROVE IdleFrame
  BY <1>i, <1>15, PoolAssumption DEF WaitForDoneBlock, Call, IdleFrame, Inv, TypeOK, CallType,
         WorkersOK, Threads, In, NoCall, WorkerPcs, DrainPcs, poolVars, workerVars, recycleVars,
         strandVars, nodeVars
<1>16. ASSUME NEW w \in Workers, TakeJob(w) PROVE IdleFrame
  BY <1>i, <1>16, PoolAssumption DEF TakeJob, IdleFrame, Inv, TypeOK, CallType, WorkersOK, Threads,
         In, NoCall, WorkerPcs, DrainPcs, poolVars, workerVars, recycleVars, strandVars, nodeVars
<1>17. ASSUME NEW w \in Workers, TakeDrain(w) PROVE IdleFrame
  BY <1>i, <1>17, PoolAssumption DEF TakeDrain, IdleFrame, Inv, TypeOK, CallType, WorkersOK, Threads,
         In, NoCall, WorkerPcs, DrainPcs, poolVars, workerVars, recycleVars, strandVars, nodeVars
<1>18. ASSUME NEW w \in Workers, WaitOrExit(w) PROVE IdleFrame
  BY <1>i, <1>18, PoolAssumption DEF WaitOrExit, IdleFrame, Inv, TypeOK, CallType, WorkersOK,
         Threads, In, NoCall, WorkerPcs, DrainPcs, poolVars, workerVars, recycleVars, strandVars,
         nodeVars
<1>19. ASSUME NEW w \in Workers, JobEnd(w) PROVE IdleFrame
  BY <1>i, <1>19, PoolAssumption DEF JobEnd, IdleFrame, Inv, TypeOK, CallType, WorkersOK, Threads,
         In, NoCall, WorkerPcs, DrainPcs, poolVars, workerVars, recycleVars, strandVars, nodeVars
<1>20. ASSUME NEW w \in Workers, DrainNext(w) PROVE IdleFrame
  BY <1>i, <1>20, PoolAssumption DEF DrainNext, IdleFrame, Inv, TypeOK, CallType, WorkersOK, Threads,
         In, NoCall, WorkerPcs, DrainPcs, poolVars, workerVars, recycleVars, strandVars, nodeVars
<1>21. ASSUME NEW w \in Workers, DrainBatchOver(w) PROVE IdleFrame
  BY <1>i, <1>21, PoolAssumption DEF DrainBatchOver, IdleFrame, Inv, TypeOK, CallType, WorkersOK,
         Threads, In, NoCall, WorkerPcs, DrainPcs, poolVars, workerVars, recycleVars, strandVars,
         nodeVars
<1>22. ASSUME NEW w \in Workers, StrandTaskEnd(w) PROVE IdleFrame
  BY <1>i, <1>22, PoolAssumption DEF StrandTaskEnd, IdleFrame, Inv, TypeOK, CallType, WorkersOK,
         Threads, In, NoCall, WorkerPcs, DrainPcs, poolVars, workerVars, recycleVars, strandVars,
         nodeVars
<1>23. ASSUME NEW w \in Workers, RunPendingDeletes(w) PROVE IdleStrandsAreFree'
  <2>1. cur[w] \in m_scheduled /\ cur[w] \in Strands
    BY <1>i, <1>23, <1>s DEF RunPendingDeletes, DrainPcs, WorkersOK, Inv
  <2>2. \A n \in Nodes : home[n] # cur[w] => home'[n] = home[n]
    BY <1>i, <1>23, <2>1 DEF RunPendingDeletes, MovesInv, DeletesAtHome
  <2>3. \A s \in Strands : LiveOn(s) \subseteq LiveOn(s)' \/ s \in m_scheduled
    BY <1>i, <1>23, <2>2, <2>1 DEF RunPendingDeletes, LiveOn, Inv, TypeOK
  <2>4. /\ UNCHANGED <<recycleVars, m_scheduled, m_joined>> /\ m_strands \subseteq Strands
        /\ \A v \in Workers : wpc[v] = "recycle" => cur'[v] = cur[v] /\ wpc'[v] = "recycle"
    BY <1>i, <1>23 DEF RunPendingDeletes, Inv, TypeOK, poolVars, workerVars, recycleVars, strandVars
  <2> QED
    BY <2>1, <2>3, <2>4 DEF IdleStrandsAreFree, recycleVars
<1>24. ASSUME NEW w \in Workers, DrainAgain(w) PROVE IdleFrame
  BY <1>i, <1>24, PoolAssumption DEF DrainAgain, Call, IdleFrame, Inv, TypeOK, CallType, WorkersOK,
         Threads, In, NoCall, WorkerPcs, DrainPcs, poolVars, workerVars, recycleVars, strandVars,
         nodeVars
<1>25. ASSUME NEW w \in Workers, DrainDone(w) PROVE IdleStrandsAreFree'
  <2>1. /\ UNCHANGED <<recycleVars, m_joined, home>> /\ m_scheduled' = m_scheduled \ {cur[w]}
        /\ wpc'[w] = "recycle" /\ cur' = cur
        /\ \A v \in Workers : wpc[v] = "recycle" => wpc'[v] = "recycle"
    BY <1>i, <1>25 DEF DrainDone, Inv, TypeOK, poolVars, nodeVars
  <2> QED
    BY <2>1 DEF IdleStrandsAreFree, LiveOn, recycleVars
<1>26. ASSUME NEW w \in Workers, RecycleStrandIfIdle(w) PROVE IdleStrandsAreFree'
  <2>0. PICK s \in Strands : s = cur[w]
    BY <1>i, <1>26 DEF RecycleStrandIfIdle, In, Inv, CallsOK, WorkersOK
  <2>1. Range(m_freeStrands) \subseteq Range(m_freeStrands')
    BY <1>i, <1>26, <2>0, FreeAppend DEF RecycleStrandIfIdle, IsRecyclable, Inv, RecycleInv, FreeStrandsAreUnused
  <2>2. IsRecyclable(s, m_reserved') => s \in Range(m_freeStrands')
    BY <1>i, <1>26, <2>0, FreeAppend DEF RecycleStrandIfIdle, IsRecyclable, Inv, RecycleInv, FreeStrandsAreUnused
  <2>3. ~ m_joined => IsRecyclable(s, m_reserved') \/ s \in Range(m_freeStrands) \union m_reserved' \union m_scheduled \/ LiveOn(s) # {}
    BY <2>0 DEF IsRecyclable, PoolInv, QueuedWorkHasADrain
  <2>4. /\ UNCHANGED <<m_strands, m_scheduled, m_joined, home>> /\ m_reserved \subseteq m_reserved' \union {s}
        /\ \A v \in Workers : wpc[v] = "recycle" => cur'[v] = cur[v] /\ (wpc'[v] = "recycle" \/ cur[v] = s)
    BY <1>i, <1>26, <2>0 DEF RecycleStrandIfIdle, Inv, TypeOK, poolVars, workerVars, strandVars, nodeVars
  <2>5. \A k \in m_strands : ~ m_joined =>
          k = s \/ k \in Range(m_freeStrands') \union m_reserved' \union m_scheduled' \/ LiveOn(k)' # {}
            \/ \E v \in Workers : wpc'[v] = "recycle" /\ cur'[v] = k
    BY <2>1, <2>4 DEF IdleStrandsAreFree, LiveOn
  <2>6. ~ m_joined => s \in Range(m_freeStrands') \union m_reserved' \union m_scheduled' \/ LiveOn(s)' # {}
    <3>1. LiveOn(s)' = LiveOn(s) /\ m_scheduled' = m_scheduled
      BY <2>4 DEF LiveOn
    <3> QED
      BY <2>1, <2>2, <2>3, <3>1
  <2> QED
    <3> SUFFICES ASSUME ~ m_joined', NEW k \in m_strands'
                 PROVE  \/ k \in Range(m_freeStrands') \union m_reserved' \union m_scheduled' \/ LiveOn(k)' # {}
                        \/ \E v \in Workers : wpc'[v] = "recycle" /\ cur'[v] = k
      BY DEF IdleStrandsAreFree
    <3>1. ~ m_joined /\ k \in m_strands
      BY <2>4
    <3> QED
      BY <2>5, <2>6, <3>1
<1>27. ASSUME NEW w \in Workers, TaskEnd(w) PROVE IdleFrame
  BY <1>i, <1>27, PoolAssumption DEF TaskEnd, IdleFrame, Inv, TypeOK, CallType, WorkersOK, Threads,
         In, NoCall, WorkerPcs, DrainPcs, poolVars, workerVars, recycleVars, strandVars, nodeVars
<1>28. ASSUME NEW w \in Workers, SpuriousWake(w) PROVE IdleFrame
  BY <1>i, <1>28, PoolAssumption DEF SpuriousWake, IdleFrame, Inv, TypeOK, CallType, WorkersOK,
         Threads, In, NoCall, WorkerPcs, DrainPcs, poolVars, workerVars, recycleVars, strandVars,
         nodeVars
<1>29. ASSUME NEW w \in Workers, NEW n \in Nodes, CreateNode(w, n) PROVE IdleStrandsAreFree'
  <2>1. home[n] \notin Strands /\ \A k \in Nodes : k # n => home'[k] = home[k]
    BY <1>i, <1>29, PoolAssumption DEF CreateNode, Inv, TypeOK
  <2>3. \A s \in Strands : LiveOn(s) \subseteq LiveOn(s)'
    BY <1>i, <1>29, <2>1, <2>1 DEF CreateNode, LiveOn, Inv, TypeOK
  <2>4. /\ UNCHANGED <<recycleVars, m_scheduled, m_joined>> /\ m_strands \subseteq Strands
        /\ \A v \in Workers : wpc[v] = "recycle" => cur'[v] = cur[v] /\ wpc'[v] = "recycle"
    BY <1>i, <1>29 DEF CreateNode, Inv, TypeOK, poolVars, workerVars, recycleVars, strandVars
  <2> QED
    BY <2>1, <2>3, <2>4 DEF IdleStrandsAreFree, recycleVars
<1>30. ASSUME NEW w \in Workers, NEW n \in Nodes, EnqueueDelete(w, n) PROVE IdleFrame
  BY <1>i, <1>30, PoolAssumption DEF EnqueueDelete, IdleFrame, Inv, TypeOK, CallType, WorkersOK,
         Threads, In, NoCall, WorkerPcs, DrainPcs, poolVars, workerVars, recycleVars, strandVars,
         nodeVars
<1>31. ASSUME NEW w \in Workers, NEW n \in Nodes, MoveToThread(w, n) PROVE IdleStrandsAreFree'
  <2>1. cur[w] \in m_scheduled
    BY <1>i, <1>31, <1>s DEF MoveToThread, DrainPcs
  <2>3. \A s \in Strands : LiveOn(s) \subseteq LiveOn(s)' \/ s \in m_scheduled
    BY <1>i, <1>31, <2>1, <2>1 DEF MoveToThread, LiveOn, Inv, TypeOK
  <2>4. /\ UNCHANGED <<recycleVars, m_scheduled, m_joined>> /\ m_strands \subseteq Strands
        /\ \A v \in Workers : wpc[v] = "recycle" => cur'[v] = cur[v] /\ wpc'[v] = "recycle"
    BY <1>i, <1>31 DEF MoveToThread, Inv, TypeOK, poolVars, workerVars, recycleVars, strandVars
  <2> QED
    BY <2>1, <2>3, <2>4 DEF IdleStrandsAreFree, recycleVars
<1>32. ASSUME NEW t \in Clients, WaitForDone(t) PROVE IdleFrame
  BY <1>i, <1>32, PoolAssumption DEF WaitForDone, Call, IdleFrame, Inv, TypeOK, CallType, WorkersOK,
         Threads, In, NoCall, WorkerPcs, DrainPcs, poolVars, workerVars, recycleVars, strandVars,
         nodeVars
<1>33. ASSUME NEW t \in Clients, Shutdown(t) PROVE IdleFrame
  BY <1>i, <1>33, PoolAssumption DEF Shutdown, Call, IdleFrame, Inv, TypeOK, CallType, WorkersOK,
         Threads, In, NoCall, WorkerPcs, DrainPcs, poolVars, workerVars, recycleVars, strandVars,
         nodeVars
<1>34. ASSUME NEW t \in Clients, NotifyAll(t) PROVE IdleFrame
  BY <1>i, <1>34, PoolAssumption DEF NotifyAll, Call, IdleFrame, Inv, TypeOK, CallType, WorkersOK,
         Threads, In, NoCall, WorkerPcs, DrainPcs, poolVars, workerVars, recycleVars, strandVars,
         nodeVars
<1>35. ASSUME NEW t \in Clients, JoinWorkers(t) PROVE IdleStrandsAreFree'
  BY <1>i, <1>35, PoolAssumption DEF JoinWorkers, Call, IdleStrandsAreFree, Inv, TypeOK, CallType,
         WorkersOK, Threads, In, NoCall, WorkerPcs, DrainPcs, poolVars, workerVars, recycleVars,
         strandVars, nodeVars
<1>36. ASSUME NEW t \in Clients, DestroyRemainingNodes(t) PROVE IdleStrandsAreFree'
  BY <1>i, <1>36, PoolAssumption DEF DestroyRemainingNodes, Call, IdleStrandsAreFree, CallsOK, Inv,
         TypeOK, CallType, WorkersOK, Threads, In, NoCall, WorkerPcs, DrainPcs, poolVars,
         workerVars, recycleVars, strandVars, nodeVars
<1>37. ASSUME NEW t \in Clients, ClearStrandQueue(t) PROVE IdleFrame
  BY <1>i, <1>37, PoolAssumption DEF ClearStrandQueue, Call, IdleFrame, Inv, TypeOK, CallType,
         WorkersOK, Threads, In, NoCall, WorkerPcs, DrainPcs, poolVars, workerVars, recycleVars,
         strandVars, nodeVars
<1>38. ASSUME NEW t \in Clients, ShutdownReturn(t) PROVE IdleFrame
  BY <1>i, <1>38, PoolAssumption DEF ShutdownReturn, Return, IdleFrame, Inv, TypeOK, CallType,
         WorkersOK, Threads, In, NoCall, WorkerPcs, DrainPcs, poolVars, workerVars, recycleVars,
         strandVars, nodeVars
<1>39. CASE UNCHANGED vars
  BY <1>39, <1>f DEF vars, IdleFrame, Threads, poolVars, workerVars, recycleVars, strandVars, nodeVars
<1> QED
  BY <1>1, <1>2, <1>3, <1>4, <1>5, <1>6, <1>7, <1>8, <1>9, <1>10, <1>11, <1>12, <1>13, <1>14,
     <1>15, <1>16, <1>17, <1>18, <1>19, <1>20, <1>21, <1>22, <1>23, <1>24, <1>25, <1>26,
     <1>27, <1>28, <1>29, <1>30, <1>31, <1>32, <1>33, <1>34, <1>35, <1>36, <1>37, <1>38,
     <1>39, <1>f
     DEF Next, Continue, WorkerStep, ShutdownStep

LEMMA RecycleInit == Init => RecycleInv /\ MovesInv /\ IdleStrandsAreFree
BY DEF Init, RecycleInv, StrandsKnown, ReservationsHeld, Holding, FreeStrandsAreUnused, MovesInv,
       MovesAreExclusive, DeletesAtHome, Moving, IdleStrandsAreFree, NoCall, Threads, Range

(* acquireStrand() never gives two subtrees the same strand: one that is   *)
(* free is listed once, reserved by nobody and without nodes, in every     *)
(* pool and whatever the slots do.                                         *)
THEOREM FreeStrandsCorrect == Spec => []FreeStrandsAreUnused
<1>1. Init => PoolInv /\ RecycleInv
  BY PoolInvInit, RecycleInit
<1>2. PoolInv /\ RecycleInv /\ [Next]_vars => (PoolInv /\ RecycleInv)'
  BY PoolInvStep, RecycleStep
<1>3. RecycleInv => FreeStrandsAreUnused
  BY DEF RecycleInv
<1> QED
  BY <1>1, <1>2, <1>3, PTL DEF Spec

(* Strands are neither shared nor leaked, in every pool whose slots do not *)
(* move a node after its deleteLater().                                    *)
THEOREM StrandsRecycledCorrect ==
  ASSUME ~ MoveAfterDelete
  PROVE  Spec => []StrandsRecycled
<1> DEFINE All == PoolInv /\ RecycleInv /\ MovesInv /\ IdleStrandsAreFree
<1>1. Init => All
  BY PoolInvInit, RecycleInit
<1>2. All /\ [Next]_vars => All'
  BY PoolInvStep, RecycleStep, MovesStep, IdleStep
<1>3. All => StrandsRecycled
  BY DEF StrandsRecycled, RecycleInv
<1> QED
  BY <1>1, <1>2, <1>3, PTL DEF Spec

-----------------------------------------------------------------------------
(* What most actions do to the work of the strands: nothing.               *)
RunFrame ==
  /\ UNCHANGED sQueue
  /\ done' \cap Msgs = done \cap Msgs
  /\ \A w \in Workers : /\ wpc'[w] = "stask" <=> wpc[w] = "stask"
                        /\ wpc[w] = "stask" => cur'[w] = cur[w] /\ msg'[w] = msg[w]

(* A step of the pool is a step of the strands' executors or moves none.   *)
LEMMA SerialStep == PoolInv /\ [Next]_vars => [Serial!Next]_Serial!vars
<1> SUFFICES ASSUME PoolInv, [Next]_vars PROVE Serial!Next \/ UNCHANGED Serial!vars
  OBVIOUS
<1>i. Inv
  BY DEF PoolInv
<1>s. \A v, w \in Workers : wpc[v] \in DrainPcs /\ wpc[w] \in DrainPcs /\ cur[v] = cur[w] => v = w
  BY DEF PoolInv, Inv, WorkersOK, OneDrainPerStrand, OneDrain, DrainedBy
<1>f. ASSUME RunFrame PROVE UNCHANGED Serial!vars
  <2>1. ASSUME NEW s \in Strands PROVE RunningOn(s)' = RunningOn(s)
    <3>1. \A v \in Workers : /\ wpc'[v] = "stask" /\ cur'[v] = s <=> wpc[v] = "stask" /\ cur[v] = s
                             /\ wpc[v] = "stask" => msg'[v] = msg[v]
      BY <1>f DEF RunFrame
    <3> QED
      BY <1>s, <3>1 DEF RunningOn, DrainPcs
  <2> QED
    BY <1>f, <2>1 DEF RunFrame, Serial!vars
<1>1. ASSUME NEW t \in Threads, NEW j \in Jobs, Start(t, j) PROVE RunFrame
  BY <1>i, <1>1, PoolAssumption DEF Start, Call, UserCode, RunFrame, Inv, TypeOK, CallsOK, WorkersOK,
         Threads, In, WorkerPcs, DrainPcs, poolVars, workerVars, recycleVars, strandVars, nodeVars
<1>2. ASSUME NEW t \in Threads, NEW s \in Strands, NEW m \in Msgs, PostEnter(t, s, m) PROVE RunFrame
  BY <1>i, <1>2, PoolAssumption DEF PostEnter, Call, UserCode, RunFrame, Inv, TypeOK, CallsOK,
         WorkersOK, Threads, In, WorkerPcs, DrainPcs, poolVars, workerVars, recycleVars, strandVars,
         nodeVars
<1>3. ASSUME NEW t \in Threads, NEW n \in Nodes, MoveToTaskPool(t, n) PROVE RunFrame
  BY <1>i, <1>3, PoolAssumption DEF MoveToTaskPool, Call, UserCode, RunFrame, Inv, TypeOK, CallsOK,
         WorkersOK, Threads, In, WorkerPcs, DrainPcs, poolVars, workerVars, recycleVars, strandVars,
         nodeVars
<1>4. ASSUME NEW t \in Threads, NotifyOne(t) PROVE RunFrame
  BY <1>i, <1>4, PoolAssumption DEF NotifyOne, Return, RunFrame, Inv, TypeOK, CallsOK, WorkersOK,
         Threads, In, WorkerPcs, DrainPcs, poolVars, workerVars, recycleVars, strandVars, nodeVars
<1>5. ASSUME NEW t \in Threads, PostPush(t) PROVE Serial!Next
  <2>1. call[t].s \in Strands /\ call[t].x \in Msgs
    BY <1>i, <1>5 DEF PostPush, In, Inv, CallsOK
  <2>2. /\ sQueue' = [sQueue EXCEPT ![call[t].s] = Append(@, call[t].x)]
        /\ done' \cap Msgs = done \cap Msgs
        /\ \A s \in Strands : RunningOn(s)' = RunningOn(s)
    BY <1>i, <1>5 DEF PostPush, RunningOn, workerVars
  <2>3. Serial!Post(call[t].s, call[t].x)
    BY <2>2 DEF Serial!Post
  <2> QED
    BY <2>1, <2>3 DEF Serial!Next
<1>6. ASSUME NEW t \in Threads, PostPushAndSchedule(t) PROVE Serial!Next
  <2>1. call[t].s \in Strands /\ call[t].x \in Msgs
    BY <1>i, <1>6 DEF PostPushAndSchedule, In, Inv, CallsOK
  <2>2. /\ sQueue' = [sQueue EXCEPT ![call[t].s] = Append(@, call[t].x)]
        /\ done' \cap Msgs = done \cap Msgs
        /\ \A s \in Strands : RunningOn(s)' = RunningOn(s)
    BY <1>i, <1>6 DEF PostPushAndSchedule, RunningOn, workerVars
  <2>3. Serial!Post(call[t].s, call[t].x)
    BY <2>2 DEF Serial!Post
  <2> QED
    BY <2>1, <2>3 DEF Serial!Next
<1>7. ASSUME NEW t \in Threads, EnqueueStrandDrain(t) PROVE RunFrame
  BY <1>i, <1>7, PoolAssumption DEF EnqueueStrandDrain, Call, RunFrame, Inv, TypeOK, CallsOK,
         WorkersOK, Threads, In, WorkerPcs, DrainPcs, poolVars, workerVars, recycleVars, strandVars,
         nodeVars
<1>8. ASSUME NEW t \in Threads, RefuseStrandDrain(t) PROVE RunFrame
  BY <1>i, <1>8, PoolAssumption DEF RefuseStrandDrain, Call, RunFrame, Inv, TypeOK, CallsOK,
         WorkersOK, Threads, In, WorkerPcs, DrainPcs, poolVars, workerVars, recycleVars, strandVars,
         nodeVars
<1>9. ASSUME NEW t \in Threads, Unschedule(t) PROVE RunFrame
  BY <1>i, <1>9, PoolAssumption DEF Unschedule, Return, RunFrame, Inv, TypeOK, CallsOK, WorkersOK,
         Threads, In, WorkerPcs, DrainPcs, poolVars, workerVars, recycleVars, strandVars, nodeVars
<1>10. ASSUME NEW t \in Threads, ReuseStrand(t) PROVE RunFrame
  BY <1>i, <1>10, PoolAssumption DEF ReuseStrand, Call, RunFrame, Inv, TypeOK, CallsOK, WorkersOK,
         Threads, In, WorkerPcs, DrainPcs, poolVars, workerVars, recycleVars, strandVars, nodeVars
<1>11. ASSUME NEW t \in Threads, NEW s \in Strands, NewStrand(t, s) PROVE RunFrame
  BY <1>i, <1>11, PoolAssumption DEF NewStrand, Call, RunFrame, Inv, TypeOK, CallsOK, WorkersOK,
         Threads, In, WorkerPcs, DrainPcs, poolVars, workerVars, recycleVars, strandVars, nodeVars
<1>12. ASSUME NEW t \in Threads, ApplyMoveTo(t) PROVE RunFrame
  BY <1>i, <1>12, PoolAssumption DEF ApplyMoveTo, Call, RunFrame, Inv, TypeOK, CallsOK, WorkersOK,
         Threads, In, WorkerPcs, DrainPcs, poolVars, workerVars, recycleVars, strandVars, nodeVars
<1>13. ASSUME NEW t \in Threads, ReleaseStrandReservation(t) PROVE RunFrame
  BY <1>i, <1>13, PoolAssumption DEF ReleaseStrandReservation, Return, RunFrame, Inv, TypeOK,
         CallsOK, WorkersOK, Threads, In, WorkerPcs, DrainPcs, poolVars, workerVars, recycleVars,
         strandVars, nodeVars
<1>14. ASSUME NEW t \in Threads, WaitForDoneReturn(t) PROVE RunFrame
  BY <1>i, <1>14, PoolAssumption DEF WaitForDoneReturn, Return, RunFrame, Inv, TypeOK, CallsOK,
         WorkersOK, Threads, In, WorkerPcs, DrainPcs, poolVars, workerVars, recycleVars, strandVars,
         nodeVars
<1>15. ASSUME NEW t \in Threads, WaitForDoneBlock(t) PROVE RunFrame
  BY <1>i, <1>15, PoolAssumption DEF WaitForDoneBlock, Call, RunFrame, Inv, TypeOK, CallsOK,
         WorkersOK, Threads, In, WorkerPcs, DrainPcs, poolVars, workerVars, recycleVars, strandVars,
         nodeVars
<1>16. ASSUME NEW w \in Workers, TakeJob(w) PROVE RunFrame
  BY <1>i, <1>16, PoolAssumption DEF TakeJob, RunFrame, Inv, TypeOK, CallsOK, WorkersOK, Threads, In,
         WorkerPcs, DrainPcs, poolVars, workerVars, recycleVars, strandVars, nodeVars
<1>17. ASSUME NEW w \in Workers, TakeDrain(w) PROVE RunFrame
  BY <1>i, <1>17, PoolAssumption DEF TakeDrain, RunFrame, Inv, TypeOK, CallsOK, WorkersOK, Threads,
         In, WorkerPcs, DrainPcs, poolVars, workerVars, recycleVars, strandVars, nodeVars
<1>18. ASSUME NEW w \in Workers, WaitOrExit(w) PROVE RunFrame
  BY <1>i, <1>18, PoolAssumption DEF WaitOrExit, RunFrame, Inv, TypeOK, CallsOK, WorkersOK, Threads,
         In, WorkerPcs, DrainPcs, poolVars, workerVars, recycleVars, strandVars, nodeVars
<1>19. ASSUME NEW w \in Workers, JobEnd(w) PROVE RunFrame
  <2>1. msg[w] \notin Msgs /\ done' = done \union {msg[w]}
    BY <1>i, <1>19, PoolAssumption DEF JobEnd, Inv, WorkersOK
  <2> QED
    BY <1>i, <1>19, <2>1 DEF JobEnd, RunFrame, Inv, TypeOK, WorkerPcs, strandVars
<1>20. ASSUME NEW w \in Workers, DrainNext(w) PROVE Serial!Next
  <2>1. PICK s \in Strands : s = cur[w]
    BY <1>i, <1>20 DEF DrainNext, DrainPcs, Inv, WorkersOK
  <2>2. /\ sQueue[s] # <<>> /\ sQueue' = [sQueue EXCEPT ![s] = Tail(@)]
        /\ wpc' = [wpc EXCEPT ![w] = "stask"] /\ cur' = cur
        /\ msg' = [msg EXCEPT ![w] = Head(sQueue[s])] /\ done' = done
        /\ wpc[w] = "drain" /\ cur[w] = s
    BY <1>i, <1>20, <2>1 DEF DrainNext
  <2>3. \A v \in Workers : wpc[v] = "stask" => cur[v] # s
    BY <1>s, <2>2 DEF DrainPcs
  <2>4. RunningOn(s) = NoMsg
    BY <2>3 DEF RunningOn
  <2>5. \A v \in Workers : wpc'[v] = "stask" /\ cur'[v] = s <=> v = w
    BY <1>i, <2>2, <2>3 DEF Inv, TypeOK
  <2>6. RunningOn(s)' = Head(sQueue[s])
    BY <1>i, <2>2, <2>5 DEF RunningOn, Inv, TypeOK
  <2>7. ASSUME NEW k \in Strands, k # s PROVE RunningOn(k)' = RunningOn(k)
    <3>1. \A v \in Workers : /\ wpc'[v] = "stask" /\ cur'[v] = k <=> wpc[v] = "stask" /\ cur[v] = k
                             /\ wpc[v] = "stask" => msg'[v] = msg[v]
      BY <1>i, <2>2, <2>7 DEF Inv, TypeOK
    <3> QED
      BY <1>s, <3>1 DEF RunningOn, DrainPcs
  <2>8. Serial!Begin(s)
    BY <1>i, <2>2, <2>4, <2>6, <2>7 DEF Serial!Begin, Inv, TypeOK
  <2> QED
    BY <2>8 DEF Serial!Next
<1>21. ASSUME NEW w \in Workers, DrainBatchOver(w) PROVE RunFrame
  BY <1>i, <1>21, PoolAssumption DEF DrainBatchOver, RunFrame, Inv, TypeOK, CallsOK, WorkersOK,
         Threads, In, WorkerPcs, DrainPcs, poolVars, workerVars, recycleVars, strandVars, nodeVars
<1>22. ASSUME NEW w \in Workers, StrandTaskEnd(w) PROVE Serial!Next
  <2>1. PICK s \in Strands : s = cur[w]
    BY <1>i, <1>22 DEF StrandTaskEnd, Inv, WorkersOK, DrainPcs
  <2>2. /\ sQueue' = sQueue /\ wpc' = [wpc EXCEPT ![w] = "drain"] /\ cur' = cur
        /\ msg' = [msg EXCEPT ![w] = NoMsg] /\ done' = done \union {msg[w]}
        /\ wpc[w] = "stask" /\ cur[w] = s /\ msg[w] \in Msgs
    BY <1>i, <1>22, <2>1 DEF StrandTaskEnd, strandVars, Inv, WorkersOK
  <2>3. \A v \in Workers : wpc[v] = "stask" /\ cur[v] = s <=> v = w
    BY <1>s, <2>2 DEF DrainPcs
  <2>4. RunningOn(s) = msg[w]
    BY <2>3 DEF RunningOn
  <2>5. \A v \in Workers : ~ (wpc'[v] = "stask" /\ cur'[v] = s)
    BY <1>i, <2>2, <2>3 DEF Inv, TypeOK
  <2>6. RunningOn(s)' = NoMsg
    BY <2>5 DEF RunningOn
  <2>7. ASSUME NEW k \in Strands, k # s PROVE RunningOn(k)' = RunningOn(k)
    <3>1. \A v \in Workers : /\ wpc'[v] = "stask" /\ cur'[v] = k <=> wpc[v] = "stask" /\ cur[v] = k
                             /\ cur[v] = k => msg'[v] = msg[v]
      BY <1>i, <2>2, <2>7 DEF Inv, TypeOK
    <3> QED
      BY <1>s, <3>1 DEF RunningOn, DrainPcs
  <2>8. done' \cap Msgs = (done \cap Msgs) \union {msg[w]}
    BY <2>2
  <2>9. Serial!End(s)
    BY <2>2, <2>4, <2>6, <2>7, <2>8, PoolAssumption DEF Serial!End
  <2> QED
    BY <2>9 DEF Serial!Next
<1>23. ASSUME NEW w \in Workers, RunPendingDeletes(w) PROVE RunFrame
  BY <1>i, <1>23, PoolAssumption DEF RunPendingDeletes, RunFrame, Inv, TypeOK, CallsOK, WorkersOK,
         Threads, In, WorkerPcs, DrainPcs, poolVars, workerVars, recycleVars, strandVars, nodeVars
<1>24. ASSUME NEW w \in Workers, DrainAgain(w) PROVE RunFrame
  BY <1>i, <1>24, PoolAssumption DEF DrainAgain, Call, RunFrame, Inv, TypeOK, CallsOK, WorkersOK,
         Threads, In, WorkerPcs, DrainPcs, poolVars, workerVars, recycleVars, strandVars, nodeVars
<1>25. ASSUME NEW w \in Workers, DrainDone(w) PROVE RunFrame
  BY <1>i, <1>25, PoolAssumption DEF DrainDone, RunFrame, Inv, TypeOK, CallsOK, WorkersOK, Threads,
         In, WorkerPcs, DrainPcs, poolVars, workerVars, recycleVars, strandVars, nodeVars
<1>26. ASSUME NEW w \in Workers, RecycleStrandIfIdle(w) PROVE RunFrame
  BY <1>i, <1>26, PoolAssumption DEF RecycleStrandIfIdle, RunFrame, Inv, TypeOK, CallsOK, WorkersOK,
         Threads, In, WorkerPcs, DrainPcs, poolVars, workerVars, recycleVars, strandVars, nodeVars
<1>27. ASSUME NEW w \in Workers, TaskEnd(w) PROVE RunFrame
  BY <1>i, <1>27, PoolAssumption DEF TaskEnd, RunFrame, Inv, TypeOK, CallsOK, WorkersOK, Threads, In,
         WorkerPcs, DrainPcs, poolVars, workerVars, recycleVars, strandVars, nodeVars
<1>28. ASSUME NEW w \in Workers, SpuriousWake(w) PROVE RunFrame
  BY <1>i, <1>28, PoolAssumption DEF SpuriousWake, RunFrame, Inv, TypeOK, CallsOK, WorkersOK,
         Threads, In, WorkerPcs, DrainPcs, poolVars, workerVars, recycleVars, strandVars, nodeVars
<1>29. ASSUME NEW w \in Workers, NEW n \in Nodes, CreateNode(w, n) PROVE RunFrame
  BY <1>i, <1>29, PoolAssumption DEF CreateNode, RunFrame, Inv, TypeOK, CallsOK, WorkersOK, Threads,
         In, WorkerPcs, DrainPcs, poolVars, workerVars, recycleVars, strandVars, nodeVars
<1>30. ASSUME NEW w \in Workers, NEW n \in Nodes, EnqueueDelete(w, n) PROVE RunFrame
  BY <1>i, <1>30, PoolAssumption DEF EnqueueDelete, RunFrame, Inv, TypeOK, CallsOK, WorkersOK,
         Threads, In, WorkerPcs, DrainPcs, poolVars, workerVars, recycleVars, strandVars, nodeVars
<1>31. ASSUME NEW w \in Workers, NEW n \in Nodes, MoveToThread(w, n) PROVE RunFrame
  BY <1>i, <1>31, PoolAssumption DEF MoveToThread, RunFrame, Inv, TypeOK, CallsOK, WorkersOK,
         Threads, In, WorkerPcs, DrainPcs, poolVars, workerVars, recycleVars, strandVars, nodeVars
<1>32. ASSUME NEW t \in Clients, WaitForDone(t) PROVE RunFrame
  BY <1>i, <1>32, PoolAssumption DEF WaitForDone, Call, RunFrame, Inv, TypeOK, CallsOK, WorkersOK,
         Threads, In, WorkerPcs, DrainPcs, poolVars, workerVars, recycleVars, strandVars, nodeVars
<1>33. ASSUME NEW t \in Clients, Shutdown(t) PROVE RunFrame
  BY <1>i, <1>33, PoolAssumption DEF Shutdown, Call, RunFrame, Inv, TypeOK, CallsOK, WorkersOK,
         Threads, In, WorkerPcs, DrainPcs, poolVars, workerVars, recycleVars, strandVars, nodeVars
<1>34. ASSUME NEW t \in Clients, NotifyAll(t) PROVE RunFrame
  BY <1>i, <1>34, PoolAssumption DEF NotifyAll, Call, RunFrame, Inv, TypeOK, CallsOK, WorkersOK,
         Threads, In, WorkerPcs, DrainPcs, poolVars, workerVars, recycleVars, strandVars, nodeVars
<1>35. ASSUME NEW t \in Clients, JoinWorkers(t) PROVE RunFrame
  BY <1>i, <1>35, PoolAssumption DEF JoinWorkers, Call, RunFrame, Inv, TypeOK, CallsOK, WorkersOK,
         Threads, In, WorkerPcs, DrainPcs, poolVars, workerVars, recycleVars, strandVars, nodeVars
<1>36. ASSUME NEW t \in Clients, DestroyRemainingNodes(t) PROVE RunFrame
  BY <1>i, <1>36, PoolAssumption DEF DestroyRemainingNodes, Call, RunFrame, Inv, TypeOK, CallsOK,
         WorkersOK, Threads, In, WorkerPcs, DrainPcs, poolVars, workerVars, recycleVars, strandVars,
         nodeVars
<1>37. ASSUME NEW t \in Clients, ClearStrandQueue(t) PROVE Serial!Next
  <2>1. PICK s \in Strands : s = call[t].s
    BY <1>i, <1>37 DEF ClearStrandQueue, In, Inv, CallsOK, Threads
  <2>2. \A v \in Workers : wpc[v] # "stask"
    BY <1>i, <1>37 DEF ClearStrandQueue, In, Inv, CallsOK, TeardownOK, Threads
  <2>3. /\ sQueue' = [sQueue EXCEPT ![s] = <<>>] /\ done' = done
        /\ \A k \in Strands : RunningOn(k) = NoMsg /\ RunningOn(k)' = NoMsg
    BY <1>i, <1>37, <2>1, <2>2 DEF ClearStrandQueue, RunningOn, workerVars
  <2>4. Serial!Discard(s)
    BY <2>3 DEF Serial!Discard
  <2> QED
    BY <2>4 DEF Serial!Next
<1>38. ASSUME NEW t \in Clients, ShutdownReturn(t) PROVE RunFrame
  BY <1>i, <1>38, PoolAssumption DEF ShutdownReturn, Return, RunFrame, Inv, TypeOK, CallsOK,
         WorkersOK, Threads, In, WorkerPcs, DrainPcs, poolVars, workerVars, recycleVars, strandVars,
         nodeVars
<1>39. CASE UNCHANGED vars
  BY <1>39, <1>f DEF vars, RunFrame, poolVars, workerVars, recycleVars, strandVars, nodeVars
<1> QED
  BY <1>1, <1>2, <1>3, <1>4, <1>5, <1>6, <1>7, <1>8, <1>9, <1>10, <1>11, <1>12, <1>13, <1>14,
     <1>15, <1>16, <1>17, <1>18, <1>19, <1>20, <1>21, <1>22, <1>23, <1>24, <1>25, <1>26,
     <1>27, <1>28, <1>29, <1>30, <1>31, <1>32, <1>33, <1>34, <1>35, <1>36, <1>37, <1>38,
     <1>39, <1>f
     DEF Next, Continue, WorkerStep, ShutdownStep

(* Every strand of every pool is a serial executor: what post() hands to   *)
(* it runs in that order, one piece at a time, never twice, and only       *)
(* shutdown() throws work away.                                            *)
THEOREM StrandsImplementExecutorCorrect == Spec => StrandsImplementExecutor
<1>1. Init => PoolInv /\ Serial!Init
  <2>1. Init => Serial!Init
    BY DEF Init, Serial!Init, RunningOn
  <2> QED
    BY <2>1, PoolInvInit
<1>2. PoolInv /\ [Next]_vars => PoolInv' /\ [Serial!Next]_Serial!vars
  BY PoolInvStep, SerialStep
<1> QED
  BY <1>1, <1>2, PTL DEF Spec, StrandsImplementExecutor, Serial!Spec
=============================================================================
