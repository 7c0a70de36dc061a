---------------------------- MODULE LoggerProofs ----------------------------
(***************************************************************************)
(* Proofs about Logger for any number of producers, sinks and messages and *)
(* any capacity.                                                           *)
(***************************************************************************)
EXTENDS Logger, SequenceTheorems, FiniteSetTheorems, WellFoundedInduction, TLAPS

(* What the program counter of the worker says about its registers.        *)
WorkerOK ==
  /\ InFlight => wmsg \in Messages
  /\ m_running => wpc \notin {"none", "exited"}

Inv == QueueTypeOK /\ WorkerOK

LEMMA InvInit == Init => Inv
<1> SUFFICES ASSUME Init PROVE Inv
  OBVIOUS
<1>1. call \in [Threads -> CallType]
  BY DEF Init, CallType, Ops, NoCall
<1>2. m_queue \in Seq(Messages) /\ accepted \in Seq(Messages)
  BY DEF Init
<1>3. wpc \in WorkerPcs /\ wmsg \in Messages \union {NoMsg}
  BY DEF Init, WorkerPcs
<1>4. WorkerOK
  BY DEF Init, WorkerOK, InFlight
<1>5. /\ m_levelFilter \in Levels
      /\ m_nextSequence \in Nat \ {0}
      /\ m_enqueued \in Nat /\ m_processed \in Nat /\ m_dropped \in Nat
  BY LoggerAssumption DEF Init, FirstSequence
<1>6. m_running \in BOOLEAN
  BY DEF Init
<1> QED
  BY <1>1, <1>2, <1>3, <1>4, <1>5, <1>6 DEF Inv, QueueTypeOK

LEMMA InvStep == Inv /\ [Next]_vars => Inv'
<1> SUFFICES ASSUME Inv, [Next]_vars PROVE Inv'
  OBVIOUS
<1> USE LoggerAssumption
    DEF Inv, QueueTypeOK, WorkerOK, WorkerPcs, InFlight, Threads, CallType, Ops,
        NoCall, In, countVars, sinkVars, workerVars
<1>1. ASSUME NEW t \in Clients, Start(t) PROVE Inv'
  BY <1>1 DEF Start
<1>2. ASSUME NEW t \in Clients, StartAborts(t) PROVE Inv'
  BY <1>2 DEF StartAborts
<1>3. ASSUME NEW t \in Clients, Stop(t) PROVE Inv'
  BY <1>3 DEF Stop, Call
<1>4. ASSUME NEW t \in Clients, StopAlreadyStopping(t) PROVE Inv'
  BY <1>4 DEF StopAlreadyStopping, Return
<1>5. ASSUME NEW t \in Clients, StopJoin(t) PROVE Inv'
  BY <1>5 DEF StopJoin, Call
<1>6. ASSUME NEW t \in Clients, Flush(t) PROVE Inv'
  BY <1>6 DEF Flush, Call
<1>7. ASSUME NEW t \in Clients, FlushTrue(t) PROVE Inv'
  BY <1>7 DEF FlushTrue, Call
<1>8. ASSUME NEW t \in Clients, FlushBlock(t) PROVE Inv'
  BY <1>8 DEF FlushBlock, Call
<1>9. ASSUME NEW t \in Clients, FlushTimeout(t) PROVE Inv'
  BY <1>9 DEF FlushTimeout, Return
<1>10. ASSUME NEW t \in Clients, NEW lv \in Levels, SetLevel(t, lv) PROVE Inv'
  BY <1>10 DEF SetLevel
<1>11. ASSUME NEW t \in Clients, NEW s \in Sinks, AddSink(t, s) PROVE Inv'
  BY <1>11 DEF AddSink
<1>12. ASSUME NEW t \in Clients, NEW s \in Sinks, RemoveSink(t, s) PROVE Inv'
  BY <1>12 DEF RemoveSink
<1>13. ASSUME NEW t \in Clients, ClearSinks(t) PROVE Inv'
  BY <1>13 DEF ClearSinks
<1>14. ASSUME NEW t \in Threads, NEW lv \in Levels, Log(t, lv) PROVE Inv'
  BY <1>14 DEF Log, CanLog, Call
<1>15. ASSUME NEW t \in Threads, LogDrop(t) PROVE Inv'
  BY <1>15 DEF LogDrop, Return
<1>16. ASSUME NEW t \in Threads, LogPush(t) PROVE Inv'
  <2>1. [seq |-> call[t].n, from |-> t] \in Messages
    BY <1>16 DEF Messages
  <2> QED
    BY <1>16, <2>1 DEF LogPush, QueueFull, Call
<1>17. ASSUME NEW t \in Threads, NotifyNobody(t) PROVE Inv'
  BY <1>17 DEF NotifyNobody, AfterNotify
<1>18. ASSUME NEW t \in Threads, NotifyWorker(t) PROVE Inv'
  BY <1>18 DEF NotifyWorker, AfterNotify
<1>19. ASSUME NEW t \in Threads, NEW u \in Clients, NotifyFlusher(t, u) PROVE Inv'
  <2>1. t # u /\ u \in Threads
    BY <1>19 DEF NotifyFlusher, In, Threads
  <2>2. call' \in [Threads -> CallType]
    <3>1. AfterNotify(t) \in CallType
      BY <1>19 DEF AfterNotify
    <3>2. [call[u] EXCEPT !.op = "flush"] \in CallType
      BY <2>1
    <3> QED
      BY <1>19, <2>1, <3>1, <3>2 DEF NotifyFlusher
  <2> QED
    BY <1>19, <2>2 DEF NotifyFlusher
<1>20. ASSUME TakeMessage PROVE Inv'
  BY <1>20 DEF TakeMessage, Pop, WorkerAt
<1>21. ASSUME WorkerWait PROVE Inv'
  BY <1>21 DEF WorkerWait, WorkerAt
<1>22. ASSUME DrainOver PROVE Inv'
  BY <1>22 DEF DrainOver, WakeFlushers, WorkerAt
<1>23. ASSUME SnapshotSinks PROVE Inv'
  BY <1>23 DEF SnapshotSinks, WorkerAt
<1>24. ASSUME Consume PROVE Inv'
  BY <1>24 DEF Consume, WorkerAt
<1>25. ASSUME Processed PROVE Inv'
  BY <1>25 DEF Processed, WorkerAt
<1>26. ASSUME SpuriousWake PROVE Inv'
  BY <1>26 DEF SpuriousWake, WorkerAt
<1>27. CASE UNCHANGED vars
  BY <1>27 DEF vars
<1> QED
  BY <1>1, <1>2, <1>3, <1>4, <1>5, <1>6, <1>7, <1>8, <1>9, <1>10, <1>11, <1>12, <1>13, <1>14, <1>15, <1>16, <1>17, <1>18, <1>19, <1>20, <1>21, <1>22, <1>23, <1>24, <1>25, <1>26, <1>27
     DEF Next, ClientStep, SettingStep, LogStep, WorkerStep

-----------------------------------------------------------------------------
LEMMA AccountingStep == Inv /\ Accounting /\ [Next]_vars => Accounting'
<1> SUFFICES ASSUME Inv, Accounting, [Next]_vars PROVE Accounting'
  OBVIOUS
<1> USE LoggerAssumption
    DEF Inv, QueueTypeOK, WorkerOK, WorkerPcs, InFlight, Accounting,
        countVars, sinkVars, workerVars
<1>1. ASSUME NEW t \in Clients, Start(t) PROVE Accounting'
  BY <1>1 DEF Start
<1>2. ASSUME NEW t \in Clients, StartAborts(t) PROVE Accounting'
  BY <1>2 DEF StartAborts
<1>3. ASSUME NEW t \in Clients, Stop(t) PROVE Accounting'
  BY <1>3 DEF Stop, Call
<1>4. ASSUME NEW t \in Clients, StopAlreadyStopping(t) PROVE Accounting'
  BY <1>4 DEF StopAlreadyStopping, Return
<1>5. ASSUME NEW t \in Clients, StopJoin(t) PROVE Accounting'
  BY <1>5 DEF StopJoin, Call
<1>6. ASSUME NEW t \in Clients, Flush(t) PROVE Accounting'
  BY <1>6 DEF Flush, Call
<1>7. ASSUME NEW t \in Clients, FlushTrue(t) PROVE Accounting'
  BY <1>7 DEF FlushTrue, Call
<1>8. ASSUME NEW t \in Clients, FlushBlock(t) PROVE Accounting'
  BY <1>8 DEF FlushBlock, Call
<1>9. ASSUME NEW t \in Clients, FlushTimeout(t) PROVE Accounting'
  BY <1>9 DEF FlushTimeout, Return
<1>10. ASSUME NEW t \in Clients, NEW lv \in Levels, SetLevel(t, lv) PROVE Accounting'
  BY <1>10 DEF SetLevel
<1>11. ASSUME NEW t \in Clients, NEW s \in Sinks, AddSink(t, s) PROVE Accounting'
  BY <1>11 DEF AddSink
<1>12. ASSUME NEW t \in Clients, NEW s \in Sinks, RemoveSink(t, s) PROVE Accounting'
  BY <1>12 DEF RemoveSink
<1>13. ASSUME NEW t \in Clients, ClearSinks(t) PROVE Accounting'
  BY <1>13 DEF ClearSinks
<1>14. ASSUME NEW t \in Threads, NEW lv \in Levels, Log(t, lv) PROVE Accounting'
  BY <1>14 DEF Log, CanLog, Call
<1>15. ASSUME NEW t \in Threads, LogDrop(t) PROVE Accounting'
  BY <1>15 DEF LogDrop, Return
<1>16. ASSUME NEW t \in Threads, LogPush(t) PROVE Accounting'
  BY <1>16 DEF LogPush, QueueFull, Call
<1>17. ASSUME NEW t \in Threads, NotifyNobody(t) PROVE Accounting'
  BY <1>17 DEF NotifyNobody, AfterNotify
<1>18. ASSUME NEW t \in Threads, NotifyWorker(t) PROVE Accounting'
  BY <1>18 DEF NotifyWorker, AfterNotify
<1>19. ASSUME NEW t \in Threads, NEW u \in Clients, NotifyFlusher(t, u) PROVE Accounting'
  BY <1>19 DEF NotifyFlusher, AfterNotify
<1>20. ASSUME TakeMessage PROVE Accounting'
  <2>1. m_queue \in Seq(Messages) /\ m_queue # <<>> /\ m_queue' = Tail(m_queue) /\ ~InFlight /\ InFlight'
    BY <1>20 DEF TakeMessage, Pop, WorkerAt
  <2>2. Len(m_queue') = Len(m_queue) - 1 /\ Len(m_queue) \in Nat /\ Len(m_queue) > 0
    BY <2>1
  <2> QED
    BY <1>20, <2>1, <2>2 DEF TakeMessage
<1>21. ASSUME WorkerWait PROVE Accounting'
  BY <1>21 DEF WorkerWait, WorkerAt
<1>22. ASSUME DrainOver PROVE Accounting'
  BY <1>22 DEF DrainOver, WakeFlushers, WorkerAt
<1>23. ASSUME SnapshotSinks PROVE Accounting'
  BY <1>23 DEF SnapshotSinks, WorkerAt
<1>24. ASSUME Consume PROVE Accounting'
  BY <1>24 DEF Consume, WorkerAt
<1>25. ASSUME Processed PROVE Accounting'
  BY <1>25 DEF Processed, WorkerAt
<1>26. ASSUME SpuriousWake PROVE Accounting'
  BY <1>26 DEF SpuriousWake, WorkerAt
<1>27. CASE UNCHANGED vars
  BY <1>27 DEF vars
<1> QED
  BY <1>1, <1>2, <1>3, <1>4, <1>5, <1>6, <1>7, <1>8, <1>9, <1>10, <1>11, <1>12, <1>13, <1>14, <1>15, <1>16, <1>17, <1>18, <1>19, <1>20, <1>21, <1>22, <1>23, <1>24, <1>25, <1>26, <1>27
     DEF Next, ClientStep, SettingStep, LogStep, WorkerStep

(* Nobody can miss the worker's notify_all().                              *)
LEMMA WokenStep == Inv /\ FlushersWoken /\ [Next]_vars => FlushersWoken'
<1> SUFFICES ASSUME Inv, FlushersWoken, [Next]_vars PROVE FlushersWoken'
  OBVIOUS
<1> USE LoggerAssumption
    DEF Inv, QueueTypeOK, WorkerOK, WorkerPcs, FlushersWoken, AllDelivered, In, Idle, Threads,
        CallType, Ops, NoCall, countVars, sinkVars, workerVars
<1>1. ASSUME NEW t \in Clients, Start(t) PROVE FlushersWoken'
  BY <1>1 DEF Start
<1>2. ASSUME NEW t \in Clients, StartAborts(t) PROVE FlushersWoken'
  BY <1>2 DEF StartAborts
<1>3. ASSUME NEW t \in Clients, Stop(t) PROVE FlushersWoken'
  BY <1>3 DEF Stop, Call
<1>4. ASSUME NEW t \in Clients, StopAlreadyStopping(t) PROVE FlushersWoken'
  BY <1>4 DEF StopAlreadyStopping, Return
<1>5. ASSUME NEW t \in Clients, StopJoin(t) PROVE FlushersWoken'
  BY <1>5 DEF StopJoin, Call
<1>6. ASSUME NEW t \in Clients, Flush(t) PROVE FlushersWoken'
  BY <1>6 DEF Flush, Call
<1>7. ASSUME NEW t \in Clients, FlushTrue(t) PROVE FlushersWoken'
  BY <1>7 DEF FlushTrue, Call
<1>8. ASSUME NEW t \in Clients, FlushBlock(t) PROVE FlushersWoken'
  BY <1>8 DEF FlushBlock, Call
<1>9. ASSUME NEW t \in Clients, FlushTimeout(t) PROVE FlushersWoken'
  BY <1>9 DEF FlushTimeout, Return
<1>10. ASSUME NEW t \in Clients, NEW lv \in Levels, SetLevel(t, lv) PROVE FlushersWoken'
  BY <1>10 DEF SetLevel
<1>11. ASSUME NEW t \in Clients, NEW s \in Sinks, AddSink(t, s) PROVE FlushersWoken'
  BY <1>11 DEF AddSink
<1>12. ASSUME NEW t \in Clients, NEW s \in Sinks, RemoveSink(t, s) PROVE FlushersWoken'
  BY <1>12 DEF RemoveSink
<1>13. ASSUME NEW t \in Clients, ClearSinks(t) PROVE FlushersWoken'
  BY <1>13 DEF ClearSinks
<1>14. ASSUME NEW t \in Threads, NEW lv \in Levels, Log(t, lv) PROVE FlushersWoken'
  BY <1>14 DEF Log, CanLog, Call
<1>15. ASSUME NEW t \in Threads, LogDrop(t) PROVE FlushersWoken'
  BY <1>15 DEF LogDrop, Return
<1>16. ASSUME NEW t \in Threads, LogPush(t) PROVE FlushersWoken'
  <2>1. m_queue' # <<>>
    BY <1>16 DEF LogPush
  <2> QED
    BY <2>1
<1>17. ASSUME NEW t \in Threads, NotifyNobody(t) PROVE FlushersWoken'
  BY <1>17 DEF NotifyNobody, AfterNotify
<1>18. ASSUME NEW t \in Threads, NotifyWorker(t) PROVE FlushersWoken'
  BY <1>18 DEF NotifyWorker, AfterNotify
<1>19. ASSUME NEW t \in Threads, NEW u \in Clients, NotifyFlusher(t, u) PROVE FlushersWoken'
  BY <1>19 DEF NotifyFlusher, AfterNotify
<1>20. ASSUME TakeMessage PROVE FlushersWoken'
  BY <1>20 DEF TakeMessage, Pop, WorkerAt
<1>21. ASSUME WorkerWait PROVE FlushersWoken'
  BY <1>21 DEF WorkerWait, WorkerAt
<1>22. ASSUME DrainOver PROVE FlushersWoken'
  BY <1>22 DEF DrainOver, WakeFlushers, WorkerAt
<1>23. ASSUME SnapshotSinks PROVE FlushersWoken'
  BY <1>23 DEF SnapshotSinks, WorkerAt
<1>24. ASSUME Consume PROVE FlushersWoken'
  BY <1>24 DEF Consume, WorkerAt
<1>25. ASSUME Processed PROVE FlushersWoken'
  BY <1>25 DEF Processed, WorkerAt
<1>26. ASSUME SpuriousWake PROVE FlushersWoken'
  BY <1>26 DEF SpuriousWake, WorkerAt
<1>27. CASE UNCHANGED vars
  BY <1>27 DEF vars
<1> QED
  BY <1>1, <1>2, <1>3, <1>4, <1>5, <1>6, <1>7, <1>8, <1>9, <1>10, <1>11, <1>12, <1>13, <1>14, <1>15, <1>16, <1>17, <1>18, <1>19, <1>20, <1>21, <1>22, <1>23, <1>24, <1>25, <1>26, <1>27
     DEF Next, ClientStep, SettingStep, LogStep, WorkerStep

-----------------------------------------------------------------------------
(* The bookkeeping of stop(): one thread waits for a worker that was told  *)
(* to leave, and once that has left everything accepted before that stop() *)
(* is processed.  std::terminate() takes all threads at once.              *)
StopInv ==
  /\ \A t, u \in Threads : In(t, "dead") => In(u, "dead")
  /\ \A t \in Clients : Joining(t) =>
       /\ ~m_running /\ wpc # "none"
       /\ call[t].n <= m_enqueued
       /\ wpc = "exited" => m_processed >= call[t].n
  /\ StopDrains

LEMMA StopStep ==
  ASSUME Inv, Accounting, StopInv, [Next]_vars PROVE StopInv'
<1> USE LoggerAssumption
    DEF Inv, QueueTypeOK, WorkerOK, WorkerPcs, InFlight, StopInv, Joining, StopDrains, In, Idle,
        Threads, CallType, Ops, NoCall, countVars, sinkVars, workerVars
<1>1. ASSUME NEW t \in Clients, Start(t) PROVE StopInv'
  BY <1>1 DEF Start
<1>2. ASSUME NEW t \in Clients, StartAborts(t) PROVE StopInv'
  BY <1>2 DEF StartAborts
<1>3. ASSUME NEW t \in Clients, Stop(t) PROVE StopInv'
  BY <1>3 DEF Stop, Call
<1>4. ASSUME NEW t \in Clients, StopAlreadyStopping(t) PROVE StopInv'
  BY <1>4 DEF StopAlreadyStopping, Return
<1>5. ASSUME NEW t \in Clients, StopJoin(t) PROVE StopInv'
  BY <1>5 DEF StopJoin, Call
<1>6. ASSUME NEW t \in Clients, Flush(t) PROVE StopInv'
  BY <1>6 DEF Flush, Call
<1>7. ASSUME NEW t \in Clients, FlushTrue(t) PROVE StopInv'
  BY <1>7 DEF FlushTrue, Call
<1>8. ASSUME NEW t \in Clients, FlushBlock(t) PROVE StopInv'
  BY <1>8 DEF FlushBlock, Call
<1>9. ASSUME NEW t \in Clients, FlushTimeout(t) PROVE StopInv'
  BY <1>9 DEF FlushTimeout, Return
<1>10. ASSUME NEW t \in Clients, NEW lv \in Levels, SetLevel(t, lv) PROVE StopInv'
  BY <1>10 DEF SetLevel
<1>11. ASSUME NEW t \in Clients, NEW s \in Sinks, AddSink(t, s) PROVE StopInv'
  BY <1>11 DEF AddSink
<1>12. ASSUME NEW t \in Clients, NEW s \in Sinks, RemoveSink(t, s) PROVE StopInv'
  BY <1>12 DEF RemoveSink
<1>13. ASSUME NEW t \in Clients, ClearSinks(t) PROVE StopInv'
  BY <1>13 DEF ClearSinks
<1>14. ASSUME NEW t \in Threads, NEW lv \in Levels, Log(t, lv) PROVE StopInv'
  BY <1>14 DEF Log, CanLog, Call
<1>15. ASSUME NEW t \in Threads, LogDrop(t) PROVE StopInv'
  BY <1>15 DEF LogDrop, Return
<1>16. ASSUME NEW t \in Threads, LogPush(t) PROVE StopInv'
  BY <1>16 DEF LogPush, QueueFull, Call
<1>17. ASSUME NEW t \in Threads, NotifyNobody(t) PROVE StopInv'
  BY <1>17 DEF NotifyNobody, AfterNotify
<1>18. ASSUME NEW t \in Threads, NotifyWorker(t) PROVE StopInv'
  BY <1>18 DEF NotifyWorker, AfterNotify
<1>19. ASSUME NEW t \in Threads, NEW u \in Clients, NotifyFlusher(t, u) PROVE StopInv'
  <2>1. t # u /\ u \in Threads
    BY <1>19 DEF NotifyFlusher
  <2>2. \A v \in Threads :
          /\ call'[v].n = call[v].n \/ (v = t /\ In(t, "notify"))
          /\ Joining(v)' <=> Joining(v)
          /\ call'[v].op \in {"dead", "stopped"} <=> call[v].op \in {"dead", "stopped"}
          /\ call'[v].op = "dead" <=> call[v].op = "dead"
    BY <1>19, <2>1 DEF NotifyFlusher, AfterNotify
  <2>3. UNCHANGED <<m_running, m_enqueued, m_processed, wpc>>
    BY <1>19 DEF NotifyFlusher
  <2>4. \A v \in Threads : Joining(v) \/ In(v, "stopped") => call'[v].n = call[v].n
    BY <2>2
  <2>5. ~In(Worker, "dead")' => ~In(Worker, "dead")
    BY <2>2
  <2> QED
    BY <2>2, <2>3, <2>4, <2>5
<1>20. ASSUME TakeMessage PROVE StopInv'
  BY <1>20 DEF TakeMessage, Pop, WorkerAt
<1>21. ASSUME WorkerWait PROVE StopInv'
  BY <1>21 DEF WorkerWait, WorkerAt
<1>22. ASSUME DrainOver PROVE StopInv'
  <2>1. \A v \in Threads :
          /\ call'[v].n = call[v].n
          /\ call'[v].op \in {"stopNotify", "join"} <=> call[v].op \in {"stopNotify", "join"}
          /\ call'[v].op = "stopped" <=> call[v].op = "stopped"
          /\ call'[v].op = "dead" <=> call[v].op = "dead"
    BY <1>22 DEF DrainOver, WakeFlushers
  <2>2. wpc' = "exited" => m_processed = m_enqueued
    BY <1>22 DEF DrainOver, WorkerAt, Accounting
  <2>3. /\ wpc # "none" /\ wpc' # "none"
        /\ UNCHANGED <<m_running, m_enqueued, m_processed>>
    BY <1>22 DEF DrainOver, WorkerAt
  <2>4. \A t \in Clients : Joining(t)' =>
          /\ ~m_running' /\ wpc' # "none"
          /\ call'[t].n <= m_enqueued'
          /\ wpc' = "exited" => m_processed' >= call'[t].n
    BY <2>1, <2>2, <2>3
  <2>5. \A t \in Clients : In(t, "stopped")' => m_processed' >= call'[t].n
    BY <2>1, <2>3
  <2>6. \A t, u \in Clients : Joining(t)' /\ Joining(u)' => t = u
    BY <2>1
  <2>7. ~m_running' /\ wpc' # "none" => (\E t \in Clients : Joining(t)') \/ In(Worker, "dead")'
    BY <2>1, <2>3
  <2>8. \A t, u \in Threads : In(t, "dead")' => In(u, "dead")'
    BY <2>1
  <2> QED
    BY <2>4, <2>5, <2>6, <2>7, <2>8
<1>23. ASSUME SnapshotSinks PROVE StopInv'
  BY <1>23 DEF SnapshotSinks, WorkerAt
<1>24. ASSUME Consume PROVE StopInv'
  BY <1>24 DEF Consume, WorkerAt
<1>25. ASSUME Processed PROVE StopInv'
  BY <1>25 DEF Processed, WorkerAt
<1>26. ASSUME SpuriousWake PROVE StopInv'
  BY <1>26 DEF SpuriousWake, WorkerAt
<1>27. CASE UNCHANGED vars
  BY <1>27 DEF vars
<1> QED
  BY <1>1, <1>2, <1>3, <1>4, <1>5, <1>6, <1>7, <1>8, <1>9, <1>10, <1>11, <1>12, <1>13, <1>14, <1>15, <1>16, <1>17, <1>18, <1>19, <1>20, <1>21, <1>22, <1>23, <1>24, <1>25, <1>26, <1>27
     DEF Next, ClientStep, SettingStep, LogStep, WorkerStep

-----------------------------------------------------------------------------
(* Induction over the natural numbers, for sets.                           *)
LEMMA SetInduction ==
  ASSUME NEW N \in SUBSET Nat, 0 \in N, \A n \in N : n + 1 \in N
  PROVE  N = Nat
<1> DEFINE T == {n \in Nat : n \notin N}
           Less == {ss \in Nat \X Nat : ss[1] < ss[2]}
<1>1. SUFFICES ASSUME T # {} PROVE FALSE
  OBVIOUS
<1>2. IsWellFoundedOn(Less, Nat)
  BY NatLessThanWellFounded DEF OpToRel
<1>3. T \subseteq Nat
  OBVIOUS
<1> HIDE DEF Less
<1>4. PICK x \in T : \A y \in T : ~ (<<y, x>> \in Less)
  BY <1>1, <1>2, <1>3, WFMin
<1>5. x \in Nat /\ x # 0 /\ x - 1 \in Nat
  BY <1>4
<1>6. x - 1 \in N => x \in N
  BY <1>5
<1>7. x - 1 \in T
  BY <1>4, <1>5, <1>6
<1>8. <<x - 1, x>> \in Less
  BY <1>5 DEF Less
<1> QED
  BY <1>4, <1>7, <1>8

(* s is registered exactly once.                                           *)
Once(q, x) ==
  /\ \E i \in DOMAIN q : q[i] = x
  /\ \A i, j \in DOMAIN q : q[i] = x /\ q[j] = x => i = j

(* f is the recursion in Without, which has a solution.                    *)
Keeps(f, q, s) ==
  /\ DOMAIN f = 0 .. Len(q)
  /\ Without(q, s) = f[Len(q)]
  /\ f[0] = <<>>
  /\ \A n \in 1 .. Len(q) :
       f[n] = IF q[n] = s THEN f[n - 1] ELSE Append(f[n - 1], q[n])

LEMMA WithoutWellDefined ==
  ASSUME NEW S, NEW q \in Seq(S), NEW s
  PROVE  \E f : Keeps(f, q, s)
<1> DEFINE Kept(f, k) ==
      f = [n \in 0 .. k |->
             IF n = 0 THEN <<>>
             ELSE IF q[n] = s THEN f[n - 1] ELSE Append(f[n - 1], q[n])]
           N == {k \in Nat : \E f : Kept(f, k)}
<1>1. 0 \in N
  <2>1. Kept([n \in 0 .. 0 |-> <<>>], 0)
    OBVIOUS
  <2> QED
    BY <2>1
<1>2. ASSUME NEW k \in N PROVE k + 1 \in N
  <2>1. PICK f : Kept(f, k)
    BY <1>2
  <2> DEFINE g == [n \in 0 .. k + 1 |->
                     IF n = k + 1
                     THEN IF q[n] = s THEN f[k] ELSE Append(f[k], q[n])
                     ELSE f[n]]
  <2>2. \A n \in 0 .. k : g[n] = f[n]
    OBVIOUS
  <2>3. \A n \in 0 .. k : f[n] = IF n = 0 THEN <<>>
             ELSE IF q[n] = s THEN f[n - 1] ELSE Append(f[n - 1], q[n])
    BY <2>1
  <2>4. ASSUME NEW n \in 0 .. k + 1
        PROVE  g[n] = IF n = 0 THEN <<>>
             ELSE IF q[n] = s THEN g[n - 1] ELSE Append(g[n - 1], q[n])
    <3>1. CASE n = 0
      <4>1. 0 \in 0 .. k
        OBVIOUS
      <4>2. g[0] = f[0] /\ f[0] = <<>>
        BY <2>2, <2>3, <4>1
      <4> QED
        BY <3>1, <4>2
    <3>2. CASE n \in 1 .. k
      <4>1. n \in 0 .. k /\ n - 1 \in 0 .. k /\ n # 0
        BY <3>2
      <4> QED
        BY <4>1, <2>2, <2>3
    <3>3. CASE n = k + 1
      <4>1. k \in 0 .. k /\ n - 1 = k /\ n # 0
        BY <3>3
      <4>2. g[n - 1] = f[k]
        BY <4>1, <2>2
      <4>3. g[n] = IF q[n] = s THEN f[k] ELSE Append(f[k], q[n])
        BY <3>3
      <4> QED
        BY <4>1, <4>2, <4>3
    <3> QED
      BY <3>1, <3>2, <3>3
  <2>5. g = [n \in 0 .. k + 1 |-> IF n = 0 THEN <<>>
             ELSE IF q[n] = s THEN g[n - 1] ELSE Append(g[n - 1], q[n])]
    <3> HIDE DEF g
    <3>1. g = [n \in 0 .. k + 1 |-> g[n]]
      BY DEF g
    <3> QED
      BY <2>4, <3>1
  <2> HIDE DEF g
  <2>6. \E h : Kept(h, k + 1)
    BY <2>5
  <2>7. k + 1 \in Nat
    OBVIOUS
  <2> QED
    BY <2>6, <2>7
<1>3. N = Nat
  <2>1. N \in SUBSET Nat
    OBVIOUS
  <2> HIDE DEF N
  <2> QED
    BY <1>1, <1>2, <2>1, SetInduction
<1>4. Len(q) \in Nat
  OBVIOUS
<1>5. \E f : Kept(f, Len(q))
  <2>1. Len(q) \in N
    BY <1>3, <1>4
  <2> QED
    BY <2>1
<1> DEFINE kept == CHOOSE f : Kept(f, Len(q))
<1>6. Kept(kept, Len(q))
  BY <1>5
<1>7. Without(q, s) = kept[Len(q)]
  BY DEF Without
<1> HIDE DEF kept
<1>8. DOMAIN kept = 0 .. Len(q)
  BY <1>6
<1>9. \A n \in 0 .. Len(q) :
        kept[n] = IF n = 0 THEN <<>>
                  ELSE IF q[n] = s THEN kept[n - 1] ELSE Append(kept[n - 1], q[n])
  BY <1>6
<1>10. kept[0] = <<>>
  BY <1>4, <1>9
<1>11. \A n \in 1 .. Len(q) :
         kept[n] = IF q[n] = s THEN kept[n - 1] ELSE Append(kept[n - 1], q[n])
  BY <1>4, <1>9
<1>12. Keeps(kept, q, s)
  BY <1>7, <1>8, <1>10, <1>11 DEF Keeps
<1> QED
  BY <1>12

(* removeSink() keeps every other sink, and as often as it was there.      *)
LEMMA WithoutProperties ==
  ASSUME NEW S, NEW q \in Seq(S), NEW s
  PROVE  /\ Without(q, s) \in Seq(S)
         /\ \A x : x # s /\ Once(q, x) => Once(Without(q, s), x)
<1>0. PICK f : Keeps(f, q, s)
  BY WithoutWellDefined
<1>1. /\ DOMAIN f = 0 .. Len(q)
      /\ Without(q, s) = f[Len(q)]
      /\ f[0] = <<>>
      /\ \A n \in 1 .. Len(q) :
           f[n] = IF q[n] = s THEN f[n - 1] ELSE Append(f[n - 1], q[n])
  BY <1>0 DEF Keeps
<1> DEFINE Typed(n) == f[n] \in Seq(S)
           Kept(n) == \A i \in 1 .. n : q[i] # s =>
                        \E j \in DOMAIN f[n] : f[n][j] = q[i]
           From(n) == \A j \in DOMAIN f[n] : \E i \in 1 .. n : f[n][j] = q[i]
           Twice(n) == \A j, k \in DOMAIN f[n] : j < k /\ f[n][j] = f[n][k] =>
                         \E i, l \in 1 .. n : i < l /\ q[i] = f[n][j] /\ q[l] = f[n][j]
           N == {n \in Nat : n <= Len(q) => Typed(n) /\ Kept(n) /\ From(n) /\ Twice(n)}
<1>2. 0 \in N
  <2>1. DOMAIN f[0] = {} /\ f[0] \in Seq(S)
    BY <1>1
  <2>2. 1 .. 0 = {}
    OBVIOUS
  <2> QED
    BY <2>1, <2>2
<1>3. ASSUME NEW n \in N PROVE n + 1 \in N
  <2> SUFFICES ASSUME n + 1 <= Len(q)
               PROVE  Typed(n + 1) /\ Kept(n + 1) /\ From(n + 1) /\ Twice(n + 1)
    OBVIOUS
  <2>1. n \in Nat /\ Len(q) \in Nat /\ n + 1 \in 1 .. Len(q) /\ (n + 1) - 1 = n
    OBVIOUS
  <2>2. Typed(n) /\ Kept(n) /\ From(n) /\ Twice(n)
    BY <2>1
  <2>3. f[n + 1] = IF q[n + 1] = s THEN f[n] ELSE Append(f[n], q[n + 1])
    BY <1>1, <2>1
  <2>4. CASE q[n + 1] = s
    <3>1. f[n + 1] = f[n]
      BY <2>3, <2>4
    <3>2. Typed(n + 1) /\ From(n + 1) /\ Twice(n + 1)
      BY <2>1, <2>2, <3>1
    <3>3. Kept(n + 1)
      BY <2>1, <2>2, <2>4, <3>1
    <3> QED
      BY <3>2, <3>3
  <2>5. CASE q[n + 1] # s
    <3> DEFINE g == f[n]
               h == f[n + 1]
    <3>1. h = Append(g, q[n + 1]) /\ g \in Seq(S) /\ q[n + 1] \in S
      BY <2>1, <2>2, <2>3, <2>5
    <3>2. /\ h \in Seq(S)
          /\ DOMAIN g = 1 .. Len(g) /\ Len(g) \in Nat
          /\ DOMAIN h = 1 .. Len(g) + 1
          /\ \A j \in 1 .. Len(g) : h[j] = g[j]
          /\ h[Len(g) + 1] = q[n + 1]
      <4> HIDE DEF g, h
      <4> QED
        BY <3>1
    <3>3. /\ \A i \in 1 .. n : q[i] # s => \E j \in DOMAIN g : g[j] = q[i]
          /\ \A j \in DOMAIN g : \E i \in 1 .. n : g[j] = q[i]
          /\ \A j, k \in DOMAIN g : j < k /\ g[j] = g[k] =>
                         \E i, l \in 1 .. n : i < l /\ q[i] = g[j] /\ q[l] = g[j]
      BY <2>2
    <3> HIDE DEF g
    <3>4. Typed(n + 1)
      BY <3>2
    <3> HIDE DEF h
    <3>5. ASSUME NEW i \in 1 .. n + 1, q[i] # s
          PROVE  \E j \in DOMAIN h : h[j] = q[i]
      <4>1. CASE i = n + 1
        BY <3>2, <4>1
      <4>2. CASE i \in 1 .. n
        <5>1. PICK j \in DOMAIN g : g[j] = q[i]
          BY <3>3, <3>5, <4>2
        <5> QED
          BY <3>2, <5>1
      <4> QED
        BY <2>1, <4>1, <4>2
    <3>6. \A j \in DOMAIN h : \E i \in 1 .. n + 1 : h[j] = q[i]
      BY <2>1, <3>2, <3>3
    <3>7. ASSUME NEW j \in DOMAIN h, NEW k \in DOMAIN h, j < k, h[j] = h[k]
          PROVE  \E i, l \in 1 .. n + 1 : i < l /\ q[i] = h[j] /\ q[l] = h[j]
      <4>1. CASE k \in DOMAIN g
        <5>1. j \in DOMAIN g /\ h[j] = g[j] /\ h[k] = g[k]
          BY <3>2, <3>7, <4>1
        <5>2. PICK i, l \in 1 .. n : i < l /\ q[i] = g[j] /\ q[l] = g[j]
          BY <3>3, <3>7, <4>1, <5>1
        <5>3. i \in 1 .. n + 1 /\ l \in 1 .. n + 1
          BY <2>1
        <5> QED
          BY <5>1, <5>2, <5>3
      <4>2. CASE k = Len(g) + 1
        <5>1. j \in DOMAIN g /\ h[j] = g[j] /\ h[k] = q[n + 1]
          BY <3>2, <3>7, <4>2
        <5>2. PICK i \in 1 .. n : g[j] = q[i]
          BY <3>3, <5>1
        <5>3. i \in 1 .. n + 1 /\ n + 1 \in 1 .. n + 1 /\ i < n + 1
          BY <2>1
        <5>4. q[n + 1] = h[j]
          BY <3>7, <5>1
        <5> QED
          BY <5>1, <5>2, <5>3, <5>4
      <4> QED
        BY <3>2, <4>1, <4>2
    <3> USE DEF h
    <3> QED
      BY <3>4, <3>5, <3>6, <3>7
  <2> QED
    BY <2>4, <2>5
<1>4. N = Nat
  <2>1. N \in SUBSET Nat
    OBVIOUS
  <2> HIDE DEF N
  <2> QED
    BY <1>2, <1>3, <2>1, SetInduction
<1> DEFINE m == Len(q)
<1>5. m \in Nat
  OBVIOUS
<1> HIDE DEF m
<1>6. Typed(m) /\ Kept(m) /\ From(m) /\ Twice(m)
  <2>1. m \in N
    BY <1>4, <1>5
  <2> QED
    BY <2>1 DEF m
<1> DEFINE r == f[m]
<1>7. r = Without(q, s)
  BY <1>1 DEF m
<1>8. ASSUME NEW x, x # s, Once(q, x) PROVE Once(r, x)
  <2>1. DOMAIN q = 1 .. m /\ r \in Seq(S) /\ DOMAIN r = 1 .. Len(r) /\ Len(r) \in Nat
    BY <1>6 DEF m
  <2>2. \E j \in DOMAIN r : r[j] = x
    <3>1. PICK i \in 1 .. m : q[i] = x
      BY <1>8, <2>1 DEF Once
    <3> QED
      BY <1>6, <1>8, <3>1
  <2>3. ASSUME NEW j \in DOMAIN r, NEW k \in DOMAIN r, r[j] = x, r[k] = x, j < k
        PROVE  FALSE
    <3>1. PICK i, l \in 1 .. m : i < l /\ q[i] = r[j] /\ q[l] = r[j]
      BY <1>6, <2>3
    <3>2. i = l
      BY <1>8, <2>1, <2>3, <3>1 DEF Once
    <3> QED
      BY <1>5, <3>1, <3>2
  <2>4. \A j, k \in DOMAIN r : r[j] = x /\ r[k] = x => j = k
    BY <2>1, <2>3
  <2> QED
    BY <2>2, <2>4 DEF Once
<1> QED
  BY <1>6, <1>7, <1>8

-----------------------------------------------------------------------------
(* Most steps leave the messages, their counts and the sinks alone, and    *)
(* nobody enters or leaves log()'s gap between the number and the lock.    *)
Quiet ==
  /\ UNCHANGED <<m_queue, countVars, m_sinks, received, wmsg, wsinks, accepted>>
  /\ wpc' = wpc \/ (~InFlight /\ ~InFlight')
  /\ \A t \in Threads :
       /\ call'[t].op = "push" <=> call[t].op = "push"
       /\ call[t].op = "push" => call'[t].n = call[t].n
       /\ call'[t].op = "dead" <=> call[t].op = "dead"
       /\ call'[t].op = "flushed" => call'[t] = call[t]

Loud ==
  \/ \E t \in Clients : StartAborts(t) \/ FlushTrue(t) \/ ClearSinks(t)
  \/ \E t \in Clients, s \in Sinks : AddSink(t, s) \/ RemoveSink(t, s)
  \/ \E t \in Threads : (\E lv \in Levels : Log(t, lv)) \/ LogDrop(t) \/ LogPush(t)
  \/ TakeMessage \/ SnapshotSinks \/ Consume \/ Processed

LEMMA QuietOrLoud == ASSUME Inv, [Next]_vars PROVE Quiet \/ Loud
<1> USE LoggerAssumption
    DEF Inv, QueueTypeOK, WorkerPcs, InFlight, Threads, CallType, Ops, NoCall,
        In, Idle, Quiet, countVars, sinkVars, workerVars
<1>1. ASSUME NEW t \in Clients, Start(t) PROVE Quiet
  BY <1>1 DEF Start
<1>2. ASSUME NEW t \in Clients, Stop(t) PROVE Quiet
  BY <1>2 DEF Stop, Call
<1>3. ASSUME NEW t \in Clients, StopAlreadyStopping(t) PROVE Quiet
  BY <1>3 DEF StopAlreadyStopping, Return
<1>4. ASSUME NEW t \in Clients, StopJoin(t) PROVE Quiet
  BY <1>4 DEF StopJoin, Call
<1>5. ASSUME NEW t \in Clients, Flush(t) PROVE Quiet
  BY <1>5 DEF Flush, Call
<1>6. ASSUME NEW t \in Clients, FlushBlock(t) PROVE Quiet
  BY <1>6 DEF FlushBlock, Call
<1>7. ASSUME NEW t \in Clients, FlushTimeout(t) PROVE Quiet
  BY <1>7 DEF FlushTimeout, Return
<1>8. ASSUME NEW t \in Clients, NEW lv \in Levels, SetLevel(t, lv) PROVE Quiet
  BY <1>8 DEF SetLevel
<1>9. ASSUME NEW t \in Threads, NotifyNobody(t) PROVE Quiet
  BY <1>9 DEF NotifyNobody, AfterNotify
<1>10. ASSUME NEW t \in Threads, NotifyWorker(t) PROVE Quiet
  BY <1>10 DEF NotifyWorker, AfterNotify
<1>11. ASSUME NEW t \in Threads, NEW u \in Clients, NotifyFlusher(t, u) PROVE Quiet
  <2>1. t # u /\ u \in Threads
    BY <1>11 DEF NotifyFlusher
  <2>2. \A v \in Threads :
          /\ call'[v].op = "push" <=> call[v].op = "push"
          /\ call[v].op = "push" => call'[v] = call[v]
          /\ call'[v].op = "dead" <=> call[v].op = "dead"
          /\ call'[v].op = "flushed" => call'[v] = call[v]
    BY <1>11, <2>1 DEF NotifyFlusher, AfterNotify
  <2> QED
    BY <1>11, <2>2 DEF NotifyFlusher
<1>12. ASSUME WorkerWait PROVE Quiet
  BY <1>12 DEF WorkerWait, WorkerAt
<1>13. ASSUME DrainOver PROVE Quiet
  BY <1>13 DEF DrainOver, WakeFlushers, WorkerAt
<1>14. ASSUME SpuriousWake PROVE Quiet
  BY <1>14 DEF SpuriousWake, WorkerAt
<1>15. CASE UNCHANGED vars
  BY <1>15 DEF vars
<1> QED
  BY <1>1, <1>2, <1>3, <1>4, <1>5, <1>6, <1>7, <1>8, <1>9, <1>10, <1>11,
     <1>12, <1>13, <1>14, <1>15
     DEF Next, ClientStep, SettingStep, LogStep, WorkerStep, Loud

-----------------------------------------------------------------------------
(* The sinks, and with the rest the whole type invariant.                  *)
LEMMA SinkStep ==
  ASSUME Inv, SinkTypeOK, [Next]_vars PROVE SinkTypeOK'
<1> USE DEF SinkTypeOK, countVars, sinkVars, workerVars
<1>1. CASE Quiet
  BY <1>1 DEF Quiet
<1>2. ASSUME NEW t \in Clients, StartAborts(t) \/ FlushTrue(t) PROVE SinkTypeOK'
  BY <1>2 DEF StartAborts, FlushTrue
<1>3. ASSUME NEW t \in Clients, ClearSinks(t) PROVE SinkTypeOK'
  BY <1>3 DEF ClearSinks
<1>4. ASSUME NEW t \in Clients, NEW s \in Sinks, AddSink(t, s) PROVE SinkTypeOK'
  BY <1>4 DEF AddSink
<1>5. ASSUME NEW t \in Clients, NEW s \in Sinks, RemoveSink(t, s) PROVE SinkTypeOK'
  BY <1>5, WithoutProperties DEF RemoveSink
<1>6. ASSUME NEW t \in Threads, NEW lv \in Levels, Log(t, lv) PROVE SinkTypeOK'
  BY <1>6 DEF Log
<1>7. ASSUME NEW t \in Threads, LogDrop(t) \/ LogPush(t) PROVE SinkTypeOK'
  BY <1>7 DEF LogDrop, LogPush
<1>8. ASSUME TakeMessage \/ SnapshotSinks \/ Processed PROVE SinkTypeOK'
  BY <1>8 DEF TakeMessage, SnapshotSinks, Processed
<1>9. ASSUME Consume PROVE SinkTypeOK'
  <2>1. wmsg \in Messages
    BY <1>9 DEF Consume, WorkerAt, Inv, WorkerOK, InFlight
  <2>2. Head(wsinks) \in Sinks /\ Tail(wsinks) \in Seq(Sinks)
    BY <1>9 DEF Consume
  <2>3. received' = [received EXCEPT ![Head(wsinks)] = Append(@, wmsg)]
    BY <1>9 DEF Consume
  <2>4. received' \in [Sinks -> Seq(Messages)]
    <3>1. Append(received[Head(wsinks)], wmsg) \in Seq(Messages)
      BY <2>1, <2>2
    <3> QED
      BY <2>2, <2>3, <3>1
  <2> QED
    BY <1>9, <2>2, <2>4 DEF Consume
<1> QED
  BY <1>1, <1>2, <1>3, <1>4, <1>5, <1>6, <1>7, <1>8, <1>9, QuietOrLoud DEF Loud

-----------------------------------------------------------------------------
(* The numbers that have been handed out: std::terminate() takes all       *)
(* threads at once, and the threads in log()'s gap are finitely many.      *)
Pushing == {t \in Threads : In(t, "push")}

LogInv ==
  /\ \A t, u \in Threads : In(t, "dead") => In(u, "dead")
  /\ IsFiniteSet(Pushing)
  /\ NoLogUnaccounted

LEMMA LogInvStep ==
  ASSUME Inv, LogInv, [Next]_vars PROVE LogInv'
<1> USE DEF Inv, QueueTypeOK, In, Threads, countVars
<1>a. /\ \A t, u \in Threads : call[t].op = "dead" => call[u].op = "dead"
      /\ IsFiniteSet(Pushing)
      /\ Cardinality(Pushing) \in Nat
      /\ call[Worker].op # "dead" =>
           m_nextSequence - 1 = m_enqueued + m_dropped + Cardinality(Pushing)
  BY FS_CardinalityType DEF LogInv, NoLogUnaccounted, Pushing
<1>b. Worker \in Threads
  OBVIOUS
<1>n. m_nextSequence \in Nat /\ m_enqueued \in Nat /\ m_dropped \in Nat
  OBVIOUS
<1>c. ASSUME UNCHANGED countVars,
             \A t \in Threads : /\ call'[t].op = "push" <=> call[t].op = "push"
                                /\ call'[t].op = "dead" <=> call[t].op = "dead"
      PROVE  LogInv'
  <2>1. Pushing' = Pushing
    BY <1>c DEF Pushing
  <2>2. \A t, u \in Threads : call'[t].op = "dead" => call'[u].op = "dead"
    BY <1>a, <1>c
  <2>3. call'[Worker].op # "dead" =>
          m_nextSequence' - 1 = m_enqueued' + m_dropped' + Cardinality(Pushing)
    BY <1>a, <1>b, <1>c
  <2> QED
    BY <1>a, <2>1, <2>2, <2>3 DEF LogInv, NoLogUnaccounted, Pushing
<1>1. CASE Quiet
  BY <1>1, <1>c DEF Quiet
<1>2. ASSUME NEW t \in Clients, StartAborts(t) PROVE LogInv'
  <2>1. \A u \in Threads : call'[u].op = "dead"
    BY <1>2 DEF StartAborts
  <2>2. Pushing' = {}
    BY <2>1 DEF Pushing
  <2>3. IsFiniteSet(Pushing')
    BY <2>2, FS_EmptySet
  <2> QED
    BY <1>b, <2>1, <2>3 DEF LogInv, NoLogUnaccounted
<1>3. ASSUME NEW t \in Clients, FlushTrue(t) PROVE LogInv'
  BY <1>3, <1>c DEF FlushTrue, Call
<1>4. ASSUME NEW t \in Clients, ClearSinks(t) PROVE LogInv'
  BY <1>4, <1>c DEF ClearSinks
<1>5. ASSUME NEW t \in Clients, NEW s \in Sinks, AddSink(t, s) \/ RemoveSink(t, s)
      PROVE  LogInv'
  BY <1>5, <1>c DEF AddSink, RemoveSink
<1>6. ASSUME NEW t \in Threads, NEW lv \in Levels, Log(t, lv) PROVE LogInv'
  <2>1. /\ m_nextSequence' = m_nextSequence + 1
        /\ UNCHANGED <<m_enqueued, m_dropped>>
        /\ call' = [call EXCEPT ![t] = [op |-> "push", n |-> m_nextSequence]]
        /\ call[t].op \notin {"push", "dead"}
    BY <1>6 DEF Log, CanLog, Idle, Call
  <2>2. Pushing' = Pushing \union {t} /\ t \notin Pushing
    BY <2>1 DEF Pushing
  <2>3. IsFiniteSet(Pushing') /\ Cardinality(Pushing') = Cardinality(Pushing) + 1
    BY <1>a, <2>2, FS_AddElement
  <2>4. \A u \in Threads : call[u].op # "dead" /\ call'[u].op # "dead"
    BY <1>a, <2>1
  <2>5. m_nextSequence - 1 = m_enqueued + m_dropped + Cardinality(Pushing)
    BY <1>a, <1>b, <2>4
  <2>6. m_nextSequence' - 1 = m_enqueued' + m_dropped' + Cardinality(Pushing')
    <3> DEFINE c == Cardinality(Pushing)
               d == Cardinality(Pushing')
    <3>1. c \in Nat /\ d = c + 1
      BY <1>a, <2>3
    <3>2. m_nextSequence - 1 = m_enqueued + m_dropped + c
      BY <2>5
    <3> HIDE DEF c, d
    <3>3. m_nextSequence' - 1 = m_enqueued' + m_dropped' + d
      BY <1>n, <2>1, <3>1, <3>2
    <3> QED
      BY <3>3 DEF d
  <2> QED
    BY <2>3, <2>4, <2>6 DEF LogInv, NoLogUnaccounted, Pushing
<1>7. ASSUME NEW t \in Threads, LogDrop(t) \/ LogPush(t) PROVE LogInv'
  <2>1. /\ m_nextSequence' = m_nextSequence
        /\ \/ m_enqueued' = m_enqueued + 1 /\ m_dropped' = m_dropped
           \/ m_enqueued' = m_enqueued /\ m_dropped' = m_dropped + 1
        /\ call[t].op = "push"
        /\ call'[t].op \notin {"push", "dead"}
        /\ \A u \in Threads : u # t => call'[u] = call[u]
    <3>1. CASE LogDrop(t)
      BY <3>1 DEF LogDrop, Return, NoCall
    <3>2. CASE LogPush(t)
      BY <3>2 DEF LogPush, Call
    <3> QED
      BY <1>7, <3>1, <3>2
  <2>2. Pushing' = Pushing \ {t} /\ t \in Pushing
    BY <2>1 DEF Pushing
  <2>3. IsFiniteSet(Pushing') /\ Cardinality(Pushing') = Cardinality(Pushing) - 1
    BY <1>a, <2>2, FS_RemoveElement
  <2>4. \A u \in Threads : call[u].op # "dead" /\ call'[u].op # "dead"
    BY <1>a, <2>1
  <2>5. m_nextSequence - 1 = m_enqueued + m_dropped + Cardinality(Pushing)
    BY <1>a, <1>b, <2>4
  <2>6. m_nextSequence' - 1 = m_enqueued' + m_dropped' + Cardinality(Pushing')
    <3> DEFINE c == Cardinality(Pushing)
               d == Cardinality(Pushing')
    <3>1. c \in Nat /\ d = c - 1
      BY <1>a, <2>3
    <3>2. m_nextSequence - 1 = m_enqueued + m_dropped + c
      BY <2>5
    <3> HIDE DEF c, Inv, QueueTypeOK
    <3>3. m_nextSequence' = m_nextSequence
      BY <2>1
    <3>4. CASE m_enqueued' = m_enqueued + 1 /\ m_dropped' = m_dropped
      BY <1>n, <3>1, <3>2, <3>3, <3>4
    <3>5. CASE m_enqueued' = m_enqueued /\ m_dropped' = m_dropped + 1
      BY <1>n, <3>1, <3>2, <3>3, <3>5
    <3> QED
      BY <2>1, <3>4, <3>5
  <2> QED
    BY <2>3, <2>4, <2>6 DEF LogInv, NoLogUnaccounted, Pushing
<1>8. ASSUME TakeMessage \/ SnapshotSinks \/ Consume \/ Processed PROVE LogInv'
  <2>1. UNCHANGED <<m_nextSequence, m_enqueued, m_dropped, call>>
    BY <1>8 DEF TakeMessage, SnapshotSinks, Consume, Processed
  <2> QED
    BY <2>1 DEF LogInv, NoLogUnaccounted, Pushing
<1> QED
  BY <1>1, <1>2, <1>3, <1>4, <1>5, <1>6, <1>7, <1>8, QuietOrLoud DEF Loud

-----------------------------------------------------------------------------
(* m, when it is of the thread of k, was logged no later than k.           *)
InOrder(m, k) == m.from = k.from => m.seq <= k.seq

(* m was logged before whatever its thread is about to push, when next is  *)
(* the next sequence number and calls what the threads are inside of.      *)
OldIn(m, next, calls) ==
  /\ m.seq <= next
  /\ calls[m.from].op = "push" => m.seq <= calls[m.from].n

Old(m) == OldIn(m, m_nextSequence, call)

(* The messages of a thread are in order along the whole way from the      *)
(* thread through the queue and the worker's hands to each sink.           *)
QueueInOrder ==
  /\ \A t \in Threads : In(t, "push") => call[t].n <= m_nextSequence
  /\ \A i \in DOMAIN m_queue : Old(m_queue[i])
  /\ \A i, j \in DOMAIN m_queue : i < j => InOrder(m_queue[i], m_queue[j])

HandInOrder ==
  InFlight => Old(wmsg) /\ \A i \in DOMAIN m_queue : InOrder(wmsg, m_queue[i])

SinksInOrder ==
  \A s \in Sinks : \A i \in DOMAIN received[s] :
    /\ Old(received[s][i])
    /\ InFlight => InOrder(received[s][i], wmsg)
    /\ \A j \in DOMAIN m_queue : InOrder(received[s][i], m_queue[j])

OrderInv == ThreadOrder /\ QueueInOrder /\ HandInOrder /\ SinksInOrder

LEMMA OrderStep ==
  ASSUME Inv, SinkTypeOK, OrderInv, [Next]_vars PROVE OrderInv'
<1> USE LoggerAssumption
    DEF Inv, QueueTypeOK, SinkTypeOK, In, Threads, countVars, sinkVars, workerVars
<1>a. /\ m_queue \in Seq(Messages)
      /\ DOMAIN m_queue = 1 .. Len(m_queue) /\ Len(m_queue) \in Nat
      /\ \A i \in DOMAIN m_queue : m_queue[i] \in Messages
      /\ \A s \in Sinks : /\ received[s] \in Seq(Messages)
                          /\ DOMAIN received[s] = 1 .. Len(received[s])
                          /\ Len(received[s]) \in Nat
                          /\ \A i \in DOMAIN received[s] : received[s][i] \in Messages
      /\ InFlight => wmsg \in Messages
  BY DEF WorkerOK
<1>m. \A m \in Messages : m.seq \in Nat /\ m.from \in Threads
  BY DEF Messages
(* Nothing moves and nobody gets a number that is used.                    *)
<1>c. ASSUME UNCHANGED <<m_queue, received>>,
             m_nextSequence' \in Nat, m_nextSequence <= m_nextSequence',
             InFlight' => InFlight /\ wmsg' = wmsg,
             \A t \in Threads : call'[t].op = "push" =>
               \/ call[t].op = "push" /\ call'[t].n = call[t].n
               \/ call'[t].n = m_nextSequence
      PROVE  OrderInv'
  <2>0. m_nextSequence \in Nat /\ \A t \in Threads : call[t].n \in Nat
    BY DEF CallType
  <2>1. \A m \in Messages : Old(m) => OldIn(m, m_nextSequence', call')
    <3> SUFFICES ASSUME NEW m \in Messages, Old(m)
                 PROVE  OldIn(m, m_nextSequence', call')
      OBVIOUS
    <3>1. /\ m.seq \in Nat /\ m.from \in Threads
          /\ m.seq <= m_nextSequence
          /\ call[m.from].op = "push" => m.seq <= call[m.from].n
      BY <1>m DEF Old, OldIn
    <3>2. m.seq <= m_nextSequence'
      BY <1>c, <2>0, <3>1
    <3>3. ASSUME call'[m.from].op = "push" PROVE m.seq <= call'[m.from].n
      <4>1. \/ call[m.from].op = "push" /\ call'[m.from].n = call[m.from].n
            \/ call'[m.from].n = m_nextSequence
        BY <1>c, <3>1, <3>3
      <4> QED
        BY <3>1, <4>1
    <3> QED
      BY <3>2, <3>3 DEF OldIn
  <2>2. QueueInOrder'
    <3>1. ASSUME NEW t \in Threads, call'[t].op = "push"
          PROVE  call'[t].n <= m_nextSequence'
      <4>1. \/ call'[t].n = call[t].n /\ call[t].n <= m_nextSequence
            \/ call'[t].n = m_nextSequence
        BY <1>c, <3>1 DEF OrderInv, QueueInOrder
      <4> QED
        BY <1>c, <2>0, <4>1
    <3>2. \A i \in DOMAIN m_queue : OldIn(m_queue[i], m_nextSequence', call')
      BY <1>a, <2>1 DEF OrderInv, QueueInOrder
    <3> QED
      BY <1>c, <3>1, <3>2 DEF OrderInv, QueueInOrder, Old
  <2>3. HandInOrder'
    BY <1>a, <1>c, <2>1 DEF OrderInv, HandInOrder, Old
  <2>4. SinksInOrder'
    BY <1>a, <1>c, <2>1 DEF OrderInv, SinksInOrder, Old
  <2>5. ThreadOrder'
    BY <1>c DEF OrderInv, ThreadOrder
  <2> QED
    BY <2>2, <2>3, <2>4, <2>5 DEF OrderInv
<1>1. CASE Quiet
  <2>1. InFlight' => InFlight
    BY <1>1 DEF Quiet, InFlight
  <2> QED
    BY <1>1, <1>c, <2>1 DEF Quiet
<1>2. ASSUME NEW t \in Clients, StartAborts(t) PROVE OrderInv'
  BY <1>2, <1>c DEF StartAborts, InFlight
<1>3. ASSUME NEW t \in Clients, FlushTrue(t) PROVE OrderInv'
  BY <1>3, <1>c DEF FlushTrue, Call, InFlight
<1>4. ASSUME NEW t \in Clients, ClearSinks(t) PROVE OrderInv'
  BY <1>4, <1>c DEF ClearSinks, InFlight
<1>5. ASSUME NEW t \in Clients, NEW s \in Sinks, AddSink(t, s) \/ RemoveSink(t, s)
      PROVE  OrderInv'
  BY <1>5, <1>c DEF AddSink, RemoveSink, InFlight
<1>6. ASSUME NEW t \in Threads, NEW lv \in Levels, Log(t, lv) PROVE OrderInv'
  BY <1>6, <1>c DEF Log, Call, InFlight
<1>7. ASSUME NEW t \in Threads, LogDrop(t) PROVE OrderInv'
  BY <1>7, <1>c DEF LogDrop, Return, NoCall, InFlight
<1>8. ASSUME NEW t \in Threads, LogPush(t) PROVE OrderInv'
  <2> DEFINE m == [seq |-> call[t].n, from |-> t]
  <2>1. /\ m_queue' = Append(m_queue, m)
        /\ call[t].op = "push"
        /\ call' = [call EXCEPT ![t] = [op |-> "notify", n |-> 0]]
        /\ UNCHANGED <<received, m_nextSequence, wpc, wmsg>>
    BY <1>8 DEF LogPush, Call
  <2>2. m \in Messages /\ m.from = t /\ m.seq = call[t].n
    BY DEF Messages, CallType
  <2>3. /\ DOMAIN m_queue' = 1 .. Len(m_queue) + 1
        /\ \A i \in 1 .. Len(m_queue) : m_queue'[i] = m_queue[i]
        /\ m_queue'[Len(m_queue) + 1] = m
    <3> HIDE DEF m
    <3> QED
      BY <1>a, <2>1, <2>2
  <2>d. DOMAIN m_queue' = DOMAIN m_queue \union {Len(m_queue) + 1}
    BY <1>a, <2>3
  <2>4. \A k \in Messages : Old(k) => InOrder(k, m)
    BY <2>1, <2>2 DEF Old, OldIn, InOrder
  <2>5. m.seq <= m_nextSequence
    BY <2>1, <2>2 DEF OrderInv, QueueInOrder
  <2> HIDE DEF m
  <2>6. /\ \A k \in Messages : Old(k) => OldIn(k, m_nextSequence', call')
        /\ OldIn(m, m_nextSequence', call')
    <3>1. \A u \in Threads : call'[u].op = "push" => call'[u] = call[u]
      BY <2>1
    <3>2. call'[t].op # "push"
      BY <2>1
    <3>3. ASSUME NEW k \in Messages, Old(k) PROVE OldIn(k, m_nextSequence', call')
      BY <1>m, <2>1, <3>1, <3>3 DEF Old, OldIn
    <3>4. OldIn(m, m_nextSequence', call')
      BY <2>1, <2>2, <2>5, <3>2 DEF OldIn
    <3> QED
      BY <3>3, <3>4
  <2>7. QueueInOrder'
    <3>1. \A u \in Threads : call'[u].op = "push" => call'[u].n <= m_nextSequence'
      BY <2>1 DEF OrderInv, QueueInOrder
    <3>2. \A i \in DOMAIN m_queue' : OldIn(m_queue'[i], m_nextSequence', call')
      BY <1>a, <2>3, <2>6 DEF OrderInv, QueueInOrder
    <3>3. ASSUME NEW i \in DOMAIN m_queue', NEW j \in DOMAIN m_queue', i < j
          PROVE  InOrder(m_queue'[i], m_queue'[j])
      <4>1. i \in DOMAIN m_queue /\ m_queue'[i] = m_queue[i]
        BY <1>a, <2>3, <3>3
      <4>2. Old(m_queue[i]) /\ m_queue[i] \in Messages
        BY <1>a, <4>1 DEF OrderInv, QueueInOrder
      <4>3. CASE j \in DOMAIN m_queue
        BY <1>a, <2>3, <3>3, <4>1, <4>3 DEF OrderInv, QueueInOrder
      <4>4. CASE j = Len(m_queue) + 1
        BY <2>3, <2>4, <4>1, <4>2, <4>4
      <4>5. j \in DOMAIN m_queue \/ j = Len(m_queue) + 1
        BY <2>d
      <4> QED
        BY <4>3, <4>4, <4>5
    <3> QED
      BY <3>1, <3>2, <3>3 DEF QueueInOrder, Old
  <2>8. HandInOrder'
    <3>1. CASE InFlight
      <4>1. /\ wmsg \in Messages /\ Old(wmsg)
            /\ \A i \in DOMAIN m_queue : InOrder(wmsg, m_queue[i])
        BY <1>a, <3>1 DEF OrderInv, HandInOrder
      <4>2. OldIn(wmsg, m_nextSequence', call') /\ InOrder(wmsg, m)
        BY <2>4, <2>6, <4>1
      <4>3. ASSUME NEW i \in DOMAIN m_queue' PROVE InOrder(wmsg, m_queue'[i])
        <5>1. CASE i \in DOMAIN m_queue
          BY <1>a, <2>3, <4>1, <5>1
        <5>2. CASE i = Len(m_queue) + 1
          BY <2>3, <4>2, <5>2
        <5> QED
          BY <1>a, <2>3, <5>1, <5>2
      <4> QED
        BY <2>1, <4>2, <4>3 DEF HandInOrder, Old
    <3>2. CASE ~InFlight
      BY <2>1, <3>2 DEF HandInOrder, InFlight
    <3> QED
      BY <3>1, <3>2
  <2>9. SinksInOrder'
    <3>1. ASSUME NEW s \in Sinks, NEW i \in DOMAIN received[s]
          PROVE  /\ OldIn(received[s][i], m_nextSequence', call')
                 /\ InFlight' => InOrder(received[s][i], wmsg)
                 /\ \A j \in DOMAIN m_queue' : InOrder(received[s][i], m_queue'[j])
      <4>1. received[s][i] \in Messages /\ Old(received[s][i])
        BY <1>a DEF OrderInv, SinksInOrder
      <4>2. OldIn(received[s][i], m_nextSequence', call')
        BY <2>6, <4>1
      <4>3. InFlight' => InFlight
        BY <2>1 DEF InFlight
      <4>4. InFlight' => InOrder(received[s][i], wmsg)
        BY <4>3 DEF OrderInv, SinksInOrder
      <4>5. \A j \in DOMAIN m_queue : InOrder(received[s][i], m_queue[j])
        BY DEF OrderInv, SinksInOrder
      <4>6. InOrder(received[s][i], m)
        BY <2>4, <4>1
      <4>7. ASSUME NEW j \in DOMAIN m_queue' PROVE InOrder(received[s][i], m_queue'[j])
        <5>1. CASE j \in DOMAIN m_queue
          BY <1>a, <2>3, <4>5, <5>1
        <5>2. CASE j = Len(m_queue) + 1
          BY <2>3, <4>6, <5>2
        <5> QED
          BY <1>a, <2>3, <5>1, <5>2
      <4> QED
        BY <4>2, <4>4, <4>7
    <3> QED
      BY <2>1, <3>1 DEF SinksInOrder, Old
  <2>10. ThreadOrder'
    BY <2>1 DEF OrderInv, ThreadOrder
  <2> QED
    BY <2>7, <2>8, <2>9, <2>10 DEF OrderInv
<1>9. ASSUME TakeMessage PROVE OrderInv'
  <2>1. /\ m_queue # <<>> /\ m_queue' = Tail(m_queue) /\ wmsg' = Head(m_queue)
        /\ UNCHANGED <<received, m_nextSequence, call>>
    BY <1>9 DEF TakeMessage, Pop
  <2>2. /\ Len(m_queue) > 0
        /\ DOMAIN m_queue' = 1 .. Len(m_queue) - 1
        /\ \A i \in 1 .. Len(m_queue) - 1 : m_queue'[i] = m_queue[i + 1]
        /\ wmsg' = m_queue[1]
    BY <1>a, <2>1
  <2>3. \A k \in Messages : Old(k) <=> OldIn(k, m_nextSequence', call')
    BY <2>1 DEF Old
  <2>4. \A i \in DOMAIN m_queue' :
          /\ i + 1 \in DOMAIN m_queue /\ 1 \in DOMAIN m_queue /\ 1 < i + 1
          /\ m_queue'[i] = m_queue[i + 1]
    BY <1>a, <2>2
  <2>5. QueueInOrder'
    <3>1. \A i \in DOMAIN m_queue' : OldIn(m_queue'[i], m_nextSequence', call')
      BY <1>a, <2>3, <2>4 DEF OrderInv, QueueInOrder
    <3>2. \A i, j \in DOMAIN m_queue' : i < j => InOrder(m_queue'[i], m_queue'[j])
      <4> SUFFICES ASSUME NEW i \in DOMAIN m_queue', NEW j \in DOMAIN m_queue', i < j
                   PROVE  InOrder(m_queue'[i], m_queue'[j])
        OBVIOUS
      <4>1. i + 1 < j + 1 /\ i + 1 \in DOMAIN m_queue /\ j + 1 \in DOMAIN m_queue
        BY <2>2, <2>4
      <4> QED
        BY <2>4, <4>1 DEF OrderInv, QueueInOrder
    <3> QED
      BY <2>1, <3>1, <3>2 DEF OrderInv, QueueInOrder, Old
  <2>6. HandInOrder'
    <3>1. 1 \in DOMAIN m_queue
      BY <1>a, <2>2
    <3>2. OldIn(wmsg', m_nextSequence', call')
      BY <1>a, <2>2, <2>3, <3>1 DEF OrderInv, QueueInOrder
    <3>3. \A i \in DOMAIN m_queue' : InOrder(wmsg', m_queue'[i])
      BY <2>2, <2>4, <3>1 DEF OrderInv, QueueInOrder
    <3> QED
      BY <3>2, <3>3 DEF HandInOrder, Old
  <2>7. SinksInOrder'
    <3>1. ASSUME NEW s \in Sinks, NEW i \in DOMAIN received[s]
          PROVE  /\ OldIn(received[s][i], m_nextSequence', call')
                 /\ InOrder(received[s][i], wmsg')
                 /\ \A j \in DOMAIN m_queue' : InOrder(received[s][i], m_queue'[j])
      <4>1. /\ received[s][i] \in Messages /\ Old(received[s][i])
            /\ \A j \in DOMAIN m_queue : InOrder(received[s][i], m_queue[j])
        BY <1>a DEF OrderInv, SinksInOrder
      <4>2. 1 \in DOMAIN m_queue
        BY <1>a, <2>2
      <4>3. OldIn(received[s][i], m_nextSequence', call')
        BY <2>3, <4>1
      <4> QED
        BY <2>2, <2>4, <4>1, <4>2, <4>3
    <3> QED
      BY <2>1, <3>1 DEF SinksInOrder, Old
  <2>8. ThreadOrder'
    BY <2>1 DEF OrderInv, ThreadOrder
  <2> QED
    BY <2>5, <2>6, <2>7, <2>8 DEF OrderInv
<1>10. ASSUME SnapshotSinks \/ Processed PROVE OrderInv'
  BY <1>10, <1>c DEF SnapshotSinks, Processed, WorkerAt, InFlight
<1>11. ASSUME Consume PROVE OrderInv'
  <2> DEFINE h == Head(wsinks)
  <2>1. /\ InFlight /\ wmsg \in Messages
        /\ received' = [received EXCEPT ![h] = Append(@, wmsg)]
        /\ h \in Sinks
        /\ UNCHANGED <<m_queue, m_nextSequence, wpc, wmsg, call>>
    BY <1>a, <1>11 DEF Consume, WorkerAt, InFlight
  <2> HIDE DEF h
  <2>2. /\ DOMAIN received'[h] = 1 .. Len(received[h]) + 1
        /\ \A i \in 1 .. Len(received[h]) : received'[h][i] = received[h][i]
        /\ received'[h][Len(received[h]) + 1] = wmsg
        /\ \A s \in Sinks : s # h => received'[s] = received[s]
    BY <1>a, <2>1
  <2>3. /\ Old(wmsg)
        /\ InOrder(wmsg, wmsg)
        /\ \A i \in DOMAIN m_queue : InOrder(wmsg, m_queue[i])
    BY <1>m, <2>1 DEF OrderInv, HandInOrder, InOrder
  <2>4. QueueInOrder' /\ HandInOrder'
    BY <2>1 DEF OrderInv, QueueInOrder, HandInOrder, Old, InFlight
  <2>5. \A s \in Sinks : \A i \in DOMAIN received'[s] :
          \/ received'[s][i] = wmsg
          \/ i \in DOMAIN received[s] /\ received'[s][i] = received[s][i]
    <3> SUFFICES ASSUME NEW s \in Sinks, NEW i \in DOMAIN received'[s]
                 PROVE  \/ received'[s][i] = wmsg
                        \/ i \in DOMAIN received[s] /\ received'[s][i] = received[s][i]
      OBVIOUS
    <3>1. CASE s = h
      <4>1. i \in 1 .. Len(received[h]) \/ i = Len(received[h]) + 1
        BY <1>a, <2>1, <2>2, <3>1
      <4>2. DOMAIN received[h] = 1 .. Len(received[h])
        BY <1>a, <2>1
      <4> QED
        BY <2>2, <3>1, <4>1, <4>2
    <3>2. CASE s # h
      BY <2>2, <3>2
    <3> QED
      BY <3>1, <3>2
  <2>6. \A s \in Sinks : \A i \in DOMAIN received'[s] :
          /\ Old(received'[s][i])
          /\ InOrder(received'[s][i], wmsg)
          /\ \A j \in DOMAIN m_queue : InOrder(received'[s][i], m_queue[j])
    BY <2>1, <2>3, <2>5 DEF OrderInv, SinksInOrder
  <2>7. SinksInOrder'
    <3>1. \A s \in Sinks : \A i \in DOMAIN received'[s] :
            OldIn(received'[s][i], m_nextSequence', call')
      BY <2>1, <2>6 DEF Old
    <3> QED
      BY <2>1, <2>6, <3>1 DEF SinksInOrder, Old
  <2>8. ThreadOrder'
    <3> SUFFICES ASSUME NEW s \in Sinks,
                        NEW i \in DOMAIN received'[s], NEW j \in DOMAIN received'[s],
                        i < j, received'[s][i].from = received'[s][j].from
                 PROVE  received'[s][i].seq <= received'[s][j].seq
      BY DEF ThreadOrder
    <3>1. CASE s # h
      BY <2>2, <3>1 DEF OrderInv, ThreadOrder
    <3>2. CASE s = h /\ j \in 1 .. Len(received[h])
      <4>1. i \in 1 .. Len(received[h])
        BY <1>a, <2>1, <2>2, <3>2
      <4> QED
        BY <1>a, <2>1, <2>2, <3>2, <4>1 DEF OrderInv, ThreadOrder
    <3>3. CASE s = h /\ j = Len(received[h]) + 1
      <4>1. received'[s][j] = wmsg
        BY <2>2, <3>3
      <4> QED
        BY <2>6, <4>1 DEF InOrder
    <3> QED
      BY <1>a, <2>1, <2>2, <3>1, <3>2, <3>3
  <2> QED
    BY <2>4, <2>7, <2>8 DEF OrderInv
<1> QED
  BY <1>1, <1>2, <1>3, <1>4, <1>5, <1>6, <1>7, <1>8, <1>9, <1>10, <1>11, QuietOrLoud
     DEF Loud

-----------------------------------------------------------------------------
(* Sequences of messages at the three places where one is handed on.       *)
LEMMA PushAtTheEnd ==
  \A a, q \in Seq(Messages) : \A m \in Messages :
    Append(a \o q, m) = a \o Append(q, m)
<1> TAKE a, q \in Seq(Messages)
<1> TAKE m \in Messages
<1>1. a \o q \in Seq(Messages) /\ <<m>> \in Seq(Messages)
  OBVIOUS
<1>2. Append(a \o q, m) = (a \o q) \o <<m>>
  BY <1>1, AppendIsConcat
<1>3. Append(q, m) = q \o <<m>>
  BY AppendIsConcat
<1> QED
  BY <1>1, <1>2, <1>3, ConcatAssociative

LEMMA TakeTheFirst ==
  ASSUME NEW S, NEW a \in Seq(S), NEW q \in Seq(S), q # <<>>
  PROVE  (a \o <<>>) \o q = (a \o <<Head(q)>>) \o Tail(q)
<1>1. Head(q) \in S /\ Tail(q) \in Seq(S) /\ <<Head(q)>> \in Seq(S)
  OBVIOUS
<1>2. Len(q) \in Nat /\ Len(q) > 0
  OBVIOUS
<1>3. q = <<Head(q)>> \o Tail(q)
  BY <1>1, <1>2
<1>4. a \o <<>> = a
  BY ConcatEmptySeq
<1> QED
  BY <1>1, <1>3, <1>4, ConcatAssociative

LEMMA HandToTheSink ==
  ASSUME NEW S, NEW a \in Seq(S), NEW m \in S
  PROVE  a \o <<m>> = Append(a, m) \o <<>>
<1>1. Append(a, m) \in Seq(S) /\ Append(a, m) = a \o <<m>>
  BY AppendIsConcat
<1> QED
  BY <1>1, ConcatEmptySeq

(* FanOut sink by sink.  A sink that stays is registered exactly once, and *)
(* is at most once in the worker's snapshot.                               *)
Pending(s) == wpc = "snapshot" \/ (wpc = "deliver" /\ s \in Range(wsinks))
HandOver(s) == IF Pending(s) THEN <<wmsg>> ELSE <<>>
Fan(s) == accepted = (received[s] \o HandOver(s)) \o m_queue

AtMostOnce(q, x) == \A i, j \in DOMAIN q : q[i] = x /\ q[j] = x => i = j

FanInv ==
  /\ \A s \in FixedSinks : /\ Fan(s)
                           /\ Once(m_sinks, s)
                           /\ AtMostOnce(wsinks, s)
  /\ Len(accepted) = m_enqueued

LEMMA FanStep ==
  ASSUME Inv, SinkTypeOK, FanInv, [Next]_vars PROVE FanInv'
<1> USE DEF Inv, QueueTypeOK, SinkTypeOK, countVars, sinkVars, workerVars
<1>a. FixedSinks \subseteq Sinks
  BY LoggerAssumption DEF FixedSinks, Range
<1>b. InFlight => wmsg \in Messages
  BY DEF WorkerOK
<1>c. ASSUME UNCHANGED <<m_queue, received, accepted, m_enqueued, m_sinks, wsinks, wmsg>>,
             wpc' = wpc \/ (~InFlight /\ ~InFlight')
      PROVE  FanInv'
  <2>1. \A s \in FixedSinks : Pending(s)' <=> Pending(s)
    BY <1>c DEF Pending, InFlight
  <2>2. \A s \in FixedSinks : HandOver(s)' = HandOver(s)
    BY <1>c, <2>1 DEF HandOver
  <2> QED
    BY <1>c, <2>2 DEF FanInv, Fan
(* The registered sinks change.                                            *)
<1>d. ASSUME UNCHANGED <<m_queue, received, accepted, m_enqueued, workerVars>>,
             \A s \in FixedSinks : Once(m_sinks', s)
      PROVE  FanInv'
  <2>1. \A s \in FixedSinks : HandOver(s)' = HandOver(s)
    BY <1>d DEF HandOver, Pending
  <2> QED
    BY <1>d, <2>1 DEF FanInv, Fan
<1>1. CASE Quiet
  BY <1>1, <1>c DEF Quiet
<1>2. ASSUME NEW t \in Clients, StartAborts(t) \/ FlushTrue(t) PROVE FanInv'
  BY <1>2, <1>c DEF StartAborts, FlushTrue
<1>3. ASSUME NEW t \in Clients, ClearSinks(t) PROVE FanInv'
  <2>1. FixedSinks = {}
    BY <1>3 DEF ClearSinks
  <2> QED
    BY <1>3, <2>1, <1>d DEF ClearSinks
<1>4. ASSUME NEW t \in Clients, NEW s \in Sinks, AddSink(t, s) PROVE FanInv'
  <2>1. s \notin FixedSinks /\ m_sinks' = Append(m_sinks, s)
    BY <1>4 DEF AddSink
  <2>2. /\ Len(m_sinks) \in Nat /\ DOMAIN m_sinks = 1 .. Len(m_sinks)
        /\ DOMAIN m_sinks' = 1 .. Len(m_sinks) + 1
        /\ \A i \in 1 .. Len(m_sinks) : m_sinks'[i] = m_sinks[i]
        /\ m_sinks'[Len(m_sinks) + 1] = s
    BY <2>1
  <2>3. ASSUME NEW x \in FixedSinks PROVE Once(m_sinks', x)
    <3>1. Once(m_sinks, x) /\ x # s
      BY <2>1 DEF FanInv
    <3>2. \A i \in DOMAIN m_sinks' :
            m_sinks'[i] = x => i \in DOMAIN m_sinks /\ m_sinks[i] = x
      BY <2>2, <3>1
    <3>3. PICK i \in DOMAIN m_sinks : m_sinks[i] = x
      BY <3>1 DEF Once
    <3>4. i \in DOMAIN m_sinks' /\ m_sinks'[i] = x
      BY <2>2, <3>3
    <3> QED
      BY <3>1, <3>2, <3>4 DEF Once
  <2> QED
    BY <1>4, <1>d, <2>3 DEF AddSink
<1>5. ASSUME NEW t \in Clients, NEW s \in Sinks, RemoveSink(t, s) PROVE FanInv'
  <2>1. s \notin FixedSinks /\ m_sinks' = Without(m_sinks, s)
    BY <1>5 DEF RemoveSink
  <2>2. \A x : x # s /\ Once(m_sinks, x) => Once(Without(m_sinks, s), x)
    BY WithoutProperties
  <2>3. \A x \in FixedSinks : Once(m_sinks', x)
    BY <2>1, <2>2 DEF FanInv
  <2> QED
    BY <1>5, <1>d, <2>3 DEF RemoveSink
<1>6. ASSUME NEW t \in Threads, NEW lv \in Levels, Log(t, lv) PROVE FanInv'
  BY <1>6, <1>c DEF Log
<1>7. ASSUME NEW t \in Threads, LogDrop(t) PROVE FanInv'
  BY <1>7, <1>c DEF LogDrop
<1>8. ASSUME NEW t \in Threads, LogPush(t) PROVE FanInv'
  <2> DEFINE m == [seq |-> call[t].n, from |-> t]
  <2>1. m \in Messages
    BY DEF Messages, CallType
  <2>2. /\ m_queue' = Append(m_queue, m) /\ accepted' = Append(accepted, m)
        /\ m_enqueued' = m_enqueued + 1
        /\ UNCHANGED <<received, m_sinks, wsinks, wmsg, wpc>>
    BY <1>8 DEF LogPush
  <2> HIDE DEF m
  <2>3. ASSUME NEW s \in FixedSinks PROVE Fan(s)'
    <3>1. HandOver(s)' = HandOver(s)
      BY <2>2 DEF HandOver, Pending
    <3>2. HandOver(s) \in Seq(Messages)
      BY <1>b DEF HandOver, Pending, InFlight
    <3>3. received[s] \o HandOver(s) \in Seq(Messages)
      BY <1>a, <3>2
    <3>4. accepted = (received[s] \o HandOver(s)) \o m_queue
      BY DEF FanInv, Fan
    <3>5. accepted' = (received[s] \o HandOver(s)) \o m_queue'
      <4> DEFINE a == received[s] \o HandOver(s)
      <4>1. a \in Seq(Messages) /\ m_queue \in Seq(Messages) /\ accepted = a \o m_queue
        BY <3>3, <3>4
      <4> HIDE DEF a
      <4>2. Append(a \o m_queue, m) = a \o Append(m_queue, m)
        BY <2>1, <4>1, PushAtTheEnd
      <4>3. accepted' = a \o m_queue'
        BY <2>1, <2>2, <4>1, <4>2
      <4> QED
        BY <4>3 DEF a
    <3> QED
      BY <2>2, <3>1, <3>5 DEF Fan
  <2>4. Len(accepted') = m_enqueued'
    BY <2>1, <2>2 DEF FanInv
  <2> QED
    BY <2>2, <2>3, <2>4 DEF FanInv
<1>9. ASSUME TakeMessage PROVE FanInv'
  <2>1. /\ m_queue # <<>> /\ wmsg' = Head(m_queue) /\ m_queue' = Tail(m_queue)
        /\ wpc \in {"loop", "relock"} /\ wpc' = "snapshot"
        /\ UNCHANGED <<received, accepted, m_enqueued, m_sinks, wsinks>>
    BY <1>9 DEF TakeMessage, Pop, WorkerAt
  <2>2. ASSUME NEW s \in FixedSinks PROVE Fan(s)'
    <3>1. HandOver(s) = <<>> /\ HandOver(s)' = <<Head(m_queue)>>
      BY <2>1 DEF HandOver, Pending
    <3>2. accepted = (received[s] \o <<>>) \o m_queue
      BY <3>1 DEF FanInv, Fan
    <3>3. accepted = (received[s] \o <<Head(m_queue)>>) \o Tail(m_queue)
      BY <1>a, <2>1, <3>2, TakeTheFirst
    <3> QED
      BY <2>1, <3>1, <3>3 DEF Fan
  <2> QED
    BY <2>1, <2>2 DEF FanInv
<1>10. ASSUME SnapshotSinks PROVE FanInv'
  <2>1. /\ wpc = "snapshot" /\ wpc' = "deliver" /\ wsinks' = m_sinks
        /\ UNCHANGED <<m_queue, received, accepted, m_enqueued, m_sinks, wmsg>>
    BY <1>10 DEF SnapshotSinks, WorkerAt
  <2>2. \A s \in FixedSinks : s \in Range(m_sinks) /\ AtMostOnce(m_sinks, s)
    BY DEF FanInv, Once, AtMostOnce, Range
  <2>3. \A s \in FixedSinks : HandOver(s)' = HandOver(s)
    BY <2>1, <2>2 DEF HandOver, Pending
  <2> QED
    BY <2>1, <2>2, <2>3 DEF FanInv, Fan
<1>11. ASSUME Consume PROVE FanInv'
  <2> DEFINE h == Head(wsinks)
  <2>1. /\ wpc = "deliver" /\ wsinks # <<>> /\ wsinks' = Tail(wsinks)
        /\ received' = [received EXCEPT ![h] = Append(@, wmsg)]
        /\ UNCHANGED <<m_queue, accepted, m_enqueued, m_sinks, wpc, wmsg>>
    BY <1>11 DEF Consume, WorkerAt
  <2>2. /\ Len(wsinks) \in Nat /\ Len(wsinks) > 0 /\ DOMAIN wsinks = 1 .. Len(wsinks)
        /\ DOMAIN wsinks' = 1 .. Len(wsinks) - 1
        /\ \A i \in 1 .. Len(wsinks) - 1 : wsinks'[i] = wsinks[i + 1]
        /\ h = wsinks[1] /\ h \in Sinks
    BY <2>1
  <2>3. wmsg \in Messages
    BY <1>b, <2>1 DEF InFlight
  <2> HIDE DEF h
  <2>4. ASSUME NEW s \in FixedSinks PROVE Fan(s)' /\ AtMostOnce(wsinks', s)
    <3>1. AtMostOnce(wsinks, s) /\ accepted = (received[s] \o HandOver(s)) \o m_queue
      BY DEF FanInv, Fan
    <3>2. AtMostOnce(wsinks', s)
      <4> SUFFICES ASSUME NEW i \in DOMAIN wsinks', NEW j \in DOMAIN wsinks',
                          wsinks'[i] = s, wsinks'[j] = s
                   PROVE  i = j
        BY DEF AtMostOnce
      <4>1. /\ i + 1 \in DOMAIN wsinks /\ j + 1 \in DOMAIN wsinks
            /\ wsinks[i + 1] = s /\ wsinks[j + 1] = s
        BY <2>2
      <4>2. i + 1 = j + 1 /\ i \in Int /\ j \in Int
        BY <2>2, <3>1, <4>1 DEF AtMostOnce
      <4> QED
        BY <4>2
    <3>3. CASE s = h
      <4>0. 1 \in DOMAIN wsinks /\ wsinks[1] = s
        BY <2>2, <3>3
      <4>1. s \in Range(wsinks)
        BY <4>0 DEF Range
      <4>2. s \notin Range(wsinks')
        <5> SUFFICES ASSUME NEW i \in DOMAIN wsinks', wsinks'[i] = s PROVE FALSE
          BY DEF Range
        <5>1. i + 1 \in DOMAIN wsinks /\ wsinks[i + 1] = s /\ i + 1 # 1
          BY <2>2
        <5>2. 1 \in DOMAIN wsinks /\ wsinks[1] = s
          BY <2>2, <3>3
        <5> QED
          BY <3>1, <5>1, <5>2 DEF AtMostOnce
      <4>3. HandOver(s) = <<wmsg>> /\ HandOver(s)' = <<>>
        BY <2>1, <4>1, <4>2 DEF HandOver, Pending
      <4>4. received'[s] = Append(received[s], wmsg)
        BY <2>1, <2>2, <3>3
      <4>5. received[s] \o <<wmsg>> = received'[s] \o <<>>
        BY <1>a, <2>3, <4>4, HandToTheSink
      <4> QED
        BY <2>1, <3>1, <3>2, <4>3, <4>5 DEF Fan
    <3>4. CASE s # h
      <4>1. s \in Range(wsinks') <=> s \in Range(wsinks)
        <5>1. ASSUME s \in Range(wsinks') PROVE s \in Range(wsinks)
          <6>1. PICK i \in DOMAIN wsinks' : wsinks'[i] = s
            BY <5>1 DEF Range
          <6>2. i + 1 \in DOMAIN wsinks /\ wsinks[i + 1] = s
            BY <2>2, <6>1
          <6> QED
            BY <6>2 DEF Range
        <5>2. ASSUME s \in Range(wsinks) PROVE s \in Range(wsinks')
          <6>1. PICK i \in DOMAIN wsinks : wsinks[i] = s
            BY <5>2 DEF Range
          <6>2. i # 1
            BY <2>2, <3>4, <6>1
          <6>3. i - 1 \in DOMAIN wsinks' /\ wsinks'[i - 1] = s
            BY <2>2, <6>1, <6>2
          <6> QED
            BY <6>3 DEF Range
        <5> QED
          BY <5>1, <5>2
      <4>2. HandOver(s)' = HandOver(s)
        BY <2>1, <4>1 DEF HandOver, Pending
      <4>3. received'[s] = received[s]
        BY <1>a, <2>1, <3>4
      <4> QED
        BY <2>1, <3>1, <3>2, <4>2, <4>3 DEF Fan
    <3> QED
      BY <3>3, <3>4
  <2> QED
    BY <2>1, <2>4 DEF FanInv
<1>12. ASSUME Processed PROVE FanInv'
  <2>1. /\ wpc = "deliver" /\ wpc' = "relock" /\ wsinks = <<>>
        /\ UNCHANGED <<m_queue, received, accepted, m_enqueued, m_sinks, wsinks, wmsg>>
    BY <1>12 DEF Processed, WorkerAt
  <2>2. Range(wsinks) = {}
    BY <2>1 DEF Range
  <2>3. \A s \in FixedSinks : HandOver(s)' = HandOver(s)
    BY <2>1, <2>2 DEF HandOver, Pending
  <2> QED
    BY <2>1, <2>3 DEF FanInv, Fan
<1> QED
  BY <1>1, <1>2, <1>3, <1>4, <1>5, <1>6, <1>7, <1>8, <1>9, <1>10, <1>11, <1>12,
     QuietOrLoud DEF Loud

(* A flush() that has returned true found its target processed.            *)
FlushInv == \A t \in Clients : In(t, "flushed") => m_processed >= call[t].n

LEMMA FlushStep ==
  ASSUME Inv, FlushInv, [Next]_vars PROVE FlushInv'
<1> USE LoggerAssumption
    DEF Inv, QueueTypeOK, FlushInv, In, Threads, CallType, countVars, sinkVars, workerVars
<1>1. CASE Quiet
  BY <1>1 DEF Quiet
<1>2. ASSUME NEW t \in Clients, StartAborts(t) PROVE FlushInv'
  BY <1>2 DEF StartAborts
<1>3. ASSUME NEW t \in Clients, FlushTrue(t) PROVE FlushInv'
  BY <1>3 DEF FlushTrue, Call, AllDelivered
<1>4. ASSUME NEW t \in Clients, ClearSinks(t) PROVE FlushInv'
  BY <1>4 DEF ClearSinks
<1>5. ASSUME NEW t \in Clients, NEW s \in Sinks, AddSink(t, s) \/ RemoveSink(t, s)
      PROVE  FlushInv'
  BY <1>5 DEF AddSink, RemoveSink
<1>6. ASSUME NEW t \in Threads, NEW lv \in Levels, Log(t, lv) PROVE FlushInv'
  BY <1>6 DEF Log, Call
<1>7. ASSUME NEW t \in Threads, LogDrop(t) PROVE FlushInv'
  BY <1>7 DEF LogDrop, Return, NoCall
<1>8. ASSUME NEW t \in Threads, LogPush(t) PROVE FlushInv'
  BY <1>8 DEF LogPush, Call
<1>9. ASSUME TakeMessage \/ SnapshotSinks \/ Consume PROVE FlushInv'
  BY <1>9 DEF TakeMessage, SnapshotSinks, Consume
<1>10. ASSUME Processed PROVE FlushInv'
  BY <1>10 DEF Processed
<1> QED
  BY <1>1, <1>2, <1>3, <1>4, <1>5, <1>6, <1>7, <1>8, <1>9, <1>10, QuietOrLoud DEF Loud

(* What is processed has reached every sink that stays: it is accepted and *)
(* no longer on its way.                                                   *)
LEMMA ProcessedIsReceived ==
  ASSUME Inv, SinkTypeOK, Accounting, FanInv, NEW s \in FixedSinks
  PROVE  Len(received[s]) >= m_processed
<1> USE DEF Inv, QueueTypeOK, SinkTypeOK
<1>1. received[s] \in Seq(Messages) /\ m_queue \in Seq(Messages)
  BY LoggerAssumption DEF FixedSinks, Range
<1>2. /\ HandOver(s) \in Seq(Messages)
      /\ Len(HandOver(s)) <= (IF InFlight THEN 1 ELSE 0)
  <2>1. CASE Pending(s)
    <3>1. InFlight /\ wmsg \in Messages /\ HandOver(s) = <<wmsg>>
      BY <2>1 DEF Pending, InFlight, WorkerOK, HandOver
    <3> QED
      BY <3>1
  <2>2. CASE ~Pending(s)
    <3>1. HandOver(s) = <<>>
      BY <2>2 DEF HandOver
    <3> QED
      BY <3>1
  <2> QED
    BY <2>1, <2>2
<1> DEFINE a == received[s]
           b == HandOver(s)
<1>3. accepted = (a \o b) \o m_queue /\ Len(accepted) = m_enqueued
  BY DEF FanInv, Fan
<1>4. /\ a \in Seq(Messages) /\ b \in Seq(Messages) /\ m_queue \in Seq(Messages)
      /\ Len(b) <= (IF InFlight THEN 1 ELSE 0)
      /\ Len(a) \in Nat /\ Len(b) \in Nat /\ Len(m_queue) \in Nat
  BY <1>1, <1>2
<1> HIDE DEF a, b
<1>5. Len((a \o b) \o m_queue) = Len(a) + Len(b) + Len(m_queue)
  <2>1. a \o b \in Seq(Messages) /\ Len(a \o b) = Len(a) + Len(b)
    BY <1>4
  <2> QED
    BY <1>4, <2>1
<1>6. m_enqueued = m_processed + Len(m_queue) + (IF InFlight THEN 1 ELSE 0)
  BY DEF Accounting
<1>7. Len(a) >= m_processed
  BY <1>3, <1>4, <1>5, <1>6
<1> QED
  BY <1>7 DEF a

-----------------------------------------------------------------------------
(* The sinks that never leave are registered once: addSink() does not look *)
(* for the sink it registers, and one registered twice consumes twice.     *)
RegisteredOnce == \A s \in FixedSinks : Once(InitialSinks, s)

-----------------------------------------------------------------------------
(* The queue, the counters, the threads, and the sinks with what they have *)
(* consumed keep their types in every logger.                              *)
THEOREM LoggerTypeCorrect == Spec => []TypeOK
<1>1. Inv /\ SinkTypeOK => TypeOK
  BY DEF Inv, TypeOK
<1>2. Init => SinkTypeOK
  BY LoggerAssumption DEF Init, SinkTypeOK
<1>3. Inv /\ SinkTypeOK /\ [Next]_vars => SinkTypeOK'
  BY SinkStep
<1> QED
  BY <1>1, <1>2, <1>3, InvInit, InvStep, PTL DEF Spec

(* The three counters of stats() and the queue agree in every logger and   *)
(* the queue never exceeds its capacity: no accepted message is lost or    *)
(* delivered twice, whatever the interleaving of log() and workerLoop().   *)
THEOREM AccountingCorrect == Spec => []Accounting
<1>1. Init => Accounting
  BY LoggerAssumption DEF Init, Accounting, InFlight
<1> QED
  BY <1>1, InvInit, InvStep, AccountingStep, PTL DEF Spec

(* No flush() sleeps past the delivery of its messages.                    *)
THEOREM FlushersWokenCorrect == Spec => []FlushersWoken
<1>1. Init => FlushersWoken
  BY DEF Init, FlushersWoken, In, NoCall, Threads
<1> QED
  BY <1>1, InvInit, InvStep, WokenStep, PTL DEF Spec

(* The two together: the counters that flush() reads are exact in every    *)
(* logger, and a flush() is woken when they have reached its target.       *)
THEOREM CountersServeFlushCorrect == Spec => []CountersServeFlush
<1>1. Accounting /\ FlushersWoken => CountersServeFlush
  BY DEF CountersServeFlush
<1> QED
  BY <1>1, AccountingCorrect, FlushersWokenCorrect, PTL

(* In every logger, with any number of threads that log, start and stop    *)
(* it, the stop() that found it running returns only when everything       *)
(* accepted before has been delivered, and it alone joins the worker.      *)
THEOREM StopDrainsCorrect == Spec => []StopDrains
<1>1. Init => Accounting /\ StopInv
  BY LoggerAssumption
     DEF Init, Accounting, InFlight, StopInv, Joining, StopDrains, In, NoCall, Threads
<1>2. Inv /\ Accounting /\ StopInv /\ [Next]_vars => StopInv'
  BY StopStep
<1>3. StopInv => StopDrains
  BY DEF StopInv
<1> QED
  BY <1>1, <1>2, <1>3, InvInit, InvStep, AccountingStep, PTL DEF Spec
-----------------------------------------------------------------------------
(* Every sequence number that log() has handed out is accepted, dropped or *)
(* held by a thread that has yet to lock, for any number of threads.       *)
THEOREM NoLogUnaccountedCorrect == Spec => []NoLogUnaccounted
<1>1. Init => LogInv
  <2> SUFFICES ASSUME Init PROVE LogInv
    OBVIOUS
  <2>1. \A t \in Threads : call[t].op = "none"
    BY DEF Init, NoCall
  <2>2. Pushing = {}
    BY <2>1 DEF Pushing, In
  <2>3. IsFiniteSet(Pushing) /\ Cardinality(Pushing) = 0
    BY <2>2, FS_EmptySet
  <2>4. m_nextSequence - 1 = m_enqueued + m_dropped + Cardinality(Pushing)
    BY <2>3 DEF Init, FirstSequence
  <2> QED
    BY <2>1, <2>3, <2>4 DEF LogInv, NoLogUnaccounted, Pushing, In
<1>2. Inv /\ LogInv /\ [Next]_vars => LogInv'
  BY LogInvStep
<1>3. LogInv => NoLogUnaccounted
  BY DEF LogInv
<1> QED
  BY <1>1, <1>2, <1>3, InvInit, InvStep, PTL DEF Spec

(* Every sink of every logger consumes what a thread logs in the order in  *)
(* which that thread logged it, whatever sinks come and go.                *)
THEOREM ThreadOrderCorrect == Spec => []ThreadOrder
<1>1. Init => SinkTypeOK /\ OrderInv
  <2> SUFFICES ASSUME Init PROVE SinkTypeOK /\ OrderInv
    OBVIOUS
  <2>1. SinkTypeOK
    BY LoggerAssumption DEF Init, SinkTypeOK
  <2>2. /\ DOMAIN m_queue = {}
        /\ \A s \in Sinks : DOMAIN received[s] = {}
        /\ \A t \in Threads : call[t].op = "none"
        /\ wpc = "none"
    BY DEF Init, NoCall
  <2>3. OrderInv
    BY <2>2 DEF OrderInv, ThreadOrder, QueueInOrder, HandInOrder, SinksInOrder, In, InFlight
  <2> QED
    BY <2>1, <2>3
<1>2. Inv /\ SinkTypeOK /\ [Next]_vars => SinkTypeOK'
  BY SinkStep
<1>3. Inv /\ SinkTypeOK /\ OrderInv /\ [Next]_vars => OrderInv'
  BY OrderStep
<1>4. OrderInv => ThreadOrder
  BY DEF OrderInv
<1> QED
  BY <1>1, <1>2, <1>3, <1>4, InvInit, InvStep, PTL DEF Spec

LEMMA FanInvariant ==
  ASSUME RegisteredOnce PROVE Spec => [](Inv /\ SinkTypeOK /\ FanInv)
<1>1. Init => SinkTypeOK /\ FanInv
  <2> SUFFICES ASSUME Init PROVE SinkTypeOK /\ FanInv
    OBVIOUS
  <2>1. SinkTypeOK
    BY LoggerAssumption DEF Init, SinkTypeOK
  <2>2. /\ accepted = <<>> /\ m_queue = <<>> /\ wpc = "none" /\ wsinks = <<>>
        /\ m_sinks = InitialSinks /\ m_enqueued = 0
        /\ \A s \in Sinks : received[s] = <<>>
    BY DEF Init
  <2>3. FixedSinks \subseteq Sinks
    BY LoggerAssumption DEF FixedSinks, Range
  <2>4. (<<>> \o <<>>) \o <<>> = <<>>
    OBVIOUS
  <2>5. ASSUME NEW s \in FixedSinks
        PROVE  Fan(s) /\ Once(m_sinks, s) /\ AtMostOnce(wsinks, s)
    <3>1. HandOver(s) = <<>>
      BY <2>2 DEF HandOver, Pending
    <3>2. Fan(s)
      BY <2>2, <2>3, <2>4, <3>1 DEF Fan
    <3>3. Once(m_sinks, s)
      BY <2>2 DEF RegisteredOnce
    <3>4. AtMostOnce(wsinks, s)
      BY <2>2 DEF AtMostOnce
    <3> QED
      BY <3>2, <3>3, <3>4
  <2>6. Len(accepted) = m_enqueued
    BY <2>2
  <2> QED
    BY <2>1, <2>5, <2>6 DEF FanInv
<1>2. Inv /\ SinkTypeOK /\ [Next]_vars => SinkTypeOK'
  BY SinkStep
<1>3. Inv /\ SinkTypeOK /\ FanInv /\ [Next]_vars => FanInv'
  BY FanStep
<1> QED
  BY <1>1, <1>2, <1>3, InvInit, InvStep, PTL DEF Spec

(* A sink that stays registered gets every accepted message exactly once   *)
(* and in queue order, in every logger where it was registered once,       *)
(* whatever the other sinks do and across stop() and start().              *)
THEOREM FanOutCorrect == ASSUME RegisteredOnce PROVE Spec => []FanOut
<1>1. FanInv => FanOut
  BY DEF FanInv, Fan, FanOut, HandOver, Pending
<1> QED
  BY <1>1, FanInvariant, PTL

(* flush() tells the truth: when it has returned true, every sink that     *)
(* stays has consumed whatever was accepted before the call.               *)
THEOREM FlushTrueCorrect == ASSUME RegisteredOnce PROVE Spec => []FlushTrueMeansDelivered
<1>1. Init => FlushInv
  BY LoggerAssumption DEF Init, FlushInv, In, NoCall, Threads
<1>2. Inv /\ FlushInv /\ [Next]_vars => FlushInv'
  BY FlushStep
<1>3. Inv /\ SinkTypeOK /\ Accounting /\ FanInv /\ FlushInv => FlushTrueMeansDelivered
  <2> SUFFICES ASSUME Inv, SinkTypeOK, Accounting, FanInv, FlushInv,
                      NEW t \in Clients, In(t, "flushed"), NEW s \in FixedSinks
               PROVE  Len(received[s]) >= call[t].n
    BY DEF FlushTrueMeansDelivered
  <2>1. m_processed >= call[t].n /\ Len(received[s]) >= m_processed
    BY ProcessedIsReceived DEF FlushInv
  <2>2. received[s] \in Seq(Messages)
    BY LoggerAssumption DEF SinkTypeOK, FixedSinks, Range
  <2>3. m_processed \in Nat /\ call[t].n \in Nat /\ Len(received[s]) \in Nat
    BY <2>2 DEF Inv, QueueTypeOK, CallType, Threads
  <2> QED
    BY <2>1, <2>3
<1> QED
  BY <1>1, <1>2, <1>3, FanInvariant, AccountingCorrect, PTL DEF Spec

(* All of what the sinks are promised.                                     *)
THEOREM DeliveryFaithfulCorrect == ASSUME RegisteredOnce PROVE Spec => []DeliveryFaithful
<1>1. NoLogUnaccounted /\ ThreadOrder /\ FanOut /\ FlushTrueMeansDelivered => DeliveryFaithful
  BY DEF DeliveryFaithful
<1> QED
  BY <1>1, NoLogUnaccountedCorrect, ThreadOrderCorrect, FanOutCorrect, FlushTrueCorrect, PTL
=============================
