------------------------------- MODULE Logger -------------------------------
(***************************************************************************)
(* snf::Logger (src/lib/Core/src/SNFCore/Logger.cpp): a bounded queue of   *)
(* log messages between any number of producer threads and one worker      *)
(* thread that delivers every message to all registered sinks.             *)
(*                                                                         *)
(* One mutex guards the queue and m_running, and one condition variable    *)
(* serves two kinds of waiters: the worker waits for messages, flush()     *)
(* waits for their delivery.  log() and stop() notify one waiter, after    *)
(* they have unlocked; the worker notifies all.  Every critical section is *)
(* one action.  accepted and received are history variables.               *)
(***************************************************************************)
EXTENDS Naturals, Sequences, FiniteSets, Functions, TLC

CONSTANTS
  Clients,     \* the threads that use the logger
  Flushers,    \* those that may call flush()
  Starters,    \* those that may call start()
  Stoppers,    \* those that may call stop()
  Worker,      \* the background consumer thread
  Sinks,       \* the LogSinks of the program
  InitialSinks,\* the sequence of those registered first and never removed
  Levels,      \* the values of LogLevel
  Capacity,    \* m_queueCapacity
  MaxLogs,     \* bound: sequence numbers handed out
  MaxSinks,    \* bound: length of m_sinks
  NoMsg        \* absent message

ASSUME LoggerAssumption ==
  /\ Flushers \subseteq Clients /\ Stoppers \subseteq Clients
  /\ Starters \subseteq Clients
  /\ Worker \notin Clients
  /\ InitialSinks \in Seq(Sinks)
  /\ Levels \subseteq Nat /\ 0 \in Levels
  /\ Capacity \in Nat /\ MaxLogs \in Nat /\ MaxSinks \in Nat

FixedSinks == Range(InitialSinks)
Threads == Clients \union {Worker}
Messages == [seq : Nat, from : Threads]
ASSUME NoMsgAssumption == NoMsg \notin Messages

VARIABLES
  m_levelFilter, m_queue, m_running, m_nextSequence,
  m_enqueued, m_processed, m_dropped,
  m_sinks,
  wpc,         \* where the worker is in workerLoop(); "none": m_worker is not joinable
  wmsg,        \* the message the worker has popped
  wsinks,      \* what is left of deliverToSinks()'s snapshot
  call,        \* the Logger function each thread is inside of, with its argument
  accepted,    \* the messages pushed so far, in queue order
  received     \* the messages each sink has consumed

countVars == <<m_nextSequence, m_enqueued, m_processed, m_dropped>>
sinkVars == <<m_sinks, received>>
workerVars == <<wpc, wmsg, wsinks>>
vars == <<m_levelFilter, m_queue, m_running, countVars, sinkVars, workerVars,
          call, accepted>>

(* "push" and "notify" are the steps of log() after the sequence number    *)
(* has been taken, "flush" and "flushWait" those of flush(), "stopNotify"  *)
(* and "join" those of stop().  "flushed" is a thread whose flush() has    *)
(* returned true and "stopped" one whose stop() has joined the worker.     *)
(* n is the sequence number, flush()'s targetProcessed, or, for stop(),    *)
(* the number of messages accepted when it was called.  std::terminate()   *)
(* leaves every thread "dead".                                             *)
Ops == {"none", "push", "notify", "flush", "flushWait", "flushed",
        "stopNotify", "join", "stopped", "dead"}
CallType == [op : Ops, n : Nat]
NoCall == [op |-> "none", n |-> 0]
Call(t, o, n) == call' = [call EXCEPT ![t] = [op |-> o, n |-> n]]
Return(t) == call' = [call EXCEPT ![t] = NoCall]
In(t, o) == call[t].op = o
Idle(t) == call[t].op \in {"none", "flushed", "stopped"}

WorkerPcs == {"none", "loop", "wait", "snapshot", "deliver", "relock", "exited"}
WorkerAt(p) == wpc = p /\ Idle(Worker)
InFlight == wpc \in {"snapshot", "deliver"}

QueueTypeOK ==
  /\ m_levelFilter \in Levels
  /\ m_queue \in Seq(Messages)
  /\ m_running \in BOOLEAN
  /\ m_nextSequence \in Nat \ {0}
  /\ m_enqueued \in Nat /\ m_processed \in Nat /\ m_dropped \in Nat
  /\ wpc \in WorkerPcs
  /\ wmsg \in Messages \union {NoMsg}
  /\ call \in [Threads -> CallType]
  /\ accepted \in Seq(Messages)

SinkTypeOK ==
  /\ m_sinks \in Seq(Sinks)
  /\ wsinks \in Seq(Sinks)
  /\ received \in [Sinks -> Seq(Messages)]

TypeOK == QueueTypeOK /\ SinkTypeOK

FirstSequence_Zero == 0
FirstSequence == 1

(* The constructor, and the sinks registered before the logger starts.     *)
Init ==
  /\ m_levelFilter = 0
  /\ m_queue = <<>>
  /\ m_running = FALSE
  /\ m_nextSequence = FirstSequence
  /\ m_enqueued = 0 /\ m_processed = 0 /\ m_dropped = 0
  /\ m_sinks = InitialSinks
  /\ wpc = "none" /\ wmsg = NoMsg /\ wsinks = <<>>
  /\ call = [t \in Threads |-> NoCall]
  /\ accepted = <<>>
  /\ received = [s \in Sinks |-> <<>>]

-----------------------------------------------------------------------------
(* start() and stop().  stop() joins the worker outside the lock, so a     *)
(* start() that comes while another thread is still joining assigns to a   *)
(* joinable std::thread, which terminates the program; a second stop() in  *)
(* that window returns at once.                                            *)
Start(t) ==
  /\ Idle(t) /\ t \in Starters
  /\ ~m_running /\ wpc = "none"
  /\ m_running' = TRUE
  /\ wpc' = "loop"
  /\ UNCHANGED <<m_levelFilter, m_queue, countVars, sinkVars, wmsg, wsinks,
                 call, accepted>>

StartAborts(t) ==
  /\ Idle(t) /\ t \in Starters
  /\ ~m_running /\ wpc # "none"
  /\ call' = [u \in Threads |-> [op |-> "dead", n |-> 0]]
  /\ UNCHANGED <<m_levelFilter, m_queue, m_running, countVars, sinkVars,
                 workerVars, accepted>>

Stop(t) ==
  /\ Idle(t) /\ t \in Stoppers
  /\ m_running
  /\ m_running' = FALSE
  /\ Call(t, "stopNotify", m_enqueued)
  /\ UNCHANGED <<m_levelFilter, m_queue, countVars, sinkVars, workerVars, accepted>>

StopAlreadyStopping(t) ==
  /\ Idle(t) /\ t \in Stoppers
  /\ ~m_running /\ wpc # "none"
  /\ Return(t)
  /\ UNCHANGED <<m_levelFilter, m_queue, m_running, countVars, sinkVars,
                 workerVars, accepted>>

(* stop() that does not wait for the worker. *)
StopJoin_Detach(t) ==
  /\ In(t, "join")
  /\ wpc' = IF wpc = "exited" THEN "none" ELSE wpc
  /\ Call(t, "stopped", call[t].n)
  /\ UNCHANGED <<m_levelFilter, m_queue, m_running, countVars, sinkVars,
                 wmsg, wsinks, accepted>>

StopJoin(t) ==
  /\ In(t, "join")
  /\ wpc = "exited"
  /\ wpc' = "none"
  /\ Call(t, "stopped", call[t].n)
  /\ UNCHANGED <<m_levelFilter, m_queue, m_running, countVars, sinkVars,
                 wmsg, wsinks, accepted>>

-----------------------------------------------------------------------------
(* log(): the level is read and the sequence number taken before the lock. *)
(* A sink may log too, from inside consume().                              *)
CanLog(t) ==
  /\ Idle(t)
  /\ t = Worker => wpc = "deliver" /\ wsinks # <<>>

Log(t, lv) ==
  /\ CanLog(t)
  /\ lv >= m_levelFilter
  /\ m_nextSequence <= MaxLogs
  /\ m_nextSequence' = m_nextSequence + 1
  /\ Call(t, "push", m_nextSequence)
  /\ UNCHANGED <<m_levelFilter, m_queue, m_running, m_enqueued, m_processed,
                 m_dropped, sinkVars, workerVars, accepted>>

QueueFull_OffByOne == Len(m_queue) > Capacity
QueueFull == Len(m_queue) >= Capacity

(* The lost message is not counted. *)
LogDrop_Uncounted(t) ==
  /\ In(t, "push")
  /\ QueueFull
  /\ Return(t)
  /\ UNCHANGED <<m_levelFilter, m_queue, m_running, countVars, sinkVars,
                 workerVars, accepted>>

LogDrop(t) ==
  /\ In(t, "push")
  /\ QueueFull
  /\ m_dropped' = m_dropped + 1
  /\ Return(t)
  /\ UNCHANGED <<m_levelFilter, m_queue, m_running, m_nextSequence, m_enqueued,
                 m_processed, sinkVars, workerVars, accepted>>

LogPush(t) ==
  LET m == [seq |-> call[t].n, from |-> t] IN
  /\ In(t, "push")
  /\ ~QueueFull
  /\ m_queue' = Append(m_queue, m)
  /\ m_enqueued' = m_enqueued + 1
  /\ accepted' = Append(accepted, m)
  /\ Call(t, "notify", 0)
  /\ UNCHANGED <<m_levelFilter, m_running, m_nextSequence, m_processed,
                 m_dropped, sinkVars, workerVars>>

-----------------------------------------------------------------------------
(* m_queueCv.notify_one(), the last step of log() and the last but one of  *)
(* stop().  It wakes whichever thread it likes of those that wait.         *)
AfterNotify(t) ==
  IF In(t, "notify") THEN NoCall ELSE [call[t] EXCEPT !.op = "join"]

NotifyNobody(t) ==
  /\ call[t].op \in {"notify", "stopNotify"}
  /\ wpc # "wait"
  /\ \A u \in Clients : ~In(u, "flushWait")
  /\ call' = [call EXCEPT ![t] = AfterNotify(t)]
  /\ UNCHANGED <<m_levelFilter, m_queue, m_running, countVars, sinkVars,
                 workerVars, accepted>>

(* The notification is left out. *)
NotifyWorker_Forgotten(t) ==
  /\ call[t].op \in {"notify", "stopNotify"}
  /\ wpc = "wait"
  /\ call' = [call EXCEPT ![t] = AfterNotify(t)]
  /\ UNCHANGED <<m_levelFilter, m_queue, m_running, countVars, sinkVars,
                 workerVars, accepted>>

(* stop() forgets to notify; log() does not. *)
NotifyWorker_NotByStop(t) ==
  /\ call[t].op \in {"notify", "stopNotify"}
  /\ wpc = "wait"
  /\ wpc' = IF In(t, "notify") THEN "loop" ELSE wpc
  /\ call' = [call EXCEPT ![t] = AfterNotify(t)]
  /\ UNCHANGED <<m_levelFilter, m_queue, m_running, countVars, sinkVars,
                 wmsg, wsinks, accepted>>

NotifyWorker(t) ==
  /\ call[t].op \in {"notify", "stopNotify"}
  /\ wpc = "wait"
  /\ wpc' = "loop"
  /\ call' = [call EXCEPT ![t] = AfterNotify(t)]
  /\ UNCHANGED <<m_levelFilter, m_queue, m_running, countVars, sinkVars,
                 wmsg, wsinks, accepted>>

NotifyFlusher(t, u) ==
  /\ call[t].op \in {"notify", "stopNotify"}
  /\ In(u, "flushWait")
  /\ call' = [call EXCEPT ![t] = AfterNotify(t), ![u].op = "flush"]
  /\ UNCHANGED <<m_levelFilter, m_queue, m_running, countVars, sinkVars,
                 workerVars, accepted>>

SpuriousWake ==
  /\ WorkerAt("wait")
  /\ wpc' = "loop"
  /\ UNCHANGED <<m_levelFilter, m_queue, m_running, countVars, sinkVars,
                 wmsg, wsinks, call, accepted>>

-----------------------------------------------------------------------------
(* flush(): the target is read before the lock is taken.  A flush() whose  *)
(* deadline passes evaluates the predicate once more and returns it.       *)
Flush(t) ==
  /\ Idle(t) /\ t \in Flushers
  /\ Call(t, "flush", m_enqueued)
  /\ UNCHANGED <<m_levelFilter, m_queue, m_running, countVars, sinkVars,
                 workerVars, accepted>>

(* An empty queue is taken for delivered messages. *)
AllDelivered_QueueEmpty(t) == m_queue = <<>>
AllDelivered(t) ==
  /\ m_queue = <<>>
  /\ m_processed >= call[t].n

FlushTrue(t) ==
  /\ call[t].op \in {"flush", "flushWait"}
  /\ AllDelivered(t)
  /\ Call(t, "flushed", call[t].n)
  /\ UNCHANGED <<m_levelFilter, m_queue, m_running, countVars, sinkVars,
                 workerVars, accepted>>

FlushBlock(t) ==
  /\ In(t, "flush")
  /\ ~AllDelivered(t)
  /\ Call(t, "flushWait", call[t].n)
  /\ UNCHANGED <<m_levelFilter, m_queue, m_running, countVars, sinkVars,
                 workerVars, accepted>>

FlushTimeout(t) ==
  /\ In(t, "flushWait")
  /\ ~AllDelivered(t)
  /\ Return(t)
  /\ UNCHANGED <<m_levelFilter, m_queue, m_running, countVars, sinkVars,
                 workerVars, accepted>>

-----------------------------------------------------------------------------
(* setLevel() and the registration of sinks.                               *)
SetLevel(t, lv) ==
  /\ Idle(t)
  /\ m_levelFilter' = lv
  /\ UNCHANGED <<m_queue, m_running, countVars, sinkVars, workerVars, call,
                 accepted>>

Without(q, s) ==
  LET kept[n \in 0 .. Len(q)] ==
        IF n = 0 THEN <<>>
        ELSE IF q[n] = s THEN kept[n - 1] ELSE Append(kept[n - 1], q[n])
  IN kept[Len(q)]

AddSink(t, s) ==
  /\ Idle(t)
  /\ s \notin FixedSinks /\ Len(m_sinks) < MaxSinks
  /\ m_sinks' = Append(m_sinks, s)
  /\ UNCHANGED <<m_levelFilter, m_queue, m_running, countVars, received,
                 workerVars, call, accepted>>

RemoveSink(t, s) ==
  /\ Idle(t)
  /\ s \notin FixedSinks
  /\ m_sinks' = Without(m_sinks, s)
  /\ UNCHANGED <<m_levelFilter, m_queue, m_running, countVars, received,
                 workerVars, call, accepted>>

ClearSinks(t) ==
  /\ Idle(t)
  /\ FixedSinks = {}
  /\ m_sinks' = <<>>
  /\ UNCHANGED <<m_levelFilter, m_queue, m_running, countVars, received,
                 workerVars, call, accepted>>

-----------------------------------------------------------------------------
(* workerLoop().  "loop" is the wait with its predicate, "relock" the      *)
(* lock.lock() after a delivery; both see the queue under the lock.        *)
Pop_Last(q) == [msg |-> q[Len(q)], rest |-> SubSeq(q, 1, Len(q) - 1)]
Pop(q) == [msg |-> Head(q), rest |-> Tail(q)]

TakeMessage ==
  /\ WorkerAt("loop") \/ WorkerAt("relock")
  /\ m_queue # <<>>
  /\ wmsg' = Pop(m_queue).msg
  /\ m_queue' = Pop(m_queue).rest
  /\ wpc' = "snapshot"
  /\ UNCHANGED <<m_levelFilter, m_running, countVars, sinkVars, wsinks, call,
                 accepted>>

WorkerWait ==
  /\ WorkerAt("loop")
  /\ m_queue = <<>> /\ m_running
  /\ wpc' = "wait"
  /\ UNCHANGED <<m_levelFilter, m_queue, m_running, countVars, sinkVars, wmsg,
                 wsinks, call, accepted>>

(* Of the flush() waiters only one is woken. *)
WakeFlushers_One ==
  LET waiting == {t \in Threads : In(t, "flushWait")} IN
  \/ waiting = {} /\ UNCHANGED call
  \/ \E t \in waiting : call' = [call EXCEPT ![t].op = "flush"]

(* m_queueCv.notify_all() by the worker: only flush() calls can wait.      *)
WakeFlushers ==
  call' = [t \in Threads |->
             IF In(t, "flushWait") THEN [call[t] EXCEPT !.op = "flush"] ELSE call[t]]

DrainOver ==
  /\ WorkerAt("relock") \/ (WorkerAt("loop") /\ ~m_running)
  /\ m_queue = <<>>
  /\ WakeFlushers
  /\ wpc' = IF m_running THEN "loop" ELSE "exited"
  /\ UNCHANGED <<m_levelFilter, m_queue, m_running, countVars, sinkVars, wmsg,
                 wsinks, accepted>>

SnapshotSinks ==
  /\ WorkerAt("snapshot")
  /\ wsinks' = m_sinks
  /\ wpc' = "deliver"
  /\ UNCHANGED <<m_levelFilter, m_queue, m_running, countVars, sinkVars, wmsg,
                 call, accepted>>

Consume ==
  /\ WorkerAt("deliver")
  /\ wsinks # <<>>
  /\ received' = [received EXCEPT ![Head(wsinks)] = Append(@, wmsg)]
  /\ wsinks' = Tail(wsinks)
  /\ UNCHANGED <<m_levelFilter, m_queue, m_running, countVars, m_sinks, wpc,
                 wmsg, call, accepted>>

(* Counted as processed before the sinks have seen it. *)
Processed_Early ==
  /\ WorkerAt("deliver")
  /\ m_processed < m_enqueued - Len(m_queue)
  /\ m_processed' = m_processed + 1
  /\ wpc' = IF wsinks = <<>> THEN "relock" ELSE wpc
  /\ UNCHANGED <<m_levelFilter, m_queue, m_running, m_nextSequence, m_enqueued,
                 m_dropped, sinkVars, wmsg, wsinks, call, accepted>>

Processed ==
  /\ WorkerAt("deliver")
  /\ wsinks = <<>>
  /\ m_processed' = m_processed + 1
  /\ wpc' = "relock"
  /\ UNCHANGED <<m_levelFilter, m_queue, m_running, m_nextSequence, m_enqueued,
                 m_dropped, sinkVars, wmsg, wsinks, call, accepted>>

-----------------------------------------------------------------------------
ClientStep(t) ==
  \/ Start(t) \/ StartAborts(t)
  \/ Stop(t) \/ StopAlreadyStopping(t) \/ StopJoin(t)
  \/ Flush(t) \/ FlushTrue(t) \/ FlushBlock(t) \/ FlushTimeout(t)

LogStep(t) ==
  \/ \E lv \in Levels : Log(t, lv)
  \/ LogDrop(t) \/ LogPush(t)
  \/ NotifyNobody(t) \/ NotifyWorker(t)
  \/ \E u \in Clients : NotifyFlusher(t, u)

WorkerStep ==
  \/ TakeMessage \/ WorkerWait \/ DrainOver
  \/ SnapshotSinks \/ Consume \/ Processed

SettingStep(t) ==
  \/ \E lv \in Levels : SetLevel(t, lv)
  \/ \E s \in Sinks : AddSink(t, s) \/ RemoveSink(t, s)
  \/ ClearSinks(t)

Next ==
  \/ \E t \in Clients : ClientStep(t) \/ SettingStep(t)
  \/ \E t \in Threads : LogStep(t)
  \/ WorkerStep
  \/ SpuriousWake

Spec == Init /\ [][Next]_vars

(* A thread inside log(), flush(), stop() or workerLoop() goes on: the     *)
(* scheduler runs every thread, a deadline passes, and a sink's consume()  *)
(* returns.  Nobody has to call anything, and no wakeup is spurious.       *)
Fairness ==
  /\ \A t \in Threads : WF_vars(LogPush(t) \/ LogDrop(t))
  /\ \A t \in Threads :
       WF_vars(NotifyNobody(t) \/ NotifyWorker(t)
                 \/ \E u \in Clients : NotifyFlusher(t, u))
  /\ \A t \in Clients :
       WF_vars(StopJoin(t) \/ FlushTrue(t) \/ FlushBlock(t) \/ FlushTimeout(t))
  /\ WF_vars(WorkerStep)

LiveSpec == Spec /\ Fairness

-----------------------------------------------------------------------------
(* Every accepted message is in exactly one place: processed, in the       *)
(* worker's hands, or queued; and the queue keeps its bound.  (log(),      *)
(* workerLoop(): three counters updated under two different disciplines.)  *)
Accounting ==
  /\ m_enqueued = m_processed + Len(m_queue) + (IF InFlight THEN 1 ELSE 0)
  /\ Len(m_queue) <= Capacity

(* Every sequence number handed out is accepted, dropped, or held by a     *)
(* thread between fetch_add() and the lock.                                *)
NoLogUnaccounted ==
  ~In(Worker, "dead") =>
    m_nextSequence - 1 =
      m_enqueued + m_dropped + Cardinality({t \in Threads : In(t, "push")})

(* Every sink consumes the messages of one thread in the order the thread  *)
(* logged them, with increasing sequence numbers, although the number and  *)
(* the place in the queue are taken in two separate steps and sinks come   *)
(* and go.  (A sink that is registered twice consumes a message twice.)    *)
ThreadOrder ==
  \A s \in Sinks : \A i, j \in DOMAIN received[s] :
    i < j /\ received[s][i].from = received[s][j].from =>
      received[s][i].seq <= received[s][j].seq

(* A sink that stays registered consumes every accepted message exactly    *)
(* once and in queue order, whatever happens to the other sinks, and       *)
(* across stop() and start().                                              *)
FanOut ==
  \A s \in FixedSinks :
    LET pending == wpc = "snapshot" \/ (wpc = "deliver" /\ s \in Range(wsinks)) IN
    accepted = received[s] \o (IF pending THEN <<wmsg>> ELSE <<>>) \o m_queue

(* flush() that has returned true: every message accepted before the call  *)
(* has been consumed by the sinks that stayed registered.                  *)
FlushTrueMeansDelivered ==
  \A t \in Clients : In(t, "flushed") =>
    \A s \in FixedSinks : Len(received[s]) >= call[t].n

(* A flush() whose messages are all delivered is never left asleep: the    *)
(* worker is still on its way to notify_all().                             *)
FlushersWoken ==
  \A t \in Clients : In(t, "flushWait") /\ AllDelivered(t) =>
    wpc \in {"snapshot", "deliver", "relock"}

(* The counters tell flush() the truth, and it is woken when they do.      *)
CountersServeFlush == Accounting /\ FlushersWoken

(* log() and the sinks: every message is accounted for and delivered to    *)
(* every sink, in order, before a flush() says so.                         *)
DeliveryFaithful ==
  NoLogUnaccounted /\ ThreadOrder /\ FanOut /\ FlushTrueMeansDelivered

Joining(t) == call[t].op \in {"stopNotify", "join"}

(* The stop() that found the logger running returns when the messages      *)
(* accepted before it have been delivered, whatever other threads log,     *)
(* stop and start meanwhile.  A worker that has been told to leave has one *)
(* such stop() to join it, never two.  Nothing is said of a stop() that    *)
(* found another one at work: it returns at once.                          *)
StopDrains ==
  /\ \A t \in Clients : In(t, "stopped") => m_processed >= call[t].n
  /\ \A t, u \in Clients : Joining(t) /\ Joining(u) => t = u
  /\ ~m_running /\ wpc # "none" =>
       (\E t \in Clients : Joining(t)) \/ In(Worker, "dead")

(* A message accepted while the logger runs is delivered.                  *)
AcceptedIsDelivered ==
  \A n \in 1 .. MaxLogs : (m_running /\ m_enqueued >= n) ~> (m_processed >= n)

(* stop() returns.                                                         *)
StopReturns ==
  \A t \in Clients : Joining(t) ~> In(t, "stopped")

(* The worker delivers while it runs, and stop() waits for it no longer.   *)
LoggerGetsDone == AcceptedIsDelivered /\ StopReturns

-----------------------------------------------------------------------------
(* For TLC: what a logger may have been given to begin with, and the       *)
(* threads, which are interchangeable when they may all do the same.       *)
NoSinks == <<>>
OneSink == <<CHOOSE s \in Sinks : TRUE>>
LoggerSymmetry == Permutations(Clients)
=============================================================================
