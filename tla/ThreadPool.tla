----------------------------- MODULE ThreadPool -----------------------------
(***************************************************************************)
(* snf::ThreadPool (src/lib/Core/src/SNFCore/ThreadPool.cpp): workers with *)
(* an EventLoop each, to which start() hands runnables in turn.            *)
(*                                                                         *)
(* A loop is reduced to what EventLoop shows of it: a queue drained in     *)
(* order, and a wait at which a stopped loop leaves without another look   *)
(* at its queue.  agenda[t] is what thread t has still to do of the calls  *)
(* it is in, innermost first; every critical section is one step of it.    *)
(***************************************************************************)
EXTENDS Naturals, Sequences, FiniteSets, SequencesExt

CONSTANTS
  Workers,     \* the workers
  Clients,     \* the threads that use the pool
  Ready, None  \* the ready notification a worker posts to itself; nothing

(* m_workers: the order is that of their creation, no matter which.        *)
WorkerSeq == SetToSeq(Workers)
Threads == Workers \union Clients

VARIABLES
  m_stopping, m_nextWorker, m_queuedTasks, m_activeTasks,
  m_workerLoops, \* the workers that have registered their loop
  loopTasks,     \* per worker, m_tasks of its loop
  loopStop,      \* the workers whose loop has been told to stop
  wpc,           \* where a worker is in its loop
  cur,           \* the runnable a worker executes
  agenda

poolVars == <<m_stopping, m_nextWorker, m_queuedTasks, m_activeTasks, m_workerLoops>>
loopVars == <<loopTasks, loopStop, wpc, cur>>

Step(op, x) == [op |-> op, x |-> x]
At(t, op) == agenda[t] # <<>> /\ Head(agenda[t]).op = op
Arg(t) == Head(agenda[t]).x
(* Thread t goes on with the steps s, then with the rest of its agenda.    *)
Then(t, s) == agenda' = [agenda EXCEPT ![t] = s \o Tail(@)]
Call(t, s) == agenda' = [agenda EXCEPT ![t] = s \o @]

(* Threads outside the pool's code: the clients once the constructor has   *)
(* returned, and a worker inside a runnable.                               *)
UserCode(t) ==
  /\ agenda[t] = <<>>
  /\ IF t \in Workers THEN wpc[t] = "run"
     ELSE \A c \in Clients : ~At(c, "construct")

(* One client, no matter which, is in the constructor.                     *)
PoolInit ==
  /\ m_stopping = FALSE /\ m_nextWorker = 0
  /\ m_queuedTasks = 0 /\ m_activeTasks = 0
  /\ m_workerLoops = {}
  /\ loopTasks = [w \in Workers |-> <<>>]
  /\ loopStop = {}
  /\ wpc = [w \in Workers |-> "start"]
  /\ cur = [w \in Workers |-> None]
  /\ agenda = [t \in Threads |->
       IF t = (CHOOSE c \in Clients : TRUE) THEN <<Step("construct", None)>> ELSE <<>>]

WorkerLoop(w) ==
  /\ wpc[w] = "start"
  /\ m_workerLoops' = m_workerLoops \union {w}
  /\ loopTasks' = [loopTasks EXCEPT ![w] = Append(@, Ready)]
  /\ wpc' = [wpc EXCEPT ![w] = "drain"]
  /\ UNCHANGED <<m_stopping, m_nextWorker, m_queuedTasks, m_activeTasks, loopStop, cur, agenda>>

(* The wait of the constructor: woken by a ready task, in which all loops  *)
(* are registered.                                                         *)
AllReady == m_workerLoops = Workers
RunReady(w) ==
  /\ wpc[w] = "drain" /\ loopTasks[w] # <<>> /\ Head(loopTasks[w]) = Ready
  /\ loopTasks' = [loopTasks EXCEPT ![w] = Tail(@)]
  /\ agenda' = [t \in Threads |->
       IF At(t, "construct") /\ AllReady THEN Tail(agenda[t]) ELSE agenda[t]]
  /\ UNCHANGED <<poolVars, loopStop, wpc, cur>>

(* start(): the choice of a loop and the counting under m_mutex, the post  *)
(* to that loop after it.                                                  *)
Accepts == ~m_stopping
StartJob(t, j) ==
  LET w == WorkerSeq[(m_nextWorker % Len(WorkerSeq)) + 1] IN
  /\ Accepts
  /\ m_nextWorker' = (m_nextWorker + 1) % Len(WorkerSeq)
  /\ m_queuedTasks' = m_queuedTasks + 1
  /\ Then(t, <<Step("post", [w |-> w, j |-> j])>>)
  /\ UNCHANGED <<m_stopping, m_activeTasks, m_workerLoops, loopVars>>

Post(t) ==
  /\ At(t, "post")
  /\ loopTasks' = [loopTasks EXCEPT ![Arg(t).w] = Append(@, Arg(t).j)]
  /\ Then(t, <<>>)
  /\ UNCHANGED <<poolVars, loopStop, wpc, cur>>

TakeTask_CountedTwice(w) ==
  /\ wpc[w] = "drain" /\ loopTasks[w] # <<>> /\ Head(loopTasks[w]) # Ready
  /\ cur' = [cur EXCEPT ![w] = Head(loopTasks[w])]
  /\ loopTasks' = [loopTasks EXCEPT ![w] = Tail(@)]
  /\ m_activeTasks' = m_activeTasks + 1
  /\ wpc' = [wpc EXCEPT ![w] = "run"]
  /\ UNCHANGED <<m_stopping, m_nextWorker, m_queuedTasks, m_workerLoops, loopStop, agenda>>
(* The closure start() posts, around runnable->execute(), which catches    *)
(* what run() throws.                                                      *)
TakeTask(w) ==
  /\ wpc[w] = "drain" /\ loopTasks[w] # <<>> /\ Head(loopTasks[w]) # Ready
  /\ cur' = [cur EXCEPT ![w] = Head(loopTasks[w])]
  /\ loopTasks' = [loopTasks EXCEPT ![w] = Tail(@)]
  /\ m_queuedTasks' = m_queuedTasks - 1
  /\ m_activeTasks' = m_activeTasks + 1
  /\ wpc' = [wpc EXCEPT ![w] = "run"]
  /\ UNCHANGED <<m_stopping, m_nextWorker, m_workerLoops, loopStop, agenda>>

AllDone_QueueOnly(active) == m_queuedTasks = 0
AllDone(active) == m_queuedTasks = 0 /\ active = 0

EndTask(w) ==
  /\ wpc[w] = "ran" /\ agenda[w] = <<>>
  /\ m_activeTasks' = m_activeTasks - 1
  /\ agenda' = [t \in Threads |->
       IF At(t, "waiting") /\ AllDone(m_activeTasks - 1) THEN Tail(agenda[t]) ELSE agenda[t]]
  /\ wpc' = [wpc EXCEPT ![w] = "drain"]
  /\ cur' = [cur EXCEPT ![w] = None]
  /\ UNCHANGED <<m_stopping, m_nextWorker, m_queuedTasks, m_workerLoops, loopTasks, loopStop>>

(* The end of a pass and the wait of the loop (EventLoop, WaitExit to      *)
(* WaitBlock; that no wake-up is lost is shown there).                     *)
DrainOver(w) ==
  /\ wpc[w] = "drain" /\ loopTasks[w] = <<>>
  /\ wpc' = [wpc EXCEPT ![w] = "wait"]
  /\ UNCHANGED <<poolVars, loopTasks, loopStop, cur, agenda>>

Wait(w) ==
  /\ wpc[w] = "wait"
  /\ \/ w \in loopStop /\ wpc' = [wpc EXCEPT ![w] = "exited"]
     \/ w \notin loopStop /\ loopTasks[w] # <<>> /\ wpc' = [wpc EXCEPT ![w] = "drain"]
  /\ UNCHANGED <<poolVars, loopTasks, loopStop, cur, agenda>>

WaitForDone(t) ==
  /\ UserCode(t) /\ t \in Clients
  /\ Call(t, IF AllDone(m_activeTasks) THEN <<>> ELSE <<Step("waiting", None)>>)
  /\ UNCHANGED <<poolVars, loopVars>>

(* shutdown(): refused from here on; every loop is retired and stopped;    *)
(* then the workers are joined and forgotten.                              *)
Shutdown(t) ==
  /\ UserCode(t) /\ t \in Clients
  /\ ~m_stopping
  /\ m_stopping' = TRUE
  /\ Call(t, [i \in DOMAIN WorkerSeq |-> Step("stop", WorkerSeq[i])] \o <<Step("join", None)>>)
  /\ UNCHANGED <<m_nextWorker, m_queuedTasks, m_activeTasks, m_workerLoops, loopVars>>

StopLoop(t) ==
  /\ At(t, "stop")
  /\ loopStop' = loopStop \union {Arg(t)}
  /\ Then(t, <<>>)
  /\ UNCHANGED <<poolVars, loopTasks, wpc, cur>>

Join(t) ==
  /\ At(t, "join")
  /\ \A w \in Workers : wpc[w] = "exited"
  /\ m_workerLoops' = {} /\ m_nextWorker' = 0
  /\ Then(t, <<>>)
  /\ UNCHANGED <<m_stopping, m_queuedTasks, m_activeTasks, loopVars>>

WorkerStep(w) ==
  WorkerLoop(w) \/ RunReady(w) \/ TakeTask(w) \/ EndTask(w) \/ DrainOver(w) \/ Wait(w)
ClientStep(t) == WaitForDone(t) \/ Shutdown(t)
ThreadStep(t) == Post(t) \/ StopLoop(t) \/ Join(t)
=============================================================================
