------------------------- MODULE AsyncTaskSequence --------------------------
(***************************************************************************)
(* snf::AsyncTaskSequence over snf::ThreadPool                             *)
(* (src/lib/experimental/src/SNFExperimental/AsyncTaskSequence.cpp): a     *)
(* graph of tasks that are handed to the pool as their dependencies        *)
(* finish.  A context is the set of tasks whose values it holds.           *)
(***************************************************************************)
EXTENDS ThreadPool

CONSTANTS
  MaxTasks,   \* bound: tasks of the graph
  MaxStarts   \* bound: calls of start()

Ids == 0 .. MaxTasks - 1
ASSUME SequenceAssumption ==
  /\ MaxTasks \in Nat /\ MaxStarts \in Nat
  /\ IsFiniteSet(Workers) /\ Workers # {}
  /\ IsFiniteSet(Clients) /\ Clients # {} /\ Workers \cap Clients = {}
  /\ Ready \notin [id : Ids, input : SUBSET Ids]

VARIABLES
  taskCount,   \* m_tasks.size()
  deps,        \* pairs <<dependency, dependent>>
  m_running, m_finished, m_remainingTasks, m_finishedTasks,
  pending,     \* pendingDependencies
  scheduled, done, output,
  starts       \* how often start() has succeeded

graphVars == <<taskCount, deps>>
runVars == <<m_running, m_finished, m_remainingTasks, m_finishedTasks,
             pending, scheduled, done, output>>
vars == <<poolVars, loopVars, agenda, graphVars, runVars, starts>>

Tasks == 0 .. taskCount - 1
Dependencies(i) == {d \in Tasks : <<d, i>> \in deps}
Dependents(i) == {d \in Tasks : <<i, d>> \in deps}

Init ==
  /\ PoolInit
  /\ taskCount = 0 /\ deps = {}
  /\ m_running = FALSE /\ m_finished = FALSE
  /\ m_remainingTasks = 0 /\ m_finishedTasks = 0
  /\ pending = [i \in Ids |-> 0]
  /\ scheduled = {} /\ done = {}
  /\ output = [i \in Ids |-> {}]
  /\ starts = 0

AddTask(t) ==
  /\ UserCode(t) /\ t \in Clients
  /\ ~m_running /\ taskCount < MaxTasks
  /\ taskCount' = taskCount + 1
  /\ UNCHANGED <<poolVars, loopVars, agenda, deps, runVars, starts>>

AddDependency(t, a, b) ==
  /\ UserCode(t) /\ t \in Clients
  /\ ~m_running /\ a \in Tasks /\ b \in Tasks /\ a # b
  /\ deps' = deps \union {<<a, b>>}
  /\ UNCHANGED <<poolVars, loopVars, agenda, taskCount, runVars, starts>>

(* hasValidGraphLocked(): the tasks visited when tasks without unvisited   *)
(* dependencies are taken off a queue.                                     *)
Visited ==
  LET after[k \in 0 .. taskCount] ==
        IF k = 0 THEN {} ELSE {i \in Tasks : Dependencies(i) \subseteq after[k - 1]}
  IN after[taskCount]
HasValidGraph_RootsOnly == taskCount > 0 /\ \E i \in Tasks : Dependencies(i) = {}
HasValidGraph == taskCount > 0 /\ Visited = Tasks

(* scheduleTask() of several tasks, in the order of their ids.             *)
Schedule(ids) ==
  LET below[n \in 0 .. MaxTasks] ==
        IF n = 0 THEN <<>>
        ELSE IF n - 1 \in ids THEN Append(below[n - 1], Step("schedule", n - 1))
        ELSE below[n - 1]
  IN below[MaxTasks]

Start(t) ==
  LET ready == {i \in Tasks : Dependencies(i) = {}} IN
  /\ UserCode(t) /\ t \in Clients
  /\ ~m_running /\ HasValidGraph
  /\ starts < MaxStarts /\ starts' = starts + 1
  /\ m_running' = TRUE /\ m_finished' = FALSE
  /\ m_remainingTasks' = taskCount /\ m_finishedTasks' = 0
  /\ pending' = [i \in Ids |-> Cardinality(Dependencies(i))]
  /\ scheduled' = ready /\ done' = {}
  /\ output' = [i \in Ids |-> {}]
  /\ Call(t, Schedule(ready))
  /\ UNCHANGED <<poolVars, loopVars, graphVars>>

(* scheduleTask(): the input is built under the lock ...                   *)
ScheduleTask(t) ==
  /\ At(t, "schedule")
  /\ Then(t, IF m_running
             THEN <<Step("submit", [id |-> Arg(t),
                                    input |-> UNION {output[d] : d \in Dependencies(Arg(t))}])>>
             ELSE <<>>)
  /\ UNCHANGED <<poolVars, loopVars, graphVars, runVars, starts>>

(* ... and the runnable given to the pool after it.                        *)
Submit(t) ==
  /\ At(t, "submit")
  /\ StartJob(t, Arg(t))
  /\ UNCHANGED <<graphVars, runVars, starts>>

(* A pool that refuses the task: it counts as finished, without output.    *)
SubmitRefused(t) ==
  /\ At(t, "submit") /\ ~Accepts
  /\ Then(t, <<Step("finish", [id |-> Arg(t).id, output |-> {}])>>)
  /\ UNCHANGED <<poolVars, loopVars, graphVars, runVars, starts>>

(* AsyncTask::execute() on a worker: run() sets a value, or throws before. *)
Execute(w) ==
  /\ wpc[w] = "run"
  /\ \E out \in {{}, {cur[w].id}} :
       Call(w, <<Step("finish", [id |-> cur[w].id, output |-> out])>>)
  /\ wpc' = [wpc EXCEPT ![w] = "ran"]
  /\ UNCHANGED <<poolVars, loopTasks, loopStop, cur, graphVars, runVars, starts>>

Released_Any(i) == {d \in Dependents(i) \ scheduled : pending[d] >= 1}
Released(i) == {d \in Dependents(i) \ scheduled : pending[d] <= 1}

(* onTaskFinished().  Its early return, for a sequence that is not running *)
(* or a task that is done, is never taken: RunsOnceAndInOrder.             *)
OnTaskFinished(t) ==
  LET i == Arg(t).id
      last == m_remainingTasks = 1 IN
  /\ At(t, "finish") /\ m_running /\ i \notin done
  /\ output' = [output EXCEPT ![i] = Arg(t).output]
  /\ done' = done \union {i}
  /\ m_finishedTasks' = m_finishedTasks + 1
  /\ m_remainingTasks' = m_remainingTasks - 1
  /\ pending' = [d \in Ids |-> IF d \in Dependents(i) /\ pending[d] > 0
                               THEN pending[d] - 1 ELSE pending[d]]
  /\ scheduled' = scheduled \union Released(i)
  /\ m_running' = ~last
  /\ m_finished' = (m_finished \/ last)
  /\ Then(t, Schedule(Released(i)) \o (IF last THEN <<Step("notify", None)>> ELSE <<>>))
  /\ UNCHANGED <<poolVars, loopVars, graphVars, starts>>

NotifyDone_Nobody(t) ==
  /\ At(t, "notify")
  /\ Then(t, <<>>)
  /\ UNCHANGED <<poolVars, loopVars, graphVars, runVars, starts>>
(* m_done.notify_all(): the waiters look at m_running again.               *)
NotifyDone(t) ==
  /\ At(t, "notify")
  /\ agenda' = [u \in Threads |->
       IF u = t THEN Tail(agenda[u])
       ELSE IF At(u, "asleep") THEN <<Step("wait", None)>> \o Tail(agenda[u])
       ELSE agenda[u]]
  /\ UNCHANGED <<poolVars, loopVars, graphVars, runVars, starts>>

WaitSequence(t) ==
  /\ \/ UserCode(t) /\ t \in Clients /\ m_running /\ Call(t, <<Step("asleep", None)>>)
     \/ At(t, "wait") /\ Then(t, IF m_running THEN <<Step("asleep", None)>> ELSE <<>>)
  /\ UNCHANGED <<poolVars, loopVars, graphVars, runVars, starts>>

GraphStep(t) ==
  ScheduleTask(t) \/ Submit(t) \/ SubmitRefused(t) \/ OnTaskFinished(t) \/ NotifyDone(t)

PoolStep ==
  \/ \E t \in Clients : ClientStep(t)
  \/ \E t \in Threads : ThreadStep(t)
  \/ \E w \in Workers : WorkerStep(w)

Next ==
  \/ PoolStep /\ UNCHANGED <<graphVars, runVars, starts>>
  \/ \E w \in Workers : Execute(w)
  \/ \E t \in Threads : GraphStep(t) \/ WaitSequence(t)
  \/ \E t \in Clients : AddTask(t) \/ Start(t) \/ \E a, b \in Ids : AddDependency(t, a, b)

(* Threads inside the library go on and tasks return; nobody has to call.  *)
Fairness ==
  /\ \A w \in Workers : WF_vars(WorkerStep(w) /\ UNCHANGED <<graphVars, runVars, starts>>) /\ WF_vars(Execute(w))
  /\ \A t \in Threads :
       /\ WF_vars(ThreadStep(t) /\ UNCHANGED <<graphVars, runVars, starts>>)
       /\ WF_vars(GraphStep(t))
       /\ WF_vars(At(t, "wait") /\ WaitSequence(t))

Spec == Init /\ [][Next]_vars /\ Fairness

-----------------------------------------------------------------------------
(* The places a task of the present run can be in between being scheduled  *)
(* and being done.                                                         *)
InAgenda(t, i) ==
  {k \in DOMAIN agenda[t] :
     \/ agenda[t][k].op = "schedule" /\ agenda[t][k].x = i
     \/ agenda[t][k].op \in {"submit", "finish"} /\ agenda[t][k].x.id = i
     \/ agenda[t][k].op = "post" /\ agenda[t][k].x.j.id = i}
InLoop(w, i) == {k \in DOMAIN loopTasks[w] : loopTasks[w][k] # Ready /\ loopTasks[w][k].id = i}
Places(i) ==
  (UNION {{<<t, "agenda", k>> : k \in InAgenda(t, i)} : t \in Threads})
  \union (UNION {{<<w, "queue", k>> : k \in InLoop(w, i)} : w \in Workers})
  \union {<<w, "run", 0>> : w \in {v \in Workers : wpc[v] = "run" /\ cur[v].id = i}}

(* "dependency must finish before dependent" (AsyncTaskSequence.h:26): a   *)
(* task that runs has all its dependencies done and all their values, and  *)
(* every scheduled task is in exactly one place until it is done, also if  *)
(* two dependencies finish at once or the pool refuses tasks.              *)
RunsOnceAndInOrder ==
  /\ \A w \in Workers : wpc[w] = "run" =>
       /\ Dependencies(cur[w].id) \subseteq done
       /\ cur[w].input = UNION {output[d] : d \in Dependencies(cur[w].id)}
  /\ \A i \in Tasks :
       Cardinality(Places(i)) = (IF m_running /\ i \in scheduled \ done THEN 1 ELSE 0)

(* The pool's two counters account for every runnable accepted: those on   *)
(* their way to a loop or in its queue, and those being executed.          *)
CountersExact ==
  /\ m_queuedTasks =
       Cardinality({t \in Threads : \E k \in DOMAIN agenda[t] : agenda[t][k].op = "post"})
       + Cardinality(UNION {{<<w, k>> : k \in {n \in DOMAIN loopTasks[w] : loopTasks[w][n] # Ready}}
                              : w \in Workers})
  /\ m_activeTasks = Cardinality({w \in Workers : wpc[w] \in {"run", "ran"}})

(* In a pool that is not shut down the constructor returns, a started      *)
(* sequence finishes, and wait() and waitForDone() come back.              *)
SequenceFinishes ==
  [](~m_stopping) =>
    /\ m_running ~> ~m_running
    /\ \A t \in Clients : (agenda[t] # <<>>) ~> (agenda[t] = <<>>)
=============================================================================
