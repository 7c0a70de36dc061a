------------------------------ MODULE TaskPool ------------------------------
(***************************************************************************)
(* snf::TaskPool and the snf::detail::Strands it runs                      *)
(* (src/lib/Core/src/SNFCore/{TaskPool,Strand,PooledNode}.cpp).            *)
(*                                                                         *)
(* A fixed set of workers shares one queue.  An entry of the queue is a    *)
(* job given to start(), or a strand: the pool task that calls that        *)
(* strand's drain().  A strand keeps the work of a pooled subtree of nodes *)
(* in a queue of its own and must run it one piece at a time, in order, on *)
(* whichever worker is free.  Every critical section of the code is one    *)
(* action; what the code does after unlocking (the notify, the second half *)
(* of post() or of acquireStrand()) is an action of its own.               *)
(***************************************************************************)
EXTENDS Naturals, Sequences, FiniteSets, Functions, TLC

CONSTANTS
  Workers,         \* the pool's threads
  Clients,         \* the threads outside the pool that call it
  ShutdownClients, \* those that may call shutdown()
  Jobs,            \* plain tasks for start()
  Msgs,            \* tasks for Strand::post()
  Strands,         \* the strands the pool may ever create
  Nodes,           \* pooled subtrees, each a root and its children
  BatchSize,       \* Strand::kBatchSize
  MoveAfterDelete, \* may a slot move a node after its deleteLater()?
  NoStrand, NoMsg, \* absent strand, absent message
  Elsewhere, Dead  \* homes of a node outside the pool / destroyed

ASSUME PoolAssumption ==
  /\ IsFiniteSet(Workers)
  /\ Workers \cap Clients = {}
  /\ ShutdownClients \subseteq Clients
  /\ Jobs \cap (Strands \union Msgs) = {}
  /\ BatchSize \in Nat \ {0}
  /\ MoveAfterDelete \in BOOLEAN
  /\ NoStrand \notin Strands
  /\ NoMsg \notin Msgs
  /\ {Elsewhere, Dead} \cap Strands = {} /\ Elsewhere # Dead

Threads == Workers \union Clients

VARIABLES
  m_queue,         \* the pool's queue of jobs and strand drains
  m_activeTasks,
  m_stopping,      \* set together with emptying m_workers
  m_joined,
  sdCaller,        \* the thread that holds m_shutdownMutex (a set, <= 1)
  sdTodo,          \* strands shutdown() has still to tear down
  wpc,             \* where each worker is in workerLoop() / drain()
  cur,             \* the strand a worker drains
  ran,             \* drain()'s batch counter
  msg,             \* the strand task a worker runs
  call,            \* the pool or strand function a thread is inside of
  m_strands,       \* the strands created so far
  m_freeStrands,   \* the free list, last in first out
  m_reserved,      \* the strands acquired and not yet released
  m_scheduled,     \* the strands with m_scheduled set
  m_retired,       \* the strands torn down
  sQueue,          \* each strand's m_queue
  m_pendingDeletes,\* nodes to delete at the end of the batch
  home,            \* the owner of each node
  done             \* the jobs and messages that have run

poolVars == <<m_queue, m_activeTasks, m_stopping, m_joined, sdCaller, sdTodo>>
workerVars == <<wpc, cur, ran, msg>>
recycleVars == <<m_strands, m_freeStrands, m_reserved>>
strandVars == <<m_scheduled, m_retired, sQueue>>
nodeVars == <<m_pendingDeletes, home>>
vars == <<poolVars, workerVars, call, recycleVars, strandVars, nodeVars, done>>

(* The functions a thread can be in the middle of.  "post" to "notify" are *)
(* the steps of Strand::post(), schedule() and enqueueStrandDrain();       *)
(* "acquire" to "release" those of PooledNode::applyMoveToTaskPool();      *)
(* "waiting" is a thread blocked in waitForDone().                         *)
Ops == {"none", "post", "sched", "unsched", "notify",
        "acquire", "move", "release",
        "waitForDone", "waiting",
        "notifyAll", "join", "destroy", "clear"}

CallType == [op : Ops, s : Strands \union {NoStrand}, x : Msgs \union Nodes \union {NoMsg}]
NoCall == [op |-> "none", s |-> NoStrand, x |-> NoMsg]
Call(t, o, s, x) == call' = [call EXCEPT ![t] = [op |-> o, s |-> s, x |-> x]]
Return(t) == call' = [call EXCEPT ![t] = NoCall]
In(t, o) == call[t].op = o

(* Where a worker can be, and which of these places are in drain().        *)
WorkerPcs == {"loop", "wait", "task", "drain", "stask", "deletes", "drainEnd",
              "recycle", "taskEnd", "exited"}
DrainPcs == {"drain", "stask", "deletes", "drainEnd"}

(* The workers that are inside strand s: t_currentStrand = s there.        *)
Inside(s) == {w \in Workers : wpc[w] \in {"drain", "stask", "deletes"} /\ cur[w] = s}
LiveOn(s) == {n \in Nodes : home[n] = s}

(* Threads running user code, which is free to call the framework.         *)
UserCode(t) ==
  /\ In(t, "none")
  /\ t \in Workers => wpc[t] \in {"task", "stask"}

TypeOK ==
  /\ m_queue \in Seq(Jobs \union Strands)
  /\ m_activeTasks \in Nat
  /\ m_stopping \in BOOLEAN /\ m_joined \in BOOLEAN
  /\ sdCaller \subseteq Clients
  /\ sdTodo \subseteq Strands
  /\ wpc \in [Workers -> WorkerPcs]
  /\ cur \in [Workers -> Strands \union {NoStrand}]
  /\ ran \in [Workers -> 0 .. BatchSize]
  /\ msg \in [Workers -> Msgs \union Jobs \union {NoMsg}]
  /\ call \in [Threads -> CallType]
  /\ m_strands \subseteq Strands
  /\ m_freeStrands \in Seq(Strands)
  /\ m_reserved \subseteq Strands
  /\ m_scheduled \subseteq Strands
  /\ m_retired \subseteq Strands
  /\ sQueue \in [Strands -> Seq(Msgs)]
  /\ m_pendingDeletes \in [Strands -> SUBSET Nodes]
  /\ home \in [Nodes -> Strands \union {Elsewhere, Dead}]
  /\ done \subseteq Jobs \union Msgs

Init ==
  /\ m_queue = <<>>
  /\ m_activeTasks = 0
  /\ m_stopping = FALSE
  /\ m_joined = FALSE
  /\ sdCaller = {}
  /\ sdTodo = {}
  /\ wpc = [w \in Workers |-> "loop"]
  /\ cur = [w \in Workers |-> NoStrand]
  /\ ran = [w \in Workers |-> 0]
  /\ msg = [w \in Workers |-> NoMsg]
  /\ call = [t \in Threads |-> NoCall]
  /\ m_strands = {}
  /\ m_freeStrands = <<>>
  /\ m_reserved = {}
  /\ m_scheduled = {}
  /\ m_retired = {}
  /\ sQueue = [s \in Strands |-> <<>>]
  /\ m_pendingDeletes = [s \in Strands |-> {}]
  /\ home = [n \in Nodes |-> Elsewhere]
  /\ done = {}

(* A piece of work is submitted once: it is not queued, running or done.   *)
Fresh(x) ==
  /\ x \notin done \union Range(m_queue)
  /\ \A s \in Strands : x \notin Range(sQueue[s])
  /\ \A w \in Workers : msg[w] # x
  /\ \A t \in Threads : call[t].x # x
-----------------------------------------------------------------------------
(* start(): refused once m_stopping is set (then nothing changes).         *)
Start(t, j) ==
  /\ UserCode(t)
  /\ Fresh(j)
  /\ ~ m_stopping
  /\ m_queue' = Append(m_queue, j)
  /\ Call(t, "notify", NoStrand, NoMsg)
  /\ UNCHANGED <<m_activeTasks, m_stopping, m_joined, sdCaller, sdTodo, workerVars,
                 recycleVars, strandVars, nodeVars, done>>

(* m_workAvailable.notify_one(), after the unlock: wakes one waiting       *)
(* worker, and is lost when there is none.                                 *)
NotifyOne(t) ==
  /\ In(t, "notify")
  /\ \/ \E w \in Workers : wpc[w] = "wait" /\ wpc' = [wpc EXCEPT ![w] = "loop"]
     \/ (\A w \in Workers : wpc[w] # "wait") /\ UNCHANGED wpc
  /\ Return(t)
  /\ UNCHANGED <<poolVars, cur, ran, msg, recycleVars, strandVars, nodeVars, done>>

(* Strand::post(), up to the lock: a retired strand drops the task.        *)
PostEnter(t, s, m) ==
  /\ UserCode(t)
  /\ s \in m_strands \ m_retired
  /\ Fresh(m)
  /\ Call(t, "post", s, m)
  /\ UNCHANGED <<poolVars, workerVars, recycleVars, strandVars, nodeVars, done>>

(* Strand::post() schedules a drain only when none is queued or running.   *)
NeedsSchedule_Always(s) == TRUE
NeedsSchedule(s) == s \notin m_scheduled

(* Strand::post(), under the strand's mutex.                               *)
PostPush(t) ==
  LET s == call[t].s IN
  /\ In(t, "post")
  /\ ~ NeedsSchedule(s)
  /\ sQueue' = [sQueue EXCEPT ![s] = Append(@, call[t].x)]
  /\ Return(t)
  /\ UNCHANGED <<poolVars, workerVars, recycleVars, m_scheduled, m_retired, nodeVars, done>>

PostPushAndSchedule(t) ==
  LET s == call[t].s IN
  /\ In(t, "post")
  /\ NeedsSchedule(s)
  /\ sQueue' = [sQueue EXCEPT ![s] = Append(@, call[t].x)]
  /\ m_scheduled' = m_scheduled \union {s}
  /\ Call(t, "sched", s, NoMsg)
  /\ UNCHANGED <<poolVars, workerVars, recycleVars, m_retired, nodeVars, done>>

(* TaskPool::enqueueStrandDrain(): refused only once the workers are       *)
(* joined (m_workers is empty only when m_stopping is set).                *)
EnqueueStrandDrain(t) ==
  /\ In(t, "sched")
  /\ ~ m_joined
  /\ m_queue' = Append(m_queue, call[t].s)
  /\ Call(t, "notify", NoStrand, NoMsg)
  /\ UNCHANGED <<m_activeTasks, m_stopping, m_joined, sdCaller, sdTodo, workerVars,
                 recycleVars, strandVars, nodeVars, done>>

RefuseStrandDrain(t) ==
  /\ In(t, "sched")
  /\ m_joined
  /\ Call(t, "unsched", call[t].s, NoMsg)
  /\ UNCHANGED <<poolVars, workerVars, recycleVars, strandVars, nodeVars, done>>

(* Strand::schedule() after a refusal.                                     *)
Unschedule(t) ==
  /\ In(t, "unsched")
  /\ m_scheduled' = m_scheduled \ {call[t].s}
  /\ Return(t)
  /\ UNCHANGED <<poolVars, workerVars, recycleVars, m_retired, sQueue, nodeVars, done>>
-----------------------------------------------------------------------------
(* workerLoop(), the critical section at its top: a stopping pool still    *)
(* empties its queue, and a task taken counts as active until it ends.     *)
HasWork_UnlessStopping == m_queue # <<>> /\ ~ m_stopping
HasWork == m_queue # <<>>

ActiveAfterTake_Uncounted == m_activeTasks
ActiveAfterTake == m_activeTasks + 1

TakeJob(w) ==
  /\ wpc[w] = "loop"
  /\ HasWork /\ Head(m_queue) \in Jobs
  /\ m_queue' = Tail(m_queue)
  /\ m_activeTasks' = ActiveAfterTake
  /\ wpc' = [wpc EXCEPT ![w] = "task"]
  /\ msg' = [msg EXCEPT ![w] = Head(m_queue)]
  /\ UNCHANGED <<m_stopping, m_joined, sdCaller, sdTodo, cur, ran, call, recycleVars, strandVars,
                 nodeVars, done>>

TakeDrain(w) ==
  /\ wpc[w] = "loop"
  /\ HasWork /\ Head(m_queue) \in Strands
  /\ m_queue' = Tail(m_queue)
  /\ m_activeTasks' = ActiveAfterTake
  /\ wpc' = [wpc EXCEPT ![w] = "drain"]
  /\ cur' = [cur EXCEPT ![w] = Head(m_queue)]
  /\ ran' = [ran EXCEPT ![w] = 0]
  /\ UNCHANGED <<m_stopping, m_joined, sdCaller, sdTodo, msg, call, recycleVars, strandVars,
                 nodeVars, done>>

(* ... with nothing queued: block, or leave when the pool is stopping.     *)
WaitOrExit(w) ==
  /\ wpc[w] = "loop"
  /\ ~ HasWork
  /\ wpc' = [wpc EXCEPT ![w] = IF m_stopping THEN "exited" ELSE "wait"]
  /\ UNCHANGED <<poolVars, cur, ran, msg, call, recycleVars, strandVars, nodeVars, done>>

(* A condition variable may wake a waiter for no reason.                   *)
SpuriousWake(w) ==
  /\ wpc[w] = "wait"
  /\ wpc' = [wpc EXCEPT ![w] = "loop"]
  /\ UNCHANGED <<poolVars, cur, ran, msg, call, recycleVars, strandVars, nodeVars, done>>

(* A job returns or throws; both end in the same place (the catch).        *)
JobEnd(w) ==
  /\ wpc[w] = "task" /\ In(w, "none")
  /\ done' = done \union {msg[w]}
  /\ msg' = [msg EXCEPT ![w] = NoMsg]
  /\ wpc' = [wpc EXCEPT ![w] = "taskEnd"]
  /\ UNCHANGED <<poolVars, cur, ran, call, recycleVars, strandVars, nodeVars>>

(* Strand::drain(): the head of its loop, under the strand's mutex.        *)
BatchLeft_OffByOne(w) == ran[w] <= BatchSize
BatchLeft(w) == ran[w] < BatchSize

DrainNext(w) ==
  LET s == cur[w] IN
  /\ wpc[w] = "drain"
  /\ BatchLeft(w) /\ sQueue[s] # <<>>
  /\ msg' = [msg EXCEPT ![w] = Head(sQueue[s])]
  /\ sQueue' = [sQueue EXCEPT ![s] = Tail(@)]
  /\ wpc' = [wpc EXCEPT ![w] = "stask"]
  /\ UNCHANGED <<poolVars, cur, ran, call, recycleVars, m_scheduled, m_retired, nodeVars, done>>

DrainBatchOver(w) ==
  /\ wpc[w] = "drain"
  /\ ~ (BatchLeft(w) /\ sQueue[cur[w]] # <<>>)
  /\ wpc' = [wpc EXCEPT ![w] = "deletes"]
  /\ UNCHANGED <<poolVars, cur, ran, msg, call, recycleVars, strandVars, nodeVars, done>>

(* A strand task returns or throws (caught inside drain()).                *)
StrandTaskEnd(w) ==
  /\ wpc[w] = "stask" /\ In(w, "none")
  /\ done' = done \union {msg[w]}
  /\ msg' = [msg EXCEPT ![w] = NoMsg]
  /\ ran' = [ran EXCEPT ![w] = @ + 1]
  /\ wpc' = [wpc EXCEPT ![w] = "drain"]
  /\ UNCHANGED <<poolVars, cur, call, recycleVars, strandVars, nodeVars>>

(* Strand::runPendingDeletes(): deletes what is listed and still alive,    *)
(* wherever it lives by now.                                               *)
RunPendingDeletes(w) ==
  LET s == cur[w] IN
  /\ wpc[w] = "deletes"
  /\ home' = [n \in Nodes |-> IF n \in m_pendingDeletes[s] THEN Dead ELSE home[n]]
  /\ m_pendingDeletes' = [m_pendingDeletes EXCEPT ![s] = {}]
  /\ wpc' = [wpc EXCEPT ![w] = "drainEnd"]
  /\ UNCHANGED <<poolVars, cur, ran, msg, call, recycleVars, strandVars, done>>

(* The end of drain(), under the strand's mutex: more work reschedules the *)
(* strand, none lets it go.                                                *)
More_Ignored(s) == FALSE
More(s) == sQueue[s] # <<>>

DrainAgain(w) ==
  /\ wpc[w] = "drainEnd"
  /\ More(cur[w])
  /\ wpc' = [wpc EXCEPT ![w] = "taskEnd"]
  /\ Call(w, "sched", cur[w], NoMsg)
  /\ UNCHANGED <<poolVars, cur, ran, msg, recycleVars, strandVars, nodeVars, done>>

DrainDone(w) ==
  /\ wpc[w] = "drainEnd"
  /\ ~ More(cur[w])
  /\ m_scheduled' = m_scheduled \ {cur[w]}
  /\ wpc' = [wpc EXCEPT ![w] = "recycle"]
  /\ UNCHANGED <<poolVars, cur, ran, msg, call, recycleVars, m_retired, sQueue, nodeVars, done>>

(* Strand::isRecyclable(); m_free is membership in the free list.          *)
IsRecyclable_Twice(s, reserved) ==
  s \notin reserved /\ LiveOn(s) = {} /\ s \notin m_scheduled /\ sQueue[s] = <<>>
IsRecyclable(s, reserved) ==
  /\ s \notin Range(m_freeStrands)
  /\ s \notin reserved
  /\ LiveOn(s) = {}
  /\ s \notin m_scheduled
  /\ sQueue[s] = <<>>

(* TaskPool::recycleStrandIfIdle(), called by the drain that found its     *)
(* strand out of work.                                                     *)
RecycleStrandIfIdle(w) ==
  LET s == cur[w] IN
  /\ wpc[w] = "recycle"
  /\ m_freeStrands' = IF IsRecyclable(s, m_reserved) THEN Append(m_freeStrands, s) ELSE m_freeStrands
  /\ wpc' = [wpc EXCEPT ![w] = "taskEnd"]
  /\ UNCHANGED <<poolVars, cur, ran, msg, call, m_strands, m_reserved, strandVars, nodeVars, done>>

(* workerLoop(), the critical section at its bottom; m_done.notify_all()   *)
(* wakes the threads blocked in waitForDone() after the last task.         *)
LastTask_BeforeDecrement(active) == m_queue = <<>> /\ active = 1
LastTask(active) == m_queue = <<>> /\ active = 0

TaskEnd(w) ==
  /\ wpc[w] = "taskEnd" /\ In(w, "none")
  /\ m_activeTasks' = m_activeTasks - 1
  /\ wpc' = [wpc EXCEPT ![w] = "loop"]
  /\ call' = [t \in Threads |->
                IF In(t, "waiting") /\ LastTask(m_activeTasks')
                THEN [op |-> "waitForDone", s |-> NoStrand, x |-> NoMsg] ELSE call[t]]
  /\ UNCHANGED <<m_queue, m_stopping, m_joined, sdCaller, sdTodo, cur, ran, msg, recycleVars,
                 strandVars, nodeVars, done>>
-----------------------------------------------------------------------------
(* PooledNode::moveToTaskPool() on the node's owner thread: a client that  *)
(* owns it, or a slot of the strand it shares with another root.  The test *)
(* of m_stopping is the first half of acquireStrand().                     *)
MoveToTaskPool(t, n) ==
  /\ UserCode(t)
  /\ ~ m_stopping
  /\ \A u \in Threads : call[u].x # n
  /\ \/ t \in Clients /\ home[n] = Elsewhere
     \/ /\ t \in Workers /\ wpc[t] = "stask"
        /\ home[n] = cur[t] /\ Cardinality(LiveOn(cur[t])) > 1
        /\ MoveAfterDelete \/ n \notin m_pendingDeletes[cur[t]]
  /\ Call(t, "acquire", NoStrand, n)
  /\ UNCHANGED <<poolVars, workerVars, recycleVars, strandVars, nodeVars, done>>

(* The second half of acquireStrand(), under m_strandMutex: the last free  *)
(* strand, or a new one.                                                   *)
ReuseStrand(t) ==
  LET s == m_freeStrands[Len(m_freeStrands)] IN
  /\ In(t, "acquire")
  /\ m_freeStrands # <<>>
  /\ m_freeStrands' = SubSeq(m_freeStrands, 1, Len(m_freeStrands) - 1)
  /\ m_reserved' = m_reserved \union {s}
  /\ Call(t, "move", s, call[t].x)
  /\ UNCHANGED <<poolVars, workerVars, m_strands, strandVars, nodeVars, done>>

NewStrand(t, s) ==
  /\ In(t, "acquire")
  /\ m_freeStrands = <<>>
  /\ s \notin m_strands
  /\ m_strands' = m_strands \union {s}
  /\ m_reserved' = m_reserved \union {s}
  /\ Call(t, "move", s, call[t].x)
  /\ UNCHANGED <<poolVars, workerVars, m_freeStrands, strandVars, nodeVars, done>>

(* Node::applyMoveTo(strand): the subtree belongs to the strand.           *)
ApplyMoveTo(t) ==
  /\ In(t, "move")
  /\ home' = [home EXCEPT ![call[t].x] = call[t].s]
  /\ Call(t, "release", call[t].s, NoMsg)
  /\ UNCHANGED <<poolVars, workerVars, recycleVars, strandVars, m_pendingDeletes, done>>

(* TaskPool::releaseStrandReservation().                                   *)
ReleaseStrandReservation_Only(t) ==
  /\ In(t, "release")
  /\ m_reserved' = m_reserved \ {call[t].s}
  /\ Return(t)
  /\ UNCHANGED <<poolVars, workerVars, m_strands, m_freeStrands, strandVars, nodeVars, done>>

ReleaseStrandReservation(t) ==
  LET s == call[t].s IN
  /\ In(t, "release")
  /\ m_reserved' = m_reserved \ {s}
  /\ m_freeStrands' = IF IsRecyclable(s, m_reserved \ {s}) THEN Append(m_freeStrands, s) ELSE m_freeStrands
  /\ Return(t)
  /\ UNCHANGED <<poolVars, workerVars, m_strands, strandVars, nodeVars, done>>

(* What a slot of a pooled node does to the nodes of its own strand: a new *)
(* root, a deleteLater() (Strand::enqueueDelete()), or a moveToThread()    *)
(* that takes a node out of the pool.  deleteLater() hands the node to the *)
(* current strand only when that strand owns it.                           *)
OwnerIsCurrent(w, n) == home[n] = cur[w]

CreateNode(w, n) ==
  /\ wpc[w] = "stask" /\ In(w, "none")
  /\ LiveOn(cur[w]) # {}
  /\ home[n] = Elsewhere /\ \A u \in Threads : call[u].x # n
  /\ home' = [home EXCEPT ![n] = cur[w]]
  /\ UNCHANGED <<poolVars, workerVars, call, recycleVars, strandVars, m_pendingDeletes, done>>

EnqueueDelete(w, n) ==
  /\ wpc[w] = "stask" /\ In(w, "none")
  /\ OwnerIsCurrent(w, n)
  /\ m_pendingDeletes' = [m_pendingDeletes EXCEPT ![cur[w]] = @ \union {n}]
  /\ UNCHANGED <<poolVars, workerVars, call, recycleVars, strandVars, home, done>>

MoveToThread(w, n) ==
  /\ wpc[w] = "stask" /\ In(w, "none")
  /\ home[n] = cur[w]
  /\ MoveAfterDelete \/ n \notin m_pendingDeletes[cur[w]]
  /\ home' = [home EXCEPT ![n] = Elsewhere]
  /\ UNCHANGED <<poolVars, workerVars, call, recycleVars, strandVars, m_pendingDeletes, done>>
-----------------------------------------------------------------------------
(* waitForDone(): returns at once, or blocks on m_done until notified and  *)
(* tests again.                                                            *)
WaitForDone(t) ==
  /\ t \in Clients /\ In(t, "none")
  /\ Call(t, "waitForDone", NoStrand, NoMsg)
  /\ UNCHANGED <<poolVars, workerVars, recycleVars, strandVars, nodeVars, done>>

WaitForDoneReturn(t) ==
  /\ In(t, "waitForDone")
  /\ m_queue = <<>> /\ m_activeTasks = 0
  /\ Return(t)
  /\ UNCHANGED <<poolVars, workerVars, recycleVars, strandVars, nodeVars, done>>

WaitForDoneBlock(t) ==
  /\ In(t, "waitForDone")
  /\ ~ (m_queue = <<>> /\ m_activeTasks = 0)
  /\ Call(t, "waiting", NoStrand, NoMsg)
  /\ UNCHANGED <<poolVars, workerVars, recycleVars, strandVars, nodeVars, done>>

(* shutdown(), to the first unlock of m_mutex; its callers are serialised  *)
(* by m_shutdownMutex.                                                     *)
Shutdown(t) ==
  /\ t \in ShutdownClients /\ In(t, "none")
  /\ sdCaller = {}
  /\ sdCaller' = {t}
  /\ m_stopping' = TRUE
  /\ Call(t, "notifyAll", NoStrand, NoMsg)
  /\ UNCHANGED <<m_queue, m_activeTasks, m_joined, sdTodo, workerVars, recycleVars, strandVars,
                 nodeVars, done>>

NotifyAll_One(t) ==
  /\ In(t, "notifyAll")
  /\ \E w \in Workers : wpc' = [wpc EXCEPT ![w] = IF @ = "wait" THEN "loop" ELSE @]
  /\ Call(t, "join", NoStrand, NoMsg)
  /\ UNCHANGED <<poolVars, cur, ran, msg, recycleVars, strandVars, nodeVars, done>>

NotifyAll(t) ==
  /\ In(t, "notifyAll")
  /\ wpc' = [w \in Workers |-> IF wpc[w] = "wait" THEN "loop" ELSE wpc[w]]
  /\ Call(t, "join", NoStrand, NoMsg)
  /\ UNCHANGED <<poolVars, cur, ran, msg, recycleVars, strandVars, nodeVars, done>>

(* The joins, m_joined and the snapshot of the strands.                    *)
JoinWorkers(t) ==
  /\ In(t, "join")
  /\ \A w \in Workers : wpc[w] = "exited"
  /\ m_joined' = TRUE
  /\ sdTodo' = m_strands
  /\ Call(t, "destroy", NoStrand, NoMsg)
  /\ UNCHANGED <<m_queue, m_activeTasks, m_stopping, sdCaller, workerVars, recycleVars,
                 strandVars, nodeVars, done>>

(* Strand::destroyRemainingNodes(), up to m_retired, then the queue; and   *)
(* the return of shutdown().                                               *)
DestroyRemainingNodes(t) ==
  /\ In(t, "destroy")
  /\ \E s \in sdTodo :
       /\ home' = [n \in Nodes |-> IF n \in m_pendingDeletes[s] \union LiveOn(s) THEN Dead ELSE home[n]]
       /\ m_pendingDeletes' = [m_pendingDeletes EXCEPT ![s] = {}]
       /\ m_retired' = m_retired \union {s}
       /\ Call(t, "clear", s, NoMsg)
  /\ UNCHANGED <<poolVars, workerVars, recycleVars, m_scheduled, sQueue, done>>

ClearStrandQueue(t) ==
  /\ In(t, "clear")
  /\ sQueue' = [sQueue EXCEPT ![call[t].s] = <<>>]
  /\ sdTodo' = sdTodo \ {call[t].s}
  /\ Call(t, "destroy", NoStrand, NoMsg)
  /\ UNCHANGED <<m_queue, m_activeTasks, m_stopping, m_joined, sdCaller, workerVars,
                 recycleVars, m_scheduled, m_retired, nodeVars, done>>

ShutdownReturn(t) ==
  /\ In(t, "destroy")
  /\ sdTodo = {}
  /\ sdCaller' = {}
  /\ Return(t)
  /\ UNCHANGED <<m_queue, m_activeTasks, m_stopping, m_joined, sdTodo, workerVars,
                 recycleVars, strandVars, nodeVars, done>>
-----------------------------------------------------------------------------
(* The calls that continue by themselves once made, per thread.            *)
Continue(t) ==
  \/ NotifyOne(t)
  \/ PostPush(t) \/ PostPushAndSchedule(t)
  \/ EnqueueStrandDrain(t) \/ RefuseStrandDrain(t) \/ Unschedule(t)
  \/ ReuseStrand(t) \/ (\E s \in Strands : NewStrand(t, s))
  \/ ApplyMoveTo(t) \/ ReleaseStrandReservation(t)
  \/ WaitForDoneReturn(t) \/ WaitForDoneBlock(t)

(* A worker's own steps.                                                   *)
WorkerStep(w) ==
  \/ TakeJob(w) \/ TakeDrain(w) \/ WaitOrExit(w) \/ JobEnd(w)
  \/ DrainNext(w) \/ DrainBatchOver(w) \/ StrandTaskEnd(w) \/ RunPendingDeletes(w)
  \/ DrainAgain(w) \/ DrainDone(w) \/ RecycleStrandIfIdle(w) \/ TaskEnd(w)

ShutdownStep(t) ==
  \/ NotifyAll(t) \/ JoinWorkers(t) \/ DestroyRemainingNodes(t)
  \/ ClearStrandQueue(t) \/ ShutdownReturn(t)

Next ==
  \/ \E t \in Threads :
       \/ \E j \in Jobs : Start(t, j)
       \/ \E s \in Strands, m \in Msgs : PostEnter(t, s, m)
       \/ \E n \in Nodes : MoveToTaskPool(t, n)
       \/ Continue(t)
  \/ \E w \in Workers :
       \/ WorkerStep(w)
       \/ SpuriousWake(w)
       \/ \E n \in Nodes : CreateNode(w, n) \/ EnqueueDelete(w, n) \/ MoveToThread(w, n)
  \/ \E t \in Clients : WaitForDone(t) \/ Shutdown(t) \/ ShutdownStep(t)

Spec == Init /\ [][Next]_vars

(* Workers are threads of the operating system: each one that can take a   *)
(* step takes it eventually, also inside a framework function it called    *)
(* from a task.  Clients finish the calls they make; none has to make one. *)
Fairness ==
  /\ \A w \in Workers : WF_vars(WorkerStep(w)) /\ WF_vars(Continue(w))
  /\ \A t \in Clients : WF_vars(Continue(t)) /\ WF_vars(ShutdownStep(t))

LiveSpec == Spec /\ Fairness
-----------------------------------------------------------------------------
(* The workers that hold a task: popped from the queue, not yet accounted  *)
(* for as ended.                                                           *)
Busy == {w \in Workers : wpc[w] \notin {"loop", "wait", "exited"}}

(* m_activeTasks counts exactly the tasks taken and not ended, so the      *)
(* predicate of waitForDone() is "no task is queued or running", also for  *)
(* tasks that throw and for drains that reschedule themselves.             *)
ActiveTasksExact == m_activeTasks = Cardinality(Busy)

(* The places the one drain of a scheduled strand can be in: the pool's    *)
(* queue, a worker, or a thread between setting m_scheduled and queuing    *)
(* it (or resetting the flag when the pool refuses).                       *)
QueuedAt(s) == {i \in DOMAIN m_queue : m_queue[i] = s}
DrainedBy(s) == {w \in Workers : wpc[w] \in DrainPcs /\ cur[w] = s}
ScheduledBy(s) == {t \in Threads : call[t].op \in {"sched", "unsched"} /\ call[t].s = s}

OneDrain(s) ==
  /\ \A i, j \in QueuedAt(s) : i = j
  /\ \A v, w \in DrainedBy(s) : v = w
  /\ \A t, u \in ScheduledBy(s) : t = u
  /\ QueuedAt(s) # {} => DrainedBy(s) = {} /\ ScheduledBy(s) = {}
  /\ DrainedBy(s) # {} => ScheduledBy(s) = {}
  /\ s \in m_scheduled <=> QueuedAt(s) # {} \/ DrainedBy(s) # {} \/ ScheduledBy(s) # {}

(* Strand::m_scheduled is "a drain is queued or running" (Strand.h:113):   *)
(* exactly one drain exists for a strand with the flag, none without.  A   *)
(* second one would run two slots of one node at once.                     *)
OneDrainPerStrand == \A s \in Strands : OneDrain(s)

(* Work waiting in a strand always has a drain on its way, until the pool  *)
(* has been torn down: no interleaving of post() with the end of drain()   *)
(* strands it.                                                             *)
QueuedWorkHasADrain ==
  \A s \in Strands : sQueue[s] # <<>> => s \in m_scheduled \/ m_joined

(* A strand "runs its tasks one at a time" (Strand.h:26), also against     *)
(* shutdown(), which destroys the strand's nodes on its own thread as if   *)
(* inside the strand.                                                      *)
StrandsAreSerial ==
  \A s \in Strands :
    /\ \A v, w \in Inside(s) : v = w
    /\ s \in m_retired => Inside(s) = {}

(* The pool never loses count of its tasks, and a strand never the one     *)
(* drain that runs its work, one piece at a time: what TaskPool.cpp and    *)
(* Strand.cpp have to get right together.                                  *)
PoolSafe ==
  ActiveTasksExact /\ OneDrainPerStrand /\ QueuedWorkHasADrain /\ StrandsAreSerial

(* A strand on the free list is there once, is reserved by nobody and owns *)
(* no node: acquireStrand() can never give two subtrees the same strand.   *)
FreeStrandsAreUnused ==
  /\ \A i, j \in DOMAIN m_freeStrands : m_freeStrands[i] = m_freeStrands[j] => i = j
  /\ \A s \in Range(m_freeStrands) : s \in m_strands \ m_reserved /\ LiveOn(s) = {}

(* "an idle strand without nodes is recycled for the next acquire()"       *)
(* (Strand.h:33): one that has no node, no reservation, no work and nobody *)
(* about to give it back is on the free list, so strands never leak while  *)
(* the pool runs.                                                          *)
IdleStrandsAreFree ==
  ~ m_joined =>
    \A s \in m_strands :
      \/ s \in Range(m_freeStrands) \union m_reserved \union m_scheduled
      \/ LiveOn(s) # {}
      \/ \E w \in Workers : wpc[w] = "recycle" /\ cur[w] = s

(* acquireStrand() and recycleStrand(): strands are neither shared nor     *)
(* leaked.                                                                 *)
StrandsRecycled == FreeStrandsAreUnused /\ IdleStrandsAreFree

(* Once shutdown() has returned, "the pooled nodes still alive" have been  *)
(* destroyed (TaskPool.h:105): no node lives on a strand of the pool.      *)
NoNodeSurvivesShutdown ==
  m_joined /\ sdCaller = {} => \A n \in Nodes : home[n] \notin Strands

(* A node is destroyed only by its owner, as long as no slot moves a node  *)
(* after its deleteLater() (MoveAfterDelete): a batch's deferred deletes   *)
(* do not look at where a node lives by then.                              *)
DeletesStayHome ==
  [][\A n \in Nodes : home'[n] = Dead /\ home[n] # Dead =>
        \/ \E w \in Workers : wpc[w] = "deletes" /\ cur[w] = home[n]
        \/ \E t \in Clients : In(t, "destroy")]_vars

(* Every strand is a serial executor.                                      *)
RunningOn(s) ==
  IF \E w \in Workers : wpc[w] = "stask" /\ cur[w] = s
  THEN msg[CHOOSE w \in Workers : wpc[w] = "stask" /\ cur[w] = s]
  ELSE NoMsg

Serial == INSTANCE SerialExecutor
  WITH Executors <- Strands, Work <- Msgs, Idle <- NoMsg,
       queue <- sQueue,
       running <- [s \in Strands |-> RunningOn(s)],
       finished <- done \cap Msgs

(* Strands implement the Executor contract: work runs in post() order, one *)
(* piece at a time, and is neither lost, duplicated nor reordered by the   *)
(* batches, the rescheduling and the recycling.                            *)
StrandsImplementExecutor == Serial!Spec

(* A job start() accepted runs, also when shutdown() comes in between.     *)
AcceptedJobsRun == \A j \in Jobs : (j \in Range(m_queue)) ~> (j \in done)

(* Work posted to a strand whose drain is queued before shutdown() runs.   *)
PostedWorkRuns ==
  \A s \in Strands, m \in Msgs :
    (m \in Range(sQueue[s]) /\ s \in Range(m_queue) /\ ~ m_stopping) ~> (m \in done)

(* A node given to deleteLater() on a strand is destroyed, by that strand  *)
(* or by shutdown(), wherever it has been moved in the meantime.           *)
DeferredDeletesHappen ==
  \A s \in Strands, n \in Nodes : (n \in m_pendingDeletes[s]) ~> (home[n] = Dead)

(* shutdown() comes back.                                                  *)
ShutdownReturns == \A t \in ShutdownClients : (t \in sdCaller) ~> (t \notin sdCaller)

(* In a pool nobody shuts down, waitForDone() comes back once the tasks    *)
(* are done and every drain in the queue runs.  (When shutdown() is under  *)
(* way a drain may be accepted after the last worker has left.)            *)
WaitForDoneReturns ==
  [](~ m_stopping) =>
    /\ \A t \in Clients : (call[t].op = "waitForDone") ~> (call[t].op = "none")
    /\ \A s \in Strands : (s \in Range(m_queue)) ~> (s \notin Range(m_queue))

(* What the pool accepts gets done, and nobody waits for it for ever.      *)
PoolGetsDone ==
  AcceptedJobsRun /\ PostedWorkRuns /\ DeferredDeletesHappen /\ ShutdownReturns /\ WaitForDoneReturns

-----------------------------------------------------------------------------
(* For TLC: workers, strands, nodes and messages are interchangeable.      *)
PoolSymmetry ==
  Permutations(Workers) \union Permutations(Strands) \union Permutations(Nodes)
    \union Permutations(Msgs)
=============================================================================
