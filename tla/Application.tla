---------------------------- MODULE Application -----------------------------
(***************************************************************************)
(* snf::Application (src/lib/Core/src/SNFCore/Application.cpp): the event  *)
(* loop of every thread, run() and quit(), the run loop driver, and the    *)
(* order in which the destructor takes the parts down while pool tasks     *)
(* and worker tasks still use them.                                        *)
(***************************************************************************)
EXTENDS Naturals, Sequences, FiniteSets

CONSTANTS
  Threads,        \* threads of the program that own or may come to own a loop
  Main,           \* the thread that made the Application
  DriverOwners,   \* objects that may install a run loop driver
  None,
  MaxTasks        \* bound: tasks given to the pools

VARIABLES
  loopState,      \* m_eventLoops: "none", "idle", "running", or "driver"
  m_stop,         \* the loops asked to stop
  owed,           \* loops that a quit() found and that have not left run() since
  m_runLoopDriverOwner,
  life,           \* the parts that still exist
  teardown,       \* what ~Application() has still to take down, in order; None before
  poolTasks, workerTasks,   \* tasks queued or running in TaskPool and ThreadPool
  used,           \* what the last task step needed, until the next part goes
  started         \* tasks given to the pools so far

loopVars == <<loopState, m_stop, owed>>
partVars == <<life, teardown, poolTasks, workerTasks, used, started>>
vars == <<loopVars, m_runLoopDriverOwner, partVars>>

Parts == {"logger", "loops", "threadPool", "taskPool"}

DestructionOrder_LoggerFirst == <<"logger", "taskPool", "threadPool", "loops">>
(* m_taskPool.reset(); m_threadPool.reset(); m_logger->stop();             *)
(* m_eventLoops.clear().                                                   *)
DestructionOrder == <<"taskPool", "threadPool", "logger", "loops">>

(* The constructor makes the logger, the main loop and the pools.          *)
Init ==
  /\ loopState = [t \in Threads |-> IF t = Main THEN "idle" ELSE "none"]
  /\ m_stop = {} /\ owed = {}
  /\ m_runLoopDriverOwner = None
  /\ life = Parts /\ teardown = None
  /\ poolTasks = 0 /\ workerTasks = 0 /\ used = {} /\ started = 0

Up == teardown = None

GetOrCreateEventLoop(t) ==
  /\ Up /\ loopState[t] = "none"
  /\ loopState' = [loopState EXCEPT ![t] = "idle"]
  /\ UNCHANGED <<m_stop, owed, m_runLoopDriverOwner, partVars>>

EnterRun_ForgetsStop(t) ==
  /\ loopState' = [loopState EXCEPT ![t] = "running"]
  /\ m_stop' = m_stop \ {t}
  /\ UNCHANGED owed
(* EventLoop::run() does not reset a stop request made before it.          *)
EnterRun(t) ==
  /\ loopState' = [loopState EXCEPT ![t] = "running"]
  /\ UNCHANGED <<m_stop, owed>>

Run(t) ==
  /\ Up /\ loopState[t] = "idle"
  /\ IF t = Main /\ m_runLoopDriverOwner # None
     THEN loopState' = [loopState EXCEPT ![t] = "driver"] /\ UNCHANGED <<m_stop, owed>>
     ELSE EnterRun(t)
  /\ UNCHANGED <<m_runLoopDriverOwner, partVars>>

(* The loop sees m_stop at the end of a pass, consumes it and returns.     *)
LeaveRun(t) ==
  /\ loopState[t] = "running" /\ t \in m_stop
  /\ loopState' = [loopState EXCEPT ![t] = "idle"]
  /\ m_stop' = m_stop \ {t} /\ owed' = owed \ {t}
  /\ UNCHANGED <<m_runLoopDriverOwner, partVars>>

(* The driver returns when its window is closed.                           *)
DriverReturns ==
  /\ loopState[Main] = "driver" /\ loopState' = [loopState EXCEPT ![Main] = "idle"]
  /\ UNCHANGED <<m_stop, owed, m_runLoopDriverOwner, partVars>>

Quit ==
  /\ Up
  /\ LET known == {t \in Threads : loopState[t] # "none"} IN
       m_stop' = m_stop \union known /\ owed' = owed \union known
  /\ UNCHANGED <<loopState, m_runLoopDriverOwner, partVars>>

(* setRunLoopDriver() throws when somebody else's driver is installed.     *)
SetRunLoopDriver(o) ==
  /\ Up /\ m_runLoopDriverOwner \in {None, o}
  /\ m_runLoopDriverOwner' = o
  /\ UNCHANGED <<loopVars, partVars>>

ClearRunLoopDriver(o) ==
  /\ m_runLoopDriverOwner' = IF m_runLoopDriverOwner = o THEN None ELSE m_runLoopDriverOwner
  /\ UNCHANGED <<loopVars, partVars>>

-----------------------------------------------------------------------------
GiveTask(pool) ==
  /\ Up /\ started < MaxTasks /\ started' = started + 1
  /\ \/ pool = "taskPool" /\ poolTasks' = poolTasks + 1 /\ UNCHANGED workerTasks
     \/ pool = "threadPool" /\ workerTasks' = workerTasks + 1 /\ UNCHANGED poolTasks
  /\ UNCHANGED <<loopVars, m_runLoopDriverOwner, life, teardown, used>>

(* A pool task logs, posts to loops and may give work to the ThreadPool;   *)
(* a worker's task logs and posts to loops.                                *)
PoolTaskRuns ==
  /\ poolTasks > 0 /\ poolTasks' = poolTasks - 1
  /\ \/ UNCHANGED <<workerTasks, started>> /\ used' = {"logger", "loops"}
     \/ /\ started < MaxTasks /\ started' = started + 1
        /\ workerTasks' = workerTasks + 1 /\ used' = {"logger", "threadPool"}
  /\ UNCHANGED <<loopVars, m_runLoopDriverOwner, life, teardown>>

WorkerTaskRuns ==
  /\ workerTasks > 0 /\ workerTasks' = workerTasks - 1
  /\ used' = {"logger", "loops"}
  /\ UNCHANGED <<loopVars, m_runLoopDriverOwner, life, teardown, poolTasks, started>>

(* ~Application(), on the main thread once no loop is being run.           *)
Destroy ==
  /\ Up /\ \A t \in Threads : loopState[t] \in {"none", "idle"}
  /\ teardown' = DestructionOrder
  /\ UNCHANGED <<loopVars, m_runLoopDriverOwner, life, poolTasks, workerTasks, used, started>>

(* The TaskPool's destructor returns when its tasks are done, that of the  *)
(* ThreadPool when its workers have returned: what is queued then stays in *)
(* loops that are not run again (ThreadPool.cpp:101).                      *)
TakeDown ==
  /\ teardown \notin {None, <<>>}
  /\ Head(teardown) = "taskPool" => poolTasks = 0
  /\ workerTasks' = IF Head(teardown) = "threadPool" THEN 0 ELSE workerTasks
  /\ life' = life \ {Head(teardown)} /\ teardown' = Tail(teardown)
  /\ used' = {}
  /\ UNCHANGED <<loopVars, m_runLoopDriverOwner, poolTasks, started>>

Next ==
  \/ \E t \in Threads : GetOrCreateEventLoop(t) \/ Run(t) \/ LeaveRun(t)
  \/ DriverReturns \/ Quit
  \/ \E o \in DriverOwners : SetRunLoopDriver(o) \/ ClearRunLoopDriver(o)
  \/ \E pool \in {"taskPool", "threadPool"} : GiveTask(pool)
  \/ PoolTaskRuns \/ WorkerTaskRuns \/ Destroy \/ TakeDown

-----------------------------------------------------------------------------
(* A task that runs, even one run by the destructor of its pool, finds     *)
(* everything it may use ("Tasks may still post to EventLoops or emit to   *)
(* nodes", Application.cpp:57), and a quit() is never lost on a loop that  *)
(* existed, whether or not its thread had reached run() by then.           *)
TeardownAndQuitOrdered ==
  /\ used \subseteq life
  /\ owed \subseteq m_stop

-----------------------------------------------------------------------------
(* Why it holds.  What the destructor may have still to take down is what  *)
(* is still there.                                                         *)
ToTakeDown ==
  {<<"taskPool", "threadPool", "logger", "loops">>, <<"threadPool", "logger", "loops">>,
   <<"logger", "loops">>, <<"loops">>, <<>>}

TypeOK ==
  /\ poolTasks \in Nat /\ workerTasks \in Nat
  /\ teardown \in ToTakeDown \union {None}
  /\ life = IF Up THEN Parts ELSE {teardown[i] : i \in DOMAIN teardown}

(* A pool that is gone has no tasks left.                                  *)
TasksHaveTheirPool ==
  /\ poolTasks > 0 => "taskPool" \in life
  /\ workerTasks > 0 => "threadPool" \in life

Inv == TypeOK /\ TasksHaveTheirPool /\ TeardownAndQuitOrdered
=============================================================================
