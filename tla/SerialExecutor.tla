--------------------------- MODULE SerialExecutor ---------------------------
(***************************************************************************)
(* What an Executor promises (src/lib/Core/src/SNFCore/Executor.h): work   *)
(* handed to it runs in the order it was posted and never concurrently,    *)
(* and never inside post() itself.  An executor may also throw away work   *)
(* that is still queued (it is being torn down), but never the work it is  *)
(* running, and it never invents, duplicates or reorders work.             *)
(***************************************************************************)
EXTENDS Sequences

CONSTANTS
  Executors,   \* the executors
  Work,        \* the pieces of work
  Idle         \* "no work is running"

VARIABLES
  queue,       \* per executor, the posted work that has not started
  running,     \* per executor, the work being run, or Idle
  finished     \* the work that has run to its end

vars == <<queue, running, finished>>

Init ==
  /\ queue = [e \in Executors |-> <<>>]
  /\ running = [e \in Executors |-> Idle]
  /\ finished = {}

(* post(): only appends; the work does not start here.                     *)
Post(e, m) ==
  /\ queue' = [queue EXCEPT ![e] = Append(@, m)]
  /\ UNCHANGED <<running, finished>>

(* The oldest piece of work starts, and only when none is running.         *)
Begin(e) ==
  /\ running[e] = Idle
  /\ queue[e] # <<>>
  /\ running' = [running EXCEPT ![e] = Head(queue[e])]
  /\ queue' = [queue EXCEPT ![e] = Tail(@)]
  /\ UNCHANGED finished

End(e) ==
  /\ running[e] # Idle
  /\ finished' = finished \union {running[e]}
  /\ running' = [running EXCEPT ![e] = Idle]
  /\ UNCHANGED queue

(* A torn-down executor forgets what it has not started.                   *)
Discard(e) ==
  /\ running[e] = Idle
  /\ queue' = [queue EXCEPT ![e] = <<>>]
  /\ UNCHANGED <<running, finished>>

Next ==
  \E e \in Executors :
    \/ \E m \in Work : Post(e, m)
    \/ Begin(e)
    \/ End(e)
    \/ Discard(e)

Spec == Init /\ [][Next]_vars
=============================================================================
