------------------------------- MODULE Timer --------------------------------
(***************************************************************************)
(* snf::Timer (src/lib/Core/src/SNFCore/Timer.cpp) with the two places     *)
(* that keep its pending timeout: the EventLoop that owns it, and          *)
(* snf::detail::TimerService for timers that live in a strand.             *)
(*                                                                         *)
(* Time is one bit per timer: whether the deadline of its present          *)
(* generation has passed.  An owner runs one thing at a time: a posted     *)
(* task, a due timeout, or a slot connected to one.                        *)
(***************************************************************************)
EXTENDS Naturals, Sequences, FiniteSets

CONSTANTS
  Timers, Loops, Strands, None,
  MoveDue,    \* may a slot move or delete another timer that is due as well?
  MaxGen,     \* bound: the generation up to which slots change a timer, or it expires
  MaxPosts    \* bound: calls from threads that do not own the timer

Owners == Loops \union Strands

VARIABLES
  owner,         \* Node::ownerExecutor()
  alive, m_active, m_singleShot, m_generation,
  m_deadlinePassed,
  armed,         \* EventLoop::m_timers of every loop, and TimerService::m_queue
  due,           \* per owner (a loop), what takeDueTimers() returned and is not dispatched
  serviceDue,    \* what the service took off its queue and has not posted yet
  tasks,         \* per owner, the closures posted to it
  slot,          \* per owner, the timer whose timeout slots it is running
  m_stopped,     \* TimerService::m_stopped
  timerPosts

timerState == <<owner, alive, m_active, m_singleShot, m_generation, m_deadlinePassed, armed>>
vars == <<timerState, due, serviceDue, tasks, slot, m_stopped, timerPosts>>

Entry(o, t, g) == [o |-> o, t |-> t, gen |-> g]

Init ==
  /\ owner \in [Timers -> Owners]
  /\ alive = Timers /\ m_active = {} /\ m_singleShot \in SUBSET Timers
  /\ m_generation = [t \in Timers |-> 0]
  /\ m_deadlinePassed = {}
  /\ armed = {} /\ due = [o \in Owners |-> {}] /\ serviceDue = {}
  /\ tasks = [o \in Owners |-> <<>>]
  /\ slot = [o \in Owners |-> None]
  /\ m_stopped = FALSE
  /\ timerPosts = 0

(* One index per loop, one for all strands.                                *)
SameIndex(o, p) == o = p \/ {o, p} \subseteq Strands
ArmedElsewhere(o, t) == {e \in armed : ~(e.t = t /\ SameIndex(e.o, o))}
Scheduled(o, t, g) ==
  IF o \in Strands /\ m_stopped THEN armed ELSE ArmedElsewhere(o, t) \union {Entry(o, t, g)}
Cancelled(o, t) == ArmedElsewhere(o, t)

(* start(), and setInterval() of an active timer.                          *)
StartTimer(t) ==
  /\ m_active' = m_active \union {t}
  /\ m_generation' = [m_generation EXCEPT ![t] = @ + 1]
  /\ m_deadlinePassed' = m_deadlinePassed \ {t}
  /\ armed' = Scheduled(owner[t], t, m_generation[t] + 1)
  /\ UNCHANGED <<owner, alive, m_singleShot>>

SetInterval(t) ==
  IF t \in m_active THEN StartTimer(t) ELSE UNCHANGED timerState

Disarm(t) ==
  /\ m_active' = m_active \ {t}
  /\ m_generation' = [m_generation EXCEPT ![t] = @ + 1]
  /\ armed' = Cancelled(owner[t], t)
  /\ UNCHANGED <<owner, m_singleShot, m_deadlinePassed>>
StopTimer(t) == Disarm(t) /\ UNCHANGED alive
Destroy(t) == Disarm(t) /\ alive' = alive \ {t}

SetSingleShot(t) ==
  /\ m_singleShot' = {u \in Timers : (u \in m_singleShot) # (u = t)}
  /\ UNCHANGED <<owner, alive, m_active, m_generation, m_deadlinePassed, armed>>

OnMoved_Forgets(t, o) == Cancelled(owner[t], t)
(* onAboutToMoveToThread() on the old owner, onMovedToThread() on the new. *)
OnMoved(t, o) ==
  LET rest == Cancelled(owner[t], t) IN
  IF t \in m_active /\ ~(o \in Strands /\ m_stopped)
  THEN {e \in rest : ~(e.t = t /\ SameIndex(e.o, o))} \union {Entry(o, t, m_generation[t])}
  ELSE rest
MoveTo(t, o) ==
  /\ o # owner[t]
  /\ owner' = [owner EXCEPT ![t] = o]
  /\ armed' = OnMoved(t, o)
  /\ UNCHANGED <<alive, m_active, m_singleShot, m_generation, m_deadlinePassed>>

Ops == {"start", "setInterval", "stop", "setSingleShot", "delete"}
Apply(t, op) ==
  \/ op = "start" /\ StartTimer(t)
  \/ op = "setInterval" /\ SetInterval(t)
  \/ op = "stop" /\ StopTimer(t)
  \/ op = "setSingleShot" /\ SetSingleShot(t)
  \/ op = "delete" /\ Destroy(t)
  \/ op = "move" /\ \E o \in Owners : MoveTo(t, o)

Post(o, op, t, g) == tasks' = [tasks EXCEPT ![o] = Append(@, [op |-> op, t |-> t, gen |-> g])]

(* A call from a thread that does not own the timer is posted to the       *)
(* owner, and posted again by it if the timer has moved by then.           *)
CallFromElsewhere(t, op) ==
  /\ t \in alive /\ timerPosts < MaxPosts
  /\ timerPosts' = timerPosts + 1
  /\ Post(owner[t], op, t, 0)
  /\ UNCHANGED <<timerState, due, serviceDue, slot, m_stopped>>

CallFromSlot(o, t, op) ==
  /\ slot[o] # None /\ t \in alive /\ owner[t] = o /\ m_generation[t] < MaxGen
  /\ op \in {"move", "delete"} =>
       /\ op = "delete" => t # slot[o]
       /\ MoveDue \/ \A e \in due[o] : e.t # t
  /\ Apply(t, op)
  /\ UNCHANGED <<due, serviceDue, tasks, slot, m_stopped, timerPosts>>

(* dispatchTimeout(): a repeating timer is armed again before its slots    *)
(* run on the dispatching owner.                                           *)
DispatchTimeout(o, t, g) ==
  IF t \in m_active /\ g = m_generation[t]
  THEN /\ slot' = [slot EXCEPT ![o] = t]
       /\ m_generation' = [m_generation EXCEPT ![t] = @ + 1]
       /\ m_active' = m_active \ (m_singleShot \intersect {t})
       /\ m_deadlinePassed' = m_deadlinePassed \ ({t} \ m_singleShot)
       /\ armed' = IF t \in m_singleShot THEN armed
                   ELSE Scheduled(owner[t], t, m_generation[t] + 1)
       /\ UNCHANGED <<owner, alive, m_singleShot>>
  ELSE UNCHANGED <<timerState, slot>>

Idle(o) == slot[o] = None /\ due[o] = {}

Deliverable_Always(o, t) == t \in alive
(* The closure of TimerService::run(), inside the strand.                  *)
Deliverable(o, t) == t \in alive /\ owner[t] = o

RunTask(o) ==
  LET k == Head(tasks[o])
      popped == [tasks EXCEPT ![o] = Tail(tasks[o])] IN
  /\ Idle(o) /\ tasks[o] # <<>>
  /\ \/ /\ k.op = "timeout"
        /\ IF Deliverable(o, k.t) THEN DispatchTimeout(o, k.t, k.gen)
           ELSE UNCHANGED <<timerState, slot>>
        /\ tasks' = popped
     \/ /\ k.op # "timeout" /\ k.t \in alive /\ owner[k.t] = o
        /\ Apply(k.t, k.op)
        /\ tasks' = popped /\ UNCHANGED slot
     \/ /\ k.op # "timeout" /\ k.t \notin alive
        /\ tasks' = popped /\ UNCHANGED <<timerState, slot>>
     \/ /\ k.op # "timeout" /\ k.t \in alive /\ owner[k.t] # o
        /\ tasks' = [popped EXCEPT ![owner[k.t]] = Append(popped[owner[k.t]], k)]
        /\ UNCHANGED <<timerState, slot>>
  /\ UNCHANGED <<due, serviceDue, m_stopped, timerPosts>>

(* EventLoop::run(): the due timers are taken at once, then dispatched.    *)
TakeDueTimers(l) ==
  /\ Idle(l)
  /\ due' = [due EXCEPT ![l] = {e \in armed : e.o = l /\ e.t \in m_deadlinePassed}]
  /\ due'[l] # {}
  /\ armed' = armed \ due'[l]
  /\ UNCHANGED <<owner, alive, m_active, m_singleShot, m_generation, m_deadlinePassed,
                 serviceDue, tasks, slot, m_stopped, timerPosts>>

DispatchDue(l) ==
  /\ slot[l] = None
  /\ \E e \in due[l] :
       /\ due' = [due EXCEPT ![l] = @ \ {e}]
       /\ DispatchTimeout(l, e.t, e.gen)
  /\ UNCHANGED <<serviceDue, tasks, m_stopped, timerPosts>>

SlotReturns(o) ==
  /\ slot[o] # None
  /\ slot' = [slot EXCEPT ![o] = None]
  /\ UNCHANGED <<timerState, due, serviceDue, tasks, m_stopped, timerPosts>>

(* TimerService::run().                                                    *)
ServiceTake ==
  LET ready == {e \in armed : e.o \in Strands /\ e.t \in m_deadlinePassed} IN
  /\ serviceDue = {} /\ ready # {} /\ ~m_stopped
  /\ serviceDue' = ready /\ armed' = armed \ ready
  /\ UNCHANGED <<owner, alive, m_active, m_singleShot, m_generation, m_deadlinePassed,
                 due, tasks, slot, m_stopped, timerPosts>>

ServicePost ==
  /\ \E e \in serviceDue :
       /\ serviceDue' = serviceDue \ {e}
       /\ Post(e.o, "timeout", e.t, e.gen)
  /\ UNCHANGED <<timerState, due, slot, m_stopped, timerPosts>>

ServiceStop ==
  /\ ~m_stopped /\ m_stopped' = TRUE
  /\ armed' = {e \in armed : e.o \in Loops}
  /\ UNCHANGED <<owner, alive, m_active, m_singleShot, m_generation, m_deadlinePassed,
                 due, serviceDue, tasks, slot, timerPosts>>

DeadlinePasses(t) ==
  /\ t \in m_active \ m_deadlinePassed /\ m_generation[t] <= MaxGen
  /\ m_deadlinePassed' = m_deadlinePassed \union {t}
  /\ UNCHANGED <<owner, alive, m_active, m_singleShot, m_generation, armed,
                 due, serviceDue, tasks, slot, m_stopped, timerPosts>>

OwnerStep(o) == RunTask(o) \/ SlotReturns(o)
LoopStep(l) == TakeDueTimers(l) \/ DispatchDue(l)

Next ==
  \/ \E o \in Owners : OwnerStep(o)
  \/ \E o \in Owners, t \in Timers, op \in Ops \union {"move"} : CallFromSlot(o, t, op)
  \/ \E t \in Timers, op \in Ops \union {"move"} : CallFromElsewhere(t, op)
  \/ \E l \in Loops : LoopStep(l)
  \/ ServiceTake \/ ServicePost \/ ServiceStop
  \/ \E t \in Timers : DeadlinePasses(t)

Spec == Init /\ [][Next]_vars

-----------------------------------------------------------------------------
Pending(t) ==
  LET o == owner[t] IN
  \/ \E e \in armed \union serviceDue \union due[o] :
       e = Entry(o, t, m_generation[t])
  \/ \E i \in DOMAIN tasks[o] :
       tasks[o][i] = [op |-> "timeout", t |-> t, gen |-> m_generation[t]]

(* Whatever mixture of restarts, migrations and timeouts in flight: an     *)
(* active timer always has a timeout of its present generation pending     *)
(* with its owner, unless the pool of its strand has stopped its timers;   *)
(* what a loop or the service keeps is for a live timer that the owner in  *)
(* the entry still owns ("nor keeps a pointer to this timer",              *)
(* Timer.cpp:190); and a loop about to dispatch has no dangling timer.     *)
ActiveTimersArmed ==
  /\ \A t \in alive \intersect m_active :
       Pending(t) \/ (m_stopped /\ owner[t] \in Strands)
  /\ \A e \in armed : e.t \in alive /\ owner[e.t] = e.o
  /\ \A l \in Loops : \A e \in due[l] : e.t \in alive

(* The slots of a timeout run on the owner the timer has at that moment.   *)
TimeoutAtHome ==
  \A o \in Owners : slot[o] = None /\ slot'[o] # None => owner[slot'[o]] = o
TimeoutsAtHome == [][TimeoutAtHome]_vars

-----------------------------------------------------------------------------
(* What ActiveTimersArmed rests on.                                        *)

Entries == [o : Owners, t : Timers, gen : Nat]
Closures == [op : Ops \union {"move", "timeout"}, t : Timers, gen : Nat]

TimerType ==
  /\ owner \in [Timers -> Owners]
  /\ alive \in SUBSET Timers /\ m_active \in SUBSET Timers /\ m_singleShot \in SUBSET Timers
  /\ m_generation \in [Timers -> Nat]
  /\ armed \in SUBSET Entries
TypeOK ==
  /\ TimerType
  /\ serviceDue \in SUBSET Entries
  /\ due \in [Owners -> SUBSET Entries]
  /\ tasks \in [Owners -> Seq(Closures)]
  /\ slot \in [Owners -> Timers \union {None}]

(* What is armed is armed with the owner, and what a loop has taken and    *)
(* not dispatched stays there: nobody moves or deletes a timer that is due.*)
ArmedAtHome == \A e \in armed : e.t \in alive /\ owner[e.t] = e.o
DueAtHome == \A o \in Owners : \A e \in due[o] : e.t \in alive /\ owner[e.t] = o

ActivePending ==
  \A t \in alive \intersect m_active : Pending(t) \/ (m_stopped /\ owner[t] \in Strands)

Inv == TypeOK /\ ArmedAtHome /\ DueAtHome /\ ActivePending

(* A queue of closures holds the timeout of t with generation g.           *)
Holds(q, t, g) == \E i \in DOMAIN q : q[i] = [op |-> "timeout", t |-> t, gen |-> g]

(* What an operation on a timer leaves behind: the other timers are as     *)
(* they were, and this one is armed with its owner if it is active, unless *)
(* the operation has not touched what its pending timeout depends on.      *)
OthersUntouched(t) ==
  /\ \A u \in Timers \ {t} :
       /\ owner'[u] = owner[u] /\ m_generation'[u] = m_generation[u]
       /\ u \in alive' <=> u \in alive
       /\ u \in m_active' <=> u \in m_active
  /\ \A e \in Entries : e.t # t => (e \in armed' <=> e \in armed)
ArmedAnew(t) ==
  t \in alive' /\ t \in m_active' =>
    \/ Entry(owner'[t], t, m_generation'[t]) \in armed'
    \/ m_stopped /\ owner'[t] \in Strands
Effect(t) ==
  /\ TimerType'
  /\ OthersUntouched(t)
  /\ \A e \in armed' : e.t = t => t \in alive' /\ owner'[t] = e.o
  /\ ArmedAnew(t) \/ UNCHANGED <<owner, alive, m_active, m_generation, armed>>

(* Where the timeout of t with generation g may be on its way to owner o.  *)
OnItsWay(o, t, g) ==
  \/ Entry(o, t, g) \in armed \/ Entry(o, t, g) \in serviceDue \/ Entry(o, t, g) \in due[o]
  \/ Holds(tasks[o], t, g)
=============================================================================
