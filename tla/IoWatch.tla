------------------------------ MODULE IoWatch -------------------------------
(***************************************************************************)
(* Descriptor watches: snf::detail::IoService, which waits for strands,    *)
(* and the I/O thread of snf::EventLoop, both over snf::EpollPoller.       *)
(* OneShot tells them apart: IoService arms a descriptor for one report    *)
(* and numbers its registrations; the loop's poller is level triggered.    *)
(*                                                                         *)
(* One owner runs the callbacks and makes the calls; the poller's thread   *)
(* runs beside it.  A descriptor that is ready stays so until the owner    *)
(* serves it in a callback.                                                *)
(***************************************************************************)
EXTENDS Naturals, Sequences, FiniteSets, SequencesExt

CONSTANTS
  OneShot, Fds, None,
  MaxEvents,  \* kMaxEvents: reports one wait() returns
  MaxReg      \* bound: registrations

VARIABLES
  m_watches,          \* per descriptor its watch, or None
  m_nextRegistration,
  epoll,              \* descriptors that epoll would report when ready
  wakeup,             \* the eventfd has been written
  fdReady,            \* descriptors with something to read
  polled,             \* what wait() returned, not looked at yet
  pollpc,             \* where the poller's thread is
  toPost,             \* callbacks it has collected and not posted yet
  readyIO,            \* m_readyIO, or the callbacks in the strand's queue
  batch,              \* what the owner has taken from it
  running,            \* the callback the owner is in, or None
  ioStopped

watchVars == <<m_watches, m_nextRegistration, epoll>>
threadVars == <<wakeup, polled, pollpc, toPost, ioStopped>>
ownerVars == <<readyIO, batch, running>>
vars == <<watchVars, threadVars, ownerVars, fdReady>>

Init ==
  /\ m_watches = [f \in Fds |-> None] /\ m_nextRegistration = 1
  /\ epoll = {} /\ wakeup = FALSE /\ fdReady = {}
  /\ polled = {} /\ pollpc = "off" /\ toPost = <<>>
  /\ readyIO = <<>> /\ batch = <<>> /\ running = None
  /\ ioStopped = FALSE

Watched(f) == m_watches[f] # None
(* arm(), EpollPoller::addOrUpdate(), EpollPoller::remove().               *)
AddOrUpdate(f, in) == epoll' = IF in THEN epoll \union {f} ELSE epoll \ {f}
RemoveFd(f) == epoll' = epoll \ {f}

(* The owner's own code runs inside a callback, or between its batches.    *)
OwnerCode == running # None \/ batch = <<>>

NewWatch(f, in) ==
  [m_watches EXCEPT ![f] = [reg |-> m_nextRegistration, in |-> in, queued |-> FALSE]]
ChangedWatch(f, in) == [m_watches EXCEPT ![f].in = in]
EnsureIoThreadRunning == pollpc' = IF pollpc = "off" THEN "wait" ELSE pollpc
TellIoThread == ioStopped' = TRUE /\ wakeup' = TRUE

(* The service calls the poller under its lock, the loop after it, and yet *)
(* in one step: wait() does not look at the watches and CollectReady not   *)
(* at epoll, so that one of them in between may as well come before or     *)
(* after.  After a CollectReady in between a wait() may report a           *)
(* descriptor that is being unregistered, as one before the step may, or   *)
(* miss one that is being registered, as any PollerWait may.               *)
RegisterIO(f, in) ==
  /\ OwnerCode /\ m_nextRegistration <= MaxReg
  /\ OneShot => ~ioStopped
  /\ m_watches' = NewWatch(f, in)
  /\ m_nextRegistration' = m_nextRegistration + 1
  /\ AddOrUpdate(f, in)
  /\ EnsureIoThreadRunning
  /\ wakeup' = (wakeup \/ ~OneShot)
  /\ UNCHANGED <<polled, toPost, ioStopped, ownerVars, fdReady>>

ModifyIO(f, in) ==
  /\ OwnerCode /\ Watched(f) /\ m_watches[f].in # in
  /\ m_watches' = ChangedWatch(f, in)
  /\ IF OneShot /\ (m_watches[f].queued \/ ioStopped) THEN UNCHANGED epoll ELSE AddOrUpdate(f, in)
  /\ wakeup' = (wakeup \/ ~OneShot)
  /\ UNCHANGED <<m_nextRegistration, polled, pollpc, toPost, ioStopped, ownerVars, fdReady>>

(* The erase-remove_if of unregisterIO(): callbacks of other descriptors.  *)
Others(q, f) ==
  LET kept[n \in 0 .. Len(q)] ==
        IF n = 0 THEN <<>>
        ELSE IF q[n].fd # f THEN Append(kept[n - 1], q[n]) ELSE kept[n - 1]
  IN kept[Len(q)]

UnregisterIO(f) ==
  /\ OwnerCode /\ Watched(f)
  /\ m_watches' = [m_watches EXCEPT ![f] = None]
  /\ RemoveFd(f)
  /\ readyIO' = IF OneShot THEN readyIO ELSE Others(readyIO, f)
  /\ wakeup' = (wakeup \/ ~OneShot)
  /\ UNCHANGED <<m_nextRegistration, polled, pollpc, toPost, ioStopped, batch, running, fdReady>>

(* EpollPoller::wait(): at most MaxEvents reports; a one-shot descriptor   *)
(* is quiet from then on.                                                  *)
PollerWait ==
  /\ pollpc = "wait"
  /\ \E r \in SUBSET (epoll \intersect fdReady) :
       /\ r # {} \/ wakeup
       /\ Cardinality(r) <= MaxEvents
       /\ polled' = r
       /\ epoll' = IF OneShot THEN epoll \ r ELSE epoll
  /\ wakeup' = FALSE
  /\ pollpc' = "polled"
  /\ UNCHANGED <<m_watches, m_nextRegistration, toPost, ioStopped, ownerVars, fdReady>>

(* IoService::run(), EventLoop::ioThreadMain(): under the lock, the        *)
(* watches that are reported and not queued yet.                           *)
CollectReady ==
  LET fresh == {f \in polled : Watched(f) /\ ~m_watches[f].queued}
      calls == SetToSeq({[fd |-> f, reg |-> m_watches[f].reg] : f \in fresh})
      leaves == ioStopped /\ OneShot IN
  /\ pollpc = "polled"
  /\ polled' = {}
  /\ m_watches' = IF leaves THEN m_watches
                  ELSE [f \in Fds |-> IF f \in fresh THEN [m_watches[f] EXCEPT !.queued = TRUE]
                                      ELSE m_watches[f]]
  /\ toPost' = IF OneShot /\ ~leaves THEN calls ELSE toPost
  /\ readyIO' = IF OneShot THEN readyIO ELSE readyIO \o calls
  /\ pollpc' = IF ioStopped THEN "exited" ELSE IF OneShot THEN "post" ELSE "wait"
  /\ UNCHANGED <<m_nextRegistration, epoll, wakeup, ioStopped, batch, running, fdReady>>

PostReady ==
  /\ pollpc = "post"
  /\ pollpc' = IF toPost = <<>> THEN "wait" ELSE "post"
  /\ toPost' = IF toPost = <<>> THEN toPost ELSE Tail(toPost)
  /\ readyIO' = IF toPost = <<>> THEN readyIO ELSE Append(readyIO, Head(toPost))
  /\ UNCHANGED <<watchVars, wakeup, polled, ioStopped, batch, running, fdReady>>

(* A strand takes one task, a loop everything that is ready.               *)
TakeReadyIO ==
  /\ running = None /\ batch = <<>> /\ readyIO # <<>>
  /\ IF OneShot THEN batch' = <<Head(readyIO)>> /\ readyIO' = Tail(readyIO)
     ELSE batch' = readyIO /\ readyIO' = <<>>
  /\ UNCHANGED <<watchVars, threadVars, running, fdReady>>

BeginCallback ==
  /\ running = None /\ batch # <<>>
  /\ running' = Head(batch) /\ batch' = Tail(batch)
  /\ UNCHANGED <<watchVars, threadVars, readyIO, fdReady>>

Serve ==
  /\ running # None
  /\ fdReady' = fdReady \ {running.fd}
  /\ running.fd \in fdReady
  /\ UNCHANGED <<watchVars, threadVars, ownerVars>>

SameWatch_Any(c) == Watched(c.fd)
(* markHandled() knows the registration, markReadyIOHandled() only the fd. *)
SameWatch(c) == Watched(c.fd) /\ (OneShot => m_watches[c.fd].reg = c.reg)

EndCallback_NoRearm ==
  /\ running # None
  /\ m_watches' = IF SameWatch(running) THEN [m_watches EXCEPT ![running.fd].queued = FALSE] ELSE m_watches
  /\ running' = None
  /\ UNCHANGED <<m_nextRegistration, epoll, threadVars, readyIO, batch, fdReady>>
EndCallback ==
  LET f == running.fd IN
  /\ running # None
  /\ IF SameWatch(running)
     THEN /\ m_watches' = [m_watches EXCEPT ![f].queued = FALSE]
          /\ IF OneShot /\ ~ioStopped THEN AddOrUpdate(f, m_watches[f].in) ELSE UNCHANGED epoll
     ELSE UNCHANGED <<m_watches, epoll>>
  /\ running' = None
  /\ UNCHANGED <<m_nextRegistration, threadVars, readyIO, batch, fdReady>>

(* stop(), stopIoThread(): the thread is told and woken; it is joined      *)
(* when it has left.                                                       *)
IoStop ==
  /\ ~ioStopped /\ TellIoThread
  /\ UNCHANGED <<watchVars, polled, pollpc, toPost, ownerVars, fdReady>>

BecomesReady(f) ==
  /\ f \notin fdReady /\ fdReady' = fdReady \union {f}
  /\ UNCHANGED <<watchVars, threadVars, ownerVars>>

Next ==
  \/ \E f \in Fds, in \in BOOLEAN : RegisterIO(f, in) \/ ModifyIO(f, in)
  \/ \E f \in Fds : UnregisterIO(f) \/ BecomesReady(f)
  \/ PollerWait \/ CollectReady \/ PostReady
  \/ TakeReadyIO \/ BeginCallback \/ Serve \/ EndCallback \/ IoStop

Spec == Init /\ [][Next]_vars

-----------------------------------------------------------------------------
(* The callbacks of a registration that have not come to their end.        *)
Callbacks(f, reg) ==
  LET c == [fd |-> f, reg |-> reg]
      at(s) == {i \in DOMAIN s : s[i] = c} IN
  Cardinality(at(toPost)) + Cardinality(at(readyIO)) + Cardinality(at(batch))
    + (IF running = c THEN 1 ELSE 0)

(* No readiness is lost: a watch that wants to read is armed in epoll, or  *)
(* is about to be looked at, or has a callback coming after which it is    *)
(* armed again; and a watch marked as queued does have that callback.      *)
WatchesStayLive ==
  ~ioStopped =>
    \A f \in Fds : Watched(f) =>
      /\ m_watches[f].queued => Callbacks(f, m_watches[f].reg) > 0
      /\ m_watches[f].in /\ ~m_watches[f].queued => f \in epoll \union polled

(* "a busy strand neither gets duplicate callbacks" (IoService.h:34): also *)
(* if the callback registers its descriptor again, or changes its events   *)
(* while the poller's thread has a report in hand.                         *)
NoDuplicateCallbacks ==
  OneShot => \A f \in Fds : Watched(f) => Callbacks(f, m_watches[f].reg) <= 1
=============================================================================
