----------------------------- MODULE UdpSocket ------------------------------
(***************************************************************************)
(* snf::UdpSocket (src/lib/Network/src/SNFNetwork/UdpSocket.cpp): binding, *)
(* sending and receiving datagrams, and invokeOnOwnerThreadAndWait(), the  *)
(* call into the owner that gives up after two seconds.                    *)
(***************************************************************************)
EXTENDS Naturals, Sequences, FiniteSets

CONSTANTS
  Callers,       \* threads that do not own the socket
  MaxDatagrams,  \* bound: datagrams that arrive
  MaxBinds,      \* bound: bind() calls
  MaxSends       \* bound: sendDatagram() closures in flight

VARIABLES
  m_state, udpFd, m_pendingDatagrams, kernelQueue, udpActive,
  joined,    \* the descriptor is a member of the multicast group
  call,      \* per caller: State of its invokeOnOwnerThreadAndWait()
  ownerRuns, \* the caller whose closure the owner is running, or 0
  sends,     \* sendDatagram() closures posted
  arrived, binds,
  delivered, \* datagrams handed to the application, in order
  lostBinds  \* calls that reported failure and were applied all the same

udpVars == <<m_state, udpFd, m_pendingDatagrams, udpActive, joined>>
vars == <<udpVars, kernelQueue, call, ownerRuns, sends, arrived, binds, delivered, lostBinds>>

NoCall == [phase |-> "none", op |-> "bind", started |-> FALSE, done |-> FALSE, abandoned |-> FALSE,
           result |-> FALSE]

Init ==
  /\ m_state = "Unbound" /\ udpFd = FALSE /\ m_pendingDatagrams = <<>> /\ udpActive = FALSE /\ joined = FALSE
  /\ kernelQueue = <<>> /\ call = [c \in Callers |-> NoCall] /\ ownerRuns = 0
  /\ sends = 0 /\ arrived = 0 /\ binds = 0 /\ delivered = <<>> /\ lostBinds = {}

TransitionToUnbound ==
  /\ m_pendingDatagrams' = <<>> /\ kernelQueue' = <<>> /\ joined' = FALSE

(* applyBoundState(): the descriptor is watched for datagrams.             *)
ApplyBoundState == m_state' = "Bound" /\ udpFd' = TRUE /\ udpActive' = TRUE

(* failWithErrno() of bind(), whose candidates are closed again.           *)
FailWithErrno == m_state' = "Error" /\ udpFd' = FALSE /\ udpActive' = FALSE

(* bind() on the owner: the candidates fail or one is bound.  What is      *)
(* waiting in the old socket, or in m_pendingDatagrams, is gone.           *)
BindImpl(ok) ==
  /\ TransitionToUnbound
  /\ IF ok THEN ApplyBoundState ELSE FailWithErrno
  /\ UNCHANGED <<arrived, delivered>>

Bind(ok) ==
  /\ ownerRuns = 0 /\ binds < MaxBinds /\ binds' = binds + 1
  /\ BindImpl(ok)
  /\ UNCHANGED <<call, ownerRuns, sends, lostBinds>>

-----------------------------------------------------------------------------
(* invokeOnOwnerThreadAndWait(): the closure and the caller share State.   *)
CallOwner(c, op) ==
  /\ call[c].phase = "none" /\ binds < MaxBinds /\ binds' = binds + 1
  /\ call' = [call EXCEPT ![c] = [NoCall EXCEPT !.phase = "waiting", !.op = op]]
  /\ UNCHANGED <<udpVars, kernelQueue, ownerRuns, sends, arrived, delivered, lostBinds>>

Posted(c) == call[c].phase # "none" /\ ~call[c].started

OwnerStarts_Regardless(c) ==
  /\ ownerRuns = 0 /\ Posted(c)
  /\ call' = [call EXCEPT ![c].started = TRUE] /\ ownerRuns' = c
  /\ UNCHANGED <<udpVars, kernelQueue, sends, arrived, binds, delivered, lostBinds>>
OwnerStarts(c) ==
  /\ ownerRuns = 0 /\ Posted(c)
  /\ IF call[c].abandoned
     THEN call' = [call EXCEPT ![c] = NoCall] /\ UNCHANGED ownerRuns
     ELSE call' = [call EXCEPT ![c].started = TRUE] /\ ownerRuns' = c
  /\ UNCHANGED <<udpVars, kernelQueue, sends, arrived, binds, delivered, lostBinds>>

OwnerDone(c, applied) ==
  /\ ownerRuns = c /\ ownerRuns' = 0
  /\ call' = [call EXCEPT ![c].done = TRUE, ![c].result = applied]
  /\ lostBinds' = IF applied /\ call[c].abandoned THEN lostBinds \union {c} ELSE lostBinds
  /\ UNCHANGED <<sends, binds>>

OwnerBinds(c, ok) ==
  /\ OwnerDone(c, ok) /\ call[c].op = "bind" /\ BindImpl(ok)

(* joinMulticastGroup() and leaveMulticastGroup(): without a descriptor    *)
(* nothing happens.                                                        *)
OwnerJoins(c, ok) ==
  /\ OwnerDone(c, ok) /\ call[c].op = "join" /\ (ok => udpFd)
  /\ joined' = (joined \/ ok)
  /\ UNCHANGED <<m_state, udpFd, m_pendingDatagrams, udpActive, kernelQueue, arrived, delivered>>
OwnerLeaves(c, ok) ==
  /\ OwnerDone(c, ok) /\ call[c].op = "leave" /\ (ok => udpFd)
  /\ joined' = (joined /\ ~ok)
  /\ UNCHANGED <<m_state, udpFd, m_pendingDatagrams, udpActive, kernelQueue, arrived, delivered>>

(* Two seconds have passed: wait_for() looks at its predicate once more    *)
(* under the mutex.                                                        *)
CallerTimesOut(c) ==
  /\ call[c].phase = "waiting" /\ ~call[c].started
  /\ call' = [call EXCEPT ![c].abandoned = TRUE, ![c].phase = "returned"]
  /\ UNCHANGED <<udpVars, kernelQueue, ownerRuns, sends, arrived, binds, delivered, lostBinds>>

CallerReturns(c) ==
  /\ call[c].phase = "waiting" /\ call[c].done
  /\ call' = [call EXCEPT ![c] = NoCall]
  /\ UNCHANGED <<udpVars, kernelQueue, ownerRuns, sends, arrived, binds, delivered, lostBinds>>

-----------------------------------------------------------------------------
(* sendDatagram() on the owner: an unresolvable destination or a failing   *)
(* sendto(), EAGAIN included, puts the whole socket into the Error state.  *)
SendOutcome ==
  /\ m_state' \in {m_state, "Error"} /\ (m_state # "Bound" => m_state' = m_state)
  /\ UNCHANGED <<udpFd, m_pendingDatagrams, udpActive, joined>>

SendDatagram ==
  /\ ownerRuns = 0 /\ m_state = "Bound" /\ SendOutcome
  /\ UNCHANGED <<kernelQueue, call, ownerRuns, sends, arrived, binds, delivered, lostBinds>>

PostSend ==
  /\ m_state = "Bound" /\ sends < MaxSends /\ sends' = sends + 1
  /\ UNCHANGED <<udpVars, kernelQueue, call, ownerRuns, arrived, binds, delivered, lostBinds>>

RunSend ==
  /\ ownerRuns = 0 /\ sends > 0 /\ sends' = sends - 1 /\ SendOutcome
  /\ UNCHANGED <<kernelQueue, call, ownerRuns, arrived, binds, delivered, lostBinds>>

(* handleEvents(): an error event ends in Error, readable events are taken *)
(* only while Bound.                                                       *)
HandleError ==
  /\ ownerRuns = 0 /\ udpActive /\ m_state' = "Error"
  /\ UNCHANGED <<udpFd, m_pendingDatagrams, udpActive, joined, kernelQueue, call, ownerRuns, sends, arrived,
                 binds, delivered, lostBinds>>

HandleReadable ==
  /\ ownerRuns = 0 /\ udpActive /\ m_state = "Bound" /\ kernelQueue # <<>>
  /\ m_pendingDatagrams' = m_pendingDatagrams \o kernelQueue
  /\ kernelQueue' = <<>>
  /\ UNCHANGED <<m_state, udpFd, udpActive, joined, call, ownerRuns, sends, arrived, binds, delivered, lostBinds>>

PendingDatagram ==
  /\ m_pendingDatagrams # <<>>
  /\ delivered' = Append(delivered, Head(m_pendingDatagrams))
  /\ m_pendingDatagrams' = Tail(m_pendingDatagrams)
  /\ UNCHANGED <<m_state, udpFd, udpActive, joined, kernelQueue, call, ownerRuns, sends, arrived, binds, lostBinds>>

Arrives ==
  /\ udpFd /\ arrived < MaxDatagrams /\ arrived' = arrived + 1
  /\ kernelQueue' = Append(kernelQueue, arrived + 1)
  /\ UNCHANGED <<udpVars, call, ownerRuns, sends, binds, delivered, lostBinds>>

Next ==
  \/ \E ok \in BOOLEAN : Bind(ok)
  \/ \E ok \in BOOLEAN, c \in Callers : OwnerBinds(c, ok) \/ OwnerJoins(c, ok) \/ OwnerLeaves(c, ok)
  \/ \E c \in Callers, op \in {"bind", "join", "leave"} : CallOwner(c, op)
  \/ \E c \in Callers : OwnerStarts(c) \/ CallerTimesOut(c) \/ CallerReturns(c)
  \/ SendDatagram \/ PostSend \/ RunSend \/ HandleError \/ HandleReadable \/ PendingDatagram \/ Arrives

-----------------------------------------------------------------------------
(* A call that has reported failure because the owner did not start it in  *)
(* time is never applied later, however the timeout and the owner race     *)
(* ("drop the request so it is never applied later", UdpSocket.cpp:117);   *)
(* an owner that has started is always waited for; and the application     *)
(* sees the datagrams of one socket in the order of their arrival, none    *)
(* twice.                                                                  *)
AbandonedNeverApplied ==
  /\ lostBinds = {}
  /\ ownerRuns # 0 => call[ownerRuns].phase = "waiting" /\ ~call[ownerRuns].abandoned
  /\ \A i \in 2 .. Len(delivered \o m_pendingDatagrams \o kernelQueue) :
       (delivered \o m_pendingDatagrams \o kernelQueue)[i - 1]
         < (delivered \o m_pendingDatagrams \o kernelQueue)[i]

-----------------------------------------------------------------------------
(* The inductive invariant.  A call is given up only while it has not been *)
(* started, and only a started one runs on the owner; the three stretches  *)
(* of the way of a datagram rise, each after the one before it, and none   *)
(* has a datagram that has not arrived.                                    *)
Phases == {"none", "waiting", "returned"}
CallStates == [phase : Phases, op : {"bind", "join", "leave"}, started : BOOLEAN, done : BOOLEAN,
               abandoned : BOOLEAN, result : BOOLEAN]

CallsInStep ==
  /\ call \in [Callers -> CallStates] /\ ownerRuns \in {0} \union Callers
  /\ \A c \in Callers : /\ call[c].abandoned <=> call[c].phase = "returned"
                        /\ call[c].started => call[c].phase = "waiting"
                        /\ call[c].done => call[c].started
  /\ ownerRuns # 0 => call[ownerRuns].started /\ ~call[ownerRuns].done
  /\ lostBinds = {}

Rising(s) == \A i, j \in 1 .. Len(s) : i < j => s[i] < s[j]
Before(s, t) == \A i \in 1 .. Len(s), j \in 1 .. Len(t) : s[i] < t[j]
UpTo(s, n) == \A i \in 1 .. Len(s) : s[i] <= n

DatagramsInOrder ==
  /\ arrived \in Nat
  /\ delivered \in Seq(Nat) /\ m_pendingDatagrams \in Seq(Nat) /\ kernelQueue \in Seq(Nat)
  /\ Rising(delivered) /\ Rising(m_pendingDatagrams) /\ Rising(kernelQueue)
  /\ Before(delivered, m_pendingDatagrams) /\ Before(delivered, kernelQueue)
  /\ Before(m_pendingDatagrams, kernelQueue)
  /\ UpTo(delivered, arrived) /\ UpTo(m_pendingDatagrams, arrived) /\ UpTo(kernelQueue, arrived)

Inv == CallsInStep /\ DatagramsInOrder
=============================================================================
