------------------------------ MODULE Signals -------------------------------
(***************************************************************************)
(* snf::Signal and snf::Connection (src/lib/Core/src/SNFCore/Connection.h) *)
(* with the NodePtr that guards a receiver: one signal, slots of three     *)
(* connection types, emitting threads that are also the owners of the      *)
(* receivers, migrating and dying receivers.                               *)
(***************************************************************************)
EXTENDS Naturals, Sequences

CONSTANTS
  Owners,      \* threads with an executor
  Conns,       \* connections, each made at most once
  Receiver,    \* of a connection
  Type,        \* of a connection: "Direct", "Queued" or "Auto"
  MaxEmits     \* bound: calls of emit()

Nodes == {Receiver[c] : c \in Conns}

VARIABLES
  m_slots,     \* the connections of the signal, in order
  connected,   \* ConnectionState::connected
  made,        \* connections made so far
  nodeOwner, nodeAlive, nodeMarked,   \* the NodeLifetimeBlocks
  moved,       \* receivers that have migrated
  posted,      \* per owner, the queued invocations: see item in Visit
  emitting,    \* per owner, what its calls of emit() have to visit, the innermost first
  emits,
  calls        \* the slot invocations, each with the thread it ran on

blockVars == <<nodeOwner, nodeAlive, nodeMarked, moved>>
connVars == <<m_slots, connected, made>>
vars == <<connVars, blockVars, posted, emitting, emits, calls>>

Init ==
  /\ m_slots = <<>> /\ connected = {} /\ made = {}
  /\ nodeOwner \in [Nodes -> Owners] /\ nodeAlive = Nodes /\ nodeMarked = {} /\ moved = {}
  /\ posted = [o \in Owners |-> <<>>]
  /\ emitting = [o \in Owners |-> <<>>]
  /\ emits = 0
  /\ calls = <<>>

Connect_Twice(c) ==
  /\ c \notin made /\ made' = made \union {c}
  /\ m_slots' = m_slots \o <<c, c>>
  /\ connected' = connected \union {c}
  /\ UNCHANGED <<blockVars, posted, emitting, emits, calls>>
(* connect(): the three overloads end here.                                *)
Connect(c) ==
  /\ c \notin made /\ made' = made \union {c}
  /\ m_slots' = Append(m_slots, c)
  /\ connected' = connected \union {c}
  /\ UNCHANGED <<blockVars, posted, emitting, emits, calls>>

Disconnect(c) ==
  /\ c \in connected /\ connected' = connected \ {c}
  /\ UNCHANGED <<m_slots, made, blockVars, posted, emitting, emits, calls>>

(* pruneDisconnectedLocked(), with the connections that are still there.   *)
Pruned(q, there) ==
  LET kept[n \in 0 .. Len(q)] ==
        IF n = 0 THEN <<>>
        ELSE IF q[n] \in there THEN Append(kept[n - 1], q[n]) ELSE kept[n - 1]
  IN kept[Len(q)]

(* The code of a program runs on o, outside emit() or in a slot that       *)
(* emit() calls: a slot of the first visit.                                *)
UserCode(o) == emitting[o] # <<>> => Head(emitting[o]).inSlot

(* emit(): prune and copy under the lock, then slot by slot. A slot may    *)
(* emit again: in is the emissions of this thread that are under way then. *)
Emit(o) ==
  LET outer == {emitting[o][i].e : i \in 1 .. Len(emitting[o])} IN
  /\ UserCode(o) /\ emits < MaxEmits
  /\ m_slots' = Pruned(m_slots, connected)
  /\ emits' = emits + 1
  /\ emitting' = [emitting EXCEPT ![o] =
                   [i \in 1 .. Len(m_slots') |->
                     [c |-> m_slots'[i], e |-> emits', in |-> outer, inSlot |-> FALSE]] \o @]
  /\ UNCHANGED <<connected, made, blockVars, posted, calls>>

CanInvokeReceiver(c) == Receiver[c] \in nodeAlive \ nodeMarked
Queue(c, o) ==
  Type[c] = "Queued" \/ (Type[c] = "Auto" /\ nodeOwner[Receiver[c]] # o)
Call(o, item) ==
  calls' = IF item.c \in connected /\ CanInvokeReceiver(item.c)
           THEN Append(calls, [item |-> item, on |-> o]) ELSE calls

(* The rest of the visits of o, and those with the first one in its slot.  *)
Returned(q) == Tail(q)
Entered(q) == [q EXCEPT ![1] = [Head(q) EXCEPT !.inSlot = TRUE]]

Visit(o) ==
  LET q == emitting[o]
      c == Head(q).c
      item == [c |-> c, e |-> Head(q).e, by |-> o, in |-> Head(q).in] IN
  /\ ~UserCode(o)
  /\ \/ /\ c \notin connected
        /\ emitting' = [emitting EXCEPT ![o] = Returned(q)]
        /\ UNCHANGED <<connected, posted, calls>>
     \/ /\ c \in connected /\ ~CanInvokeReceiver(c)
        /\ connected' = connected \ {c}
        /\ emitting' = [emitting EXCEPT ![o] = Returned(q)] /\ UNCHANGED <<posted, calls>>
     \/ /\ c \in connected /\ CanInvokeReceiver(c) /\ Queue(c, o)
        /\ posted' = [posted EXCEPT ![nodeOwner[Receiver[c]]] = Append(@, item)]
        /\ emitting' = [emitting EXCEPT ![o] = Returned(q)] /\ UNCHANGED <<connected, calls>>
     \/ /\ c \in connected /\ CanInvokeReceiver(c) /\ ~Queue(c, o)
        /\ Call(o, item) /\ emitting' = [emitting EXCEPT ![o] = Entered(q)]
        /\ UNCHANGED <<connected, posted>>
  /\ UNCHANGED <<m_slots, made, blockVars, emits>>

SlotReturns(o) ==
  /\ emitting[o] # <<>> /\ Head(emitting[o]).inSlot
  /\ emitting' = [emitting EXCEPT ![o] = Returned(emitting[o])]
  /\ UNCHANGED <<connVars, blockVars, posted, emits, calls>>

Forward_Never(o, c) == FALSE
(* postToReceiverOwner(): the receiver has moved on in the meantime.       *)
Forward(o, c) == nodeOwner[Receiver[c]] # o

RunPosted(o) ==
  LET item == Head(posted[o])
      c == item.c
      popped == [posted EXCEPT ![o] = Tail(@)] IN
  /\ posted[o] # <<>> /\ emitting[o] = <<>>
  /\ IF ~CanInvokeReceiver(c) THEN posted' = popped /\ UNCHANGED calls
     ELSE IF Forward(o, c)
     THEN posted' = [popped EXCEPT ![nodeOwner[Receiver[c]]] = Append(@, item)] /\ UNCHANGED calls
     ELSE posted' = popped /\ Call(o, item)
  /\ UNCHANGED <<connVars, blockVars, emitting, emits>>

(* Inside its owner, also in a slot, a receiver migrates; the loop of its  *)
(* owner destroys it; deleteLater() marks it from any thread.              *)
Migrate(n, o) ==
  /\ n \in nodeAlive /\ o # nodeOwner[n] /\ UserCode(nodeOwner[n])
  /\ nodeOwner' = [nodeOwner EXCEPT ![n] = o] /\ moved' = moved \union {n}
  /\ UNCHANGED <<connVars, nodeAlive, nodeMarked, posted, emitting, emits, calls>>

Mark(n) ==
  /\ n \in nodeAlive \ nodeMarked /\ nodeMarked' = nodeMarked \union {n}
  /\ UNCHANGED <<connVars, nodeOwner, nodeAlive, moved, posted, emitting, emits, calls>>

Die(n) ==
  /\ n \in nodeMarked \intersect nodeAlive /\ emitting[nodeOwner[n]] = <<>>
  /\ nodeAlive' = nodeAlive \ {n}
  /\ UNCHANGED <<connVars, nodeOwner, nodeMarked, moved, posted, emitting, emits, calls>>

Next ==
  \/ \E c \in Conns : Connect(c) \/ Disconnect(c)
  \/ \E o \in Owners : Emit(o) \/ Visit(o) \/ SlotReturns(o) \/ RunPosted(o)
  \/ \E n \in Nodes : Mark(n) \/ Die(n) \/ \E o \in Owners : Migrate(n, o)

Spec == Init /\ [][Next]_vars

-----------------------------------------------------------------------------
(* "so the slot always runs inside the receiver's owner" (Connection.h:63) *)
(* unless the connection is Direct, and on a receiver that is neither dead *)
(* nor about to be.                                                        *)
SlotRunsAtHome ==
  calls' # calls =>
    LET call == calls'[Len(calls')]
        c == call.item.c IN
    /\ Type[c] # "Direct" => nodeOwner[Receiver[c]] = call.on
    /\ Receiver[c] \in nodeAlive \ nodeMarked /\ c \in connected
SlotsRunAtHome == [][SlotRunsAtHome]_vars

(* A slot sees an emission at most once, also if its invocation is         *)
(* forwarded from owner to owner; and as long as the receiver stays where  *)
(* it is, it sees those of one thread in the order of the emit() calls,    *)
(* but that an emission from inside a slot may overtake those that it is   *)
(* nested in, whose emit() has not come to this slot (Connection.h:278).   *)
EmissionsOnceAndInOrder ==
  \A i, j \in DOMAIN calls :
    LET a == calls[i].item
        b == calls[j].item IN
    i < j /\ a.c = b.c =>
      /\ a.e # b.e
      /\ a.by = b.by /\ Receiver[a.c] \notin moved => a.e < b.e \/ b.e \in a.in
=============================================================================
