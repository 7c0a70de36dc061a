---------------------------- MODULE StreamSocket ----------------------------
(***************************************************************************)
(* snf::TcpSocket and snf::LocalSocket (src/lib/Network/src/SNFNetwork) on *)
(* snf::IOEvent: connecting, the write queue, the read buffer, and the     *)
(* registration of the descriptor that follows the state of the socket.    *)
(*                                                                         *)
(* Handlers are functions from the members of the socket to the members    *)
(* they may leave behind.  A descriptor is named by the connection it is   *)
(* for: the numbers are reused by the system, so the code tells its        *)
(* registrations apart by generation alone.                                *)
(***************************************************************************)
EXTENDS Naturals, Sequences, FiniteSets

CONSTANTS
  Kinds,        \* sockets: local for a LocalSocket, and bounds: conns, the connections, and chunks,
                \* what the peer sends
  LongPaths,    \* may a LocalSocket be given a path that is too long, while it is connected?
  IoErrors,     \* may send() and recv() fail other than by EAGAIN?
  MoveWithPosts,\* may the socket migrate while closures posted to it are in flight?
  None,
  MaxQueue,     \* bound: buffers in m_writeQueue
  MaxPosts,     \* bound: calls are posted while fewer closures are in flight
  MaxGen        \* bound: the generation up to which the socket migrates

Owners == {0, 1}
NoFd == 0

VARIABLES
  kind,     \* the socket: a LocalSocket emits its signals at once, a TcpSocket
            \* posts them; never changed
  sock,     \* members of TcpSocket and IOEvent, and its watch at the owner
  home,     \* the owner
  ready,    \* per owner, readiness collected and not handled
  closures, \* per owner, calls and signals posted to it
  peer,     \* of the present connection: how it stands, and chunks on the way
  last,     \* the last connected or disconnected signal emitted, in a sequence
  dialled   \* connections made so far

NewPeer(st) == [st |-> st, in |-> 0, sent |-> 0]

Local == kind.local
Conns == 1 .. kind.conns

vars == <<kind, sock, home, ready, closures, peer, last, dialled>>

Unconnected ==
  [state |-> "Disconnected", conn |-> NoFd, active |-> FALSE, gen |-> 0,
   interest |-> {"read"}, queue |-> 0, buffer |-> FALSE, watch |-> None, out |-> <<>>]

-----------------------------------------------------------------------------
(* IOEvent.                                                                *)
Registered(m) == [m EXCEPT !.watch = [conn |-> m.conn, gen |-> m.gen, interest |-> m.interest]]

SyncRegistration(m, wasActive) ==
  IF m.conn = NoFd THEN m
  ELSE IF wasActive /\ m.watch # None THEN [m EXCEPT !.watch.interest = m.interest]
  ELSE IF m.active THEN Registered(m) ELSE m

SetInterest(m, flags) ==
  IF m.interest = flags THEN m ELSE SyncRegistration([m EXCEPT !.interest = flags], m.active)

SetDescriptor(m, c) ==
  LET n == [m EXCEPT !.conn = c, !.gen = @ + 1, !.watch = None] IN
  IF m.conn = c THEN m
  ELSE IF m.active /\ c # NoFd THEN Registered(n) ELSE n

StartWatching(m) ==
  SyncRegistration(IF m.active THEN m ELSE [m EXCEPT !.active = TRUE, !.gen = @ + 1], ~m.active)

StopWatching(m) ==
  IF m.active THEN [m EXCEPT !.active = FALSE, !.gen = @ + 1, !.watch = None] ELSE m

IsRegistrationCurrent_FdOnly(e) == sock.conn # NoFd /\ sock.active
(* The descriptor has the same number in every connection.                 *)
IsRegistrationCurrent(e) == sock.conn # NoFd /\ e.gen = sock.gen /\ sock.active

-----------------------------------------------------------------------------
Emit(m, signal) == [m EXCEPT !.out = Append(@, signal)]

LocalInterest(m) ==
  (IF m.state \in {"Connected", "Connecting"} THEN {"read"} ELSE {})
    \union (IF m.queue > 0 \/ m.state = "Connecting" THEN {"write"} ELSE {})
TcpInterest(m) ==
  CASE m.state = "Connecting" -> {"write"}
    [] m.state = "Connected" -> IF m.queue > 0 THEN {"read", "write"} ELSE {"read"}
    [] OTHER -> {}
UpdateInterest(m) == SetInterest(m, IF Local THEN LocalInterest(m) ELSE TcpInterest(m))

TransitionToDisconnected(m) == [m EXCEPT !.state = "Disconnected", !.queue = 0, !.buffer = FALSE]

ApplyDisconnectedState(m) ==
  LET n == SetDescriptor(StopWatching(TransitionToDisconnected(m)), NoFd) IN
  IF m.state \in {"Connected", "Connecting"} THEN Emit(n, "disconnected") ELSE n
Close_Quiet(m) == SetDescriptor(StopWatching(TransitionToDisconnected(m)), NoFd)
(* close(), the same steps in the same order.                              *)
Close(m) == ApplyDisconnectedState(m)

FailWithErrno(m) == [m EXCEPT !.state = "Error"]

(* flushPendingWrites(): all of it goes, the pipe fills up, or send() says *)
(* that the peer is gone.  A LocalSocket sends while it is connecting,     *)
(* too, which fails.                                                       *)
LocalSends(m) ==
  IF m.state = "Connecting" THEN {ApplyDisconnectedState(FailWithErrno(m))}
  ELSE {[m EXCEPT !.queue = n] : n \in 0 .. m.queue}
TcpSends(m) ==
  IF m.state = "Connecting" THEN {m} ELSE {[m EXCEPT !.queue = n] : n \in 0 .. m.queue}
FlushPendingWrites(m) ==
  IF m.conn = NoFd \/ m.queue = 0 THEN {m}
  ELSE (IF Local THEN LocalSends(m) ELSE TcpSends(m))
       \union (IF IoErrors /\ peer.st # "open" THEN {ApplyDisconnectedState(FailWithErrno(m))}
               ELSE {})

ApplyConnectedState(m) ==
  LET n == Emit(StartWatching(UpdateInterest([m EXCEPT !.state = "Connected"])), "connected") IN
  {UpdateInterest(k) : k \in FlushPendingWrites(n)}

(* handleReadable(): reads what there is and emits readyRead, which        *)
(* matters to no property here and is left out of the closures; at the     *)
(* end of the stream the socket is disconnected, and the buffer with what  *)
(* was just read is cleared.                                               *)
StreamEnds(m) ==
  {ApplyDisconnectedState(m)}
    \union (IF IoErrors THEN {ApplyDisconnectedState(FailWithErrno(m))} ELSE {})
HandleReadable(m) ==
  LET got == [m EXCEPT !.buffer = @ \/ peer.in > 0] IN
  IF m.conn = NoFd THEN {m}
  ELSE IF peer.st = "open" THEN {got} ELSE StreamEnds(got)

HandleWritable_KeepsInterest(m) == FlushPendingWrites(m)
HandleWritable(m) == {UpdateInterest(k) : k \in FlushPendingWrites(m)}

(* handleEvents(), with SO_ERROR for a connection still in progress.       *)
HungUp(m) ==
  IF m.state = "Connecting" /\ peer.st # "refused" THEN ApplyConnectedState(m)
  ELSE {ApplyDisconnectedState(m)}
DialAnswered(m) ==
  IF peer.st = "refused" THEN {ApplyDisconnectedState(FailWithErrno(m))} ELSE ApplyConnectedState(m)
HandleEvents(m, ev) ==
  LET dial == IF m.state = "Connecting" /\ "write" \in ev THEN DialAnswered(m) ELSE {m}
      read(k) == IF "read" \in ev /\ k.state = "Connected" THEN HandleReadable(k) ELSE {k}
      write(k) == IF "write" \in ev /\ k.state = "Connected" THEN HandleWritable(k) ELSE {k} IN
  IF "err" \in ev THEN HungUp(m)
  ELSE UNION {UNION {write(j) : j \in read(k)} : k \in dial}

(* The signals of IOEvent come first, and at once: a slot may close the    *)
(* socket, after which no branch of handleEvents() applies.  What else a   *)
(* slot calls is as if called before, but for a new connection (README,    *)
(* section 5).                                                             *)
SignalledAndHandled(m, ev) == HandleEvents(m, ev) \union {Close(m)}

-----------------------------------------------------------------------------
(* adoptConnectedDescriptor(): a socket that a server accepted.  It says   *)
(* nothing of being connected.                                             *)
Adopted == StartWatching(UpdateInterest([SetDescriptor(Unconnected, 1) EXCEPT !.state = "Connected"]))

Init ==
  /\ kind \in Kinds
  /\ \/ sock = Unconnected /\ dialled = 0 /\ peer = NewPeer("none")
     \/ sock = Adopted /\ dialled = 1 /\ peer = NewPeer("open")
  /\ home = 0
  /\ ready = [o \in Owners |-> {}] /\ closures = [o \in Owners |-> <<>>]
  /\ last = <<>>

Last1(q) == IF q = <<>> THEN q ELSE <<q[Len(q)]>>
Signals == {"connected", "disconnected"}

(* What a handler emitted: posted to the owner behind what is queued, or   *)
(* seen at once.                                                           *)
DeliverAfter(m, queued) ==
  /\ sock' = [m EXCEPT !.out = <<>>]
  /\ IF Local THEN last' = Last1(last \o m.out) /\ closures' = queued
     ELSE closures' = [queued EXCEPT ![home] = @ \o m.out] /\ UNCHANGED last
Deliver(m) == DeliverAfter(m, closures)

InFlight == Len(closures[0]) + Len(closures[1])

(* connectToHost(): it begins by closing what there is; then no name or no *)
(* descriptor is found, the connection is made at once, it is in progress, *)
(* or it is refused by the last of the candidates.                         *)
Connect ==
  LET m == Close(sock)
      c == dialled + 1
      open == SetDescriptor(m, c) IN
  /\ ~Local
  /\ \/ /\ Deliver(FailWithErrno(m)) /\ UNCHANGED <<peer, dialled>>
     \/ /\ c \in Conns /\ dialled' = c
        /\ peer' = NewPeer("open")
        /\ \E k \in ApplyConnectedState(open) : Deliver(k)
     \/ /\ c \in Conns /\ dialled' = c
        /\ peer' = NewPeer("connecting")
        /\ Deliver(StartWatching(UpdateInterest([open EXCEPT !.state = "Connecting"])))
     \/ /\ c \in Conns /\ dialled' = c
        /\ Deliver(Close(FailWithErrno(SetDescriptor(open, NoFd))))
        /\ UNCHANGED peer
  /\ UNCHANGED <<home, ready>>

(* connectToPath(): a path that is too long is an error of a socket that   *)
(* is not closed first, and one that is refused leaves the error.          *)
LocalConnect ==
  LET c == dialled + 1
      open == SetDescriptor(Close(sock), c) IN
  /\ Local
  /\ \/ /\ LongPaths \/ sock.watch = None
        /\ Deliver(FailWithErrno(sock)) /\ UNCHANGED <<peer, dialled>>
     \/ /\ c \in Conns /\ dialled' = c
        /\ peer' = NewPeer("open")
        /\ \E k \in ApplyConnectedState(open) : Deliver(k)
     \/ /\ c \in Conns /\ dialled' = c
        /\ peer' = NewPeer("connecting")
        /\ Deliver(StartWatching(UpdateInterest([open EXCEPT !.state = "Connecting"])))
     \/ /\ c \in Conns /\ dialled' = c
        /\ Deliver(FailWithErrno(SetDescriptor(open, NoFd)))
        /\ UNCHANGED peer
  /\ UNCHANGED <<home, ready>>

Written(m) ==
  IF m.state \notin {"Connected", "Connecting"} THEN {m}
  ELSE {UpdateInterest(k) : k \in FlushPendingWrites([m EXCEPT !.queue = @ + 1])}

Write ==
  /\ sock.queue < MaxQueue
  /\ \E k \in Written(sock) : Deliver(k)
  /\ UNCHANGED <<home, ready, peer, dialled>>

CloseCall == Deliver(Close(sock)) /\ UNCHANGED <<home, ready, peer, dialled>>

ReadAll ==
  /\ sock.buffer /\ sock' = [sock EXCEPT !.buffer = FALSE]
  /\ UNCHANGED <<home, ready, closures, peer, last, dialled>>

(* From another thread: checked where the code does, then posted.          *)
Post(op) ==
  /\ InFlight < MaxPosts
  /\ op = "write" => sock.state \in {"Connected", "Connecting"}
  /\ closures' = [closures EXCEPT ![home] = Append(@, op)]
  /\ UNCHANGED <<sock, home, ready, peer, last, dialled>>

RunClosure(o) ==
  /\ closures[o] # <<>>
  /\ LET op == Head(closures[o])
         rest == [closures EXCEPT ![o] = Tail(@)]
         run == o = home IN
     \/ /\ op \in Signals
        /\ closures' = rest /\ last' = <<op>>
        /\ UNCHANGED <<sock, home, ready, peer, dialled>>
     \/ /\ op \in {"write", "close"} /\ ~run
        /\ closures' = [rest EXCEPT ![home] = Append(@, op)]
        /\ UNCHANGED <<sock, home, ready, peer, last, dialled>>
     \/ /\ op = "close" /\ run /\ DeliverAfter(Close(sock), rest)
        /\ UNCHANGED <<home, ready, peer, dialled>>
     \/ /\ op = "write" /\ run /\ sock.queue < MaxQueue
        /\ \E k \in Written(sock) : DeliverAfter(k, rest)
        /\ UNCHANGED <<home, ready, peer, dialled>>

(* onAboutToMoveToThread() and onMovedToThread().                          *)
Move ==
  /\ sock.gen < MaxGen /\ (MoveWithPosts \/ closures[home] = <<>>)
  /\ home' = 1 - home
  /\ LET m == [sock EXCEPT !.watch = None, !.gen = @ + 1] IN
       sock' = IF m.active /\ m.conn # NoFd THEN Registered(m) ELSE m
  /\ UNCHANGED <<ready, closures, peer, last, dialled>>

(* The owner's poller: one readiness per registration until it is handled. *)
CollectReady ==
  LET w == sock.watch
      ev == (IF "read" \in w.interest /\ (peer.in > 0 \/ peer.st = "closed") THEN {"read"} ELSE {})
            \union (IF "write" \in w.interest /\ peer.st # "connecting" THEN {"write"} ELSE {})
            \union (IF peer.st \in {"refused", "reset"} THEN {"err"} ELSE {}) IN
  /\ w # None /\ ev # {} /\ \A e \in ready[home] : e.gen # w.gen
  /\ ready' = [ready EXCEPT ![home] = @ \union {[gen |-> w.gen, conn |-> w.conn, ev |-> ev]}]
  /\ UNCHANGED <<sock, home, closures, peer, last, dialled>>

Dispatch(o) ==
  \E e \in ready[o] :
    /\ ready' = [ready EXCEPT ![o] = @ \ {e}]
    /\ IF o = home /\ IsRegistrationCurrent(e)
       THEN /\ \E m \in SignalledAndHandled(sock, e.ev) : Deliver(m)
            /\ peer' = IF "read" \in e.ev THEN [peer EXCEPT !.in = 0] ELSE peer
       ELSE UNCHANGED <<sock, closures, last, peer>>
    /\ UNCHANGED <<home, dialled>>

PeerStep ==
  /\ sock.conn # NoFd
  /\ \/ peer.st = "connecting" /\ \E r \in {"open", "refused"} : peer' = [peer EXCEPT !.st = r]
     \/ peer.st = "open" /\ \E r \in {"closed", "reset"} : peer' = [peer EXCEPT !.st = r]
     \/ /\ peer.st = "open" /\ peer.sent < kind.chunks
        /\ peer' = [peer EXCEPT !.in = @ + 1, !.sent = @ + 1]
  /\ UNCHANGED <<sock, home, ready, closures, last, dialled>>

Next ==
  /\ UNCHANGED kind
  /\ \/ Connect \/ LocalConnect \/ Write \/ CloseCall \/ ReadAll \/ Move \/ CollectReady \/ PeerStep
     \/ \E op \in {"write", "close"} : Post(op)
     \/ \E o \in Owners : RunClosure(o) \/ Dispatch(o)

-----------------------------------------------------------------------------
(* A readiness that passes the generation test is of the connection the    *)
(* socket has now, and never of an earlier one on the same descriptor      *)
(* number; the watch the owner keeps is for the present generation; and    *)
(* the socket waits for exactly what it needs: for data while connected,   *)
(* for room while connecting or while something is queued.                 *)
WatchFollowsState ==
  /\ \A e \in ready[home] : IsRegistrationCurrent(e) => e.conn = sock.conn
  /\ sock.state \in {"Connected", "Connecting"} <=> sock.watch # None
  /\ sock.watch # None =>
       /\ sock.watch.gen = sock.gen /\ sock.watch.conn = sock.conn
       /\ "write" \in sock.watch.interest <=> (sock.queue > 0 \/ sock.state = "Connecting")
       /\ sock.state = "Connected" => "read" \in sock.watch.interest

(* "disconnected: Emitted when the connection is closed" (TcpSocket.h): in *)
(* the order in which the signals are, or will be, emitted, a connected    *)
(* is followed by a disconnected before the next connected, and it is the  *)
(* last one only while the socket is connected.                            *)
Answered(q, i, st) ==
  \/ \E k \in i + 1 .. Len(q) : q[k] = "disconnected" /\ \A j \in i + 1 .. k - 1 : q[j] # "connected"
  \/ st = "Connected" /\ \A j \in i + 1 .. Len(q) : q[j] \notin Signals
ConnectedThenDisconnected ==
  LET all == last \o closures[1 - home] \o closures[home] IN
  \A i \in 1 .. Len(all) : all[i] = "connected" => Answered(all, i, sock.state)

-----------------------------------------------------------------------------
(* The inductive invariant.  The watch is the members of the socket as     *)
(* they are; it is there while the socket is connected or connecting, with *)
(* the interest this calls for.  No readiness is of a later generation,    *)
(* one of the present generation is of the present connection.  With       *)
(* nothing in flight when the socket moves, the closures are all at home.  *)
Interests == SUBSET {"read", "write"}
Watches == [conn : Nat, gen : Nat, interest : Interests]
Members ==
  [state : {"Disconnected", "Connecting", "Connected", "Error"}, conn : Nat, active : BOOLEAN,
   gen : Nat, interest : Interests, queue : Nat, buffer : BOOLEAN, watch : Watches \union {None},
   out : Seq(Signals)]

Live(m) == m.state \in {"Connected", "Connecting"}
Tuned(m) ==
  /\ m.active => m.conn # NoFd /\ m.watch = [conn |-> m.conn, gen |-> m.gen, interest |-> m.interest]
  /\ ~m.active => m.watch = None
Wanted(m) == IF Local THEN LocalInterest(m) ELSE TcpInterest(m)

Watched(m) == m \in Members /\ Tuned(m) /\ (m.active <=> Live(m)) /\ (m.queue > 0 => m.active)
Settled(m) == Watched(m) /\ (m.active => m.interest = Wanted(m))

Readiness == [gen : Nat, conn : Nat, ev : SUBSET {"read", "write", "err"}]
ReadyIsKnown ==
  /\ ready \in [Owners -> SUBSET Readiness]
  /\ \A o \in Owners : \A e \in ready[o] :
       e.gen <= sock.gen /\ (e.gen = sock.gen => e.conn = sock.conn)

Operations == {"write", "close"}
Closures == Seq(Operations \union Signals)
LastSignals == {<<>>, <<"connected">>, <<"disconnected">>}
Ordered(q, l, st) ==
  /\ l = <<"connected">> => Answered(q, 0, st)
  /\ \A i \in 1 .. Len(q) : q[i] = "connected" => Answered(q, i, st)

SignalsInOrder ==
  /\ home \in Owners /\ closures \in [Owners -> Closures] /\ last \in LastSignals
  /\ closures[1 - home] = <<>>
  /\ Local => closures[home] \in Seq(Operations)
  /\ Ordered(closures[home], last, sock.state)

Inv ==
  /\ dialled \in Nat /\ Settled(sock) /\ sock.out = <<>>
  /\ ReadyIsKnown /\ SignalsInOrder
=============================================================================
