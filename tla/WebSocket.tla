----------------------------- MODULE WebSocket -----------------------------
(***************************************************************************)
(* lib/WebSocket, native build: a WebSocket client (WebSocketImplNative in *)
(* client mode), a WebSocketServer, and the server-side WebSockets it      *)
(* creates, joined by TCP connections.  Both ends run the same handlers,   *)
(* written here as functions from the backend's members to their next      *)
(* values.                                                                 *)
(*                                                                         *)
(* A TcpSocket is used by its contract (module StreamSocket): what is      *)
(* written goes out in order, as far as there is room for it, readyRead    *)
(* hands over everything that has arrived, close() and the end of the      *)
(* stream discard what has not been read or has not gone out, and post     *)
(* `disconnected'.  What travels is a sequence of items: the upgrade       *)
(* request, the response, frames, and "fin" when the other end has closed. *)
(* Module WebSocketFrame is about the bytes of a frame.                    *)
(*                                                                         *)
(* Foreign = TRUE replaces the client by a program that is not this        *)
(* library and sends requests and frames of any kind.  TakeInSlot = TRUE:  *)
(* the application takes the new WebSocket, and connects its slots, in its *)
(* newConnection slot; otherwise at any later time.                        *)
(***************************************************************************)
EXTENDS Naturals, Sequences, SequencesExt

CONSTANTS Foreign, TakeInSlot,
          MaxConns,    \* connectToHost() calls
          MaxMsgs,     \* sendTextMessage()/sendBinaryMessage() per end
          MaxItems,    \* items a foreign client sends
          MaxQueue     \* bound: items that wait for room

Conns == 1..MaxConns
Client == 0
Ends == {Client} \cup Conns   \* the server-side WebSocket of connection c is c

VARIABLES ws,       \* the WebSocketImplNative of every end
          toServer, toClient,  \* the items under way on every connection
          cur,      \* the client's connection; 0 before the first
          upgrade,  \* what the server has made of every connection
          queued,   \* m_pendingConnections
          listening, sent

webSocketVars == <<ws, toServer, toClient, cur, upgrade, queued, listening, sent>>

FrameKinds == {"Text", "Binary", "Continuation", "Ping", "Pong", "Close"}
Frame(op, n, masked, fin) == [op |-> op, n |-> n, masked |-> masked, fin |-> fin]
Fin == [op |-> "fin", n |-> 0, masked |-> FALSE, fin |-> TRUE]
Request(key) == [op |-> "request", n |-> key, masked |-> FALSE, fin |-> TRUE]
Response(key) == [op |-> "response", n |-> key, masked |-> FALSE, fin |-> TRUE]

Fresh == [st |-> "Closed", client |-> TRUE, hs |-> FALSE, closeSent |-> FALSE,
          frag |-> <<>>,      \* m_fragmentOpcode # Continuation and m_fragmentPayload
          tcp |-> "none",     \* none, connecting, connected or closed
          posted |-> FALSE,   \* `disconnected' has been posted by the socket
          queue |-> <<>>,     \* m_writeQueue of the socket
          slots |-> TRUE,     \* somebody is connected to the signals
          out |-> <<>>, got |-> <<>>, failed |-> FALSE]

Init == /\ ws = [e \in Ends |-> Fresh]
        /\ toServer = [c \in Conns |-> <<>>] /\ toClient = [c \in Conns |-> <<>>]
        /\ cur = 0 /\ queued = <<>> /\ listening = TRUE
        /\ upgrade = [c \in Conns |-> "none"]
        /\ sent = [e \in Ends |-> <<>>]

----------------------------------------------------------------------------
(* The handlers of one backend                                             *)

\* TcpSocket::close(): "fin" follows what has gone out.
CloseSocket(w) ==
    IF w.tcp \notin {"connecting", "connected"} THEN w
    ELSE [w EXCEPT !.tcp = "closed", !.posted = TRUE, !.out = Append(@, Fin)]

Fail(w) == CloseSocket([w EXCEPT !.st = "Error", !.failed = TRUE])

SendFrame_AnyState(w, op, n, requireOpen) ==
    IF w.tcp # "connected" THEN w
    ELSE [w EXCEPT !.out = Append(@, Frame(op, n, w.client, TRUE))]

SendFrame(w, op, n, requireOpen) ==
    IF w.tcp # "connected" \/ (requireOpen /\ w.st # "Open") THEN w
    ELSE [w EXCEPT !.out = Append(@, Frame(op, n, w.client, TRUE))]

Received(w, payload) == IF w.slots THEN [w EXCEPT !.got = Append(@, payload)] ELSE w

\* A Close frame is answered with one, unless ours is already out, and ends
\* the connection.
ClosedByPeer_NoEcho(w, f) == [w EXCEPT !.st = "Closing"]

ClosedByPeer(w, f) ==
    LET e == IF w.closeSent THEN w
             ELSE [SendFrame(w, "Close", f.n, FALSE) EXCEPT !.closeSent = TRUE]
    IN  CloseSocket([e EXCEPT !.st = "Closing"])

ProcessFrame(w, f) ==
    IF f.masked = w.client THEN Fail(w) ELSE
    CASE f.op \in {"Text", "Binary"} /\ f.fin -> Received(w, <<f.n>>)
      [] f.op \in {"Text", "Binary"} /\ ~f.fin -> [w EXCEPT !.frag = <<f.n>>]
      [] f.op = "Continuation" /\ w.frag = <<>> -> Fail(w)
      [] f.op = "Continuation" /\ w.frag # <<>> /\ ~f.fin -> [w EXCEPT !.frag = Append(@, f.n)]
      [] f.op = "Continuation" /\ w.frag # <<>> /\ f.fin ->
            Received([w EXCEPT !.frag = <<>>], Append(w.frag, f.n))
      [] f.op = "Ping" -> SendFrame(w, "Pong", f.n, TRUE)
      [] f.op = "Pong" -> w
      [] f.op = "Close" -> ClosedByPeer(w, f)

\* An error of the parser comes before all the frames of the same read.
ParserRejects(f) ==
    f.op \notin FrameKinds \/ (f.op \in {"Ping", "Pong", "Close"} /\ ~f.fin)

ProcessFrameBytes(w, items) ==
    IF \E f \in Range(items) : ParserRejects(f) THEN Fail(w)
    ELSE FoldLeft(LAMBDA v, f : IF v.st \in {"Error", "Closed"} THEN v ELSE ProcessFrame(v, f),
                  w, items)

ValidateServerHandshakeResponse(item, key) == item.op = "response" /\ item.n = key

\* The response, and the frames that arrived behind it in the same read.
ProcessHandshakeBytes(w, key, items) ==
    IF ~ValidateServerHandshakeResponse(items[1], key) THEN Fail(w)
    ELSE ProcessFrameBytes([w EXCEPT !.hs = TRUE, !.st = "Open"], Tail(items))

HandleTcpReadyRead(w, key, items) ==
    IF ~w.hs THEN ProcessHandshakeBytes(w, key, items) ELSE ProcessFrameBytes(w, items)

HandleTcpDisconnected(w) ==
    IF w.st = "Connecting" /\ ~w.hs THEN [w EXCEPT !.st = "Error", !.failed = TRUE]
    ELSE [w EXCEPT !.st = "Closed"]

\* close(): the first call starts the close handshake, the second one ends it.
CloseWebSocket(w) ==
    IF w.st = "Open" /\ w.tcp # "none" /\ ~w.closeSent
    THEN [SendFrame(w, "Close", 0, FALSE) EXCEPT !.closeSent = TRUE, !.st = "Closing"]
    ELSE CloseSocket(w)

BeginServerConnection(w) ==
    [w EXCEPT !.client = FALSE, !.hs = TRUE, !.closeSent = FALSE, !.st = "Open"]

----------------------------------------------------------------------------
(* Effects: the next members of end e, and what it has written             *)

ConnOf(e) == IF e = Client THEN cur ELSE e

\* flushPendingWrites(): some of what is waiting goes out, and the rest waits on
\* unless the socket was closed.
FlushPendingWrites(w) ==
    LET closes == Fin \in Range(w.out)
        waiting == w.queue \o SelectSeq(w.out, LAMBDA f : f # Fin)
    IN  {[gone |-> SubSeq(waiting, 1, n) \o (IF closes THEN <<Fin>> ELSE <<>>),
          rest |-> IF closes THEN <<>> ELSE SubSeq(waiting, n + 1, Len(waiting))]
            : n \in {k \in 0..Len(waiting) : closes \/ Len(waiting) - k <= MaxQueue}}

\* What is sent to an end that has closed its socket, or would be, is lost, and
\* so is what it had not read (in: the items e leaves unread).
Step(e, w, in) ==
    LET c == ConnOf(e)
        unread == IF w.tcp = "closed" THEN <<>> ELSE in
        lost == c # cur \/ ws[IF e = Client THEN c ELSE Client].tcp = "closed"
    IN  \E flushed \in (IF lost THEN {[gone |-> <<>>, rest |-> <<>>]} ELSE FlushPendingWrites(w)) :
          /\ ws' = [ws EXCEPT ![e] = [w EXCEPT !.out = <<>>, !.queue = flushed.rest]]
          /\ IF e = Client
             THEN /\ toServer' = [toServer EXCEPT ![c] = @ \o flushed.gone]
                  /\ toClient' = [toClient EXCEPT ![c] = unread]
             ELSE /\ toClient' = [toClient EXCEPT ![c] = IF c = cur THEN @ \o flushed.gone ELSE <<>>]
                  /\ toServer' = [toServer EXCEPT ![c] = unread]

Incoming(e) == IF e = Client THEN toClient[cur] ELSE toServer[e]

----------------------------------------------------------------------------
(* The client                                                              *)

\* connectToHost(): close(), a new TcpSocket in place of the old one (whose
\* destructor closes it and drops what it had posted), all members reset.  What
\* the old connection carried is forgotten, and what the server still had to send.
ConnectToHost ==
    /\ ~Foreign /\ cur < MaxConns
    /\ \E flushed \in FlushPendingWrites(CloseSocket(CloseWebSocket(ws[Client]))) :
           /\ toServer' = [c \in Conns |-> IF c = cur THEN toServer[c] \o flushed.gone ELSE toServer[c]]
           /\ toClient' = [c \in Conns |-> IF c = cur THEN <<>> ELSE toClient[c]]
    /\ cur' = cur + 1
    /\ ws' = [e \in Ends |->
                IF e = Client THEN [Fresh EXCEPT !.st = "Connecting", !.tcp = "connecting"]
                ELSE IF e = cur THEN [ws[e] EXCEPT !.queue = <<>>, !.got = <<>>] ELSE ws[e]]
    /\ sent' = [e \in Ends |-> <<>>]
    /\ UNCHANGED <<upgrade, queued, listening>>

\* connectToHost() with a wildcard address: close(), then fail().
ConnectToWildcard ==
    /\ ~Foreign /\ cur > 0
    /\ Step(Client, Fail(CloseWebSocket(ws[Client])), toClient[cur])
    /\ UNCHANGED <<cur, upgrade, queued, listening, sent>>

\* The TCP connection is refused: errorOccurred of the socket.
ConnectFails ==
    /\ ws[Client].tcp = "connecting" /\ ~listening
    /\ ws' = [ws EXCEPT ![Client] = [Fail([@ EXCEPT !.tcp = "none"]) EXCEPT !.out = <<>>]]
    /\ UNCHANGED <<toServer, toClient, cur, upgrade, queued, listening, sent>>

\* handleTcpConnected(): the upgrade request, for which an empty socket has room;
\* and TcpServer has accepted.
TcpConnected ==
    /\ ws[Client].tcp = "connecting" /\ listening
    /\ ws' = [ws EXCEPT ![Client].tcp = "connected", ![cur].tcp = "connected"]
    /\ toServer' = [toServer EXCEPT ![cur] = Append(@, Request(cur))]
    /\ upgrade' = [upgrade EXCEPT ![cur] = "pending"]
    /\ UNCHANGED <<toClient, cur, queued, listening, sent>>

\* A client that is not this library: any request, any frame.
ForeignSends ==
    /\ Foreign /\ listening
    /\ cur' = 1
    /\ upgrade' = IF cur = 0 THEN [upgrade EXCEPT ![1] = "pending"] ELSE upgrade
    /\ ws' = IF cur = 0 THEN [ws EXCEPT ![1].tcp = "connected"] ELSE ws
    /\ ws[1].tcp # "closed"
    /\ Len(sent[Client]) < MaxItems
    /\ \E item \in {Request(1), Response(1), Fin}
                   \cup [op : FrameKinds, n : {1}, masked : BOOLEAN, fin : BOOLEAN] :
          /\ toServer' = [toServer EXCEPT ![1] = Append(@, item)]
          /\ sent' = [sent EXCEPT ![Client] = Append(@, item)]
    /\ UNCHANGED <<toClient, queued, listening>>

----------------------------------------------------------------------------
(* Both ends                                                               *)

\* readyRead, or the end of the stream, at an end that is a WebSocket.
ReadyRead(e) ==
    /\ ws[e].tcp = "connected" /\ (e # Client => upgrade[e] = "open")
    /\ LET in == Incoming(e)
       IN  \E n \in 1..Len(in) :
             LET items == SubSeq(in, 1, n)
                 \* applyDisconnectedState() clears what was read before the end
                 w == IF Fin \in Range(items) THEN CloseSocket(ws[e])
                      ELSE HandleTcpReadyRead(ws[e], ConnOf(e), items)
             IN  Step(e, w, SubSeq(in, n + 1, Len(in)))
    /\ UNCHANGED <<cur, upgrade, queued, listening, sent>>

\* handleWritable(): there is room again.
Writable(e) ==
    /\ ws[e].tcp = "connected" /\ ws[e].queue # <<>>
    /\ Step(e, ws[e], Incoming(e))
    /\ UNCHANGED <<cur, upgrade, queued, listening, sent>>

\* The posted `disconnected' of the end's socket.
Disconnected(e) ==
    /\ ws[e].posted /\ (e # Client => upgrade[e] = "open")
    /\ ws' = [ws EXCEPT ![e] = [HandleTcpDisconnected(@) EXCEPT !.posted = FALSE]]
    /\ UNCHANGED <<toServer, toClient, cur, upgrade, queued, listening, sent>>

InUse(e) == IF e = Client THEN cur > 0 /\ ~Foreign ELSE e = cur /\ upgrade[e] = "open" /\ ws[e].slots

SendMessage(e) ==
    /\ InUse(e) /\ Len(sent[e]) < MaxMsgs
    /\ LET n == Len(sent[e]) + 1
           w == SendFrame(ws[e], "Text", n, TRUE)
       IN  /\ w # ws[e]
           /\ Step(e, w, Incoming(e))
           /\ sent' = [sent EXCEPT ![e] = Append(@, <<n>>)]
    /\ UNCHANGED <<cur, upgrade, queued, listening>>

\* ping(): a payload over 125 bytes is an error that ends the connection.
Ping(e) ==
    /\ InUse(e)
    /\ \E tooLong \in BOOLEAN :
          LET w == IF tooLong THEN Fail(ws[e]) ELSE SendFrame(ws[e], "Ping", 0, TRUE)
          IN  \* bound: one at a time
              /\ toServer[ConnOf(e)] \o toClient[ConnOf(e)] \o ws[Client].queue \o ws[ConnOf(e)].queue = <<>>
              /\ Step(e, w, Incoming(e))
    /\ UNCHANGED <<cur, upgrade, queued, listening, sent>>

Close(e) ==
    /\ InUse(e)
    /\ Step(e, CloseWebSocket(ws[e]), Incoming(e))
    /\ UNCHANGED <<cur, upgrade, queued, listening, sent>>

----------------------------------------------------------------------------
(* WebSocketServer                                                         *)

ValidateClientHandshakeRequest(item) == item.op = "request"

\* deletePendingSocketLater() and removePending().
DropPending(c) ==
    /\ ws' = [ws EXCEPT ![c] = [Fresh EXCEPT !.tcp = "closed"]]
    /\ upgrade' = [upgrade EXCEPT ![c] = "dropped"]
    /\ toServer' = [toServer EXCEPT ![c] = <<>>]
    /\ toClient' = [toClient EXCEPT ![c] = Append(@, Fin)]

\* handlePendingReadyRead(): everything behind the request in the same read
\* is dropped with the upgrade's buffer.
PendingReadyRead(c) ==
    /\ upgrade[c] = "pending" /\ toServer[c] # <<>>
    /\ \E n \in 1..Len(toServer[c]) :
          /\ Fin \notin Range(SubSeq(toServer[c], 1, n))
          /\ IF ValidateClientHandshakeRequest(toServer[c][1])
             THEN /\ ws' = [ws EXCEPT ![c] = [BeginServerConnection(@) EXCEPT !.slots = TakeInSlot]]
                  /\ toServer' = [toServer EXCEPT ![c] = SubSeq(@, n + 1, Len(@))]
                  /\ toClient' = [toClient EXCEPT ![c] = Append(@, Response(toServer[c][1].n))]
                  /\ upgrade' = [upgrade EXCEPT ![c] = "open"]
                  /\ queued' = IF TakeInSlot THEN queued ELSE Append(queued, c)
             ELSE DropPending(c) /\ UNCHANGED queued
    /\ UNCHANGED <<cur, listening, sent>>

\* handlePendingDisconnected(): the client has gone before its request.
PendingDisconnected(c) ==
    /\ upgrade[c] = "pending" /\ Fin \in Range(toServer[c])
    /\ DropPending(c)
    /\ UNCHANGED <<cur, queued, listening, sent>>

NextPendingConnection ==
    /\ queued # <<>>
    /\ ws' = [ws EXCEPT ![Head(queued)].slots = TRUE]
    /\ queued' = Tail(queued)
    /\ UNCHANGED <<toServer, toClient, cur, upgrade, listening, sent>>

\* close(): the listening socket, the pending upgrades and the connections
\* nobody has taken, which are deleted after their close().
CloseServer ==
    /\ listening /\ listening' = FALSE
    /\ LET dropped == {c \in Conns : upgrade[c] = "pending"}
           deleted == Range(queued)
           last == [c \in deleted |-> FlushPendingWrites(CloseSocket(CloseWebSocket(ws[c])))]
       IN  \E flushed \in [deleted -> UNION Range(last)] :
           /\ \A c \in deleted : flushed[c] \in last[c]
           /\ upgrade' = [c \in Conns |-> IF c \in dropped \cup deleted THEN "dropped" ELSE upgrade[c]]
           /\ toClient' = [c \in Conns |-> IF c \in dropped THEN Append(toClient[c], Fin)
                             ELSE IF c \in deleted THEN toClient[c] \o flushed[c].gone ELSE toClient[c]]
           /\ toServer' = [c \in Conns |-> IF c \in dropped \cup deleted THEN <<>> ELSE toServer[c]]
           /\ ws' = [e \in Ends |-> IF e \in dropped \cup deleted
                                    THEN [Fresh EXCEPT !.tcp = "closed"] ELSE ws[e]]
    /\ queued' = <<>>
    /\ UNCHANGED <<cur, sent>>

Next == \/ ConnectToHost \/ ConnectToWildcard \/ ConnectFails \/ TcpConnected \/ ForeignSends
        \/ NextPendingConnection \/ CloseServer
        \/ \E e \in Ends : ReadyRead(e) \/ Writable(e) \/ Disconnected(e) \/ SendMessage(e) \/ Ping(e) \/ Close(e)
        \/ \E c \in Conns : PendingReadyRead(c) \/ PendingDisconnected(c)

Spec == Init /\ [][Next]_webSocketVars

----------------------------------------------------------------------------
(* Properties                                                              *)

Messages(items) ==
    LET frames == SelectSeq(items, LAMBDA f : f.op \in {"Text", "Binary"})
    IN  [i \in DOMAIN frames |-> <<frames[i].n>>]

\* While the two ends of a connection are up, every message one end's
\* sendTextMessage() accepted has reached the other end's signal, is under way
\* or waits in the socket's write queue, in order and once: nothing is lost
\* between the handshake and the first frames
\* (WebSocketServer::handlePendingReadyRead drops what follows the request) or
\* when there is no room (TcpSocket::flushPendingWrites), and none of the
\* handlers sees a frame it must reject.
NothingLost ==
    ~Foreign /\ cur > 0 /\ ws[Client].tcp = "connected" /\ ws[cur].tcp = "connected" =>
      /\ ws[cur].got \o Messages(toServer[cur] \o ws[Client].queue) = sent[Client]
      /\ ws[Client].got \o Messages(toClient[cur] \o ws[cur].queue) = sent[cur]
      /\ upgrade[cur] = "open" => ~ws[cur].failed

HasClose(items) == \E i \in DOMAIN items : items[i].op \in {"Close", "fin"}

\* An end that waits in Closing with its TCP connection open is waiting for
\* something: its Close frame is still to be sent or on its way to the peer, or
\* the peer's answer, or at least the end of its stream, is on its way back.
\* Otherwise nothing but the destructor would end the connection
\* (WebSocketImplNative::close, processFrame).
ClosingIsAnswered ==
    \A e \in Ends : ws[e].st = "Closing" /\ ws[e].tcp = "connected" /\ ~Foreign =>
        HasClose(ws[e].queue) \/ HasClose(toServer[ConnOf(e)]) \/ HasClose(toClient[ConnOf(e)])
=============================================================================
