----------------------------- MODULE HttpServer -----------------------------
(***************************************************************************)
(* lib/HttpServer: HttpRequestParser, fed in pieces, and HttpServer, which *)
(* answers the first complete request of a connection and closes it once   *)
(* bytesWritten has confirmed the whole response.                          *)
(*                                                                         *)
(* A request is a sequence of tokens: a line of the request up to its CRLF *)
(* (the request line, a header, the empty line that ends the headers, a    *)
(* chunk size), one body byte "b", or the CRLF behind a chunk.  The empty  *)
(* line is named for the body the headers announce: end0 none, endL a      *)
(* Content-Length, endC chunks.  readyRead hands over any number of them:  *)
(* a read that ends inside a line is one that ends before it, because the  *)
(* parser leaves a line in its buffer until the CRLF is there.  A body     *)
(* byte is no hexadecimal digit.                                           *)
(***************************************************************************)
EXTENDS Naturals, Sequences, SequencesExt

CONSTANTS Conns,
          Requests,       \* what a client may send
          MaxRequests,    \* requests of a client on its connection
          ContentLength,  \* body bytes of an endL request
          ResponseSize    \* bytes of a response

VARIABLES sock,     \* the TcpSocket of every connection
          states,   \* _socketStates: connection -> SocketState
          client,   \* what every client has sent, and what was made of it
          posted,   \* the signals every socket has posted, in order
          serving   \* the listening TcpServer
httpVars == <<sock, states, client, posted, serving>>

NewParser == [st |-> "RequestLine", buf |-> <<>>, body |-> 0, chunked |-> FALSE]
SocketState == [parser |-> NewParser, pendingClose |-> FALSE, totalToSend |-> 0, totalSent |-> 0]

Init == /\ sock = [c \in Conns |-> [st |-> "none", read |-> <<>>, unsent |-> 0]]
        /\ states = [c \in Conns |-> <<>>]     \* <<>>: not a key of the map
        /\ client = [c \in Conns |-> [wire |-> <<>>, requests |-> <<>>, parsed |-> <<>>, cut |-> FALSE]]
        /\ posted = [c \in Conns |-> <<>>]
        /\ serving = FALSE

----------------------------------------------------------------------------
(* HttpRequestParser                                                       *)

ParseRequestLine(p) ==
    IF p.buf = <<>> THEN p
    ELSE [p EXCEPT !.st = IF Head(p.buf) = "line" THEN "Headers" ELSE "Error", !.buf = Tail(@)]

\* All header lines there are, up to the empty one, which says what follows.
ParseHeaders(p) ==
    LET end == {i \in DOMAIN p.buf : p.buf[i] # "header"}
        i == CHOOSE i \in end : \A j \in end : i <= j
        rest == SubSeq(p.buf, i + 1, Len(p.buf))
    IN  IF end = {} THEN [p EXCEPT !.buf = <<>>]
        ELSE CASE p.buf[i] = "end0" -> [p EXCEPT !.st = "Complete", !.buf = rest]
               [] p.buf[i] = "endL" -> [p EXCEPT !.st = "Body", !.buf = rest]
               [] p.buf[i] = "endC" -> [p EXCEPT !.st = "Body", !.buf = rest, !.chunked = TRUE]
               [] OTHER -> [p EXCEPT !.st = "Error", !.buf = rest]

ParseLength(p) ==
    LET needed == ContentLength - p.body
    IN  IF Len(p.buf) >= needed
        THEN [p EXCEPT !.st = "Complete", !.body = ContentLength, !.buf = SubSeq(@, needed + 1, Len(@))]
        ELSE [p EXCEPT !.body = @ + Len(p.buf), !.buf = <<>>]

\* One turn of the chunk loop.  The size line is erased before the code knows
\* whether the chunk has arrived: the next call takes what follows, up to the
\* CRLF behind the chunk, for a size.
NoLine(buf) == \A i \in DOMAIN buf : buf[i] = "b"

ChunkTurn(p) ==
    IF p.st # "Body" \/ NoLine(p.buf) THEN p
    ELSE CASE Head(p.buf) = "size0" -> [p EXCEPT !.st = "Complete", !.buf = Tail(@)]
           [] Head(p.buf) = "size1" /\ Len(p.buf) >= 3 ->
                 [p EXCEPT !.body = @ + 1, !.buf = SubSeq(@, 4, Len(@))]
           [] Head(p.buf) = "size1" /\ Len(p.buf) < 3 -> [p EXCEPT !.buf = Tail(@)]
           [] OTHER -> [p EXCEPT !.st = "Error", !.buf = Tail(@)]

\* The loop stops after a size line whose chunk is incomplete.
ParseChunks(p) ==
    FoldLeft(LAMBDA q, i : IF q.buf # <<>> /\ Head(q.buf) = "size1" /\ Len(q.buf) < 3
                           THEN [ChunkTurn(q) EXCEPT !.st = "Waiting"] ELSE ChunkTurn(q),
             p, [i \in 1..Len(p.buf) |-> i])

Feed(p0, data) ==
    LET p == [p0 EXCEPT !.buf = @ \o data]
        afterLine == IF p.st = "RequestLine" THEN ParseRequestLine(p) ELSE p
        afterHeaders == IF afterLine.st = "Headers" THEN ParseHeaders(afterLine) ELSE afterLine
        afterBody == IF afterHeaders.st # "Body" THEN afterHeaders
                     ELSE IF afterHeaders.chunked THEN ParseChunks(afterHeaders)
                     ELSE ParseLength(afterHeaders)
    IN  IF p0.st = "Error" THEN p0
        ELSE IF afterBody.st = "Waiting" THEN [afterBody EXCEPT !.st = "Body"] ELSE afterBody

----------------------------------------------------------------------------
(* The sockets                                                             *)

\* TcpSocket::close() posts `disconnected', _closeSocket() forgets the socket
\* and marks it for deletion: what it has posted is no longer delivered.
CloseSocket(c) ==
    /\ sock' = [sock EXCEPT ![c] = [st |-> "closed", read |-> <<>>, unsent |-> 0]]
    /\ states' = [states EXCEPT ![c] = <<>>]
    /\ posted' = [posted EXCEPT ![c] = <<>>]

OnNewConnection(c) ==
    /\ serving /\ sock[c].st = "none"
    /\ sock' = [sock EXCEPT ![c].st = "connected"]
    /\ states' = [states EXCEPT ![c] = <<SocketState>>]
    /\ UNCHANGED <<client, posted, serving>>

\* TcpSocket: bytes arrive, readyRead is posted.
Arrives(c) ==
    /\ sock[c].st = "connected" /\ client[c].wire # <<>>
    /\ \E n \in 1..Len(client[c].wire) :
          LET data == SubSeq(client[c].wire, 1, n)
          IN  /\ client' = [client EXCEPT ![c].wire = SubSeq(@, n + 1, Len(@))]
              /\ sock' = [sock EXCEPT ![c].read = @ \o data]
              /\ posted' = [posted EXCEPT ![c] = Append(@, <<"readyRead", 0>>)]
    /\ UNCHANGED <<states, serving>>

\* flushPendingWrites(): the kernel takes some of the bytes.
Flush(c) ==
    /\ sock[c].st = "connected" /\ sock[c].unsent > 0
    /\ \E n \in 1..sock[c].unsent :
          /\ sock' = [sock EXCEPT ![c].unsent = @ - n]
          /\ posted' = [posted EXCEPT ![c] = Append(@, <<"bytesWritten", n>>)]
    /\ UNCHANGED <<states, client, serving>>

\* The client closes, or the connection breaks.
Ends(c) ==
    /\ sock[c].st = "connected"
    /\ \E what \in {"disconnected", "error"} :
          /\ sock' = [sock EXCEPT ![c] = [st |-> "closed", read |-> <<>>, unsent |-> 0]]
          /\ posted' = [posted EXCEPT ![c] = Append(@, <<what, 0>>)]
    /\ UNCHANGED <<states, client, serving>>

ClientSends(c) ==
    /\ sock[c].st \in {"none", "connected"}
    /\ Len(client[c].requests) < MaxRequests
    /\ \E r \in Requests :
          client' = [client EXCEPT ![c].wire = @ \o r, ![c].requests = Append(@, r)]
    /\ UNCHANGED <<sock, states, posted, serving>>

----------------------------------------------------------------------------
(* HttpServer's slots                                                      *)

\* The response of a route handler, a static file, 404, 500 or 400; its bytes
\* are counted from zero, and written.
Respond(c, parser) ==
    /\ states' = [states EXCEPT ![c] = <<[parser |-> parser, pendingClose |-> TRUE,
                                          totalToSend |-> ResponseSize, totalSent |-> 0]>>]
    /\ sock' = [sock EXCEPT ![c].read = <<>>, ![c].unsent = IF sock[c].st = "connected"
                                                            THEN @ + ResponseSize ELSE @]

\* The reads end between the size line of a chunk and the CRLF behind it.
CutsChunk(read) == \/ Last(read) = "size1"
                   \/ Last(read) = "b" /\ Len(read) > 1 /\ read[Len(read) - 1] = "size1"

OnSocketReadyRead(c) ==
    /\ posted[c] # <<>> /\ Head(posted[c])[1] = "readyRead"
    /\ posted' = [posted EXCEPT ![c] = Tail(@)]
    /\ IF sock[c].read = <<>> \/ states[c] = <<>>
       THEN /\ sock' = [sock EXCEPT ![c].read = <<>>] /\ UNCHANGED <<states, client>>
       ELSE LET p == Feed(states[c][1].parser, sock[c].read)
                cut == client[c].cut \/ CutsChunk(sock[c].read)
            IN  CASE p.st = "Complete" ->
                       /\ Respond(c, NewParser)
                       /\ client' = [client EXCEPT ![c].parsed = Append(@, <<"request", p.body>>),
                                                  ![c].cut = cut]
                  [] p.st = "Error" ->
                       /\ Respond(c, p)
                       /\ client' = [client EXCEPT ![c].parsed = Append(@, <<"bad", 0>>),
                                                  ![c].cut = cut]
                  [] OTHER ->
                       /\ states' = [states EXCEPT ![c][1].parser = p]
                       /\ sock' = [sock EXCEPT ![c].read = <<>>]
                       /\ client' = [client EXCEPT ![c].cut = cut]
    /\ UNCHANGED serving

\* The response is out when bytesWritten has added up to it.
Confirmed_AnyBytes(s, n) == TRUE
Confirmed(s, n) == s.totalSent + n >= s.totalToSend

OnBytesWritten(c) ==
    /\ posted[c] # <<>> /\ Head(posted[c])[1] = "bytesWritten"
    /\ LET n == Head(posted[c])[2]
       IN  IF states[c] # <<>> /\ states[c][1].pendingClose /\ Confirmed(states[c][1], n)
           THEN CloseSocket(c)
           ELSE /\ posted' = [posted EXCEPT ![c] = Tail(@)]
                /\ states' = IF states[c] = <<>> THEN states
                             ELSE [states EXCEPT ![c][1].totalSent = @ + n]
                /\ UNCHANGED sock
    /\ UNCHANGED <<client, serving>>

OnDisconnectedOrError(c) ==
    /\ posted[c] # <<>> /\ Head(posted[c])[1] \in {"disconnected", "error"}
    /\ CloseSocket(c)
    /\ UNCHANGED <<client, serving>>

\* listen(): every call connects the slots of the listening socket once more; a
\* second _onNewConnection() finds no pending connection.
Listen ==
    /\ ~serving /\ serving' \in BOOLEAN
    /\ UNCHANGED <<sock, states, client, posted>>

\* close(): the listening socket and the connections not accepted yet.
Close ==
    /\ serving /\ serving' = FALSE
    /\ UNCHANGED <<sock, states, client, posted>>

Next == \/ Listen \/ Close
        \/ \E c \in Conns : \/ OnNewConnection(c) \/ Arrives(c) \/ Flush(c) \/ Ends(c) \/ ClientSends(c)
                            \/ OnSocketReadyRead(c) \/ OnBytesWritten(c) \/ OnDisconnectedOrError(c)
Spec == Init /\ [][Next]_httpVars

----------------------------------------------------------------------------
(* Properties                                                              *)

\* What a request means, however it arrives.
Meaning(r) ==
    IF \E i \in DOMAIN r : r[i] \in {"badline", "badheader", "badsize"} THEN <<"bad", 0>>
    ELSE <<"request", Len(SelectSeq(r, LAMBDA t : t = "b"))>>

\* Whatever the reads cut a request line, the headers or a body of known length
\* into, the server understands the first request of a connection: its body, or
\* that it is malformed.  Of a request with chunks it does so as long as no read ends
\* inside a chunk: of one that does the size line is lost, and nothing is
\* said.  A socket it has forgotten is closed
\* (HttpRequestParser::feed and _parseBody, HttpServer::_closeSocket).
RequestsUnderstood ==
    \A c \in Conns :
      /\ client[c].cut \/ client[c].parsed = <<>>
            \/ Head(client[c].parsed) = Meaning(Head(client[c].requests))
      /\ states[c] = <<>> /\ sock[c].st # "none" => sock[c].st = "closed"

\* The server ends a connection only when the socket has taken the last byte
\* of its responses: a response larger than the kernel's buffer is not cut
\* short.  It holds of a connection that was answered once: what arrives after
\* that, a second request or the rest of a malformed one, is answered as well
\* and resets the count of the bytes confirmed
\* (the bytesWritten slot of HttpServer::_onNewConnection).
ResponseFlushed ==
    \A c \in Conns : /\ sock[c].st = "connected" /\ sock'[c].st = "closed" /\ states'[c] = <<>>
                      /\ Len(client[c].parsed) = 1
                      => sock[c].unsent = 0
ResponsesFlushed == [][ResponseFlushed]_httpVars

\* The header promises of close(): "Stops the server and closes all connections."
CloseEndsThem == serving /\ ~serving' => \A c \in Conns : sock'[c].st # "connected"
CloseEndsConnections == [][CloseEndsThem]_httpVars
=============================================================================
