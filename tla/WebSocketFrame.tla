--------------------------- MODULE WebSocketFrame ---------------------------
(***************************************************************************)
(* WebSocketFrame.cpp: encodeFrame() and the incremental                   *)
(* WebSocketFrameParser.  A frame is its header fields and the number of   *)
(* its payload bytes; the bytes themselves (and their masking) are not     *)
(* modelled.  The sender writes frames one after the other, the parser is  *)
(* fed in chunks of any size around every boundary of the header, and sees *)
(* of a frame only what the bytes it has been given let it read.           *)
(***************************************************************************)
EXTENDS Integers, Sequences, FiniteSets

CONSTANTS Lengths,    \* payload lengths
          MaxFrames   \* frames written

VARIABLES stream,    \* the frames written, as encoded
          fed,       \* bytes given to feed() since the last complete frame
          parsed,    \* m_frames, with those nextFrame() has handed out
          failed     \* m_error
frameVars == <<stream, fed, parsed, failed>>

Init == stream = <<>> /\ fed = 0 /\ parsed = <<>> /\ failed = FALSE

OpCodes == {"Continuation", "Text", "Binary", "Close", "Ping", "Pong"}
IsControlOpcode(op) == op \in {"Close", "Ping", "Pong"}

\* encodeFrame(): the length goes into 7, 16 or 64 bits, whichever is enough.
EncodeFrame_63k(op, n, masked) ==
    [op |-> op, fin |-> TRUE, rsv |-> FALSE, masked |-> masked,
     len7 |-> IF n <= 125 THEN n ELSE IF n < 65535 THEN 126 ELSE 127, ext |-> n]

EncodeFrame(op, n, masked) ==
    [op |-> op, fin |-> TRUE, rsv |-> FALSE, masked |-> masked,
     len7 |-> IF n <= 125 THEN n ELSE IF n <= 65535 THEN 126 ELSE 127, ext |-> n]

\* Bytes of an encoded frame.
ExtSize(f) == CASE f.len7 = 126 -> 2 [] f.len7 = 127 -> 8 [] OTHER -> 0
EncodedSize(f) == 2 + ExtSize(f) + (IF f.masked THEN 4 ELSE 0) + f.ext

\* tryParseOne() on a buffer of `size' bytes that starts with frame f: "more"
\* (false), "error", or the payload length of the complete frame.
TryParseOne_NoMaskWait(f, size) ==
    LET offset == 2 + ExtSize(f)
        payload == IF f.len7 < 126 THEN f.len7 ELSE f.ext
    IN  IF size < offset + payload THEN [r |-> "more"]
        ELSE [r |-> "frame", n |-> payload, used |-> offset + payload]

TryParseOne(f, size) ==
    LET offset == 2 + ExtSize(f)
        payload == IF f.len7 < 126 THEN f.len7 ELSE f.ext
        header == offset + (IF f.masked THEN 4 ELSE 0)
        nonMinimal == \/ f.len7 = 126 /\ f.ext < 126
                      \/ f.len7 = 127 /\ f.ext <= 65535
    IN  IF size < 2 THEN [r |-> "more"]
        ELSE IF f.rsv \/ f.op \notin OpCodes THEN [r |-> "error"]
        ELSE IF size < offset THEN [r |-> "more"]
        ELSE IF nonMinimal THEN [r |-> "error"]
        ELSE IF IsControlOpcode(f.op) /\ (~f.fin \/ payload > 125) THEN [r |-> "error"]
        ELSE IF size < header + payload THEN [r |-> "more"]
        ELSE [r |-> "frame", n |-> payload, used |-> header + payload]

\* The frame the parser is at.
Current == stream[Len(parsed) + 1]

\* feed(): append, then parse until no frame is complete.  k bytes arrive;
\* chunks that span frames are fed up to the end of the frame, and on.
Feed(k) ==
    /\ ~failed /\ Len(parsed) < Len(stream) /\ fed + k <= EncodedSize(Current)
    /\ LET res == TryParseOne(Current, fed + k)
       IN  /\ fed' = IF res.r = "frame" THEN fed + k - res.used ELSE fed + k
           /\ parsed' = IF res.r = "frame" THEN Append(parsed, res.n) ELSE parsed
           /\ failed' = (res.r = "error")
    /\ UNCHANGED stream

\* The peer writes a frame: one of this library, or one it must reject.
WriteFrame ==
    /\ Len(stream) < MaxFrames
    /\ \E n \in Lengths, op \in {"Text", "Ping"}, masked \in BOOLEAN :
          LET good == EncodeFrame(op, n, masked)
          IN  \E f \in {good, [good EXCEPT !.rsv = TRUE], [good EXCEPT !.op = "Reserved"],
                        [good EXCEPT !.fin = FALSE], [good EXCEPT !.len7 = 127]} :
                stream' = Append(stream, f)
    /\ UNCHANGED <<fed, parsed, failed>>

Chunks == (IF fed < 14 THEN {1, 2, 4, 8} ELSE {}) \cup (IF Len(parsed) < Len(stream)
                           THEN {EncodedSize(Current) - fed, EncodedSize(Current) - fed - 1} \ {-1, 0}
                           ELSE {})

Next == WriteFrame \/ \E k \in Chunks : Feed(k)
Spec == Init /\ [][Next]_frameVars

\* What RFC 6455 asks of a frame, whatever its bytes look like.
Acceptable(f) ==
    /\ f.op \in OpCodes /\ ~f.rsv
    /\ IsControlOpcode(f.op) => f.fin /\ f.ext <= 125
    /\ f.len7 = (IF f.ext <= 125 THEN f.ext ELSE IF f.ext <= 65535 THEN 126 ELSE 127)

\* However the bytes are cut, the parser has returned exactly the frames whose
\* last byte it was given, with their lengths; it returns no unacceptable
\* frame, and fails on none that encodeFrame() makes of a legal payload
\* (tryParseOne, feed, encodeFrame: 125/126 and 65535/65536 are the boundaries).
ParsedAsWritten ==
    /\ \A i \in DOMAIN parsed : parsed[i] = stream[i].ext /\ Acceptable(stream[i])
    /\ failed => \A n \in Lengths, op \in OpCodes, masked \in BOOLEAN :
                    Current = EncodeFrame(op, n, masked) => IsControlOpcode(op) /\ n > 125
    /\ ~failed /\ Len(parsed) < Len(stream) => fed < EncodedSize(Current)
=============================================================================
