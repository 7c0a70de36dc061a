--------------------------- MODULE HandshakeKeys ---------------------------
(***************************************************************************)
(* The key exchange of WebSocketHandshake.cpp: base64 in both directions,  *)
(* the keys of clients, and the blocks that Sha1 cuts its input into.  The *)
(* compression of one block is arithmetic on 32-bit words and is left out: *)
(* a digest is the sequence of the blocks it was computed from.            *)
(***************************************************************************)
EXTENDS Naturals, Sequences, SequencesExt, FiniteSetsExt

CONSTANTS Bytes,       \* the bytes of keys
          Chars,       \* the characters of received keys: 0..63, Pad and Other
          KeySize,     \* the bytes of a client key, 16
          BlockSize,   \* the bytes of a block, 64
          LengthSize,  \* the bytes of the length at the end of the last block, 8
          MaxBytes, MaxChars, MaxInput   \* bounds

Pad == 64      \* the character '='
Other == 65    \* a character that is not of the alphabet

VARIABLES bytes,    \* a key to encode
          chars,    \* a received key
          sha,      \* the members of Sha1, and the blocks processed so far
          input     \* the number of bytes that went into it

keyVars == <<bytes, chars, sha, input>>

Init ==
    /\ bytes = <<>>
    /\ chars = <<>>
    /\ sha = [buffer |-> <<>>, total |-> 0, blocks |-> <<>>]
    /\ input = 0

-----------------------------------------------------------------------------
\* Bytes past the end of the data are 0.
Octet(bs, i) == IF i < Len(bs) THEN bs[i + 1] ELSE 0

\* base64Encode(): three bytes become four characters.
Base64Encode(bs) ==
    [k \in 1..4 * ((Len(bs) + 2) \div 3) |->
        LET i == 3 * ((k - 1) \div 4)
            j == (k - 1) % 4
            triple == Octet(bs, i) * 65536 + Octet(bs, i + 1) * 256 + Octet(bs, i + 2)
        IN  IF j < 2 \/ i + j - 1 < Len(bs) THEN (triple \div 64 ^ (3 - j)) % 64 ELSE Pad]

\* The padding is looked for in the last two places, in each for itself.
Padding(cs) == Cardinality({i \in {Len(cs), Len(cs) - 1} : cs[i] = Pad})

\* Mutant: a '=' is taken wherever it is.
Rejected_Never(cs, i) == cs[i] = Other

\* A '=' before the padding, or a character that base64Value() does not know.
Rejected(cs, i) == cs[i] = Other \/ (cs[i] = Pad /\ i <= Len(cs) - Padding(cs))

\* The bytes of the four characters from i + 1 on.
Group(cs, i) ==
    LET value(j) == IF cs[i + j] = Pad THEN 0 ELSE cs[i + j]
        triple == value(1) * 262144 + value(2) * 4096 + value(3) * 64 + value(4)
    IN  <<triple \div 65536>>
            \o (IF cs[i + 3] # Pad THEN <<(triple \div 256) % 256>> ELSE <<>>)
            \o (IF cs[i + 4] # Pad THEN <<triple % 256>> ELSE <<>>)

\* base64Decode(): what it returns, and the output.
Base64Decode(cs) ==
    IF cs = <<>> \/ Len(cs) % 4 # 0 \/ \E i \in 1..Len(cs) : Rejected(cs, i)
    THEN [ok |-> FALSE, out |-> <<>>]
    ELSE [ok |-> TRUE, out |-> FlattenSeq([g \in 1..Len(cs) \div 4 |-> Group(cs, 4 * (g - 1))])]

IsValidClientKey(cs) == Base64Decode(cs).ok /\ Len(Base64Decode(cs).out) = KeySize

-----------------------------------------------------------------------------
\* Sha1::update(): whole blocks are processed as soon as they are there.
Update(s, data) ==
    LET all == s.buffer \o data
        n == Len(all) \div BlockSize
    IN  [buffer |-> SubSeq(all, n * BlockSize + 1, Len(all)),
         total |-> s.total + Len(data),
         blocks |-> s.blocks \o [b \in 1..n |-> SubSeq(all, (b - 1) * BlockSize + 1, b * BlockSize)]]

\* A length, and the bytes that are neither data nor length.
Mark == "80"
Zero == "00"
Length(n) == [i \in 1..LengthSize |-> "length"]

\* Mutant: the zeros go up to the end of a block, as if there were no length.
Filled_ToTheEnd(buffer) ==
    LET n == Len(buffer) + 1
    IN  buffer \o <<Mark>> \o [i \in 1..(BlockSize - (n % BlockSize)) |-> Zero]

\* The loop of final(): zeros until only the length is missing.
Filled(buffer) ==
    LET n == Len(buffer) + 1
        zeros == CHOOSE z \in 0..BlockSize - 1 : (n + z) % BlockSize = BlockSize - LengthSize
    IN  buffer \o <<Mark>> \o [i \in 1..zeros |-> Zero]

\* Sha1::final(): the rest of the input, filled up to one or two blocks.
Final(s) ==
    LET last == Filled(s.buffer) \o Length(s.total)
    IN  s.blocks \o [b \in 1..(Len(last) + BlockSize - 1) \div BlockSize |->
                        SubSeq(last, (b - 1) * BlockSize + 1, Min({b * BlockSize, Len(last)}))]

-----------------------------------------------------------------------------
\* createClientKey(), one byte at a time.
DrawByte(b) ==
    /\ Len(bytes) < MaxBytes
    /\ bytes' = Append(bytes, b)
    /\ UNCHANGED <<chars, sha, input>>

\* A key arrives with a request.
ReceiveChar(c) ==
    /\ Len(chars) < MaxChars
    /\ chars' = Append(chars, c)
    /\ UNCHANGED <<bytes, sha, input>>

\* computeAcceptKey(): the key and the GUID go in, in any pieces; the bytes of
\* the input are named by their places.
Hash(n) ==
    /\ input + n <= MaxInput
    /\ sha' = Update(sha, [i \in 1..n |-> ToString(input + i)])
    /\ input' = input + n
    /\ UNCHANGED <<bytes, chars>>

Next ==
    \/ chars = <<>> /\ input = 0 /\ \E b \in Bytes : DrawByte(b)
    \/ bytes = <<>> /\ input = 0 /\ \E c \in Chars : ReceiveChar(c)
    \/ bytes = <<>> /\ chars = <<>> /\ \E n \in 1..BlockSize + 1 : Hash(n)

Spec == Init /\ [][Next]_keyVars

-----------------------------------------------------------------------------
\* The bits of a sequence of digits of w bits each.
Bits(digits, w) ==
    FlattenSeq([i \in 1..Len(digits) |-> [b \in 1..w |-> (digits[i] \div 2 ^ (w - b)) % 2]])

\* Encoding loses nothing: the characters are the bits of the bytes, with
\* zeros for the padding, and decoding gives the bytes back.  A client's own
\* key is always valid.
EncodingIsExact ==
    bytes # <<>> =>
        LET text == Base64Encode(bytes)
            digits == SelectSeq(text, LAMBDA c : c # Pad)
        IN  /\ Bits(digits, 6) = Bits(bytes, 8) \o [i \in 1..2 * (Len(text) - Len(digits)) |-> 0]
            /\ Base64Decode(text) = [ok |-> TRUE, out |-> bytes]
            /\ Len(bytes) = KeySize => IsValidClientKey(text)

\* The decoder takes exactly what RFC 4648 calls base64: groups of four, with
\* at most two '=' and only at the end.
DecodingIsStrict ==
    Base64Decode(chars).ok <=>
        /\ chars # <<>> /\ Len(chars) % 4 = 0
        /\ \E p \in 0..2 : \A i \in 1..Len(chars) :
               IF i > Len(chars) - p THEN chars[i] = Pad ELSE chars[i] \in 0..63

\* Whatever the pieces of the input, the blocks are those of FIPS 180: the
\* input, one mark, zeros, and the length, in as few blocks as hold them.
BlocksAreExact ==
    LET all == FlattenSeq(Final(sha))
        size == BlockSize * ((input + 1 + LengthSize + BlockSize - 1) \div BlockSize)
    IN  /\ Len(all) = size
        /\ \A b \in 1..Len(Final(sha)) : Len(Final(sha)[b]) = BlockSize
        /\ \A i \in 1..size :
               all[i] = IF i <= input THEN ToString(i)
                        ELSE IF i = input + 1 THEN Mark
                        ELSE IF i <= size - LengthSize THEN Zero ELSE "length"

\* The two sides of a handshake compute the same keys.
KeysAgree == EncodingIsExact /\ DecodingIsStrict /\ BlocksAreExact
=============================================================================
