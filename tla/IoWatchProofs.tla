--------------------------- MODULE IoWatchProofs ---------------------------
(***************************************************************************)
(* Proofs about IoWatch: no watch goes deaf, and none has two callbacks    *)
(* under way, whatever is registered, changed and removed in between.      *)
(***************************************************************************)
EXTENDS IoWatch, SequenceTheorems, FiniteSetTheorems, WellFoundedInduction, TLAPS

Callback == [fd : Fds, reg : Nat]
Watch == [reg : Nat, in : BOOLEAN, queued : BOOLEAN]

(* What the constants are: descriptors are finitely many, and None is not  *)
(* a callback.                                                             *)
Descriptors == OneShot \in BOOLEAN /\ IsFiniteSet(Fds) /\ None \notin Callback

In(q, c) == \E i \in 1 .. Len(q) : q[i] = c
NoRepeat(q) == \A i, j \in 1 .. Len(q) : q[i] = q[j] => i = j

(* The callbacks that have not come to their end, from the one that runs   *)
(* to the latest that was collected.                                       *)
Current(x) == IF x = None THEN <<>> ELSE <<x>>
Pipe(x, b, r, t) == ((Current(x) \o b) \o r) \o t

-----------------------------------------------------------------------------
(* What is in a sequence that was put together, and how often.             *)
LEMMA InConcat ==
  ASSUME NEW S, NEW a \in Seq(S), NEW b \in Seq(S), NEW c
  PROVE  /\ a \o b \in Seq(S)
         /\ In(a \o b, c) <=> In(a, c) \/ In(b, c)
<1>1. /\ a \o b \in Seq(S) /\ Len(a \o b) = Len(a) + Len(b)
      /\ \A i \in 1 .. Len(a) + Len(b) :
           (a \o b)[i] = IF i <= Len(a) THEN a[i] ELSE b[i - Len(a)]
  BY ConcatProperties
<1>2. Len(a) \in Nat /\ Len(b) \in Nat
  BY LenProperties
<1> DEFINE q == a \o b
<1>3. /\ Len(q) = Len(a) + Len(b)
      /\ \A i \in 1 .. Len(q) : q[i] = IF i <= Len(a) THEN a[i] ELSE b[i - Len(a)]
  BY <1>1
<1> HIDE DEF q
<1>4. ASSUME NEW i \in 1 .. Len(a), a[i] = c PROVE In(q, c)
  <2>1. i \in 1 .. Len(q) /\ q[i] = a[i]
    BY <1>2, <1>3
  <2> QED
    BY <1>4, <2>1 DEF In
<1>5. ASSUME NEW i \in 1 .. Len(b), b[i] = c PROVE In(q, c)
  <2>1. i + Len(a) \in 1 .. Len(q) /\ ~ (i + Len(a) <= Len(a)) /\ i + Len(a) - Len(a) = i
    BY <1>2, <1>3
  <2>2. q[i + Len(a)] = b[i]
    BY <1>3, <2>1
  <2> QED
    BY <1>5, <2>1, <2>2 DEF In
<1>6. ASSUME NEW i \in 1 .. Len(q), q[i] = c PROVE In(a, c) \/ In(b, c)
  <2>1. CASE i <= Len(a)
    <3>1. i \in 1 .. Len(a) /\ a[i] = c
      BY <1>2, <1>3, <1>6, <2>1
    <3> QED
      BY <3>1 DEF In
  <2>2. CASE ~ (i <= Len(a))
    <3>1. i - Len(a) \in 1 .. Len(b) /\ b[i - Len(a)] = c
      BY <1>2, <1>3, <1>6, <2>2
    <3> QED
      BY <3>1 DEF In
  <2> QED
    BY <2>1, <2>2
<1>7. In(q, c) <=> In(a, c) \/ In(b, c)
  BY <1>4, <1>5, <1>6 DEF In
<1> QED
  BY <1>1, <1>7 DEF q

LEMMA NoRepeatConcat ==
  ASSUME NEW S, NEW a \in Seq(S), NEW b \in Seq(S)
  PROVE  NoRepeat(a \o b) <=>
           NoRepeat(a) /\ NoRepeat(b) /\ \A c : ~ (In(a, c) /\ In(b, c))
<1>1. /\ Len(a \o b) = Len(a) + Len(b)
      /\ \A i \in 1 .. Len(a) + Len(b) :
           (a \o b)[i] = IF i <= Len(a) THEN a[i] ELSE b[i - Len(a)]
  BY ConcatProperties
<1>2. Len(a) \in Nat /\ Len(b) \in Nat
  BY LenProperties
<1> DEFINE q == a \o b
           n == Len(a)
<1>3. /\ Len(q) = n + Len(b) /\ n \in Nat
      /\ \A i \in 1 .. n : i \in 1 .. Len(q) /\ q[i] = a[i]
      /\ \A i \in 1 .. Len(b) : i + n \in 1 .. Len(q) /\ q[i + n] = b[i]
      /\ \A i \in 1 .. Len(q) : i \notin 1 .. n => i - n \in 1 .. Len(b) /\ q[i] = b[i - n]
  <2>1. \A i \in 1 .. Len(b) : (i + n) - n = i /\ ~ (i + n <= n) /\ i + n \in 1 .. n + Len(b)
    BY <1>2
  <2>2. \A i \in 1 .. Len(b) : q[i + n] = b[i]
    BY <1>1, <2>1
  <2>3. \A i \in 1 .. n : i \in 1 .. n + Len(b) /\ q[i] = a[i]
    BY <1>1, <1>2
  <2>4. \A i \in 1 .. n + Len(b) : i \notin 1 .. n => i - n \in 1 .. Len(b) /\ q[i] = b[i - n]
    BY <1>1, <1>2
  <2> QED
    BY <1>1, <1>2, <2>1, <2>2, <2>3, <2>4
<1> HIDE DEF q, n
<1>4. ASSUME NoRepeat(q)
      PROVE  NoRepeat(a) /\ NoRepeat(b) /\ \A c : ~ (In(a, c) /\ In(b, c))
  <2>1. ASSUME NEW i \in 1 .. n, NEW j \in 1 .. n, a[i] = a[j] PROVE i = j
    BY <1>3, <1>4, <2>1 DEF NoRepeat
  <2>2. ASSUME NEW i \in 1 .. Len(b), NEW j \in 1 .. Len(b), b[i] = b[j] PROVE i = j
    <3>1. i + n = j + n
      BY <1>3, <1>4, <2>2 DEF NoRepeat
    <3> QED
      BY <1>2, <1>3, <3>1
  <2>3. ASSUME NEW i \in 1 .. n, NEW j \in 1 .. Len(b), a[i] = b[j] PROVE FALSE
    <3>1. i = j + n
      BY <1>3, <1>4, <2>3 DEF NoRepeat
    <3> QED
      BY <1>2, <1>3, <3>1
  <2> QED
    BY <2>1, <2>2, <2>3 DEF NoRepeat, In, n
<1>5. ASSUME NoRepeat(a), NoRepeat(b), \A c : ~ (In(a, c) /\ In(b, c)),
             NEW i \in 1 .. Len(q), NEW j \in 1 .. Len(q), q[i] = q[j]
      PROVE  i = j
  <2>1. ASSUME NEW k \in 1 .. n, NEW l \in 1 .. Len(b), a[k] = b[l] PROVE FALSE
    <3>1. In(a, a[k]) /\ In(b, a[k])
      BY <2>1 DEF In, n
    <3> QED
      BY <1>5, <3>1
  <2>2. CASE i \in 1 .. n /\ j \in 1 .. n
    BY <1>3, <1>5, <2>2 DEF NoRepeat, n
  <2>3. CASE i \notin 1 .. n /\ j \notin 1 .. n
    <3>1. /\ i - n \in 1 .. Len(b) /\ j - n \in 1 .. Len(b)
          /\ b[i - n] = b[j - n]
      BY <1>3, <1>5, <2>3
    <3>2. i - n = j - n
      BY <1>5, <3>1 DEF NoRepeat
    <3> QED
      BY <1>2, <1>3, <3>2
  <2>4. CASE i \in 1 .. n /\ j \notin 1 .. n
    BY <1>3, <1>5, <2>1, <2>4
  <2>5. CASE i \notin 1 .. n /\ j \in 1 .. n
    <3>1. a[j] = b[i - n] /\ i - n \in 1 .. Len(b)
      BY <1>3, <1>5, <2>5
    <3> QED
      BY <2>1, <2>5, <3>1
  <2> QED
    BY <2>2, <2>3, <2>4, <2>5
<1>6. NoRepeat(q) <=> NoRepeat(a) /\ NoRepeat(b) /\ \A c : ~ (In(a, c) /\ In(b, c))
  BY <1>4, <1>5 DEF NoRepeat
<1> QED
  BY <1>6 DEF q

(* The first of a sequence and the rest of it.                             *)
LEMMA FirstAndRest ==
  ASSUME NEW S, NEW t \in Seq(S), t # <<>>
  PROVE  /\ Head(t) \in S /\ Tail(t) \in Seq(S) /\ <<Head(t)>> \in Seq(S)
         /\ <<Head(t)>> \o Tail(t) = t
<1>1. /\ Head(t) \in S /\ Tail(t) \in Seq(S) /\ Len(Tail(t)) = Len(t) - 1
      /\ \A i \in 1 .. Len(Tail(t)) : Tail(t)[i] = t[i + 1]
  BY HeadTailProperties
<1>2. Len(t) \in Nat /\ Len(t) > 0 /\ Head(t) = t[1]
  BY EmptySeq
<1> DEFINE h == <<Head(t)>>
           u == h \o Tail(t)
<1>3. h \in Seq(S) /\ Len(h) = 1 /\ h[1] = t[1]
  BY <1>1, <1>2
<1>4. /\ u \in Seq(S) /\ Len(u) = Len(t)
      /\ \A i \in 1 .. Len(t) : u[i] = IF i <= 1 THEN h[i] ELSE Tail(t)[i - 1]
  <2>1. /\ u \in Seq(S) /\ Len(u) = Len(h) + Len(Tail(t))
        /\ \A i \in 1 .. Len(h) + Len(Tail(t)) :
             u[i] = IF i <= Len(h) THEN h[i] ELSE Tail(t)[i - Len(h)]
    BY <1>1, <1>3, ConcatProperties
  <2>2. Len(h) + Len(Tail(t)) = Len(t)
    BY <1>1, <1>2, <1>3
  <2> QED
    BY <1>3, <2>1, <2>2
<1>5. ASSUME NEW i \in 1 .. Len(t) PROVE u[i] = t[i]
  <2>1. CASE i = 1
    BY <1>3, <1>4, <2>1
  <2>2. CASE i # 1
    <3>1. i - 1 \in 1 .. Len(Tail(t)) /\ ~ (i <= 1) /\ (i - 1) + 1 = i
      BY <1>1, <1>2, <2>2
    <3> QED
      BY <1>1, <1>4, <3>1
  <2> QED
    BY <2>1, <2>2
<1>6. u = t
  <2> HIDE DEF u
  <2> QED
    BY <1>4, <1>5, SeqEqual
<1> QED
  BY <1>1, <1>3, <1>6

LEMMA AppendIsConcat1 ==
  ASSUME NEW S, NEW s \in Seq(S), NEW x \in S
  PROVE  Append(s, x) = s \o <<x>> /\ <<x>> \in Seq(S)
<1> DEFINE h == <<x>>
           u == s \o h
           a == Append(s, x)
<1>1. h \in Seq(S) /\ Len(h) = 1 /\ h[1] = x /\ Len(s) \in Nat
  OBVIOUS
<1>2. /\ a \in Seq(S) /\ Len(a) = Len(s) + 1
      /\ \A i \in 1 .. Len(s) + 1 : a[i] = IF i <= Len(s) THEN s[i] ELSE x
  OBVIOUS
<1>3. /\ u \in Seq(S) /\ Len(u) = Len(s) + Len(h)
      /\ \A i \in 1 .. Len(s) + Len(h) : u[i] = IF i <= Len(s) THEN s[i] ELSE h[i - Len(s)]
  BY <1>1, ConcatProperties
<1> HIDE DEF h, u, a
<1>4. \A i \in 1 .. Len(a) : a[i] = u[i]
  <2> TAKE i \in 1 .. Len(a)
  <2>1. i <= Len(s) \/ i - Len(s) = 1
    BY <1>1, <1>2
  <2> QED
    BY <1>1, <1>2, <1>3, <2>1
<1>5. a = u
  BY <1>1, <1>2, <1>3, <1>4, SeqEqual
<1> QED
  BY <1>1, <1>5 DEF a, u, h

-----------------------------------------------------------------------------
(* How the callbacks move along.                                           *)
LEMMA CurrentIs ==
  ASSUME Descriptors, NEW x \in Callback \union {None}
  PROVE  /\ Current(x) \in Seq(Callback) /\ Current(None) = <<>> /\ NoRepeat(Current(x))
         /\ \A c \in Callback : In(Current(x), c) <=> x = c
<1>1. Current(None) = <<>> /\ <<>> \in Seq(Callback)
  BY EmptySeq DEF Current
<1>2. CASE x = None
  <2>1. \A c : ~ In(<<>>, c)
    BY DEF In
  <2>2. NoRepeat(<<>>)
    BY DEF NoRepeat
  <2> QED
    BY <1>1, <1>2, <2>1, <2>2 DEF Descriptors
<1>3. CASE x # None
  <2>1. x \in Callback /\ Current(x) = <<x>>
    BY <1>3 DEF Current
  <2>2. <<x>> \in Seq(Callback) /\ Len(<<x>>) = 1 /\ <<x>>[1] = x
    BY <2>1
  <2>3. NoRepeat(<<x>>)
    BY <2>2 DEF NoRepeat
  <2>4. \A c : In(<<x>>, c) <=> x = c
    BY <2>2 DEF In
  <2> QED
    BY <1>1, <2>1, <2>2, <2>3, <2>4
<1> QED
  BY <1>2, <1>3

LEMMA PipeIs ==
  ASSUME Descriptors, NEW x \in Callback \union {None},
         NEW b \in Seq(Callback), NEW r \in Seq(Callback), NEW t \in Seq(Callback)
  PROVE  /\ Pipe(x, b, r, t) \in Seq(Callback)
         /\ \A c \in Callback :
              In(Pipe(x, b, r, t), c) <=> x = c \/ In(b, c) \/ In(r, c) \/ In(t, c)
         /\ NoRepeat(Pipe(x, b, r, t)) => NoRepeat(b) /\ NoRepeat(r) /\ NoRepeat(t)
<1> DEFINE s == Current(x)
<1>1. /\ s \in Seq(Callback)
      /\ \A c \in Callback : In(s, c) <=> x = c
  BY CurrentIs
<1> HIDE DEF s
<1>2. s \o b \in Seq(Callback) /\ (s \o b) \o r \in Seq(Callback)
  BY <1>1, ConcatProperties
<1>3. ((s \o b) \o r) \o t \in Seq(Callback)
  BY <1>2, ConcatProperties
<1>4. \A c : In(s \o b, c) <=> In(s, c) \/ In(b, c)
  BY <1>1, InConcat
<1>5. \A c : In((s \o b) \o r, c) <=> In(s \o b, c) \/ In(r, c)
  BY <1>2, InConcat
<1>6. \A c : In(((s \o b) \o r) \o t, c) <=> In((s \o b) \o r, c) \/ In(t, c)
  BY <1>2, InConcat
<1>7. NoRepeat(s \o b) <=> NoRepeat(s) /\ NoRepeat(b) /\ \A c : ~ (In(s, c) /\ In(b, c))
  BY <1>1, NoRepeatConcat
<1>8. NoRepeat((s \o b) \o r) <=>
        NoRepeat(s \o b) /\ NoRepeat(r) /\ \A c : ~ (In(s \o b, c) /\ In(r, c))
  BY <1>2, NoRepeatConcat
<1>9. NoRepeat(((s \o b) \o r) \o t) <=>
        NoRepeat((s \o b) \o r) /\ NoRepeat(t) /\ \A c : ~ (In((s \o b) \o r, c) /\ In(t, c))
  BY <1>2, NoRepeatConcat
<1>10. Pipe(x, b, r, t) = ((s \o b) \o r) \o t
  BY DEF Pipe, s
<1> QED
  BY <1>1, <1>3, <1>4, <1>5, <1>6, <1>7, <1>8, <1>9, <1>10

LEMMA PipeApart ==
  ASSUME Descriptors, NEW x \in Callback \union {None},
         NEW b \in Seq(Callback), NEW r \in Seq(Callback), NEW t \in Seq(Callback),
         NoRepeat(Pipe(x, b, r, t)), NEW c \in Callback
  PROVE  /\ x = c => ~In(b, c) /\ ~In(r, c) /\ ~In(t, c)
         /\ In(b, c) => ~In(r, c) /\ ~In(t, c)
         /\ In(r, c) => ~In(t, c)
<1> DEFINE s == Current(x)
<1>1. s \in Seq(Callback) /\ (In(s, c) <=> x = c)
  BY CurrentIs
<1>2. NoRepeat(((s \o b) \o r) \o t)
  BY DEF Pipe
<1> HIDE DEF s
<1>3. s \o b \in Seq(Callback) /\ (s \o b) \o r \in Seq(Callback)
  BY <1>1, ConcatProperties
<1>4. In(s \o b, c) <=> In(s, c) \/ In(b, c)
  BY <1>1, InConcat
<1>5. In((s \o b) \o r, c) <=> In(s \o b, c) \/ In(r, c)
  BY <1>3, InConcat
<1>6. NoRepeat((s \o b) \o r) /\ ~ (In((s \o b) \o r, c) /\ In(t, c))
  BY <1>2, <1>3, NoRepeatConcat
<1>7. NoRepeat(s \o b) /\ ~ (In(s \o b, c) /\ In(r, c))
  BY <1>3, <1>6, NoRepeatConcat
<1>8. ~ (In(s, c) /\ In(b, c))
  BY <1>1, <1>7, NoRepeatConcat
<1> QED
  BY <1>1, <1>4, <1>5, <1>6, <1>7, <1>8

(* Concatenation under a name of its own: the provers then use what is      *)
(* said of it below and nothing else.                                      *)
Cat(a, b) == a \o b

LEMMA CatIs ==
  ASSUME NEW S, NEW a \in Seq(S), NEW b \in Seq(S), NEW c \in Seq(S)
  PROVE  /\ Cat(a, b) \in Seq(S)
         /\ Cat(Cat(a, b), c) = Cat(a, Cat(b, c))
         /\ Cat(a, <<>>) = a /\ Cat(<<>>, a) = a
<1>1. a \o (b \o c) = (a \o b) \o c
  BY ConcatAssociative
<1>2. a \o b \in Seq(S)
  BY ConcatProperties
<1>3. a \o <<>> = a /\ <<>> \o a = a
  BY ConcatEmptySeq
<1> QED
  BY <1>1, <1>2, <1>3 DEF Cat

LEMMA PipeMoves ==
  ASSUME Descriptors, NEW x \in Callback \union {None},
         NEW b \in Seq(Callback), NEW r \in Seq(Callback), NEW t \in Seq(Callback)
  PROVE  /\ t # <<>> => Pipe(x, b, Append(r, Head(t)), Tail(t)) = Pipe(x, b, r, t)
         /\ r # <<>> => Pipe(x, <<Head(r)>>, Tail(r), t) = Pipe(x, <<>>, r, t)
         /\ Pipe(x, r, <<>>, t) = Pipe(x, <<>>, r, t)
         /\ b # <<>> => Pipe(Head(b), Tail(b), r, t) = Pipe(None, b, r, t)
<1> DEFINE s == Current(x)
<1>1. s \in Seq(Callback) /\ Current(None) = <<>> /\ <<>> \in Seq(Callback)
  BY CurrentIs, EmptySeq
<1>2. \A y, q, p, k : Pipe(y, q, p, k) = Cat(Cat(Cat(Current(y), q), p), k)
  BY DEF Pipe, Cat
<1>3. ASSUME t # <<>> PROVE Pipe(x, b, Append(r, Head(t)), Tail(t)) = Pipe(x, b, r, t)
  <2> DEFINE h == <<Head(t)>>
             k == Tail(t)
             u == Cat(s, b)
  <2>1. /\ Head(t) \in Callback /\ k \in Seq(Callback) /\ h \in Seq(Callback)
        /\ Cat(h, k) = t
    BY <1>3, FirstAndRest DEF Cat
  <2>2. Append(r, Head(t)) = Cat(r, h)
    BY <2>1, AppendIsConcat1 DEF Cat
  <2> HIDE DEF h, k, s
  <2>3. u \in Seq(Callback)
    BY <1>1, CatIs
  <2> HIDE DEF u
  <2>4. Cat(u, r) \in Seq(Callback) /\ Cat(u, Cat(r, h)) = Cat(Cat(u, r), h)
    BY <2>1, <2>3, CatIs
  <2>5. Cat(Cat(Cat(u, r), h), k) = Cat(Cat(u, r), Cat(h, k))
    BY <2>1, <2>4, CatIs
  <2>6. Cat(Cat(u, Append(r, Head(t))), k) = Cat(Cat(u, r), t)
    BY <2>1, <2>2, <2>4, <2>5
  <2> QED
    BY <1>2, <2>6 DEF u, s, k
<1>4. ASSUME r # <<>> PROVE Pipe(x, <<Head(r)>>, Tail(r), t) = Pipe(x, <<>>, r, t)
  <2> DEFINE h == <<Head(r)>>
             k == Tail(r)
  <2>1. k \in Seq(Callback) /\ h \in Seq(Callback) /\ Cat(h, k) = r
    BY <1>4, FirstAndRest DEF Cat
  <2> HIDE DEF h, k, s
  <2>2. Cat(Cat(s, h), k) = Cat(s, Cat(h, k)) /\ Cat(s, <<>>) = s
    BY <1>1, <2>1, CatIs
  <2>3. Cat(Cat(s, h), k) = Cat(Cat(s, <<>>), r)
    BY <2>1, <2>2
  <2> QED
    BY <1>2, <2>3 DEF h, k, s
<1>5. Pipe(x, r, <<>>, t) = Pipe(x, <<>>, r, t)
  <2> HIDE DEF s
  <2>1. Cat(s, r) \in Seq(Callback) /\ Cat(s, <<>>) = s
    BY <1>1, CatIs
  <2>2. Cat(Cat(s, r), <<>>) = Cat(s, r)
    BY <2>1, CatIs
  <2> QED
    BY <1>2, <2>1, <2>2 DEF s
<1>6. ASSUME b # <<>> PROVE Pipe(Head(b), Tail(b), r, t) = Pipe(None, b, r, t)
  <2>1. Head(b) \in Callback /\ Cat(<<Head(b)>>, Tail(b)) = b
    BY <1>6, FirstAndRest DEF Cat
  <2>2. Current(Head(b)) = <<Head(b)>>
    BY <2>1 DEF Current, Descriptors
  <2>3. Cat(<<>>, b) = b
    BY CatIs
  <2> QED
    BY <1>1, <1>2, <2>1, <2>2, <2>3
<1> QED
  BY <1>3, <1>4, <1>5, <1>6

LEMMA PipeGrows ==
  ASSUME Descriptors, NEW x \in Callback \union {None},
         NEW b \in Seq(Callback), NEW r \in Seq(Callback), NEW k \in Seq(Callback)
  PROVE  /\ Pipe(x, b, r, k) = Pipe(x, b, r, <<>>) \o k
         /\ Pipe(x, b, r \o k, <<>>) = Pipe(x, b, r, <<>>) \o k
<1> DEFINE s == Current(x)
           u == s \o b
<1>1. s \in Seq(Callback)
  BY CurrentIs
<1> HIDE DEF s
<1>2. u \in Seq(Callback)
  BY <1>1, ConcatProperties
<1> HIDE DEF u
<1>3. u \o r \in Seq(Callback) /\ r \o k \in Seq(Callback)
  BY <1>2, ConcatProperties
<1>4. u \o (r \o k) \in Seq(Callback)
  BY <1>2, <1>3, ConcatProperties
<1>5. (u \o r) \o <<>> = u \o r
  BY <1>3, ConcatEmptySeq
<1>6. (u \o (r \o k)) \o <<>> = u \o (r \o k)
  BY <1>4, ConcatEmptySeq
<1>7. u \o (r \o k) = (u \o r) \o k
  BY <1>2, ConcatAssociative
<1> QED
  BY <1>5, <1>6, <1>7 DEF Pipe, u, s

(* The end of a callback takes the first.                                  *)
LEMMA PipeEnds ==
  ASSUME Descriptors, NEW x \in Callback,
         NEW b \in Seq(Callback), NEW r \in Seq(Callback), NEW t \in Seq(Callback)
  PROVE  /\ \A c \in Callback : In(Pipe(None, b, r, t), c) => In(Pipe(x, b, r, t), c)
         /\ \A c \in Callback \ {x} : In(Pipe(x, b, r, t), c) => In(Pipe(None, b, r, t), c)
         /\ NoRepeat(Pipe(x, b, r, t)) =>
              NoRepeat(Pipe(None, b, r, t)) /\ ~In(Pipe(None, b, r, t), x)
<1>1. None \notin Callback
  BY DEF Descriptors
<1>2. \A c \in Callback :
           In(Pipe(None, b, r, t), c) <=> None = c \/ In(b, c) \/ In(r, c) \/ In(t, c)
  <2>1. None \in Callback \union {None}
    OBVIOUS
  <2> QED
    BY <2>1, PipeIs
<1>3. \A c \in Callback :
           In(Pipe(x, b, r, t), c) <=> x = c \/ In(b, c) \/ In(r, c) \/ In(t, c)
  BY PipeIs
<1>4. ASSUME NoRepeat(Pipe(x, b, r, t))
      PROVE  NoRepeat(Pipe(None, b, r, t)) /\ ~In(Pipe(None, b, r, t), x)
  <2>1. ~In(b, x) /\ ~In(r, x) /\ ~In(t, x)
    BY <1>4, PipeApart
  <2>2. ~In(Pipe(None, b, r, t), x)
    BY <1>1, <1>2, <2>1
  <2> DEFINE h == Current(x)
             e == Cat(Cat(b, r), t)
  <2>3. h \in Seq(Callback) /\ Current(None) = <<>>
    BY CurrentIs
  <2> HIDE DEF h
  <2>4. /\ Cat(h, b) \in Seq(Callback) /\ Cat(Cat(h, b), r) = Cat(h, Cat(b, r))
        /\ Cat(<<>>, b) = b /\ Cat(b, r) \in Seq(Callback)
    BY <2>3, CatIs
  <2>5. Cat(Cat(h, Cat(b, r)), t) = Cat(h, e) /\ e \in Seq(Callback)
    BY <2>3, <2>4, CatIs
  <2>6. Pipe(x, b, r, t) = Cat(h, e) /\ Pipe(None, b, r, t) = e
    <3>1. Pipe(x, b, r, t) = Cat(Cat(Cat(h, b), r), t)
      BY DEF Pipe, Cat, h
    <3>2. Pipe(None, b, r, t) = Cat(Cat(Cat(<<>>, b), r), t)
      BY <2>3 DEF Pipe, Cat
    <3> QED
      BY <2>4, <2>5, <3>1, <3>2
  <2> HIDE DEF e
  <2>7. NoRepeat(h \o e)
    BY <1>4, <2>6 DEF Cat
  <2>8. NoRepeat(e)
    BY <2>3, <2>5, <2>7, NoRepeatConcat
  <2> QED
    BY <2>2, <2>6, <2>8
<1> QED
  BY <1>1, <1>2, <1>3, <1>4

-----------------------------------------------------------------------------
(* The invariant.                                                          *)
Line == Pipe(running, batch, readyIO, toPost)
CallOf(f) == [fd |-> f, reg |-> m_watches[f].reg]

TypeOK ==
  /\ m_watches \in [Fds -> Watch \union {None}]
  /\ m_nextRegistration \in Nat \ {0}
  /\ epoll \subseteq Fds /\ polled \subseteq Fds /\ fdReady \subseteq Fds
  /\ wakeup \in BOOLEAN /\ ioStopped \in BOOLEAN
  /\ pollpc \in {"off", "wait", "polled", "post", "exited"}
  /\ toPost \in Seq(Callback) /\ readyIO \in Seq(Callback) /\ batch \in Seq(Callback)
  /\ running \in Callback \union {None}

(* The thread has something in hand only where its code has.               *)
Phases ==
  /\ pollpc # "post" => toPost = <<>>
  /\ pollpc # "polled" => polled = {}
  /\ ~OneShot => pollpc # "post"

(* Registrations are numbered upwards, so that a new one has no callbacks. *)
Numbered ==
  /\ \A f \in Fds : Watched(f) => m_watches[f].reg < m_nextRegistration
  /\ \A c \in Callback : In(Line, c) => c.reg < m_nextRegistration

(* A watch is marked as queued exactly while its callback is under way; a  *)
(* loop, which does not look at the number, may take the mark away early.  *)
QueuedIsComing == \A f \in Fds : Watched(f) /\ m_watches[f].queued => In(Line, CallOf(f))
UnqueuedIsQuiet ==
  OneShot => \A f \in Fds : Watched(f) /\ ~m_watches[f].queued => ~In(Line, CallOf(f))
NoneTwice == OneShot => NoRepeat(Line)

(* Which descriptors epoll reports: those that are wanted, with OneShot    *)
(* until they were reported.                                               *)
StillArmed ==
  \A f \in Fds : Watched(f) /\ m_watches[f].in =>
    /\ ~OneShot => f \in epoll
    /\ ~ioStopped /\ ~m_watches[f].queued => f \in epoll \union polled

Inv ==
  /\ TypeOK /\ Phases /\ Numbered
  /\ QueuedIsComing /\ UnqueuedIsQuiet /\ NoneTwice /\ StillArmed

-----------------------------------------------------------------------------
(* How many callbacks of a kind there are.                                 *)
LEMMA CountIs ==
  ASSUME NEW S, NEW s \in Seq(S), NEW c
  PROVE  LET n == Cardinality({i \in DOMAIN s : s[i] = c})
         IN  /\ n \in Nat
             /\ In(s, c) => n >= 1
             /\ ~In(s, c) => n = 0
             /\ NoRepeat(s) => n <= 1
<1> DEFINE at == {i \in DOMAIN s : s[i] = c}
           n == Cardinality(at)
<1>1. Len(s) \in Nat /\ DOMAIN s = 1 .. Len(s)
  BY LenProperties
<1>2. IsFiniteSet(1 .. Len(s)) /\ at \in SUBSET (1 .. Len(s))
  BY <1>1, FS_Interval
<1>3. IsFiniteSet(at)
  BY <1>2, FS_Subset
<1>4. n \in Nat /\ (n = 0 <=> at = {})
  BY <1>3, FS_CardinalityType, FS_EmptySet
<1>5. In(s, c) <=> at # {}
  BY <1>1 DEF In
<1>6. ASSUME NoRepeat(s) PROVE n <= 1
  <2>1. CASE at = {}
    BY <1>4, <2>1
  <2>2. CASE at # {}
    <3>1. PICK i \in at : TRUE
      BY <2>2
    <3>2. at = {i}
      BY <1>1, <1>6, <3>1 DEF NoRepeat
    <3> HIDE DEF at
    <3>3. n = 1
      BY <3>2, FS_Singleton
    <3> QED
      BY <3>3
  <2> QED
    BY <2>1, <2>2
<1> QED
  BY <1>4, <1>5, <1>6

(* The callbacks of a set of watches, in a row.                            *)
CallsOf(D, n) == {[fd |-> f, reg |-> n[f]] : f \in D}

LEMMA CallsAre ==
  ASSUME Descriptors, NEW D \in SUBSET Fds, NEW n \in [D -> Nat]
  PROVE  LET k == SetToSeq(CallsOf(D, n))
         IN  /\ k \in Seq(Callback) /\ NoRepeat(k)
             /\ \A c : In(k, c) <=> \E f \in D : c = [fd |-> f, reg |-> n[f]]
<1> DEFINE C == CallsOf(D, n)
           g == [f \in D |-> [fd |-> f, reg |-> n[f]]]
           k == SetToSeq(C)
<1>1. IsFiniteSet(D)
  BY FS_Subset DEF Descriptors
<1>2. g \in Surjection(D, C)
  BY DEF Surjection, CallsOf
<1>3. C \subseteq Callback
  BY DEF Callback, CallsOf
<1> HIDE DEF C
<1>4. IsFiniteSet(C)
  BY <1>1, <1>2, FS_Surjection
<1>5. PICK z \in Nat : z = Cardinality(C) /\ ExistsBijection(1 .. z, C)
  BY <1>4, FS_CardinalityType
<1>6. PICK b \in Bijection(1 .. z, C) : TRUE
  BY <1>5 DEF ExistsBijection
<1>7. b \in [1 .. z -> C] /\ IsInjective(b)
  BY <1>6 DEF Bijection, Injection, IsInjective
<1>8. k \in [1 .. z -> C] /\ IsInjective(k)
  BY <1>5, <1>7 DEF SetToSeq
<1> HIDE DEF k
<1>9. k \in Injection(1 .. z, C)
  BY <1>8 DEF Injection
<1>10. Cardinality(1 .. z) = Cardinality(C)
  BY <1>5, FS_Interval
<1>11. k \in Surjection(1 .. z, C)
  BY <1>4, <1>9, <1>10, FS_Injection
<1>12. k \in Seq(C) /\ k \in Seq(Callback) /\ Len(k) = z /\ DOMAIN k = 1 .. z
  BY <1>3, <1>5, <1>8
<1>13. NoRepeat(k)
  BY <1>8, <1>12 DEF NoRepeat, IsInjective
<1>14. \A c : In(k, c) <=> c \in C
  <2>1. \A c \in C : \E i \in 1 .. z : k[i] = c
    BY <1>11 DEF Surjection
  <2>2. \A i \in 1 .. z : k[i] \in C
    BY <1>8
  <2> QED
    BY <1>12, <2>1, <2>2 DEF In
<1> QED
  BY <1>12, <1>13, <1>14 DEF k, C, CallsOf

LEMMA SetInduction ==
  ASSUME NEW N \in SUBSET Nat, 0 \in N, \A n \in N : n + 1 \in N
  PROVE  N = Nat
<1> DEFINE T == {n \in Nat : n \notin N}
           Less == {ss \in Nat \X Nat : ss[1] < ss[2]}
<1>1. SUFFICES ASSUME T # {} PROVE FALSE
  OBVIOUS
<1>2. IsWellFoundedOn(Less, Nat)
  BY NatLessThanWellFounded DEF OpToRel
<1>3. T \subseteq Nat
  OBVIOUS
<1> HIDE DEF Less
<1>4. PICK x \in T : \A y \in T : ~ (<<y, x>> \in Less)
  BY <1>1, <1>2, <1>3, WFMin
<1>5. x \in Nat /\ x # 0 /\ x - 1 \in Nat
  BY <1>4
<1>6. x - 1 \in N => x \in N
  BY <1>5
<1>7. x - 1 \in T
  BY <1>4, <1>5, <1>6
<1>8. <<x - 1, x>> \in Less
  BY <1>5 DEF Less
<1> QED
  BY <1>4, <1>7, <1>8

(* k is the recursion in Others, which has a solution.                     *)
Keeps(k, q, f) ==
  /\ Others(q, f) = k[Len(q)] /\ k[0] = <<>>
  /\ \A n \in 1 .. Len(q) :
       k[n] = IF q[n].fd # f THEN Append(k[n - 1], q[n]) ELSE k[n - 1]

LEMMA OthersWellDefined ==
  ASSUME NEW S, NEW q \in Seq(S), NEW f
  PROVE  \E k : Keeps(k, q, f)
<1> DEFINE Kept(k, m) ==
      k = [n \in 0 .. m |->
             IF n = 0 THEN <<>>
             ELSE IF q[n].fd # f THEN Append(k[n - 1], q[n]) ELSE k[n - 1]]
           N == {m \in Nat : \E k : Kept(k, m)}
<1>1. 0 \in N
  <2>1. Kept([n \in 0 .. 0 |-> <<>>], 0)
    OBVIOUS
  <2> QED
    BY <2>1
<1>2. ASSUME NEW m \in N PROVE m + 1 \in N
  <2>1. PICK k : Kept(k, m)
    BY <1>2
  <2> DEFINE g == [n \in 0 .. m + 1 |->
                     IF n = m + 1
                     THEN IF q[n].fd # f THEN Append(k[m], q[n]) ELSE k[m]
                     ELSE k[n]]
  <2>2. \A n \in 0 .. m : g[n] = k[n]
    OBVIOUS
  <2>3. \A n \in 0 .. m : k[n] = IF n = 0 THEN <<>>
             ELSE IF q[n].fd # f THEN Append(k[n - 1], q[n]) ELSE k[n - 1]
    BY <2>1
  <2>4. ASSUME NEW n \in 0 .. m + 1
        PROVE  g[n] = IF n = 0 THEN <<>>
             ELSE IF q[n].fd # f THEN Append(g[n - 1], q[n]) ELSE g[n - 1]
    <3>1. CASE n = 0
      <4>1. 0 \in 0 .. m
        OBVIOUS
      <4>2. g[0] = k[0] /\ k[0] = <<>>
        BY <2>2, <2>3, <4>1
      <4> QED
        BY <3>1, <4>2
    <3>2. CASE n \in 1 .. m
      <4>1. n \in 0 .. m /\ n - 1 \in 0 .. m /\ n # 0
        BY <3>2
      <4> QED
        BY <4>1, <2>2, <2>3
    <3>3. CASE n = m + 1
      <4>1. m \in 0 .. m /\ n - 1 = m /\ n # 0
        BY <3>3
      <4>2. g[n - 1] = k[m]
        BY <4>1, <2>2
      <4>3. g[n] = IF q[n].fd # f THEN Append(k[m], q[n]) ELSE k[m]
        BY <3>3
      <4> QED
        BY <4>1, <4>2, <4>3
    <3> QED
      BY <3>1, <3>2, <3>3
  <2>5. g = [n \in 0 .. m + 1 |-> IF n = 0 THEN <<>>
             ELSE IF q[n].fd # f THEN Append(g[n - 1], q[n]) ELSE g[n - 1]]
    <3> HIDE DEF g
    <3>1. g = [n \in 0 .. m + 1 |-> g[n]]
      BY DEF g
    <3> QED
      BY <2>4, <3>1
  <2> HIDE DEF g
  <2>6. \E h : Kept(h, m + 1)
    BY <2>5
  <2>7. m + 1 \in Nat
    OBVIOUS
  <2> QED
    BY <2>6, <2>7
<1>3. N = Nat
  <2>1. N \in SUBSET Nat
    OBVIOUS
  <2> HIDE DEF N
  <2> QED
    BY <1>1, <1>2, <2>1, SetInduction
<1>4. Len(q) \in Nat
  OBVIOUS
<1>5. \E k : Kept(k, Len(q))
  <2>1. Len(q) \in N
    BY <1>3, <1>4
  <2> QED
    BY <2>1
<1> DEFINE kept == CHOOSE k : Kept(k, Len(q))
<1>6. Kept(kept, Len(q))
  BY <1>5
<1>7. Others(q, f) = kept[Len(q)]
  BY DEF Others
<1> HIDE DEF kept
<1>8. \A n \in 0 .. Len(q) :
        kept[n] = IF n = 0 THEN <<>>
                  ELSE IF q[n].fd # f THEN Append(kept[n - 1], q[n]) ELSE kept[n - 1]
  BY <1>6
<1>9. kept[0] = <<>>
  BY <1>4, <1>8
<1>10. \A n \in 1 .. Len(q) :
         kept[n] = IF q[n].fd # f THEN Append(kept[n - 1], q[n]) ELSE kept[n - 1]
  BY <1>4, <1>8
<1> QED
  BY <1>7, <1>9, <1>10 DEF Keeps

(* Removing the callbacks of a descriptor leaves those of the others.      *)
LEMMA OthersIs ==
  ASSUME NEW S, NEW q \in Seq(S), NEW f
  PROVE  /\ Others(q, f) \in Seq(S)
         /\ \A c : In(Others(q, f), c) <=> c.fd # f /\ In(q, c)
<1>1. PICK k : Keeps(k, q, f)
  BY OthersWellDefined
<1>2. Len(q) \in Nat
  OBVIOUS
<1> DEFINE Up(n) == /\ k[n] \in Seq(S)
                    /\ \A c : In(k[n], c) <=> c.fd # f /\ \E i \in 1 .. n : q[i] = c
           N == {n \in Nat : n <= Len(q) => Up(n)}
<1>3. 0 \in N
  <2>1. k[0] = <<>> /\ <<>> \in Seq(S) /\ \A c : ~In(<<>>, c)
    BY <1>1 DEF Keeps, In
  <2>2. 1 .. 0 = {}
    OBVIOUS
  <2>3. Up(0)
    BY <2>1, <2>2
  <2> HIDE DEF Up
  <2> QED
    BY <2>3
<1>4. ASSUME NEW n \in N PROVE n + 1 \in N
  <2> SUFFICES ASSUME n + 1 <= Len(q) PROVE Up(n + 1)
    OBVIOUS
  <2>1. n \in Nat /\ n + 1 \in 1 .. Len(q) /\ (n + 1) - 1 = n
    BY <1>2
  <2>2. Up(n)
    BY <1>2, <2>1
  <2> DEFINE x == q[n + 1]
  <2>3. k[n + 1] = (IF x.fd # f THEN Append(k[n], x) ELSE k[n]) /\ x \in S
    BY <1>1, <2>1 DEF Keeps
  <2>4. \A c : (\E i \in 1 .. n + 1 : q[i] = c) <=> (\E i \in 1 .. n : q[i] = c) \/ c = x
    BY <2>1
  <2>5. CASE x.fd = f
    <3> HIDE DEF x
    <3> QED
      BY <2>2, <2>3, <2>4, <2>5
  <2>6. CASE x.fd # f
    <3> DEFINE g == k[n]
    <3> HIDE DEF x, g
    <3>1. g \in Seq(S) /\ k[n + 1] = Append(g, x)
      BY <2>2, <2>3, <2>6 DEF g
    <3>2. Append(g, x) = g \o <<x>> /\ <<x>> \in Seq(S)
      BY <2>3, <3>1, AppendIsConcat1
    <3>3. <<x>> \in Seq(S) /\ \A c : In(<<x>>, c) <=> c = x
      <4>1. Len(<<x>>) = 1 /\ <<x>>[1] = x
        OBVIOUS
      <4> QED
        BY <3>2, <4>1 DEF In
    <3>4. /\ g \o <<x>> \in Seq(S)
          /\ \A c : In(g \o <<x>>, c) <=> In(g, c) \/ In(<<x>>, c)
      BY <3>1, <3>3, InConcat
    <3>5. \A c : In(g, c) <=> c.fd # f /\ \E i \in 1 .. n : q[i] = c
      BY <2>2 DEF g
    <3>6. k[n + 1] \in Seq(S)
      BY <3>1, <3>2, <3>4
    <3>7. \A c : In(k[n + 1], c) <=> c.fd # f /\ \E i \in 1 .. n + 1 : q[i] = c
      <4> SUFFICES ASSUME NEW c
                   PROVE  In(k[n + 1], c) <=> c.fd # f /\ \E i \in 1 .. n + 1 : q[i] = c
        OBVIOUS
      <4>1. In(k[n + 1], c) <=> In(g, c) \/ c = x
        BY <3>1, <3>2, <3>3, <3>4
      <4>2. In(g, c) <=> c.fd # f /\ \E i \in 1 .. n : q[i] = c
        BY <3>5
      <4>3. (\E i \in 1 .. n + 1 : q[i] = c) <=> (\E i \in 1 .. n : q[i] = c) \/ c = x
        BY <2>4
      <4> QED
        BY <2>6, <4>1, <4>2, <4>3
    <3> QED
      BY <3>6, <3>7
  <2> QED
    BY <2>5, <2>6
<1>5. N = Nat
  <2>1. N \in SUBSET Nat
    OBVIOUS
  <2> HIDE DEF N
  <2> QED
    BY <1>3, <1>4, <2>1, SetInduction
<1>6. Up(Len(q))
  <2> HIDE DEF N, Up
  <2>1. Len(q) \in N /\ Len(q) <= Len(q)
    BY <1>2, <1>5
  <2> QED
    BY <2>1 DEF N
<1>7. Others(q, f) = k[Len(q)]
  BY <1>1 DEF Keeps
<1> QED
  BY <1>6, <1>7 DEF In

-----------------------------------------------------------------------------
(* What a step that leaves the callbacks, or the watches, alone preserves. *)
LEMMA LineIs ==
  ASSUME Descriptors, TypeOK
  PROVE  /\ Line \in Seq(Callback)
         /\ \A f \in Fds : Watched(f) => m_watches[f] \in Watch /\ CallOf(f) \in Callback
<1>1. Line \in Seq(Callback)
  BY PipeIs DEF TypeOK, Line
<1>2. \A f \in Fds : Watched(f) => m_watches[f] \in Watch
  BY DEF TypeOK, Watched
<1>3. \A f \in Fds : Watched(f) => CallOf(f) \in Callback
  BY <1>2 DEF CallOf, Callback, Watch
<1> QED
  BY <1>1, <1>2, <1>3

Books == Numbered /\ QueuedIsComing /\ UnqueuedIsQuiet /\ NoneTwice

LEMMA SameBooks ==
  ASSUME Books, Line' = Line, UNCHANGED <<m_watches, m_nextRegistration>>
  PROVE  Books'
<1>1. \A f \in Fds : (Watched(f)' <=> Watched(f)) /\ CallOf(f)' = CallOf(f)
  BY DEF Watched, CallOf
<1> QED
  BY <1>1 DEF Books, Numbered, QueuedIsComing, UnqueuedIsQuiet, NoneTwice

LEMMA SameArmed ==
  ASSUME StillArmed, UNCHANGED <<m_watches, epoll, polled, ioStopped>>
  PROVE  StillArmed'
  BY DEF StillArmed, Watched

LEMMA SameLine ==
  ASSUME UNCHANGED <<toPost, readyIO, batch, running>>
  PROVE  Line' = Line
  BY DEF Line

LEMMA InitInv == ASSUME Descriptors, Init PROVE Inv
<1>1. <<>> \in Seq(Callback)
  BY EmptySeq
<1>2. TypeOK
  <2>1. m_watches \in [Fds -> Watch \union {None}]
    BY DEF Init
  <2>2. toPost \in Seq(Callback) /\ readyIO \in Seq(Callback) /\ batch \in Seq(Callback)
    BY <1>1 DEF Init
  <2>3. m_nextRegistration \in Nat \ {0}
    BY DEF Init
  <2>4. /\ epoll \subseteq Fds /\ polled \subseteq Fds /\ fdReady \subseteq Fds
    BY DEF Init
  <2>5. wakeup \in BOOLEAN /\ ioStopped \in BOOLEAN
    BY DEF Init
  <2>6. pollpc \in {"off", "wait", "polled", "post", "exited"} /\ running \in Callback \union {None}
    BY DEF Init
  <2> QED
    BY <2>1, <2>2, <2>3, <2>4, <2>5, <2>6 DEF TypeOK
<1>3. \A f \in Fds : ~Watched(f)
  BY DEF Init, Watched
<1>4. \A c \in Callback : ~In(Line, c)
  <2>1. Line = Pipe(None, <<>>, <<>>, <<>>)
    BY DEF Line, Init
  <2>2. \A c : ~In(<<>>, c)
    BY DEF In
  <2> QED
    BY <1>1, <2>1, <2>2, PipeIs DEF Descriptors
<1>5. NoneTwice
  <2>1. Line = <<>>
    <3>1. <<>> \o <<>> = <<>>
      BY <1>1, ConcatEmptySeq
    <3>2. Current(None) = <<>>
      BY DEF Current
    <3> QED
      BY <3>1, <3>2 DEF Line, Pipe, Init
  <2>2. NoRepeat(<<>>)
    BY DEF NoRepeat
  <2> QED
    BY <2>1, <2>2 DEF NoneTwice
<1> QED
  BY <1>2, <1>3, <1>4, <1>5 DEF Inv, Init, Phases, Numbered, QueuedIsComing, UnqueuedIsQuiet, StillArmed

-----------------------------------------------------------------------------
(* The calls of the owner.                                                 *)
LEMMA RegisterInv ==
  ASSUME Descriptors, Inv, NEW f \in Fds, NEW in \in BOOLEAN, RegisterIO(f, in)
  PROVE  Inv'
<1> DEFINE w == [reg |-> m_nextRegistration, in |-> in, queued |-> FALSE]
<1>1. /\ m_watches' = [m_watches EXCEPT ![f] = w]
      /\ m_nextRegistration' = m_nextRegistration + 1
      /\ epoll' = IF in THEN epoll \union {f} ELSE epoll \ {f}
      /\ pollpc' = IF pollpc = "off" THEN "wait" ELSE pollpc
      /\ wakeup' = (wakeup \/ ~OneShot)
      /\ UNCHANGED <<polled, toPost, ioStopped, readyIO, batch, running, fdReady>>
  BY DEF RegisterIO, NewWatch, AddOrUpdate, EnsureIoThreadRunning, ownerVars
<1>2. TypeOK /\ Phases /\ Numbered /\ QueuedIsComing /\ UnqueuedIsQuiet /\ NoneTwice /\ StillArmed
  BY DEF Inv
<1>3. w \in Watch /\ w.reg = m_nextRegistration /\ ~w.queued /\ w.in = in /\ m_nextRegistration \in Nat
  BY <1>2 DEF Watch, TypeOK
<1>4. m_watches'[f] = w /\ \A g \in Fds \ {f} : m_watches'[g] = m_watches[g]
  BY <1>1, <1>2 DEF TypeOK
<1> HIDE DEF w
<1>5. TypeOK'
  BY <1>1, <1>2, <1>3 DEF TypeOK, Descriptors
<1>6. Phases'
  BY <1>1, <1>2 DEF Phases
<1>7. Line' = Line
  BY <1>1, SameLine
<1>8. \A g \in Fds \ {f} : (Watched(g)' <=> Watched(g)) /\ CallOf(g)' = CallOf(g)
  BY <1>4 DEF Watched, CallOf
<1>9. Numbered'
  <2>1. \A g \in Fds : Watched(g)' => m_watches'[g].reg < m_nextRegistration'
    <3>1. m_watches'[f].reg < m_nextRegistration'
      BY <1>1, <1>3, <1>4
    <3>2. ASSUME NEW g \in Fds \ {f}, Watched(g)' PROVE m_watches'[g].reg < m_nextRegistration'
      <4>1. Watched(g) /\ m_watches'[g].reg = m_watches[g].reg /\ m_watches[g] \in Watch
        BY <1>2, <1>4, <1>8, <3>2, LineIs
      <4>2. m_watches[g].reg < m_nextRegistration /\ m_watches[g].reg \in Nat
        BY <1>2, <4>1 DEF Numbered, Watch
      <4> QED
        BY <1>1, <1>3, <4>1, <4>2
    <3> QED
      BY <3>1, <3>2
  <2>2. \A c \in Callback : In(Line, c)' => c.reg < m_nextRegistration'
    <3> SUFFICES ASSUME NEW c \in Callback, In(Line, c) PROVE c.reg < m_nextRegistration'
      BY <1>7 DEF In
    <3>1. c.reg < m_nextRegistration /\ c.reg \in Nat
      BY <1>2 DEF Numbered, Callback
    <3> QED
      BY <1>1, <1>3, <3>1
  <2> QED
    BY <2>1, <2>2 DEF Numbered
<1>10. QueuedIsComing'
  BY <1>2, <1>3, <1>4, <1>7, <1>8 DEF QueuedIsComing, In
<1>11. UnqueuedIsQuiet'
  <2>1. ~In(Line, [fd |-> f, reg |-> w.reg])
    <3>1. [fd |-> f, reg |-> w.reg] \in Callback
      BY <1>3 DEF Callback
    <3> QED
      BY <1>2, <1>3, <3>1 DEF Numbered
  <2>2. CallOf(f)' = [fd |-> f, reg |-> w.reg]
    BY <1>4 DEF CallOf
  <2> QED
    BY <1>2, <1>4, <1>7, <1>8, <2>1, <2>2 DEF UnqueuedIsQuiet, In
<1>12. NoneTwice'
  BY <1>2, <1>7 DEF NoneTwice, NoRepeat
<1>13. StillArmed'
  <2>1. in => f \in epoll'
    BY <1>1
  <2>2. \A g \in Fds \ {f} : g \in epoll => g \in epoll'
    BY <1>1
  <2>3. polled' = polled /\ ioStopped' = ioStopped
    BY <1>1
  <2> QED
    BY <1>2, <1>3, <1>4, <1>8, <2>1, <2>2, <2>3 DEF StillArmed
<1> QED
  BY <1>5, <1>6, <1>9, <1>10, <1>11, <1>12, <1>13 DEF Inv

LEMMA ModifyInv ==
  ASSUME Descriptors, Inv, NEW f \in Fds, NEW in \in BOOLEAN, ModifyIO(f, in)
  PROVE  Inv'
<1>1. /\ Watched(f)
      /\ m_watches' = [m_watches EXCEPT ![f].in = in]
      /\ (OneShot /\ (m_watches[f].queued \/ ioStopped)) => epoll' = epoll
      /\ ~ (OneShot /\ (m_watches[f].queued \/ ioStopped)) =>
           epoll' = IF in THEN epoll \union {f} ELSE epoll \ {f}
      /\ wakeup' = (wakeup \/ ~OneShot)
      /\ UNCHANGED <<m_nextRegistration, polled, pollpc, toPost, ioStopped, readyIO, batch, running, fdReady>>
  BY DEF ModifyIO, ChangedWatch, AddOrUpdate, ownerVars
<1>2. TypeOK /\ Phases /\ Numbered /\ QueuedIsComing /\ UnqueuedIsQuiet /\ NoneTwice /\ StillArmed
  BY DEF Inv
<1>3. m_watches[f] \in Watch
  BY <1>1, <1>2, LineIs
<1>4. /\ m_watches'[f] = [m_watches[f] EXCEPT !.in = in]
      /\ \A g \in Fds \ {f} : m_watches'[g] = m_watches[g]
  BY <1>1, <1>2 DEF TypeOK
<1>5. /\ m_watches'[f] \in Watch /\ m_watches'[f].reg = m_watches[f].reg
      /\ m_watches'[f].queued = m_watches[f].queued /\ m_watches'[f].in = in
  BY <1>3, <1>4 DEF Watch
<1>6. TypeOK'
  <2>1. m_watches' \in [Fds -> Watch \union {None}]
    BY <1>1, <1>2, <1>4, <1>5 DEF TypeOK
  <2>2. epoll' \subseteq Fds
    BY <1>1, <1>2 DEF TypeOK
  <2> QED
    BY <1>1, <1>2, <2>1, <2>2 DEF TypeOK, Descriptors
<1>7. Phases'
  BY <1>1, <1>2 DEF Phases
<1>8. Line' = Line
  BY <1>1, SameLine
<1>9. \A g \in Fds : /\ (Watched(g)' => Watched(g))
                     /\ CallOf(g)' = CallOf(g)
                     /\ m_watches'[g].queued = m_watches[g].queued
                     /\ m_watches'[g].reg = m_watches[g].reg
  BY <1>1, <1>4, <1>5 DEF Watched, CallOf
<1>10. Numbered'
  BY <1>1, <1>2, <1>8, <1>9 DEF Numbered, In
<1>11. QueuedIsComing' /\ UnqueuedIsQuiet' /\ NoneTwice'
  BY <1>2, <1>8, <1>9 DEF QueuedIsComing, UnqueuedIsQuiet, NoneTwice, In, NoRepeat
<1>12. StillArmed'
  <2>1. ASSUME in PROVE (~OneShot => f \in epoll') /\ (~ioStopped /\ ~m_watches[f].queued => f \in epoll')
    BY <1>1, <2>1
  <2>2. \A g \in Fds \ {f} : g \in epoll => g \in epoll'
    BY <1>1
  <2>3. polled' = polled /\ ioStopped' = ioStopped
    BY <1>1
  <2> QED
    BY <1>2, <1>4, <1>5, <1>9, <2>1, <2>2, <2>3 DEF StillArmed
<1> QED
  BY <1>6, <1>7, <1>10, <1>11, <1>12 DEF Inv

LEMMA UnregisterInv ==
  ASSUME Descriptors, Inv, NEW f \in Fds, UnregisterIO(f)
  PROVE  Inv'
<1>1. /\ m_watches' = [m_watches EXCEPT ![f] = None]
      /\ epoll' = epoll \ {f}
      /\ readyIO' = IF OneShot THEN readyIO ELSE Others(readyIO, f)
      /\ wakeup' = (wakeup \/ ~OneShot)
      /\ UNCHANGED <<m_nextRegistration, polled, pollpc, toPost, ioStopped, batch, running, fdReady>>
  BY DEF UnregisterIO, RemoveFd
<1>2. TypeOK /\ Phases /\ Numbered /\ QueuedIsComing /\ UnqueuedIsQuiet /\ NoneTwice /\ StillArmed
  BY DEF Inv
<1>3. m_watches'[f] = None /\ \A g \in Fds \ {f} : m_watches'[g] = m_watches[g]
  BY <1>1, <1>2 DEF TypeOK
<1>4. /\ Others(readyIO, f) \in Seq(Callback)
      /\ \A c : In(Others(readyIO, f), c) <=> c.fd # f /\ In(readyIO, c)
  BY <1>2, OthersIs DEF TypeOK
<1>5. TypeOK'
  BY <1>1, <1>2, <1>4 DEF TypeOK, Descriptors
<1>6. Phases'
  BY <1>1, <1>2 DEF Phases
<1>7. /\ OneShot => Line' = Line
      /\ \A c \in Callback : In(Line', c) => In(Line, c)
      /\ \A c \in Callback : c.fd # f /\ In(Line, c) => In(Line', c)
  <2>1. OneShot => Line' = Line
    BY <1>1 DEF Line
  <2>2. Line' = Pipe(running, batch, readyIO', toPost)
    BY <1>1 DEF Line
  <2>3. /\ running \in Callback \union {None} /\ batch \in Seq(Callback)
        /\ readyIO \in Seq(Callback) /\ toPost \in Seq(Callback)
    BY <1>2 DEF TypeOK
  <2>4. \A c \in Callback : In(Line', c) <=> running = c \/ In(batch, c) \/ In(readyIO', c) \/ In(toPost, c)
    <3>1. ASSUME NEW r \in Seq(Callback)
          PROVE  \A c \in Callback :
            In(Pipe(running, batch, r, toPost), c) <=> running = c \/ In(batch, c) \/ In(r, c) \/ In(toPost, c)
      <4>1. running \in Callback \union {None}
        BY <2>3
      <4>2. batch \in Seq(Callback) /\ toPost \in Seq(Callback)
        BY <2>3
      <4> QED
        BY <4>1, <4>2, PipeIs
    <3>2. readyIO' \in Seq(Callback)
      BY <1>5 DEF TypeOK
    <3> QED
      BY <2>2, <3>1, <3>2
  <2>5. \A c \in Callback : In(Line, c) <=> running = c \/ In(batch, c) \/ In(readyIO, c) \/ In(toPost, c)
    BY <2>3, PipeIs DEF Line
  <2>6. /\ \A c : In(readyIO', c) => In(readyIO, c)
        /\ \A c : c.fd # f /\ In(readyIO, c) => In(readyIO', c)
    BY <1>1, <1>4
  <2> QED
    BY <2>1, <2>4, <2>5, <2>6
<1>8. /\ ~Watched(f)'
      /\ \A g \in Fds \ {f} : /\ (Watched(g)' <=> Watched(g)) /\ CallOf(g)' = CallOf(g)
                              /\ CallOf(g).fd = g
  BY <1>3 DEF Watched, CallOf
<1>9. \A g \in Fds : Watched(g) => CallOf(g) \in Callback
  BY <1>2, LineIs
<1>10. Numbered'
  <2>1. \A g \in Fds : Watched(g)' => m_watches'[g].reg < m_nextRegistration'
    BY <1>1, <1>2, <1>3, <1>8 DEF Numbered
  <2>2. \A c \in Callback : In(Line', c) => c.reg < m_nextRegistration'
    BY <1>1, <1>2, <1>7 DEF Numbered
  <2> QED
    BY <2>1, <2>2 DEF Numbered, In
<1>11. QueuedIsComing'
  <2> SUFFICES ASSUME NEW g \in Fds, Watched(g)', m_watches'[g].queued PROVE In(Line', CallOf(g)')
    BY DEF QueuedIsComing, In
  <2>1. g # f /\ Watched(g) /\ m_watches[g].queued /\ CallOf(g)' = CallOf(g) /\ CallOf(g).fd # f
    BY <1>3, <1>8
  <2>2. In(Line, CallOf(g)) /\ CallOf(g) \in Callback
    BY <1>2, <1>9, <2>1 DEF QueuedIsComing
  <2> QED
    BY <1>7, <2>1, <2>2
<1>12. UnqueuedIsQuiet'
  <2> SUFFICES ASSUME OneShot, NEW g \in Fds, Watched(g)', ~m_watches'[g].queued PROVE ~In(Line', CallOf(g)')
    BY DEF UnqueuedIsQuiet, In
  <2>1. g # f /\ Watched(g) /\ ~m_watches[g].queued /\ CallOf(g)' = CallOf(g)
    BY <1>3, <1>8
  <2> QED
    BY <1>2, <1>7, <2>1 DEF UnqueuedIsQuiet
<1>13. NoneTwice'
  BY <1>2, <1>7 DEF NoneTwice, NoRepeat
<1>14. StillArmed'
  BY <1>1, <1>2, <1>3, <1>8 DEF StillArmed
<1> QED
  BY <1>5, <1>6, <1>10, <1>11, <1>12, <1>13, <1>14 DEF Inv

-----------------------------------------------------------------------------
(* The poller's thread.                                                    *)
LEMMA PollerInv == ASSUME Descriptors, Inv, PollerWait PROVE Inv'
<1>1. PICK r \in SUBSET (epoll \intersect fdReady) :
        /\ polled' = r
        /\ epoll' = IF OneShot THEN epoll \ r ELSE epoll
  BY DEF PollerWait
<1>2. /\ pollpc = "wait" /\ wakeup' = FALSE /\ pollpc' = "polled"
      /\ UNCHANGED <<m_watches, m_nextRegistration, toPost, ioStopped, readyIO, batch, running, fdReady>>
  BY DEF PollerWait, ownerVars
<1>3. TypeOK /\ Phases /\ Books /\ StillArmed
  BY DEF Inv, Books
<1>4. TypeOK'
  BY <1>1, <1>2, <1>3 DEF TypeOK
<1>5. Phases'
  BY <1>2, <1>3 DEF Phases
<1>6. Books'
  BY <1>2, <1>3, SameLine, SameBooks
<1>7. StillArmed'
  <2>1. polled = {}
    BY <1>2, <1>3 DEF Phases
  <2>2. epoll \subseteq epoll' \union polled' /\ (~OneShot => epoll' = epoll)
    BY <1>1
  <2> QED
    BY <1>2, <1>3, <2>1, <2>2 DEF StillArmed, Watched
<1> QED
  BY <1>4, <1>5, <1>6, <1>7 DEF Inv, Books

(* Every callback that is collected is new: its watch was not queued.      *)
LEMMA CollectInv == ASSUME Descriptors, Inv, CollectReady PROVE Inv'
<1> DEFINE fresh == {f \in polled : Watched(f) /\ ~m_watches[f].queued}
           calls == SetToSeq({[fd |-> f, reg |-> m_watches[f].reg] : f \in fresh})
           leaves == ioStopped /\ OneShot
<1>1. /\ pollpc = "polled" /\ polled' = {}
      /\ m_watches' = IF leaves THEN m_watches
                      ELSE [f \in Fds |-> IF f \in fresh THEN [m_watches[f] EXCEPT !.queued = TRUE]
                                          ELSE m_watches[f]]
      /\ toPost' = IF OneShot /\ ~leaves THEN calls ELSE toPost
      /\ readyIO' = IF OneShot THEN readyIO ELSE readyIO \o calls
      /\ pollpc' = IF ioStopped THEN "exited" ELSE IF OneShot THEN "post" ELSE "wait"
      /\ UNCHANGED <<m_nextRegistration, epoll, wakeup, ioStopped, batch, running, fdReady>>
  BY DEF CollectReady
<1>2. TypeOK /\ Phases /\ Numbered /\ QueuedIsComing /\ UnqueuedIsQuiet /\ NoneTwice /\ StillArmed
  BY DEF Inv
<1>3. fresh \subseteq Fds /\ \A f \in fresh : m_watches[f] \in Watch /\ ~m_watches[f].queued /\ Watched(f)
  BY <1>2, LineIs DEF TypeOK
<1>4. toPost = <<>>
  BY <1>1, <1>2 DEF Phases
<1>5. /\ calls \in Seq(Callback) /\ NoRepeat(calls)
      /\ \A c : In(calls, c) <=> \E f \in fresh : c = CallOf(f)
  <2> DEFINE n == [f \in fresh |-> m_watches[f].reg]
  <2> HIDE DEF fresh
  <2>1. n \in [fresh -> Nat]
    BY <1>3 DEF Watch
  <2>2. calls = SetToSeq(CallsOf(fresh, n))
    <3>1. {[fd |-> f, reg |-> m_watches[f].reg] : f \in fresh} = CallsOf(fresh, n)
      BY DEF CallsOf
    <3> QED
      BY <3>1
  <2>3. \A f \in fresh : [fd |-> f, reg |-> n[f]] = CallOf(f)
    BY DEF CallOf
  <2>4. fresh \in SUBSET Fds
    BY <1>3
  <2> HIDE DEF n, calls
  <2>5. /\ SetToSeq(CallsOf(fresh, n)) \in Seq(Callback) /\ NoRepeat(SetToSeq(CallsOf(fresh, n)))
        /\ \A c : In(SetToSeq(CallsOf(fresh, n)), c) <=> \E f \in fresh : c = [fd |-> f, reg |-> n[f]]
    BY <2>1, <2>4, CallsAre
  <2> QED
    BY <2>2, <2>3, <2>5
<1>6. CASE leaves
  <2>1. /\ UNCHANGED <<m_watches, m_nextRegistration, epoll, ioStopped, toPost, readyIO, batch, running>>
        /\ UNCHANGED <<wakeup, fdReady>>
        /\ polled' = {} /\ pollpc' = "exited" /\ ioStopped
    BY <1>1, <1>6
  <2>2. TypeOK'
    BY <1>2, <2>1 DEF TypeOK
  <2>3. Phases'
    BY <1>4, <2>1 DEF Phases
  <2>4. Books'
    BY <1>2, <2>1, SameLine, SameBooks DEF Books
  <2>5. StillArmed'
    BY <1>2, <2>1 DEF StillArmed, Watched
  <2> QED
    BY <2>2, <2>3, <2>4, <2>5 DEF Inv, Books
<1>7. CASE ~leaves
  <2> HIDE DEF calls
  <2>1. /\ m_watches' = [f \in Fds |-> IF f \in fresh THEN [m_watches[f] EXCEPT !.queued = TRUE]
                                       ELSE m_watches[f]]
        /\ toPost' = IF OneShot THEN calls ELSE <<>>
        /\ readyIO' = IF OneShot THEN readyIO ELSE readyIO \o calls
    BY <1>1, <1>4, <1>7
  <2>2. \A f \in fresh : m_watches'[f] = [m_watches[f] EXCEPT !.queued = TRUE]
    BY <1>3, <2>1
  <2>3. \A f \in Fds \ fresh : m_watches'[f] = m_watches[f]
    BY <2>1
  <2>4. \A f \in fresh : /\ m_watches'[f] \in Watch /\ m_watches'[f].queued
                         /\ m_watches'[f].reg = m_watches[f].reg
                         /\ m_watches'[f].in = m_watches[f].in
    <3> HIDE DEF fresh
    <3> QED
      BY <1>3, <2>2 DEF Watch
  <2> DEFINE old == Line
  <2>5. /\ Line' = old \o calls /\ old \in Seq(Callback)
        /\ \A c : In(Line', c) <=> In(old, c) \/ In(calls, c)
        /\ NoRepeat(Line') <=> NoRepeat(old) /\ NoRepeat(calls) /\ \A c : ~ (In(old, c) /\ In(calls, c))
    <3>1. /\ running \in Callback \union {None} /\ batch \in Seq(Callback)
          /\ readyIO \in Seq(Callback)
      BY <1>2 DEF TypeOK
    <3>2. old = Pipe(running, batch, readyIO, <<>>) /\ old \in Seq(Callback)
      BY <1>2, <1>4, LineIs DEF Line
    <3>3. Line' = IF OneShot THEN Pipe(running, batch, readyIO, calls)
                  ELSE Pipe(running, batch, readyIO \o calls, <<>>)
      BY <1>1, <2>1 DEF Line
    <3>4. /\ Pipe(running, batch, readyIO, calls) = Pipe(running, batch, readyIO, <<>>) \o calls
          /\ Pipe(running, batch, readyIO \o calls, <<>>) = Pipe(running, batch, readyIO, <<>>) \o calls
      BY <1>5, <3>1, PipeGrows
    <3>5. Line' = old \o calls
      BY <3>2, <3>3, <3>4
    <3> HIDE DEF old
    <3>6. /\ \A c : In(old \o calls, c) <=> In(old, c) \/ In(calls, c)
          /\ NoRepeat(old \o calls) <=> NoRepeat(old) /\ NoRepeat(calls) /\ \A c : ~ (In(old, c) /\ In(calls, c))
      BY <1>5, <3>2, InConcat, NoRepeatConcat
    <3> QED
      BY <3>2, <3>5, <3>6
  <2>6. \A f \in Fds : (Watched(f)' => Watched(f)) /\ CallOf(f)' = CallOf(f) /\ CallOf(f).fd = f
    <3> HIDE DEF fresh
    <3> QED
      BY <1>3, <2>3, <2>4 DEF Watched, CallOf
  <2>7. TypeOK'
    <3>1. m_watches' \in [Fds -> Watch \union {None}]
      <4>1. \A f \in Fds : m_watches'[f] \in Watch \union {None}
        <5> HIDE DEF fresh
        <5> QED
          BY <1>2, <2>3, <2>4 DEF TypeOK
      <4> QED
        BY <2>1, <4>1
    <3>2. toPost' \in Seq(Callback)
      BY <1>5, <2>1, EmptySeq
    <3>3. readyIO' \in Seq(Callback)
      BY <1>2, <1>5, <2>1, ConcatProperties DEF TypeOK
    <3>4. pollpc' \in {"off", "wait", "polled", "post", "exited"}
      BY <1>1
    <3> HIDE DEF fresh
    <3> QED
      BY <1>1, <1>2, <3>1, <3>2, <3>3, <3>4 DEF TypeOK
  <2>8. Phases'
    BY <1>1, <1>7, <2>1 DEF Phases
  <2> HIDE DEF fresh, leaves, old
  <2>9. Numbered'
    <3>1. \A f \in Fds : Watched(f)' => m_watches'[f].reg < m_nextRegistration'
      BY <1>1, <1>2, <2>3, <2>4, <2>6 DEF Numbered
    <3>2. ASSUME NEW c \in Callback, In(Line', c) PROVE c.reg < m_nextRegistration'
      <4>1. CASE In(old, c)
        BY <1>1, <1>2, <4>1 DEF Numbered, old
      <4>2. CASE In(calls, c)
        <5>1. PICK f \in fresh : c = CallOf(f)
          BY <1>5, <4>2
        <5>2. m_watches[f].reg < m_nextRegistration /\ c.reg = m_watches[f].reg
          BY <1>2, <1>3, <5>1 DEF Numbered, CallOf
        <5> QED
          BY <1>1, <5>2
      <4> QED
        BY <2>5, <3>2, <4>1, <4>2
    <3> QED
      BY <3>1, <3>2 DEF Numbered, In
  <2>10. QueuedIsComing'
    <3> SUFFICES ASSUME NEW f \in Fds, Watched(f)', m_watches'[f].queued PROVE In(Line', CallOf(f)')
      BY DEF QueuedIsComing, In
    <3>1. CallOf(f)' = CallOf(f) /\ Watched(f)
      BY <2>6
    <3>2. CASE f \in fresh
      BY <1>5, <2>5, <3>1, <3>2
    <3>3. CASE f \notin fresh
      <4>1. m_watches[f].queued
        BY <2>3, <3>3
      <4>2. In(old, CallOf(f))
        BY <1>2, <3>1, <4>1 DEF QueuedIsComing, old
      <4> QED
        BY <2>5, <3>1, <4>2
    <3> QED
      BY <3>2, <3>3
  <2>11. UnqueuedIsQuiet'
    <3> SUFFICES ASSUME OneShot, NEW f \in Fds, Watched(f)', ~m_watches'[f].queued PROVE ~In(Line', CallOf(f)')
      BY DEF UnqueuedIsQuiet, In
    <3>1. f \notin fresh /\ CallOf(f)' = CallOf(f) /\ Watched(f)
      BY <2>4, <2>6
    <3>2. ~m_watches[f].queued
      BY <2>3, <3>1
    <3>3. ~In(old, CallOf(f))
      BY <1>2, <3>1, <3>2 DEF UnqueuedIsQuiet, old
    <3>4. ~In(calls, CallOf(f))
      BY <1>3, <1>5, <2>6, <3>1
    <3> QED
      BY <2>5, <3>1, <3>3, <3>4
  <2>12. NoneTwice'
    <3> SUFFICES ASSUME OneShot PROVE NoRepeat(Line')
      BY DEF NoneTwice, NoRepeat
    <3>1. NoRepeat(old)
      BY <1>2 DEF NoneTwice, old
    <3>2. ASSUME NEW c, In(old, c), In(calls, c) PROVE FALSE
      <4>1. PICK f \in fresh : c = CallOf(f)
        BY <1>5, <3>2
      <4> QED
        BY <1>2, <1>3, <3>2, <4>1 DEF UnqueuedIsQuiet, old
    <3> QED
      BY <1>5, <2>5, <3>1, <3>2
  <2>13. StillArmed'
    <3> SUFFICES ASSUME NEW f \in Fds, Watched(f)', m_watches'[f].in
                 PROVE  /\ ~OneShot => f \in epoll'
                        /\ ~ioStopped' /\ ~m_watches'[f].queued => f \in epoll' \union polled'
      BY DEF StillArmed
    <3>1. Watched(f) /\ m_watches[f].in
      BY <2>3, <2>4, <2>6
    <3>2. ~OneShot => f \in epoll'
      BY <1>1, <1>2, <3>1 DEF StillArmed
    <3>3. ASSUME ~ioStopped', ~m_watches'[f].queued PROVE f \in epoll'
      <4>1. f \notin fresh
        BY <2>4, <3>3
      <4>2. ~m_watches[f].queued /\ ~ioStopped
        BY <1>1, <2>3, <3>3, <4>1
      <4>3. f \notin polled
        BY <3>1, <4>1, <4>2 DEF fresh
      <4> QED
        BY <1>1, <1>2, <3>1, <4>2, <4>3 DEF StillArmed
    <3> QED
      BY <3>2, <3>3
  <2> QED
    BY <2>7, <2>8, <2>9, <2>10, <2>11, <2>12, <2>13 DEF Inv
<1> QED
  BY <1>6, <1>7

LEMMA PostInv == ASSUME Descriptors, Inv, PostReady PROVE Inv'
<1>1. TypeOK /\ Phases /\ Books /\ StillArmed
  BY DEF Inv, Books
<1>2. /\ pollpc = "post"
      /\ pollpc' = IF toPost = <<>> THEN "wait" ELSE "post"
      /\ toPost' = IF toPost = <<>> THEN toPost ELSE Tail(toPost)
      /\ readyIO' = IF toPost = <<>> THEN readyIO ELSE Append(readyIO, Head(toPost))
      /\ UNCHANGED <<m_watches, m_nextRegistration, epoll, wakeup, polled, ioStopped, batch, running, fdReady>>
  BY DEF PostReady, watchVars
<1>3. /\ running \in Callback \union {None} /\ batch \in Seq(Callback)
      /\ readyIO \in Seq(Callback) /\ toPost \in Seq(Callback)
  BY <1>1 DEF TypeOK
<1>4. toPost' \in Seq(Callback) /\ readyIO' \in Seq(Callback)
  <2>1. CASE toPost = <<>>
    BY <1>2, <1>3, <2>1
  <2>2. CASE toPost # <<>>
    <3>1. Head(toPost) \in Callback /\ Tail(toPost) \in Seq(Callback)
      BY <1>3, <2>2, FirstAndRest
    <3> QED
      BY <1>2, <1>3, <2>2, <3>1
  <2> QED
    BY <2>1, <2>2
<1>5. TypeOK'
  BY <1>1, <1>2, <1>4 DEF TypeOK
<1>6. Phases'
  BY <1>1, <1>2 DEF Phases
<1>7. Line' = Line
  <2>1. CASE toPost = <<>>
    BY <1>2, <2>1 DEF Line
  <2>2. CASE toPost # <<>>
    <3>1. Line' = Pipe(running, batch, Append(readyIO, Head(toPost)), Tail(toPost))
      BY <1>2, <2>2 DEF Line
    <3> QED
      BY <1>3, <2>2, <3>1, PipeMoves DEF Line
  <2> QED
    BY <2>1, <2>2
<1>8. Books'
  BY <1>1, <1>2, <1>7, SameBooks
<1>9. StillArmed'
  BY <1>1, <1>2, SameArmed
<1> QED
  BY <1>5, <1>6, <1>8, <1>9 DEF Inv, Books

-----------------------------------------------------------------------------
(* The owner's turn.                                                       *)
LEMMA TakeInv == ASSUME Descriptors, Inv, TakeReadyIO PROVE Inv'
<1>1. TypeOK /\ Phases /\ Books /\ StillArmed
  BY DEF Inv, Books
<1>2. /\ batch = <<>> /\ readyIO # <<>>
      /\ OneShot => batch' = <<Head(readyIO)>> /\ readyIO' = Tail(readyIO)
      /\ ~OneShot => batch' = readyIO /\ readyIO' = <<>>
      /\ UNCHANGED <<m_watches, m_nextRegistration, epoll, wakeup, polled, pollpc, toPost,
                     ioStopped, running, fdReady>>
  BY DEF TakeReadyIO, watchVars, threadVars
<1>3. running \in Callback \union {None} /\ readyIO \in Seq(Callback) /\ toPost \in Seq(Callback)
  BY <1>1 DEF TypeOK
<1>4. <<Head(readyIO)>> \in Seq(Callback) /\ Tail(readyIO) \in Seq(Callback) /\ <<>> \in Seq(Callback)
  BY <1>2, <1>3, FirstAndRest, EmptySeq
<1>5. batch' \in Seq(Callback) /\ readyIO' \in Seq(Callback)
  BY <1>2, <1>3, <1>4 DEF Descriptors
<1>6. TypeOK'
  BY <1>1, <1>2, <1>5 DEF TypeOK
<1>7. Phases'
  BY <1>1, <1>2 DEF Phases
<1>8. Line' = Line
  <2>1. /\ readyIO # <<>> => Pipe(running, <<Head(readyIO)>>, Tail(readyIO), toPost) = Pipe(running, <<>>, readyIO, toPost)
        /\ Pipe(running, readyIO, <<>>, toPost) = Pipe(running, <<>>, readyIO, toPost)
    <3>1. running \in Callback \union {None}
      BY <1>3
    <3>2. batch \in Seq(Callback) /\ readyIO \in Seq(Callback) /\ toPost \in Seq(Callback)
      BY <1>1 DEF TypeOK
    <3> QED
      BY <3>1, <3>2, PipeMoves
  <2> QED
    BY <1>2, <2>1 DEF Line, Descriptors
<1>9. Books'
  BY <1>1, <1>2, <1>8, SameBooks
<1>10. StillArmed'
  BY <1>1, <1>2, SameArmed
<1> QED
  BY <1>6, <1>7, <1>9, <1>10 DEF Inv, Books

LEMMA BeginInv == ASSUME Descriptors, Inv, BeginCallback PROVE Inv'
<1>1. TypeOK /\ Phases /\ Books /\ StillArmed
  BY DEF Inv, Books
<1>2. /\ running = None /\ batch # <<>>
      /\ running' = Head(batch) /\ batch' = Tail(batch)
      /\ UNCHANGED <<m_watches, m_nextRegistration, epoll, wakeup, polled, pollpc, toPost,
                     ioStopped, readyIO, fdReady>>
  BY DEF BeginCallback, watchVars, threadVars
<1>3. batch \in Seq(Callback) /\ readyIO \in Seq(Callback) /\ toPost \in Seq(Callback)
  BY <1>1 DEF TypeOK
<1>4. Head(batch) \in Callback /\ Tail(batch) \in Seq(Callback)
  BY <1>2, <1>3, FirstAndRest
<1>5. TypeOK'
  BY <1>1, <1>2, <1>4 DEF TypeOK
<1>6. Phases'
  BY <1>1, <1>2 DEF Phases
<1>7. Line' = Line
  <2>1. Pipe(Head(batch), Tail(batch), readyIO, toPost) = Pipe(None, batch, readyIO, toPost)
    <3>1. None \in Callback \union {None}
      OBVIOUS
    <3> QED
      BY <1>2, <1>3, <3>1, PipeMoves
  <2> QED
    BY <1>2, <2>1 DEF Line
<1>8. Books'
  BY <1>1, <1>2, <1>7, SameBooks
<1>9. StillArmed'
  BY <1>1, <1>2, SameArmed
<1> QED
  BY <1>5, <1>6, <1>8, <1>9 DEF Inv, Books

(* A callback that ends takes the mark from its watch, and no other call   *)
(* of that registration is left; a registration that has replaced it keeps *)
(* its own mark, by the number.                                            *)
LEMMA EndInv == ASSUME Descriptors, Inv, EndCallback PROVE Inv'
<1> DEFINE x == running
           f == running.fd
<1>1. /\ running # None /\ running' = None
      /\ SameWatch(x) =>
           /\ m_watches' = [m_watches EXCEPT ![f].queued = FALSE]
           /\ OneShot /\ ~ioStopped =>
                epoll' = IF m_watches[f].in THEN epoll \union {f} ELSE epoll \ {f}
           /\ ~ (OneShot /\ ~ioStopped) => epoll' = epoll
      /\ ~SameWatch(x) => m_watches' = m_watches /\ epoll' = epoll
      /\ UNCHANGED <<m_nextRegistration, wakeup, polled, pollpc, toPost, ioStopped, readyIO, batch, fdReady>>
  BY DEF EndCallback, threadVars, AddOrUpdate
<1>2. TypeOK /\ Phases /\ Numbered /\ QueuedIsComing /\ UnqueuedIsQuiet /\ NoneTwice /\ StillArmed
  BY DEF Inv
<1>3. x \in Callback /\ f \in Fds /\ x.reg \in Nat
  BY <1>1, <1>2 DEF TypeOK, Callback
<1>4. Line' = Pipe(None, batch, readyIO, toPost) /\ Line = Pipe(x, batch, readyIO, toPost)
  BY <1>1 DEF Line
<1>5. /\ \A c \in Callback : In(Line', c) => In(Line, c)
      /\ \A c \in Callback \ {x} : In(Line, c) => In(Line', c)
      /\ NoRepeat(Line) => NoRepeat(Line') /\ ~In(Line', x)
  <2>1. batch \in Seq(Callback) /\ readyIO \in Seq(Callback) /\ toPost \in Seq(Callback)
    BY <1>2 DEF TypeOK
  <2> HIDE DEF x, f
  <2>2. /\ \A c \in Callback : In(Pipe(None, batch, readyIO, toPost), c) => In(Pipe(x, batch, readyIO, toPost), c)
        /\ \A c \in Callback \ {x} :
             In(Pipe(x, batch, readyIO, toPost), c) => In(Pipe(None, batch, readyIO, toPost), c)
        /\ NoRepeat(Pipe(x, batch, readyIO, toPost)) =>
             NoRepeat(Pipe(None, batch, readyIO, toPost)) /\ ~In(Pipe(None, batch, readyIO, toPost), x)
    BY <1>3, <2>1, PipeEnds
  <2> QED
    BY <1>4, <2>2
<1>6. SameWatch(x) <=> Watched(f) /\ (OneShot => m_watches[f].reg = x.reg)
  BY DEF SameWatch
<1>7. x = [fd |-> f, reg |-> x.reg]
  BY <1>3 DEF Callback
<1> HIDE DEF x, f
<1>8. ASSUME SameWatch(x)
      PROVE  /\ m_watches[f] \in Watch
             /\ m_watches'[f] = [m_watches[f] EXCEPT !.queued = FALSE]
             /\ m_watches'[f] \in Watch /\ ~m_watches'[f].queued
             /\ m_watches'[f].reg = m_watches[f].reg /\ m_watches'[f].in = m_watches[f].in
             /\ \A g \in Fds \ {f} : m_watches'[g] = m_watches[g]
  <2>1. m_watches[f] \in Watch
    BY <1>2, <1>3, <1>6, <1>8, LineIs
  <2>2. /\ m_watches'[f] = [m_watches[f] EXCEPT !.queued = FALSE]
        /\ \A g \in Fds \ {f} : m_watches'[g] = m_watches[g]
    BY <1>1, <1>2, <1>3, <1>8 DEF TypeOK
  <2>3. /\ m_watches'[f] \in Watch /\ ~m_watches'[f].queued
        /\ m_watches'[f].reg = m_watches[f].reg /\ m_watches'[f].in = m_watches[f].in
    BY <2>1, <2>2 DEF Watch
  <2> QED
    BY <2>1, <2>2, <2>3
<1>9. \A g \in Fds : /\ (Watched(g)' => Watched(g)) /\ CallOf(g)' = CallOf(g) /\ CallOf(g).fd = g
                     /\ m_watches'[g].reg = m_watches[g].reg
                     /\ m_watches'[g].in = m_watches[g].in
                     /\ (m_watches'[g].queued => m_watches[g].queued)
  BY <1>1, <1>3, <1>6, <1>8 DEF Watched, CallOf
<1>10. TypeOK'
  <2>1. m_watches' \in [Fds -> Watch \union {None}]
    <3>1. CASE SameWatch(x)
      <4>1. \A g \in Fds : m_watches'[g] \in Watch \union {None}
        BY <1>2, <1>8, <3>1 DEF TypeOK
      <4> QED
        BY <1>1, <1>2, <3>1, <4>1 DEF TypeOK
    <3>2. CASE ~SameWatch(x)
      BY <1>1, <1>2, <3>2 DEF TypeOK
    <3> QED
      BY <3>1, <3>2
  <2>2. epoll' \subseteq Fds
    BY <1>1, <1>2, <1>3 DEF TypeOK
  <2> QED
    BY <1>1, <1>2, <2>1, <2>2 DEF TypeOK
<1>11. Phases'
  BY <1>1, <1>2 DEF Phases
<1>12. Numbered'
  <2>1. \A g \in Fds : Watched(g)' => m_watches'[g].reg < m_nextRegistration'
    BY <1>1, <1>2, <1>9 DEF Numbered
  <2>2. \A c \in Callback : In(Line', c) => c.reg < m_nextRegistration'
    BY <1>1, <1>2, <1>5 DEF Numbered
  <2> QED
    BY <2>1, <2>2 DEF Numbered, In
<1>13. \A g \in Fds : Watched(g) => CallOf(g) \in Callback
  BY <1>2, LineIs
<1>14. QueuedIsComing'
  <2> SUFFICES ASSUME NEW g \in Fds, Watched(g)', m_watches'[g].queued PROVE In(Line', CallOf(g)')
    BY DEF QueuedIsComing, In
  <2>1. Watched(g) /\ m_watches[g].queued /\ CallOf(g)' = CallOf(g)
    BY <1>9
  <2>2. In(Line, CallOf(g)) /\ CallOf(g) \in Callback
    BY <1>2, <1>13, <2>1 DEF QueuedIsComing
  <2>3. CallOf(g) # x
    <3> SUFFICES ASSUME CallOf(g) = x PROVE FALSE
      OBVIOUS
    <3>1. g = f /\ m_watches[f].reg = x.reg
      BY <1>7, <1>9 DEF CallOf
    <3>2. SameWatch(x)
      BY <1>6, <2>1, <3>1
    <3> QED
      BY <1>8, <3>1, <3>2
  <2> QED
    BY <1>5, <2>1, <2>2, <2>3
<1>15. UnqueuedIsQuiet'
  <2> SUFFICES ASSUME OneShot, NEW g \in Fds, Watched(g)', ~m_watches'[g].queued PROVE ~In(Line', CallOf(g)')
    BY DEF UnqueuedIsQuiet, In
  <2>1. Watched(g) /\ CallOf(g)' = CallOf(g) /\ CallOf(g) \in Callback
    BY <1>9, <1>13
  <2>2. CASE ~m_watches[g].queued
    BY <1>2, <1>5, <2>1, <2>2 DEF UnqueuedIsQuiet
  <2>3. CASE m_watches[g].queued
    <3>1. SameWatch(x) /\ g = f
      BY <1>1, <1>8, <2>3
    <3>2. CallOf(g) = x
      BY <1>6, <1>7, <3>1 DEF CallOf
    <3> QED
      BY <1>2, <1>5, <2>1, <3>2 DEF NoneTwice
  <2> QED
    BY <2>2, <2>3
<1>16. NoneTwice'
  BY <1>2, <1>5 DEF NoneTwice, NoRepeat
<1>17. StillArmed'
  <2> SUFFICES ASSUME NEW g \in Fds, Watched(g)', m_watches'[g].in
               PROVE  /\ ~OneShot => g \in epoll'
                      /\ ~ioStopped' /\ ~m_watches'[g].queued => g \in epoll' \union polled'
    BY DEF StillArmed
  <2>1. Watched(g) /\ m_watches[g].in
    BY <1>9
  <2>2. ioStopped' = ioStopped /\ polled' = polled /\ (~OneShot => epoll' = epoll)
    BY <1>1
  <2>3. CASE SameWatch(x) /\ g = f /\ OneShot
    BY <1>1, <2>1, <2>2, <2>3
  <2>4. CASE SameWatch(x) /\ g = f /\ ~OneShot
    BY <1>2, <2>1, <2>2, <2>4 DEF StillArmed
  <2>5. CASE ~SameWatch(x) \/ g # f
    <3>1. m_watches'[g] = m_watches[g]
      BY <1>1, <1>8, <2>5
    <3>2. g \in epoll => g \in epoll'
      BY <1>1, <2>5
    <3> QED
      BY <1>2, <2>1, <2>2, <3>1, <3>2 DEF StillArmed
  <2> QED
    BY <2>3, <2>4, <2>5 DEF Descriptors
<1> QED
  BY <1>10, <1>11, <1>12, <1>14, <1>15, <1>16, <1>17 DEF Inv

-----------------------------------------------------------------------------
LEMMA NextInv == ASSUME Descriptors, Inv, [Next]_vars PROVE Inv'
<1>1. ASSUME NEW f \in Fds, NEW in \in BOOLEAN, RegisterIO(f, in) PROVE Inv'
  BY <1>1, RegisterInv
<1>2. ASSUME NEW f \in Fds, NEW in \in BOOLEAN, ModifyIO(f, in) PROVE Inv'
  BY <1>2, ModifyInv
<1>3. ASSUME NEW f \in Fds, UnregisterIO(f) PROVE Inv'
  BY <1>3, UnregisterInv
<1>4. CASE PollerWait
  BY <1>4, PollerInv
<1>5. CASE CollectReady
  BY <1>5, CollectInv
<1>6. CASE PostReady
  BY <1>6, PostInv
<1>7. CASE TakeReadyIO
  BY <1>7, TakeInv
<1>8. CASE BeginCallback
  BY <1>8, BeginInv
<1>9. CASE EndCallback
  BY <1>9, EndInv
<1>10. ASSUME TypeOK', UNCHANGED <<pollpc, polled, toPost, readyIO, batch, running, m_watches,
                                   m_nextRegistration, epoll>>,
              ioStopped => ioStopped'
       PROVE  Inv'
  <2>1. Books' /\ Phases'
    BY <1>10, SameLine, SameBooks DEF Inv, Books, Phases
  <2>2. StillArmed'
    BY <1>10 DEF Inv, StillArmed, Watched
  <2> QED
    BY <1>10, <2>1, <2>2 DEF Inv, Books
<1>11. ASSUME NEW f \in Fds, BecomesReady(f) PROVE Inv'
  <2>1. TypeOK'
    BY <1>11 DEF Inv, TypeOK, BecomesReady, watchVars, threadVars, ownerVars
  <2> QED
    BY <1>10, <1>11, <2>1 DEF BecomesReady, watchVars, threadVars, ownerVars
<1>12. CASE Serve
  <2>1. TypeOK'
    BY <1>12 DEF Inv, TypeOK, Serve, watchVars, threadVars, ownerVars
  <2> QED
    BY <1>10, <1>12, <2>1 DEF Serve, watchVars, threadVars, ownerVars
<1>13. CASE IoStop
  <2>1. TypeOK'
    BY <1>13 DEF Inv, TypeOK, IoStop, TellIoThread, watchVars, ownerVars
  <2> QED
    BY <1>10, <1>13, <2>1 DEF IoStop, TellIoThread, watchVars, ownerVars
<1>14. CASE UNCHANGED vars
  <2>1. TypeOK'
    BY <1>14 DEF Inv, TypeOK, vars, watchVars, threadVars, ownerVars
  <2> QED
    BY <1>10, <1>14, <2>1 DEF vars, watchVars, threadVars, ownerVars
<1> QED
  BY <1>1, <1>2, <1>3, <1>4, <1>5, <1>6, <1>7, <1>8, <1>9, <1>11, <1>12, <1>13, <1>14 DEF Next

(* The invariant counts what the properties count.                         *)
LEMMA InvHolds == ASSUME Descriptors, Inv PROVE WatchesStayLive /\ NoDuplicateCallbacks
<1>1. TypeOK /\ QueuedIsComing /\ NoneTwice /\ StillArmed
  BY DEF Inv
<1>2. /\ running \in Callback \union {None} /\ batch \in Seq(Callback)
      /\ readyIO \in Seq(Callback) /\ toPost \in Seq(Callback)
  BY <1>1 DEF TypeOK
<1>3. ASSUME NEW f \in Fds, Watched(f)
      PROVE  /\ In(Line, CallOf(f)) => Callbacks(f, m_watches[f].reg) > 0
             /\ NoRepeat(Line) => Callbacks(f, m_watches[f].reg) <= 1
  <2> DEFINE c == CallOf(f)
             n(s) == Cardinality({i \in DOMAIN s : s[i] = c})
             one == IF running = c THEN 1 ELSE 0
  <2>1. c \in Callback
    BY <1>1, <1>3, LineIs
  <2>2. Callbacks(f, m_watches[f].reg) = n(toPost) + n(readyIO) + n(batch) + one
    BY DEF Callbacks, CallOf
  <2> HIDE DEF c
  <2>3. /\ n(toPost) \in Nat /\ (In(toPost, c) => n(toPost) >= 1)
        /\ (~In(toPost, c) => n(toPost) = 0) /\ (NoRepeat(toPost) => n(toPost) <= 1)
    BY <1>2, CountIs
  <2>4. /\ n(readyIO) \in Nat /\ (In(readyIO, c) => n(readyIO) >= 1)
        /\ (~In(readyIO, c) => n(readyIO) = 0) /\ (NoRepeat(readyIO) => n(readyIO) <= 1)
    BY <1>2, CountIs
  <2>5. /\ n(batch) \in Nat /\ (In(batch, c) => n(batch) >= 1)
        /\ (~In(batch, c) => n(batch) = 0) /\ (NoRepeat(batch) => n(batch) <= 1)
    BY <1>2, CountIs
  <2>6. /\ In(Line, c) <=> running = c \/ In(batch, c) \/ In(readyIO, c) \/ In(toPost, c)
        /\ NoRepeat(Line) =>
             /\ NoRepeat(batch) /\ NoRepeat(readyIO) /\ NoRepeat(toPost)
             /\ running = c => ~In(batch, c) /\ ~In(readyIO, c) /\ ~In(toPost, c)
             /\ In(batch, c) => ~In(readyIO, c) /\ ~In(toPost, c)
             /\ In(readyIO, c) => ~In(toPost, c)
    <3>1. running \in Callback \union {None}
      BY <1>2
    <3>2. batch \in Seq(Callback) /\ readyIO \in Seq(Callback) /\ toPost \in Seq(Callback)
      BY <1>2
    <3> DEFINE P == Pipe(running, batch, readyIO, toPost)
    <3>3. \A d \in Callback : In(P, d) <=> running = d \/ In(batch, d) \/ In(readyIO, d) \/ In(toPost, d)
      BY <3>1, <3>2, PipeIs
    <3>4. ASSUME NoRepeat(P) PROVE NoRepeat(batch) /\ NoRepeat(readyIO) /\ NoRepeat(toPost)
      BY <3>1, <3>2, <3>4, PipeIs
    <3>5. ASSUME NoRepeat(P)
          PROVE  /\ running = c => ~In(batch, c) /\ ~In(readyIO, c) /\ ~In(toPost, c)
                 /\ In(batch, c) => ~In(readyIO, c) /\ ~In(toPost, c)
                 /\ In(readyIO, c) => ~In(toPost, c)
      BY <2>1, <3>1, <3>2, <3>5, PipeApart
    <3>6. Line = P
      BY DEF Line
    <3> HIDE DEF P
    <3> QED
      BY <2>1, <3>3, <3>4, <3>5, <3>6
  <2> HIDE DEF n
  <2>7. In(Line, c) => Callbacks(f, m_watches[f].reg) > 0
    BY <2>2, <2>3, <2>4, <2>5, <2>6
  <2>8. NoRepeat(Line) => Callbacks(f, m_watches[f].reg) <= 1
    BY <2>2, <2>3, <2>4, <2>5, <2>6
  <2> QED
    BY <2>7, <2>8 DEF c
<1>4. WatchesStayLive
  BY <1>1, <1>3 DEF WatchesStayLive, QueuedIsComing, StillArmed
<1>5. NoDuplicateCallbacks
  BY <1>1, <1>3 DEF NoDuplicateCallbacks, NoneTwice
<1> QED
  BY <1>4, <1>5

(* Whatever is registered, modified and removed while reports are on their *)
(* way: a watch that is marked as queued has its callback coming, and one  *)
(* that is not and wants to read is armed, or about to be looked at        *)
(* (IoService, EventLoop::ioThreadMain).                                   *)
THEOREM WatchesStayLiveCorrect == ASSUME Descriptors PROVE Spec => []WatchesStayLive
<1>1. Init => Inv
  BY InitInv
<1>2. Inv /\ [Next]_vars => Inv'
  BY NextInv
<1>3. Inv => WatchesStayLive
  BY InvHolds
<1> QED
  BY <1>1, <1>2, <1>3, PTL DEF Spec

(* No registration of an IoService has two callbacks under way, also if    *)
(* the descriptor is registered again inside its own callback.             *)
THEOREM NoDuplicateCallbacksCorrect == ASSUME Descriptors PROVE Spec => []NoDuplicateCallbacks
<1>1. Init => Inv
  BY InitInv
<1>2. Inv /\ [Next]_vars => Inv'
  BY NextInv
<1>3. Inv => NoDuplicateCallbacks
  BY InvHolds
<1> QED
  BY <1>1, <1>2, <1>3, PTL DEF Spec
=============================================================================
