---------------------------- MODULE SignalsProofs ----------------------------
(***************************************************************************)
(* Proofs about Signals: where slots run, and that a slot sees an emission *)
(* once and those of one thread in order, also when receivers migrate and  *)
(* connections come and go in between.                                     *)
(***************************************************************************)
EXTENDS Signals, WellFoundedInduction, TLAPS

(* Induction over the natural numbers, for sets.                           *)
LEMMA SetInduction ==
  ASSUME NEW N \in SUBSET Nat, 0 \in N, \A n \in N : n + 1 \in N
  PROVE  N = Nat
<1> DEFINE T == {n \in Nat : n \notin N}
           Less == {ss \in Nat \X Nat : ss[1] < ss[2]}
<1>1. SUFFICES ASSUME T # {} PROVE FALSE
  OBVIOUS
<1>2. IsWellFoundedOn(Less, Nat)
  BY NatLessThanWellFounded DEF OpToRel
<1>3. T \subseteq Nat
  OBVIOUS
<1> HIDE DEF Less
<1>4. PICK x \in T : \A y \in T : ~ (<<y, x>> \in Less)
  BY <1>1, <1>2, <1>3, WFMin
<1>5. x \in Nat /\ x # 0 /\ x - 1 \in Nat
  BY <1>4
<1>6. x - 1 \in N => x \in N
  BY <1>5
<1>7. x - 1 \in T
  BY <1>4, <1>5, <1>6
<1>8. <<x - 1, x>> \in Less
  BY <1>5 DEF Less
<1> QED
  BY <1>4, <1>7, <1>8

(* f is the recursion in Pruned, which has a solution.                     *)
Prunes(f, q, there) ==
  /\ DOMAIN f = 0 .. Len(q)
  /\ Pruned(q, there) = f[Len(q)]
  /\ f[0] = <<>>
  /\ \A n \in 1 .. Len(q) :
       f[n] = IF q[n] \in there THEN Append(f[n - 1], q[n]) ELSE f[n - 1]

LEMMA PrunedWellDefined ==
  ASSUME NEW S, NEW q \in Seq(S), NEW there
  PROVE  \E f : Prunes(f, q, there)
<1> DEFINE Kept(f, k) ==
      f = [n \in 0 .. k |->
             IF n = 0 THEN <<>>
             ELSE IF q[n] \in there THEN Append(f[n - 1], q[n]) ELSE f[n - 1]]
           N == {k \in Nat : \E f : Kept(f, k)}
<1>1. 0 \in N
  <2>1. Kept([n \in 0 .. 0 |-> <<>>], 0)
    OBVIOUS
  <2> QED
    BY <2>1
<1>2. ASSUME NEW k \in N PROVE k + 1 \in N
  <2>1. PICK f : Kept(f, k)
    BY <1>2
  <2> DEFINE g == [n \in 0 .. k + 1 |->
                     IF n = k + 1
                     THEN IF q[n] \in there THEN Append(f[k], q[n]) ELSE f[k]
                     ELSE f[n]]
  <2>2. \A n \in 0 .. k : g[n] = f[n]
    OBVIOUS
  <2>3. \A n \in 0 .. k : f[n] = IF n = 0 THEN <<>>
             ELSE IF q[n] \in there THEN Append(f[n - 1], q[n]) ELSE f[n - 1]
    BY <2>1
  <2>4. ASSUME NEW n \in 0 .. k + 1
        PROVE  g[n] = IF n = 0 THEN <<>>
             ELSE IF q[n] \in there THEN Append(g[n - 1], q[n]) ELSE g[n - 1]
    <3>1. CASE n = 0
      <4>1. 0 \in 0 .. k
        OBVIOUS
      <4>2. g[0] = f[0] /\ f[0] = <<>>
        BY <2>2, <2>3, <4>1
      <4> QED
        BY <3>1, <4>2
    <3>2. CASE n \in 1 .. k
      <4>1. n \in 0 .. k /\ n - 1 \in 0 .. k /\ n # 0
        BY <3>2
      <4> QED
        BY <4>1, <2>2, <2>3
    <3>3. CASE n = k + 1
      <4>1. k \in 0 .. k /\ n - 1 = k /\ n # 0
        BY <3>3
      <4>2. g[n - 1] = f[k]
        BY <4>1, <2>2
      <4>3. g[n] = IF q[n] \in there THEN Append(f[k], q[n]) ELSE f[k]
        BY <3>3
      <4> QED
        BY <4>1, <4>2, <4>3
    <3> QED
      BY <3>1, <3>2, <3>3
  <2>5. g = [n \in 0 .. k + 1 |-> IF n = 0 THEN <<>>
             ELSE IF q[n] \in there THEN Append(g[n - 1], q[n]) ELSE g[n - 1]]
    <3> HIDE DEF g
    <3>1. g = [n \in 0 .. k + 1 |-> g[n]]
      BY DEF g
    <3> QED
      BY <2>4, <3>1
  <2> HIDE DEF g
  <2>6. \E h : Kept(h, k + 1)
    BY <2>5
  <2>7. k + 1 \in Nat
    OBVIOUS
  <2> QED
    BY <2>6, <2>7
<1>3. N = Nat
  <2>1. N \in SUBSET Nat
    OBVIOUS
  <2> HIDE DEF N
  <2> QED
    BY <1>1, <1>2, <2>1, SetInduction
<1>4. Len(q) \in Nat
  OBVIOUS
<1>5. \E f : Kept(f, Len(q))
  <2>1. Len(q) \in N
    BY <1>3, <1>4
  <2> QED
    BY <2>1
<1> DEFINE kept == CHOOSE f : Kept(f, Len(q))
<1>6. Kept(kept, Len(q))
  BY <1>5
<1>7. Pruned(q, there) = kept[Len(q)]
  BY DEF Pruned
<1> HIDE DEF kept
<1>8. DOMAIN kept = 0 .. Len(q)
  BY <1>6
<1>9. \A n \in 0 .. Len(q) :
        kept[n] = IF n = 0 THEN <<>>
                  ELSE IF q[n] \in there THEN Append(kept[n - 1], q[n]) ELSE kept[n - 1]
  BY <1>6
<1>10. kept[0] = <<>>
  BY <1>4, <1>9
<1>11. \A n \in 1 .. Len(q) :
         kept[n] = IF q[n] \in there THEN Append(kept[n - 1], q[n]) ELSE kept[n - 1]
  BY <1>4, <1>9
<1>12. Prunes(kept, q, there)
  BY <1>7, <1>8, <1>10, <1>11 DEF Prunes
<1> QED
  BY <1>12

(* No connection is in the list twice.                                     *)
NoRepeat(q) == \A i, j \in 1 .. Len(q) : q[i] = q[j] => i = j

(* Pruning leaves a list without repetition, with nothing new in it.       *)
LEMMA PrunedProperties ==
  ASSUME NEW S, NEW q \in Seq(S), NEW there, NoRepeat(q)
  PROVE  /\ Pruned(q, there) \in Seq(S) /\ NoRepeat(Pruned(q, there))
         /\ \A j \in 1 .. Len(Pruned(q, there)) : \E i \in 1 .. Len(q) : Pruned(q, there)[j] = q[i]
<1>0. PICK f : Prunes(f, q, there)
  BY PrunedWellDefined
<1>1. /\ Pruned(q, there) = f[Len(q)] /\ f[0] = <<>>
      /\ \A n \in 1 .. Len(q) :
           f[n] = IF q[n] \in there THEN Append(f[n - 1], q[n]) ELSE f[n - 1]
  BY <1>0 DEF Prunes
<1> DEFINE Typed(n) == f[n] \in Seq(S)
           From(n) == \A j \in 1 .. Len(f[n]) : \E i \in 1 .. n : f[n][j] = q[i]
           N == {n \in Nat : n <= Len(q) => Typed(n) /\ From(n) /\ NoRepeat(f[n])}
<1>2. 0 \in N
  <2>1. Len(f[0]) = 0 /\ f[0] \in Seq(S)
    BY <1>1
  <2>2. 1 .. 0 = {}
    OBVIOUS
  <2> QED
    BY <2>1, <2>2 DEF NoRepeat
<1>3. ASSUME NEW n \in N PROVE n + 1 \in N
  <2> SUFFICES ASSUME n + 1 <= Len(q)
               PROVE  Typed(n + 1) /\ From(n + 1) /\ NoRepeat(f[n + 1])
    OBVIOUS
  <2>1. n \in Nat /\ Len(q) \in Nat /\ n + 1 \in 1 .. Len(q) /\ (n + 1) - 1 = n
    OBVIOUS
  <2>2. Typed(n) /\ From(n) /\ NoRepeat(f[n])
    BY <2>1
  <2>3. f[n + 1] = IF q[n + 1] \in there THEN Append(f[n], q[n + 1]) ELSE f[n]
    BY <1>1, <2>1
  <2>4. CASE q[n + 1] \notin there
    BY <2>1, <2>2, <2>3, <2>4
  <2>5. CASE q[n + 1] \in there
    <3> DEFINE g == f[n]
               h == f[n + 1]
    <3>1. h = Append(g, q[n + 1]) /\ g \in Seq(S) /\ q[n + 1] \in S
      BY <2>1, <2>2, <2>3, <2>5
    <3>2. /\ h \in Seq(S) /\ Len(g) \in Nat /\ Len(h) = Len(g) + 1
          /\ \A j \in 1 .. Len(g) : h[j] = g[j]
          /\ h[Len(g) + 1] = q[n + 1]
      <4> HIDE DEF g, h
      <4> QED
        BY <3>1
    <3>3. /\ \A j \in 1 .. Len(g) : \E i \in 1 .. n : g[j] = q[i]
          /\ NoRepeat(g)
      BY <2>2
    <3> HIDE DEF g, h
    <3>4. \A j \in 1 .. Len(h) : \E i \in 1 .. n + 1 : h[j] = q[i]
      BY <2>1, <3>2, <3>3
    <3>5. \A j \in 1 .. Len(g) : g[j] # q[n + 1]
      <4> SUFFICES ASSUME NEW j \in 1 .. Len(g), g[j] = q[n + 1] PROVE FALSE
        OBVIOUS
      <4>1. PICK i \in 1 .. n : g[j] = q[i]
        BY <3>3
      <4>2. i \in 1 .. Len(q) /\ n + 1 \in 1 .. Len(q) /\ i # n + 1
        BY <2>1
      <4> QED
        BY <4>1, <4>2 DEF NoRepeat
    <3>6. NoRepeat(h)
      <4> SUFFICES ASSUME NEW i \in 1 .. Len(h), NEW j \in 1 .. Len(h), h[i] = h[j] PROVE i = j
        BY DEF NoRepeat
      <4>1. (i \in 1 .. Len(g) \/ i = Len(g) + 1) /\ (j \in 1 .. Len(g) \/ j = Len(g) + 1)
        BY <3>2
      <4> QED
        BY <3>2, <3>3, <3>5, <4>1 DEF NoRepeat
    <3> QED
      BY <3>2, <3>4, <3>6 DEF h
  <2> QED
    BY <2>4, <2>5
<1>4. N = Nat
  <2>1. N \in SUBSET Nat
    OBVIOUS
  <2> HIDE DEF N
  <2> QED
    BY <1>2, <1>3, <2>1, SetInduction
<1> DEFINE m == Len(q)
<1>5. m \in Nat
  OBVIOUS
<1> HIDE DEF m
<1>6. m \in N
  BY <1>4, <1>5
<1>7. Typed(m) /\ From(m) /\ NoRepeat(f[m])
  BY <1>6 DEF m
<1> QED
  BY <1>1, <1>7 DEF m

-----------------------------------------------------------------------------
Items == [c : Conns, e : Nat, by : Owners, in : SUBSET Nat]
Visits == [c : Conns, e : Nat, in : SUBSET Nat, inSlot : BOOLEAN]
CallType == [item : Items, on : Owners]

(* The books of the invocations of an emission: P are the queues of the    *)
(* owners, K the calls of slots, M the receivers that have moved.          *)
Same(x, y) == x.c = y.c /\ x.e = y.e
Before(x, y, M) ==
  x.c = y.c /\ x.by = y.by /\ Receiver[x.c] \notin M => x.e < y.e \/ y.e \in x.in

Waits(x, P) == \E o \in Owners : \E i \in 1 .. Len(P[o]) : x = P[o][i]
Called(x, K) == \E i \in 1 .. Len(K) : x = K[i].item
Placed(x, P, K) == Waits(x, P) \/ Called(x, K)

(* Nothing is queued twice.                                                *)
QueuedOnce(P) ==
  \A o, p \in Owners : \A i \in 1 .. Len(P[o]) : \A j \in 1 .. Len(P[p]) :
    Same(P[o][i], P[p][j]) => o = p /\ i = j
(* A queue has the emissions of one thread in their order, but for nested  *)
(* ones.                                                                   *)
QueuedInOrder(P, M) ==
  \A o \in Owners : \A i, j \in 1 .. Len(P[o]) : i < j => Before(P[o][i], P[o][j], M)
(* What is queued has not been called, and comes after what has.           *)
QueuedAfterCalled(P, K, M) ==
  \A x, y : Waits(x, P) /\ Called(y, K) => ~Same(y, x) /\ Before(y, x, M)
(* What has been called was called once and in order.                      *)
CalledInOrder(K, M) ==
  \A i, j \in 1 .. Len(K) :
    i < j => ~Same(K[i].item, K[j].item) /\ Before(K[i].item, K[j].item, M)

Books(P, K, M) ==
  /\ QueuedOnce(P) /\ QueuedInOrder(P, M)
  /\ QueuedAfterCalled(P, K, M) /\ CalledInOrder(K, M)

(* x may come last in a queue.                                             *)
Newest(x, P, K, M) == \A y : Placed(y, P, K) => ~Same(y, x) /\ Before(y, x, M)

Appended(P, h, x) == [P EXCEPT ![h] = Append(@, x)]
Popped(P, h) == [P EXCEPT ![h] = Tail(@)]

LEMMA AppendedFields ==
  ASSUME NEW P \in [Owners -> Seq(Items)], NEW h \in Owners, NEW x \in Items
  PROVE  /\ Appended(P, h, x) \in [Owners -> Seq(Items)]
         /\ Len(P[h]) \in Nat /\ Len(Appended(P, h, x)[h]) = Len(P[h]) + 1
         /\ Appended(P, h, x)[h][Len(P[h]) + 1] = x
         /\ \A i \in 1 .. Len(P[h]) : Appended(P, h, x)[h][i] = P[h][i]
         /\ \A o \in Owners : o # h => Appended(P, h, x)[o] = P[o]
<1> DEFINE q == P[h]
<1>1. q \in Seq(Items) /\ Appended(P, h, x)[h] = Append(q, x)
      /\ \A o \in Owners : o # h => Appended(P, h, x)[o] = P[o]
  BY DEF Appended
<1> HIDE DEF q
<1>2. /\ Append(q, x) \in Seq(Items) /\ Len(q) \in Nat /\ Len(Append(q, x)) = Len(q) + 1
      /\ Append(q, x)[Len(q) + 1] = x
      /\ \A i \in 1 .. Len(q) : Append(q, x)[i] = q[i]
  BY <1>1
<1>3. Appended(P, h, x) \in [Owners -> Seq(Items)]
  BY <1>1, <1>2 DEF Appended, q
<1> QED
  BY <1>1, <1>2, <1>3 DEF q

LEMMA WaitsAppended ==
  ASSUME NEW P \in [Owners -> Seq(Items)], NEW h \in Owners, NEW x \in Items
  PROVE  \A y : Waits(y, Appended(P, h, x)) <=> Waits(y, P) \/ y = x
<1> DEFINE R == Appended(P, h, x)
           n == Len(P[h])
<1>1. /\ n \in Nat /\ Len(R[h]) = n + 1 /\ R[h][n + 1] = x
      /\ \A i \in 1 .. n : R[h][i] = P[h][i]
      /\ \A o \in Owners : o # h => R[o] = P[o]
  BY AppendedFields
<1> HIDE DEF R
<1>2. ASSUME NEW y, Waits(y, R) PROVE Waits(y, P) \/ y = x
  <2>1. PICK o \in Owners : \E i \in 1 .. Len(R[o]) : y = R[o][i]
    BY <1>2 DEF Waits
  <2>2. PICK i \in 1 .. Len(R[o]) : y = R[o][i]
    BY <2>1
  <2>3. CASE o # h
    BY <1>1, <2>2, <2>3 DEF Waits
  <2>4. CASE o = h
    <3>1. i \in 1 .. n \/ i = n + 1
      BY <1>1, <2>4
    <3> QED
      BY <1>1, <2>2, <2>4, <3>1 DEF Waits
  <2> QED
    BY <2>3, <2>4
<1>3. ASSUME NEW y, Waits(y, P) PROVE Waits(y, R)
  <2>1. PICK o \in Owners : \E i \in 1 .. Len(P[o]) : y = P[o][i]
    BY <1>3 DEF Waits
  <2>2. PICK i \in 1 .. Len(P[o]) : y = P[o][i]
    BY <2>1
  <2>3. i \in 1 .. Len(R[o]) /\ R[o][i] = y
    <3>1. CASE o = h
      BY <1>1, <2>2, <3>1
    <3>2. CASE o # h
      BY <1>1, <2>2, <3>2
    <3> QED
      BY <3>1, <3>2
  <2> QED
    BY <2>3 DEF Waits
<1>4. Waits(x, R)
  <2>1. n + 1 \in 1 .. Len(R[h])
    BY <1>1
  <2> QED
    BY <1>1, <2>1 DEF Waits
<1> QED
  BY <1>2, <1>3, <1>4 DEF R

(* What is newest may be queued.                                           *)
LEMMA BooksQueued ==
  ASSUME NEW P \in [Owners -> Seq(Items)], NEW K, NEW M, NEW h \in Owners, NEW x \in Items,
         Books(P, K, M), Newest(x, P, K, M)
  PROVE  Books(Appended(P, h, x), K, M)
<1> DEFINE R == Appended(P, h, x)
           n == Len(P[h])
<1>1. /\ n \in Nat /\ Len(R[h]) = n + 1 /\ R[h][n + 1] = x
      /\ \A i \in 1 .. n : R[h][i] = P[h][i]
      /\ \A o \in Owners : o # h => R[o] = P[o]
  BY AppendedFields
<1>2. \A y : Waits(y, R) <=> Waits(y, P) \/ y = x
  BY WaitsAppended
<1> HIDE DEF R
<1>3. \A o \in Owners : \A i \in 1 .. Len(R[o]) :
        \/ o = h /\ i = n + 1 /\ R[o][i] = x
        \/ i \in 1 .. Len(P[o]) /\ R[o][i] = P[o][i] /\ Waits(P[o][i], P) /\ ~(o = h /\ i = n + 1)
  <2> SUFFICES ASSUME NEW o \in Owners, NEW i \in 1 .. Len(R[o]), ~(o = h /\ i = n + 1)
               PROVE  i \in 1 .. Len(P[o]) /\ R[o][i] = P[o][i] /\ Waits(P[o][i], P)
    BY <1>1
  <2>1. i \in 1 .. Len(P[o]) /\ R[o][i] = P[o][i]
    <3>1. CASE o = h
      BY <1>1, <3>1
    <3>2. CASE o # h
      BY <1>1, <3>2
    <3> QED
      BY <3>1, <3>2
  <2> QED
    BY <2>1 DEF Waits
<1>4. \A y : Waits(y, P) => ~Same(y, x) /\ ~Same(x, y) /\ Before(y, x, M)
  BY DEF Newest, Placed, Same
<1>5. QueuedOnce(R)
  <2> SUFFICES ASSUME NEW o \in Owners, NEW p \in Owners,
                      NEW i \in 1 .. Len(R[o]), NEW j \in 1 .. Len(R[p]), Same(R[o][i], R[p][j])
               PROVE  o = p /\ i = j
    BY DEF QueuedOnce
  <2>1. CASE o = h /\ i = n + 1 /\ R[o][i] = x
    BY <1>3, <1>4, <2>1
  <2>2. CASE p = h /\ j = n + 1 /\ R[p][j] = x
    BY <1>3, <1>4, <2>2
  <2>3. CASE i \in 1 .. Len(P[o]) /\ R[o][i] = P[o][i] /\ j \in 1 .. Len(P[p]) /\ R[p][j] = P[p][j]
    BY <2>3 DEF Books, QueuedOnce
  <2> QED
    BY <1>3, <2>1, <2>2, <2>3
<1>6. QueuedInOrder(R, M)
  <2> SUFFICES ASSUME NEW o \in Owners, NEW i \in 1 .. Len(R[o]), NEW j \in 1 .. Len(R[o]), i < j
               PROVE  Before(R[o][i], R[o][j], M)
    BY DEF QueuedInOrder
  <2>1. ~(o = h /\ i = n + 1)
    BY <1>1
  <2>2. i \in 1 .. Len(P[o]) /\ R[o][i] = P[o][i] /\ Waits(P[o][i], P)
    BY <1>3, <2>1
  <2>3. CASE o = h /\ j = n + 1 /\ R[o][j] = x
    BY <1>4, <2>2, <2>3
  <2>4. CASE j \in 1 .. Len(P[o]) /\ R[o][j] = P[o][j]
    BY <2>2, <2>4 DEF Books, QueuedInOrder
  <2> QED
    BY <1>3, <2>3, <2>4
<1>7. QueuedAfterCalled(R, K, M)
  BY <1>2 DEF Books, QueuedAfterCalled, Newest, Placed
<1> QED
  BY <1>5, <1>6, <1>7 DEF Books, R

(* The first of a queue leaves the books as they were, and without it.     *)
LEMMA BooksPopped ==
  ASSUME NEW P \in [Owners -> Seq(Items)], NEW K, NEW M, NEW h \in Owners, P[h] # <<>>,
         Books(P, K, M)
  PROVE  /\ Popped(P, h) \in [Owners -> Seq(Items)] /\ Head(P[h]) \in Items
         /\ Waits(Head(P[h]), P)
         /\ Books(Popped(P, h), K, M)
         /\ \A y : Waits(y, Popped(P, h)) => Waits(y, P)
         /\ \A o \in Owners : \A i \in 1 .. Len(Popped(P, h)[o]) :
              \E j \in 1 .. Len(P[o]) : Popped(P, h)[o][i] = P[o][j]
         /\ \A o \in Owners : \A i \in 1 .. Len(Popped(P, h)[o]) :
              /\ ~Same(Popped(P, h)[o][i], Head(P[h]))
              /\ o = h => Before(Head(P[h]), Popped(P, h)[o][i], M)
<1> DEFINE R == Popped(P, h)
           q == P[h]
           k(o) == IF o = h THEN 1 ELSE 0
<1>1. q \in Seq(Items) /\ q # <<>> /\ R[h] = Tail(q) /\ R = [P EXCEPT ![h] = Tail(q)]
      /\ \A o \in Owners : o # h => R[o] = P[o]
  BY DEF Popped
<1> HIDE DEF q, R
<1>2. /\ Tail(q) \in Seq(Items) /\ Head(q) \in Items /\ Head(q) = q[1] /\ Len(q) \in Nat
      /\ Len(q) > 0
      /\ Len(Tail(q)) = Len(q) - 1 /\ \A i \in 1 .. Len(q) - 1 : Tail(q)[i] = q[i + 1]
  BY <1>1
<1>3. R \in [Owners -> Seq(Items)]
  BY <1>1, <1>2
<1>4. \A o \in Owners : \A i \in 1 .. Len(R[o]) :
        /\ i + k(o) \in 1 .. Len(P[o]) /\ R[o][i] = P[o][i + k(o)]
        /\ Waits(R[o][i], P)
  <2> SUFFICES ASSUME NEW o \in Owners, NEW i \in 1 .. Len(R[o])
               PROVE  i + k(o) \in 1 .. Len(P[o]) /\ R[o][i] = P[o][i + k(o)]
    BY DEF Waits
  <2>1. CASE o = h
    BY <1>1, <1>2, <2>1 DEF q
  <2>2. CASE o # h
    <3>1. R[o] = P[o] /\ i + k(o) = i
      BY <1>1, <2>2
    <3> QED
      BY <3>1
  <2> QED
    BY <2>1, <2>2
<1>5. \A y : Waits(y, R) => Waits(y, P)
  BY <1>4 DEF Waits
<1>6. 1 \in 1 .. Len(P[h]) /\ P[h][1] = Head(q)
  BY <1>2 DEF q
<1>7. Waits(Head(q), P)
  BY <1>6 DEF Waits
<1>8. QueuedOnce(R)
  <2> SUFFICES ASSUME NEW o \in Owners, NEW p \in Owners,
                      NEW i \in 1 .. Len(R[o]), NEW j \in 1 .. Len(R[p]), Same(R[o][i], R[p][j])
               PROVE  o = p /\ i = j
    BY DEF QueuedOnce
  <2>0. /\ i + k(o) \in 1 .. Len(P[o]) /\ j + k(p) \in 1 .. Len(P[p])
        /\ Same(P[o][i + k(o)], P[p][j + k(p)])
    BY <1>4
  <2> HIDE DEF k
  <2>1. o = p /\ i + k(o) = j + k(p)
    BY <2>0 DEF Books, QueuedOnce
  <2> USE DEF k
  <2> QED
    BY <2>1
<1>9. QueuedInOrder(R, M)
  <2> SUFFICES ASSUME NEW o \in Owners, NEW i \in 1 .. Len(R[o]), NEW j \in 1 .. Len(R[o]), i < j
               PROVE  Before(R[o][i], R[o][j], M)
    BY DEF QueuedInOrder
  <2>1. i + k(o) < j + k(o)
    OBVIOUS
  <2> QED
    BY <1>4, <2>1 DEF Books, QueuedInOrder
<1>10. Books(R, K, M)
  BY <1>5, <1>8, <1>9 DEF Books, QueuedAfterCalled
<1>11. ASSUME NEW o \in Owners, NEW i \in 1 .. Len(R[o])
       PROVE  ~Same(R[o][i], Head(q)) /\ (o = h => Before(Head(q), R[o][i], M))
  <2>1. i + k(o) \in 1 .. Len(P[o]) /\ R[o][i] = P[o][i + k(o)]
    BY <1>4
  <2>2. ~Same(R[o][i], Head(q))
    <3> SUFFICES ASSUME Same(P[o][i + k(o)], P[h][1]) PROVE FALSE
      BY <1>6, <2>1
    <3>1. o = h /\ i + k(o) = 1
      BY <1>6, <2>1 DEF Books, QueuedOnce
    <3> QED
      BY <3>1
  <2>3. ASSUME o = h PROVE Before(Head(q), R[o][i], M)
    <3>1. 1 < i + k(o)
      BY <2>3
    <3>2. Before(P[h][1], P[h][i + k(o)], M)
      BY <1>6, <2>1, <2>3, <3>1 DEF Books, QueuedInOrder
    <3> QED
      BY <1>6, <2>1, <2>3, <3>2
  <2> QED
    BY <2>2, <2>3
<1> QED
  BY <1>2, <1>3, <1>4, <1>5, <1>7, <1>10, <1>11 DEF q, R

(* What has not been called, and comes before all that waits, may be.      *)
LEMMA BooksCalled ==
  ASSUME NEW P, NEW K \in Seq(CallType), NEW M, NEW k \in CallType, Books(P, K, M),
         \A y : Called(y, K) => ~Same(y, k.item) /\ Before(y, k.item, M),
         \A y : Waits(y, P) => ~Same(k.item, y) /\ Before(k.item, y, M)
  PROVE  /\ Books(P, Append(K, k), M) /\ Append(K, k) \in Seq(CallType)
         /\ \A y : Called(y, Append(K, k)) <=> Called(y, K) \/ y = k.item
<1> DEFINE L == Append(K, k)
           n == Len(K)
<1>1. /\ L \in Seq(CallType) /\ n \in Nat /\ Len(L) = n + 1 /\ L[n + 1] = k
      /\ \A i \in 1 .. n : L[i] = K[i]
  OBVIOUS
<1> HIDE DEF L
<1>2. \A i \in 1 .. Len(L) : i \in 1 .. n \/ i = n + 1
  BY <1>1
<1>3. ASSUME NEW y PROVE Called(y, L) <=> Called(y, K) \/ y = k.item
  <2>1. ASSUME Called(y, L) PROVE Called(y, K) \/ y = k.item
    BY <1>1, <1>2, <2>1 DEF Called
  <2>2. ASSUME Called(y, K) PROVE Called(y, L)
    <3>1. PICK i \in 1 .. n : y = K[i].item
      BY <2>2 DEF Called
    <3>2. i \in 1 .. Len(L) /\ y = L[i].item
      BY <1>1, <3>1
    <3> QED
      BY <3>2 DEF Called
  <2>3. Called(k.item, L)
    <3>1. n + 1 \in 1 .. Len(L)
      BY <1>1
    <3> QED
      BY <1>1, <3>1 DEF Called
  <2> QED
    BY <2>1, <2>2, <2>3
<1>4. QueuedAfterCalled(P, L, M)
  BY <1>3 DEF Books, QueuedAfterCalled
<1>5. CalledInOrder(L, M)
  <2> SUFFICES ASSUME NEW i \in 1 .. Len(L), NEW j \in 1 .. Len(L), i < j
               PROVE  ~Same(L[i].item, L[j].item) /\ Before(L[i].item, L[j].item, M)
    BY DEF CalledInOrder
  <2>1. i \in 1 .. n /\ L[i] = K[i] /\ Called(K[i].item, K)
    BY <1>1, <1>2 DEF Called
  <2>2. CASE j \in 1 .. n
    BY <1>1, <2>1, <2>2 DEF Books, CalledInOrder
  <2>3. CASE j = n + 1
    BY <1>1, <2>1, <2>3
  <2> QED
    BY <1>2, <2>2, <2>3
<1> QED
  BY <1>1, <1>3, <1>4, <1>5 DEF Books, L

-----------------------------------------------------------------------------
TypeOK ==
  /\ m_slots \in Seq(Conns) /\ made \in SUBSET Conns /\ connected \in SUBSET Conns
  /\ nodeOwner \in [Nodes -> Owners]
  /\ posted \in [Owners -> Seq(Items)]
  /\ emitting \in [Owners -> Seq(Visits)] /\ emits \in Nat
  /\ calls \in Seq(CallType)

(* Each emit() has a number of its own.                                    *)
Numbers ==
  /\ \A o \in Owners : \A k \in 1 .. Len(emitting[o]) : emitting[o][k].e <= emits
  /\ \A o, p \in Owners : \A k \in 1 .. Len(emitting[o]) : \A l \in 1 .. Len(emitting[p]) :
       emitting[o][k].e = emitting[p][l].e => o = p
(* Of two visits of a thread, they are of one emit() and to two            *)
(* connections, or the first is of an emit() inside the other.             *)
Apart(v, w) == IF v.e = w.e THEN v.c # w.c ELSE w.e \in v.in
Nested ==
  \A o \in Owners : \A k, l \in 1 .. Len(emitting[o]) :
    k < l => Apart(emitting[o][k], emitting[o][l])
ListOnce ==
  NoRepeat(m_slots) /\ \A i \in 1 .. Len(m_slots) : m_slots[i] \in made

(* What has left an emit() is not newer than the last one.                 *)
Known == \A x : Placed(x, posted, calls) => x.e <= emits
(* What an emit() has still to visit has not been queued or called, and    *)
(* what has been, of this thread, was emitted before it or inside it.      *)
Unseen(v, o, P, K) ==
  \A y : Placed(y, P, K) /\ y.c = v.c =>
    y.e # v.e /\ (y.by = o => y.e < v.e \/ v.e \in y.in)
NotYet ==
  \A o \in Owners : \A k \in 1 .. Len(emitting[o]) :
    ~emitting[o][k].inSlot => Unseen(emitting[o][k], o, posted, calls)
(* As long as a receiver stays, what waits for it waits with its owner.    *)
AtHome(P) ==
  \A o \in Owners : \A i \in 1 .. Len(P[o]) :
    Receiver[P[o][i].c] \notin moved =>
      o = nodeOwner[Receiver[P[o][i].c]] /\ Queue(P[o][i].c, P[o][i].by)

Inv ==
  /\ TypeOK /\ Numbers /\ Nested /\ ListOnce /\ Known /\ NotYet /\ AtHome(posted)
  /\ Books(posted, calls, moved)

-----------------------------------------------------------------------------
LEMMA InitInv == Init => Inv
<1> SUFFICES ASSUME Init PROVE Inv
  OBVIOUS
<1>1. TypeOK
  BY DEF Init, TypeOK
<1>2. /\ Len(m_slots) = 0 /\ Len(calls) = 0
      /\ \A o \in Owners : Len(posted[o]) = 0 /\ Len(emitting[o]) = 0 /\ emitting[o] = <<>>
  BY DEF Init
<1>3. 1 .. 0 = {}
  OBVIOUS
<1>4. \A y : ~Placed(y, posted, calls) /\ ~Waits(y, posted)
  BY <1>2, <1>3 DEF Placed, Waits, Called
<1>5. Numbers /\ Nested /\ ListOnce /\ AtHome(posted)
  BY <1>2, <1>3 DEF Init, Numbers, Nested, ListOnce, AtHome, NoRepeat
<1>6. Known /\ NotYet
  BY <1>2, <1>3, <1>4 DEF Known, NotYet
<1>7. Books(posted, calls, moved)
  BY <1>2, <1>3, <1>4 DEF Books, QueuedOnce, QueuedInOrder, QueuedAfterCalled, CalledInOrder
<1> QED
  BY <1>1, <1>5, <1>6, <1>7 DEF Inv

LEMMA PlacedType ==
  ASSUME TypeOK, NEW x, Placed(x, posted, calls)
  PROVE  x \in Items /\ x.c \in Conns /\ x.e \in Nat /\ x.by \in Owners
<1>1. x \in Items
  <2>1. CASE Waits(x, posted)
    <3>1. PICK o \in Owners : \E i \in 1 .. Len(posted[o]) : x = posted[o][i]
      BY <2>1 DEF Waits
    <3>2. posted[o] \in Seq(Items)
      BY DEF TypeOK
    <3> QED
      BY <3>1, <3>2
  <2>2. CASE Called(x, calls)
    <3>1. PICK i \in 1 .. Len(calls) : x = calls[i].item
      BY <2>2 DEF Called
    <3>2. calls[i] \in CallType
      BY <3>1 DEF TypeOK
    <3> QED
      BY <3>1, <3>2 DEF CallType
  <2> QED
    BY <2>1, <2>2 DEF Placed
<1> QED
  BY <1>1 DEF Items

LEMMA ConnectKeeps ==
  ASSUME Inv, NEW c \in Conns, Connect(c)
  PROVE  Inv'
<1> USE DEF Inv
<1>1. /\ c \notin made /\ made' = made \union {c}
      /\ m_slots' = Append(m_slots, c) /\ connected' = connected \union {c}
      /\ UNCHANGED <<blockVars, posted, emitting, emits, calls>>
  BY DEF Connect
<1> DEFINE n == Len(m_slots)
<1>2. /\ m_slots' \in Seq(Conns) /\ n \in Nat /\ Len(m_slots') = n + 1 /\ m_slots'[n + 1] = c
      /\ \A i \in 1 .. n : m_slots'[i] = m_slots[i]
  BY <1>1 DEF TypeOK
<1>3. TypeOK'
  BY <1>1, <1>2 DEF TypeOK, blockVars
<1>4. ListOnce'
  <2>1. \A i \in 1 .. n + 1 : i \in 1 .. n \/ i = n + 1
    BY <1>2
  <2>2. \A i \in 1 .. n : m_slots[i] # c
    BY <1>1 DEF ListOnce
  <2>3. \A i \in 1 .. n + 1 : m_slots'[i] \in made'
    BY <1>1, <1>2, <2>1 DEF ListOnce
  <2>4. \A i, j \in 1 .. n + 1 : m_slots'[i] = m_slots'[j] => i = j
    BY <1>2, <2>1, <2>2 DEF ListOnce, NoRepeat
  <2> QED
    BY <1>2, <2>3, <2>4 DEF ListOnce, NoRepeat
<1>5. /\ Numbers' /\ Nested' /\ Known' /\ NotYet' /\ AtHome(posted)'
      /\ Books(posted, calls, moved)'
  BY <1>1 DEF Numbers, Nested, Known, NotYet, AtHome, Queue, blockVars
<1> QED
  BY <1>3, <1>4, <1>5

(* A function on 1..n is a sequence, and one sequence behind another.      *)
LEMMA SequenceOf ==
  ASSUME NEW S, NEW n \in Nat, NEW f \in [1 .. n -> S]
  PROVE  f \in Seq(S) /\ Len(f) = n
  OBVIOUS

LEMMA Behind ==
  ASSUME NEW S, NEW a \in Seq(S), NEW b \in Seq(S)
  PROVE  /\ a \o b \in Seq(S) /\ Len(a \o b) = Len(a) + Len(b)
         /\ \A i \in 1 .. Len(a) : (a \o b)[i] = a[i]
         /\ \A i \in Len(a) + 1 .. Len(a) + Len(b) :
              i - Len(a) \in 1 .. Len(b) /\ (a \o b)[i] = b[i - Len(a)]
  OBVIOUS

LEMMA EmitKeeps ==
  ASSUME Inv, NEW o \in Owners, Emit(o)
  PROVE  Inv'
<1> USE DEF Inv
<1> DEFINE q == emitting[o]
           outer == {q[i].e : i \in 1 .. Len(q)}
           new == [i \in 1 .. Len(m_slots') |->
                    [c |-> m_slots'[i], e |-> emits', in |-> outer, inSlot |-> FALSE]]
           r == new \o q
           n == Len(m_slots')
<1>1. /\ m_slots' = Pruned(m_slots, connected)
      /\ emitting' = [emitting EXCEPT ![o] = r]
      /\ emits' = emits + 1
      /\ UNCHANGED <<connected, made, blockVars, posted, calls>>
  BY DEF Emit
<1>2. /\ m_slots' \in Seq(Conns) /\ NoRepeat(m_slots')
      /\ \A j \in 1 .. Len(m_slots') : \E i \in 1 .. Len(m_slots) : m_slots'[j] = m_slots[i]
  <2>1. m_slots \in Seq(Conns) /\ NoRepeat(m_slots)
    BY DEF TypeOK, ListOnce
  <2>2. /\ Pruned(m_slots, connected) \in Seq(Conns) /\ NoRepeat(Pruned(m_slots, connected))
        /\ \A j \in 1 .. Len(Pruned(m_slots, connected)) :
             \E i \in 1 .. Len(m_slots) : Pruned(m_slots, connected)[j] = m_slots[i]
    BY ONLY <2>1, PrunedProperties
  <2> QED
    BY <1>1, <2>2
<1>3. q \in Seq(Visits) /\ Len(q) \in Nat /\ emits \in Nat /\ emits + 1 \in Nat /\ n \in Nat
  BY <1>2 DEF TypeOK
<1>4. \A i \in 1 .. Len(q) : q[i] \in Visits /\ q[i].e \in Nat /\ q[i].e <= emits
  <2>1. \A i \in 1 .. Len(q) : q[i].e <= emits
    BY DEF Numbers
  <2> HIDE DEF q
  <2>2. \A i \in 1 .. Len(q) : q[i] \in Visits
    BY <1>3
  <2> QED
    BY <2>1, <2>2 DEF Visits
<1>5. outer \in SUBSET Nat
  BY <1>4
<1>6. /\ new \in Seq(Visits) /\ Len(new) = n
      /\ \A i \in 1 .. n : new[i].c = m_slots'[i] /\ new[i].e = emits + 1 /\ new[i].in = outer
  <2> HIDE DEF outer
  <2>1. \A i \in 1 .. n : [c |-> m_slots'[i], e |-> emits', in |-> outer, inSlot |-> FALSE] \in Visits
    BY <1>1, <1>2, <1>3, <1>5 DEF Visits
  <2>2. new \in [1 .. n -> Visits]
    BY <2>1
  <2>3. \A i \in 1 .. n : new[i].c = m_slots'[i] /\ new[i].e = emits' /\ new[i].in = outer
    OBVIOUS
  <2> HIDE DEF new, n
  <2>4. new \in Seq(Visits) /\ Len(new) = n
    BY <1>3, <2>2, SequenceOf
  <2> QED
    BY <1>1, <2>3, <2>4
<1>7. \A i \in 1 .. Len(q) : q[i].e \in outer
  OBVIOUS
<1> HIDE DEF new, outer, q, n
<1>8. /\ r \in Seq(Visits) /\ Len(r) = n + Len(q)
      /\ \A i \in 1 .. n : r[i] = new[i]
      /\ \A i \in n + 1 .. n + Len(q) : i - n \in 1 .. Len(q) /\ r[i] = q[i - n]
  <2>1. new \in Seq(Visits) /\ q \in Seq(Visits) /\ Len(new) = n
    BY <1>3, <1>6
  <2>2. /\ new \o q \in Seq(Visits) /\ Len(new \o q) = Len(new) + Len(q)
        /\ \A i \in 1 .. Len(new) : (new \o q)[i] = new[i]
        /\ \A i \in Len(new) + 1 .. Len(new) + Len(q) :
             i - Len(new) \in 1 .. Len(q) /\ (new \o q)[i] = q[i - Len(new)]
    BY ONLY <2>1, Behind
  <2> QED
    BY ONLY <2>1, <2>2
<1> HIDE DEF r
<1>9. emitting'[o] = r /\ \A p \in Owners : p # o => emitting'[p] = emitting[p]
  BY <1>1 DEF TypeOK
<1>10. \A i \in 1 .. Len(r) :
         \/ i \in 1 .. n /\ r[i].e = emits + 1 /\ r[i].c = m_slots'[i] /\ r[i].in = outer
         \/ i \notin 1 .. n /\ i - n \in 1 .. Len(q) /\ r[i] = q[i - n] /\ r[i].e <= emits
  <2>1. \A i \in 1 .. Len(r) : i \in 1 .. n \/ (i \in n + 1 .. n + Len(q) /\ i \notin 1 .. n)
    BY <1>3, <1>8
  <2> QED
    BY <1>4, <1>6, <1>8, <2>1
<1>11. TypeOK'
  BY <1>1, <1>2, <1>3, <1>8 DEF TypeOK, blockVars
<1>12. ListOnce'
  BY <1>1, <1>2 DEF ListOnce
<1>13. Numbers'
  <2>1. ASSUME NEW p \in Owners, NEW k \in 1 .. Len(emitting'[p]) PROVE emitting'[p][k].e <= emits'
    <3>1. CASE p = o
      BY <1>1, <1>3, <1>4, <1>9, <1>10, <3>1
    <3>2. CASE p # o
      <4>1. emitting[p] \in Seq(Visits) /\ emitting'[p] = emitting[p]
        BY <1>9, <3>2 DEF TypeOK
      <4>2. emitting[p][k] \in Visits /\ emitting[p][k].e <= emits
        BY <4>1 DEF Numbers
      <4> QED
        BY <1>1, <1>3, <4>1, <4>2 DEF Visits
    <3> QED
      BY <3>1, <3>2
  <2>2. ASSUME NEW p \in Owners, p # o, NEW k \in 1 .. Len(r), NEW l \in 1 .. Len(emitting[p])
        PROVE  r[k].e # emitting[p][l].e
    <3>1. emitting[p] \in Seq(Visits) /\ emitting[p][l] \in Visits
      BY DEF TypeOK
    <3>2. emitting[p][l].e \in Nat /\ emitting[p][l].e <= emits
      BY <3>1 DEF Visits, Numbers
    <3>3. CASE k \in 1 .. n
      BY <1>3, <1>10, <3>2, <3>3
    <3>4. CASE k \notin 1 .. n
      BY <1>10, <2>2, <3>4 DEF Numbers, q
    <3> QED
      BY <3>3, <3>4
  <2>3. ASSUME NEW p1 \in Owners, NEW p2 \in Owners, NEW k \in 1 .. Len(emitting'[p1]),
               NEW l \in 1 .. Len(emitting'[p2]), emitting'[p1][k].e = emitting'[p2][l].e
        PROVE  p1 = p2
    <3>1. CASE p1 = o /\ p2 # o
      BY <1>9, <2>2, <2>3, <3>1
    <3>2. CASE p1 # o /\ p2 = o
      BY <1>9, <2>2, <2>3, <3>2
    <3>3. CASE p1 # o /\ p2 # o
      BY <1>9, <2>3, <3>3 DEF Numbers
    <3> QED
      BY <3>1, <3>2, <3>3
  <2> QED
    BY <2>1, <2>3 DEF Numbers
<1>14. Nested'
  <2> SUFFICES ASSUME NEW p \in Owners, NEW k \in 1 .. Len(emitting'[p]),
                      NEW l \in 1 .. Len(emitting'[p]), k < l
               PROVE  Apart(emitting'[p][k], emitting'[p][l])
    BY DEF Nested
  <2>1. CASE p # o
    BY <1>9, <2>1 DEF Nested
  <2>2. CASE p = o /\ k \in 1 .. n /\ l \in 1 .. n
    <3>1. m_slots'[k] # m_slots'[l]
      BY <1>2, <2>2 DEF NoRepeat, n
    <3> QED
      BY <1>9, <1>10, <2>2, <3>1 DEF Apart
  <2>3. CASE p = o /\ k \in 1 .. n /\ l \notin 1 .. n
    <3>1. r[k].e = emits + 1 /\ r[k].in = outer
      BY <1>9, <1>10, <2>3
    <3>2. l - n \in 1 .. Len(q) /\ r[l].e = q[l - n].e
      BY <1>9, <1>10, <2>3
    <3>3. q[l - n].e \in outer /\ q[l - n].e <= emits /\ q[l - n].e \in Nat
      BY <1>4, <1>7, <3>2
    <3> QED
      BY <1>3, <1>9, <2>3, <3>1, <3>2, <3>3 DEF Apart
  <2>4. CASE p = o /\ k \notin 1 .. n
    <3>1. n \in Nat /\ l \notin 1 .. n
      BY <1>3, <2>4
    <3>2. k - n \in 1 .. Len(q) /\ l - n \in 1 .. Len(q) /\ r[k] = q[k - n] /\ r[l] = q[l - n]
      BY <1>9, <1>10, <2>4, <3>1
    <3>3. k - n < l - n
      BY <3>1
    <3> QED
      BY <1>9, <2>4, <3>2, <3>3 DEF Nested, q
  <2> QED
    BY <2>1, <2>2, <2>3, <2>4
<1>15. \A x : Placed(x, posted, calls) => x.e \in Nat /\ x.e <= emits
  BY PlacedType DEF Known
<1>16. Known'
  BY <1>1, <1>3, <1>15 DEF Known
<1>17. NotYet'
  <2> SUFFICES ASSUME NEW p \in Owners, NEW k \in 1 .. Len(emitting'[p]), ~emitting'[p][k].inSlot
               PROVE  Unseen(emitting'[p][k], p, posted, calls)
    BY <1>1 DEF NotYet
  <2>1. CASE p # o
    BY <1>9, <2>1 DEF NotYet
  <2>2. CASE p = o /\ k \in 1 .. n
    <3>1. emitting'[p][k].e = emits + 1
      BY <1>9, <1>10, <2>2
    <3>2. \A y : Placed(y, posted, calls) => y.e < emits + 1 /\ y.e # emits + 1
      BY <1>3, <1>15
    <3> QED
      BY <3>1, <3>2 DEF Unseen
  <2>3. CASE p = o /\ k \notin 1 .. n
    BY <1>9, <1>10, <2>3 DEF NotYet, q
  <2> QED
    BY <2>1, <2>2, <2>3
<1>18. AtHome(posted)' /\ Books(posted, calls, moved)'
  BY <1>1 DEF AtHome, Queue, blockVars
<1> QED
  BY <1>11, <1>12, <1>13, <1>14, <1>16, <1>17, <1>18

(* Receivers move, are marked and die, connections are cut.                *)
LEMMA ReceiverKeeps ==
  ASSUME Inv, NEW n \in Nodes, NEW o \in Owners, NEW c \in Conns,
         Migrate(n, o) \/ Mark(n) \/ Die(n) \/ Disconnect(c)
  PROVE  Inv'
<1> USE DEF Inv
<1>1. CASE Migrate(n, o)
  <2>1. /\ nodeOwner' = [nodeOwner EXCEPT ![n] = o] /\ moved' = moved \union {n}
        /\ UNCHANGED <<connVars, posted, emitting, emits, calls>>
    BY <1>1 DEF Migrate
  <2>2. TypeOK' /\ Numbers' /\ Nested' /\ ListOnce' /\ Known' /\ NotYet'
    BY <2>1 DEF TypeOK, Numbers, Nested, ListOnce, Known, NotYet, connVars
  <2>3. \A m : m \notin moved' => m \notin moved /\ nodeOwner'[m] = nodeOwner[m]
    BY <2>1 DEF TypeOK
  <2>4. AtHome(posted)'
    <3> SUFFICES ASSUME NEW p \in Owners, NEW i \in 1 .. Len(posted[p]),
                        Receiver[posted[p][i].c] \notin moved'
                 PROVE  /\ p = nodeOwner'[Receiver[posted[p][i].c]]
                        /\ Queue(posted[p][i].c, posted[p][i].by)'
      BY <2>1 DEF AtHome
    <3> DEFINE x == posted[p][i]
    <3>1. p = nodeOwner[Receiver[x.c]] /\ Queue(x.c, x.by) /\ nodeOwner'[Receiver[x.c]] = nodeOwner[Receiver[x.c]]
      BY <2>3 DEF AtHome
    <3>2. UNCHANGED x
      BY <2>1
    <3>3. Queue(x.c, x.by)'
      BY <3>1, <3>2 DEF Queue
    <3> QED
      BY <3>1, <3>3
  <2>5. \A x, y : Before(x, y, moved) => Before(x, y, moved')
    BY <2>1 DEF Before
  <2>6. Books(posted, calls, moved')
    BY <2>5 DEF Books, QueuedInOrder, QueuedAfterCalled, CalledInOrder
  <2> QED
    BY <2>1, <2>2, <2>4, <2>6
<1>2. CASE Mark(n) \/ Die(n) \/ Disconnect(c)
  <2>1. /\ connected' \in SUBSET connected
        /\ UNCHANGED <<m_slots, made, nodeOwner, moved, posted, emitting, emits, calls>>
    BY <1>2 DEF Mark, Die, Disconnect, connVars, blockVars
  <2> QED
    BY <2>1 DEF TypeOK, Numbers, Nested, ListOnce, Known, NotYet, AtHome, Queue
<1> QED
  BY <1>1, <1>2

(* What a thread has to visit after it has gone into a slot or returned.   *)
LEMMA VisitsAfter ==
  ASSUME Inv, NEW o \in Owners, emitting[o] # <<>>,
         emitting' = [emitting EXCEPT ![o] = Returned(emitting[o])]
         \/ emitting' = [emitting EXCEPT ![o] = Entered(emitting[o])],
         emits' = emits
  PROVE  /\ emitting' \in [Owners -> Seq(Visits)]
         /\ Numbers' /\ Nested'
         /\ \A p \in Owners : \A k \in 1 .. Len(emitting'[p]) : ~emitting'[p][k].inSlot =>
              \E j \in 1 .. Len(emitting[p]) :
                emitting'[p][k] = emitting[p][j] /\ (p = o => 1 < j)
<1> USE DEF Inv
<1> DEFINE q == emitting[o]
           r == emitting'[o]
<1>1. q \in Seq(Visits) /\ q # <<>> /\ emitting \in [Owners -> Seq(Visits)]
  BY DEF TypeOK
<1>2. (r = Returned(q) \/ r = Entered(q)) /\ \A p \in Owners : p # o => emitting'[p] = emitting[p]
  BY <1>1
<1>3. emitting' = [emitting EXCEPT ![o] = r]
  BY <1>1
<1> HIDE DEF q, r
<1>4. PICK d \in {0, 1} :
        /\ r \in Seq(Visits) /\ Len(r) = Len(q) - d
        /\ \A k \in 1 .. Len(r) :
             /\ k + d \in 1 .. Len(q)
             /\ r[k].c = q[k + d].c /\ r[k].e = q[k + d].e /\ r[k].in = q[k + d].in
             /\ ~r[k].inSlot => r[k] = q[k + d] /\ 1 < k + d
  <2>1. CASE r = Returned(q)
    <3>1. /\ Tail(q) \in Seq(Visits) /\ Len(q) \in Nat /\ Len(Tail(q)) = Len(q) - 1
          /\ \A k \in 1 .. Len(Tail(q)) : k + 1 \in 1 .. Len(q) /\ Tail(q)[k] = q[k + 1] /\ 1 < k + 1
      BY <1>1
    <3> QED
      BY <2>1, <3>1 DEF Returned
  <2>2. CASE r = Entered(q)
    <3> DEFINE v == [Head(q) EXCEPT !.inSlot = TRUE]
    <3>1. 1 \in 1 .. Len(q) /\ Head(q) = q[1] /\ q[1] \in Visits /\ Len(q) \in Nat
      BY <1>1
    <3>2. v \in Visits /\ v.c = q[1].c /\ v.e = q[1].e /\ v.in = q[1].in /\ v.inSlot
      BY <3>1 DEF Visits
    <3>3. r = [q EXCEPT ![1] = v]
      BY <2>2 DEF Entered
    <3> HIDE DEF v
    <3>4. /\ r \in Seq(Visits) /\ Len(r) = Len(q) /\ r[1] = v
          /\ \A k \in 1 .. Len(q) : k # 1 => r[k] = q[k]
      BY <1>1, <3>1, <3>2, <3>3
    <3>5. \A k \in 1 .. Len(r) :
             /\ k + 0 \in 1 .. Len(q) /\ k + 0 = k
             /\ r[k].c = q[k].c /\ r[k].e = q[k].e /\ r[k].in = q[k].in
             /\ ~r[k].inSlot => r[k] = q[k] /\ 1 < k
      BY <3>1, <3>2, <3>4
    <3>6. Len(r) = Len(q) - 0
      BY <3>1, <3>4
    <3> QED
      BY <3>4, <3>5, <3>6
  <2> QED
    BY <1>2, <2>1, <2>2
<1>5. emitting' \in [Owners -> Seq(Visits)]
  BY <1>1, <1>3, <1>4
<1>6. ASSUME NEW p \in Owners, NEW k \in 1 .. Len(emitting'[p])
      PROVE  /\ k + (IF p = o THEN d ELSE 0) \in 1 .. Len(emitting[p])
             /\ emitting'[p][k].c = emitting[p][k + (IF p = o THEN d ELSE 0)].c
             /\ emitting'[p][k].e = emitting[p][k + (IF p = o THEN d ELSE 0)].e
             /\ emitting'[p][k].in = emitting[p][k + (IF p = o THEN d ELSE 0)].in
             /\ ~emitting'[p][k].inSlot =>
                  /\ emitting'[p][k] = emitting[p][k + (IF p = o THEN d ELSE 0)]
                  /\ p = o => 1 < k + d
  <2>1. CASE p = o
    BY <1>4, <2>1 DEF q, r
  <2>2. CASE p # o
    <3>1. k + 0 = k
      OBVIOUS
    <3> QED
      BY <1>2, <2>2, <3>1
  <2> QED
    BY <2>1, <2>2
<1>7. Numbers'
  <2>0. \A p \in Owners : \A k \in 1 .. Len(emitting'[p]) :
          \E j \in 1 .. Len(emitting[p]) : emitting'[p][k].e = emitting[p][j].e
    BY <1>6
  <2>1. ASSUME NEW p \in Owners, NEW k \in 1 .. Len(emitting'[p]) PROVE emitting'[p][k].e <= emits'
    <3>1. PICK j \in 1 .. Len(emitting[p]) : emitting'[p][k].e = emitting[p][j].e
      BY <2>0
    <3> QED
      BY <3>1 DEF Numbers
  <2>2. ASSUME NEW p1 \in Owners, NEW p2 \in Owners, NEW k \in 1 .. Len(emitting'[p1]),
               NEW l \in 1 .. Len(emitting'[p2]), emitting'[p1][k].e = emitting'[p2][l].e
        PROVE  p1 = p2
    <3>1. PICK j \in 1 .. Len(emitting[p1]) : emitting'[p1][k].e = emitting[p1][j].e
      BY <2>0
    <3>2. PICK i \in 1 .. Len(emitting[p2]) : emitting'[p2][l].e = emitting[p2][i].e
      BY <2>0
    <3>3. emitting[p1][j].e = emitting[p2][i].e
      BY <2>2, <3>1, <3>2
    <3> QED
      BY <3>3 DEF Numbers
  <2> QED
    BY <2>1, <2>2 DEF Numbers
<1>8. Nested'
  <2> SUFFICES ASSUME NEW p \in Owners, NEW k \in 1 .. Len(emitting'[p]),
                      NEW l \in 1 .. Len(emitting'[p]), k < l
               PROVE  Apart(emitting'[p][k], emitting'[p][l])
    BY DEF Nested
  <2>1. PICK s \in {0, 1} : s = IF p = o THEN d ELSE 0
    OBVIOUS
  <2>2. k + s < l + s
    BY <2>1
  <2>3. k + s \in 1 .. Len(emitting[p]) /\ l + s \in 1 .. Len(emitting[p])
    BY <1>6, <2>1
  <2>4. Apart(emitting[p][k + s], emitting[p][l + s])
    BY <2>2, <2>3 DEF Nested
  <2> QED
    BY <1>6, <2>1, <2>4 DEF Apart
<1>9. ASSUME NEW p \in Owners, NEW k \in 1 .. Len(emitting'[p]), ~emitting'[p][k].inSlot
      PROVE  \E j \in 1 .. Len(emitting[p]) :
               emitting'[p][k] = emitting[p][j] /\ (p = o => 1 < j)
  BY <1>6, <1>9
<1> QED
  BY <1>5, <1>7, <1>8, <1>9

(* The slot that emit() visits next has not seen this emission, and has    *)
(* seen all those before it of the same thread that it is not nested in.   *)
LEMMA VisitNewest ==
  ASSUME Inv, NEW o \in Owners, NEW x, emitting[o] # <<>>, ~UserCode(o),
         x = [c |-> Head(emitting[o]).c, e |-> Head(emitting[o]).e, by |-> o,
              in |-> Head(emitting[o]).in]
  PROVE  /\ x \in Items /\ x.e <= emits
         /\ Newest(x, posted, calls, moved)
         /\ \A p \in Owners : \A k \in 1 .. Len(emitting[p]) :
              (p = o => 1 < k) /\ x.c = emitting[p][k].c
                => /\ x.e # emitting[p][k].e
                   /\ p = o => emitting[p][k].e \in x.in
<1> USE DEF Inv
<1> DEFINE q == emitting[o]
<1>1. q \in Seq(Visits) /\ q # <<>>
  BY DEF TypeOK
<1>2. 1 \in 1 .. Len(q) /\ Head(q) = q[1] /\ q[1] \in Visits
  BY <1>1
<1>3. x.c = q[1].c /\ x.e = q[1].e /\ x.by = o /\ x.in = q[1].in
  BY <1>2
<1>4. x \in Items
  BY <1>2 DEF Items, Visits
<1>5. ~q[1].inSlot
  BY <1>1, <1>2 DEF UserCode
<1>6. Unseen(q[1], o, posted, calls) /\ x.e <= emits
  BY <1>2, <1>3, <1>5 DEF NotYet, Numbers
<1>7. Newest(x, posted, calls, moved)
  <2> SUFFICES ASSUME NEW y, Placed(y, posted, calls)
               PROVE  ~Same(y, x) /\ Before(y, x, moved)
    BY DEF Newest
  <2> HIDE DEF q
  <2> QED
    BY <1>3, <1>6 DEF Unseen, Same, Before
<1>8. ASSUME NEW p \in Owners, NEW k \in 1 .. Len(emitting[p]), p = o => 1 < k,
             x.c = emitting[p][k].c
      PROVE  x.e # emitting[p][k].e /\ (p = o => emitting[p][k].e \in x.in)
  <2>1. CASE p # o
    BY <1>2, <1>3, <2>1 DEF Numbers
  <2>2. CASE p = o
    <3>1. Apart(q[1], q[k])
      BY <1>2, <1>8, <2>2 DEF Nested
    <3> HIDE DEF q
    <3>2. emitting[p][k] = q[k]
      BY <2>2 DEF q
    <3> QED
      BY <1>3, <1>8, <2>2, <3>1, <3>2 DEF Apart
  <2> QED
    BY <2>1, <2>2
<1> QED
  BY <1>4, <1>6, <1>7, <1>8

LEMMA VisitKeeps ==
  ASSUME Inv, NEW o \in Owners, Visit(o)
  PROVE  Inv'
<1> USE DEF Inv
<1> DEFINE c == Head(emitting[o]).c
           x == [c |-> c, e |-> Head(emitting[o]).e, by |-> o, in |-> Head(emitting[o]).in]
<1>1. /\ ~UserCode(o) /\ emitting[o] # <<>>
      /\ emitting' = [emitting EXCEPT ![o] = Returned(emitting[o])]
         \/ emitting' = [emitting EXCEPT ![o] = Entered(emitting[o])]
      /\ UNCHANGED <<m_slots, made, blockVars, emits>>
  BY DEF Visit, UserCode
<1>2. /\ x \in Items /\ x.e <= emits
      /\ Newest(x, posted, calls, moved)
      /\ \A p \in Owners : \A k \in 1 .. Len(emitting[p]) :
           (p = o => 1 < k) /\ x.c = emitting[p][k].c
             => /\ x.e # emitting[p][k].e
                /\ p = o => emitting[p][k].e \in x.in
  BY <1>1, VisitNewest
<1>10. /\ emitting' \in [Owners -> Seq(Visits)]
       /\ Numbers' /\ Nested'
       /\ \A p \in Owners : \A k \in 1 .. Len(emitting'[p]) : ~emitting'[p][k].inSlot =>
            \E j \in 1 .. Len(emitting[p]) :
              emitting'[p][k] = emitting[p][j] /\ (p = o => 1 < j)
  BY <1>1, VisitsAfter
<1>3. /\ x.c = c /\ x.by = o
      /\ c \in Conns /\ nodeOwner[Receiver[c]] \in Owners
  <2>1. c \in Conns
    BY <1>2 DEF Items
  <2> QED
    BY <2>1 DEF TypeOK, Nodes
<1>4. Numbers' /\ Nested' /\ ListOnce'
  BY <1>1, <1>10 DEF ListOnce
<1>5. ASSUME \A y : Placed(y, posted', calls') => Placed(y, posted, calls) \/ y = x
      PROVE  Known' /\ NotYet'
  <2>1. Known'
    BY <1>1, <1>2, <1>5 DEF Known
  <2>2. ASSUME NEW p \in Owners, NEW k \in 1 .. Len(emitting'[p]), ~emitting'[p][k].inSlot
        PROVE  Unseen(emitting'[p][k], p, posted', calls')
    <3>1. PICK j \in 1 .. Len(emitting[p]) :
            emitting'[p][k] = emitting[p][j] /\ (p = o => 1 < j)
      BY <1>10, <2>2
    <3> DEFINE v == emitting[p][j]
    <3>2. Unseen(v, p, posted, calls)
      BY <2>2, <3>1 DEF NotYet
    <3>3. x.c = v.c => x.e # v.e /\ (p = o => v.e \in x.in)
      BY <1>2, <3>1
    <3> HIDE DEF x, v
    <3>4. Unseen(v, p, posted', calls')
      BY <1>3, <1>5, <3>2, <3>3 DEF Unseen
    <3> QED
      BY <3>1, <3>4 DEF v
  <2>3. NotYet'
    BY <1>1, <2>2 DEF NotYet
  <2> QED
    BY <2>1, <2>3
<1>6. CASE connected' \in SUBSET connected /\ UNCHANGED <<posted, calls>>
  <2>1. TypeOK'
    BY <1>1, <1>10, <1>6 DEF TypeOK, blockVars
  <2>2. Known' /\ NotYet'
    BY <1>5, <1>6
  <2>3. AtHome(posted)' /\ Books(posted, calls, moved)'
    BY <1>1, <1>6 DEF AtHome, Queue, blockVars
  <2> QED
    BY <1>4, <2>1, <2>2, <2>3
<1>7. CASE /\ Queue(c, o)
           /\ posted' = [posted EXCEPT ![nodeOwner[Receiver[c]]] = Append(@, x)]
           /\ UNCHANGED <<connected, calls>>
  <2> DEFINE h == nodeOwner[Receiver[c]]
             n == Len(posted[h])
  <2> HIDE DEF x, c
  <2>1. h \in Owners /\ posted' = Appended(posted, h, x) /\ posted \in [Owners -> Seq(Items)]
    BY <1>3, <1>7 DEF Appended, TypeOK
  <2>2. /\ posted' \in [Owners -> Seq(Items)]
        /\ n \in Nat /\ Len(posted'[h]) = n + 1
        /\ posted'[h][n + 1] = x
        /\ \A i \in 1 .. n : posted'[h][i] = posted[h][i]
        /\ \A p \in Owners : p # h => posted'[p] = posted[p]
    <3> HIDE DEF h
    <3>1. h \in Owners /\ posted \in [Owners -> Seq(Items)] /\ x \in Items
      BY <1>2, <2>1
    <3>2. posted' = Appended(posted, h, x)
      BY <2>1
    <3>3. /\ Appended(posted, h, x) \in [Owners -> Seq(Items)]
          /\ n \in Nat /\ Len(Appended(posted, h, x)[h]) = n + 1
          /\ Appended(posted, h, x)[h][n + 1] = x
          /\ \A i \in 1 .. n : Appended(posted, h, x)[h][i] = posted[h][i]
          /\ \A p \in Owners : p # h => Appended(posted, h, x)[p] = posted[p]
      BY ONLY <3>1, AppendedFields
    <3> QED
      BY ONLY <3>2, <3>3
  <2>3. TypeOK'
    BY <1>1, <1>10, <1>7, <2>2 DEF TypeOK, blockVars
  <2>4. \A y : Waits(y, posted') <=> Waits(y, posted) \/ y = x
    BY <1>2, <2>1, WaitsAppended
  <2>5. Known' /\ NotYet'
    BY <1>5, <1>7, <2>4 DEF Placed
  <2>6. Books(posted, calls, moved)'
    <3>1. Books(posted', calls, moved)
      BY <1>2, <2>1, BooksQueued
    <3> QED
      BY <1>1, <1>7, <3>1 DEF blockVars
  <2>7. \A p \in Owners : \A i \in 1 .. Len(posted'[p]) :
           Receiver[posted'[p][i].c] \notin moved =>
             p = nodeOwner[Receiver[posted'[p][i].c]] /\ Queue(posted'[p][i].c, posted'[p][i].by)
    <3> SUFFICES ASSUME NEW p \in Owners, NEW i \in 1 .. Len(posted'[p]),
                        Receiver[posted'[p][i].c] \notin moved
                 PROVE  /\ p = nodeOwner[Receiver[posted'[p][i].c]]
                        /\ Queue(posted'[p][i].c, posted'[p][i].by)
      OBVIOUS
    <3>1. CASE p = h /\ i = n + 1
      BY <1>3, <1>7, <2>2, <3>1
    <3>2. CASE ~(p = h /\ i = n + 1)
      <4>1. i \in 1 .. Len(posted[p]) /\ posted'[p][i] = posted[p][i]
        <5>1. CASE p = h
          BY <2>2, <3>2, <5>1
        <5>2. CASE p # h
          BY <2>2, <5>2
        <5> QED
          BY <5>1, <5>2
      <4> QED
        BY <4>1 DEF AtHome
    <3> QED
      BY <3>1, <3>2
  <2>8. AtHome(posted)'
    BY <1>1, <2>7 DEF AtHome, Queue, blockVars
  <2> QED
    BY <1>4, <2>3, <2>5, <2>6, <2>8
<1>8. CASE /\ ~Queue(c, o)
           /\ Call(o, x) /\ UNCHANGED <<connected, posted>> /\ calls' # calls
  <2> DEFINE k == [item |-> x, on |-> o]
  <2>1. calls' = Append(calls, k) /\ k \in CallType /\ k.item = x /\ calls \in Seq(CallType)
    BY <1>2, <1>8 DEF Call, CallType, TypeOK
  <2> HIDE DEF x, c, k
  <2>2. \A y : Called(y, calls) => ~Same(y, k.item) /\ Before(y, k.item, moved)
    BY <1>2, <2>1 DEF Newest, Placed
  <2>3. ASSUME NEW y, Waits(y, posted) PROVE ~Same(k.item, y) /\ Before(k.item, y, moved)
    <3>1. ~Same(k.item, y)
      BY <1>2, <2>1, <2>3 DEF Newest, Placed, Same
    <3>2. Receiver[y.c] \notin moved => Queue(y.c, y.by)
      BY <2>3 DEF Waits, AtHome
    <3>3. Before(k.item, y, moved)
      BY <1>3, <1>8, <2>1, <3>2 DEF Before
    <3> QED
      BY <3>1, <3>3
  <2>4. /\ Books(posted, calls', moved) /\ calls' \in Seq(CallType)
        /\ \A y : Called(y, calls') <=> Called(y, calls) \/ y = x
    BY <2>1, <2>2, <2>3, BooksCalled
  <2>5. TypeOK'
    BY <1>1, <1>10, <1>8, <2>4 DEF TypeOK, blockVars
  <2>6. Known' /\ NotYet'
    BY <1>5, <1>8, <2>4 DEF Placed
  <2>7. AtHome(posted)' /\ Books(posted, calls, moved)'
    BY <1>1, <1>8, <2>4 DEF AtHome, Queue, blockVars
  <2> QED
    BY <1>4, <2>5, <2>6, <2>7
<1>9. CASE Call(o, x) /\ UNCHANGED <<connected, posted>> /\ calls' = calls
  BY <1>6, <1>9
<1> QED
  BY <1>6, <1>7, <1>8, <1>9 DEF Visit

(* A slot comes back to the emit() that called it.                         *)
LEMMA SlotReturnsKeeps ==
  ASSUME Inv, NEW o \in Owners, SlotReturns(o)
  PROVE  Inv'
<1> USE DEF Inv
<1>1. /\ emitting[o] # <<>> /\ emitting' = [emitting EXCEPT ![o] = Returned(emitting[o])]
      /\ UNCHANGED <<connVars, blockVars, posted, emits, calls>>
  BY DEF SlotReturns
<1>2. /\ emitting' \in [Owners -> Seq(Visits)]
      /\ Numbers' /\ Nested'
      /\ \A p \in Owners : \A k \in 1 .. Len(emitting'[p]) : ~emitting'[p][k].inSlot =>
           \E j \in 1 .. Len(emitting[p]) :
             emitting'[p][k] = emitting[p][j] /\ (p = o => 1 < j)
  BY <1>1, VisitsAfter
<1>3. TypeOK' /\ ListOnce' /\ Known'
  BY <1>1, <1>2 DEF TypeOK, ListOnce, Known, connVars, blockVars
<1>4. NotYet'
  <2>1. ASSUME NEW p \in Owners, NEW k \in 1 .. Len(emitting'[p]), ~emitting'[p][k].inSlot
        PROVE  Unseen(emitting'[p][k], p, posted, calls)
    BY <1>2, <2>1 DEF NotYet
  <2> QED
    BY <1>1, <2>1 DEF NotYet
<1>5. AtHome(posted)' /\ Books(posted, calls, moved)'
  BY <1>1 DEF AtHome, Queue, blockVars
<1> QED
  BY <1>2, <1>3, <1>4, <1>5

(* An owner takes the first of its queue: it calls the slot, passes it on  *)
(* to where the receiver is now, or drops it.                              *)
LEMMA RunPostedKeeps ==
  ASSUME Inv, NEW o \in Owners, RunPosted(o)
  PROVE  Inv'
<1> USE DEF Inv
<1> DEFINE x == Head(posted[o])
           P == Popped(posted, o)
<1>1. /\ posted[o] # <<>> /\ posted \in [Owners -> Seq(Items)]
      /\ UNCHANGED <<connVars, blockVars, emitting, emits>>
  BY DEF RunPosted, TypeOK
<1>2. /\ P \in [Owners -> Seq(Items)] /\ x \in Items /\ Waits(x, posted)
      /\ Books(P, calls, moved)
      /\ \A y : Waits(y, P) => Waits(y, posted)
      /\ \A p \in Owners : \A i \in 1 .. Len(P[p]) : \E j \in 1 .. Len(posted[p]) : P[p][i] = posted[p][j]
      /\ \A p \in Owners : \A i \in 1 .. Len(P[p]) :
           ~Same(P[p][i], x) /\ (p = o => Before(x, P[p][i], moved))
  <2>1. Books(posted, calls, moved) /\ o \in Owners
    OBVIOUS
  <2>2. posted \in [Owners -> Seq(Items)] /\ posted[o] # <<>>
    BY <1>1
  <2>3. /\ Popped(posted, o) \in [Owners -> Seq(Items)] /\ Head(posted[o]) \in Items
        /\ Waits(Head(posted[o]), posted)
        /\ Books(Popped(posted, o), calls, moved)
        /\ \A y : Waits(y, Popped(posted, o)) => Waits(y, posted)
    BY ONLY <2>1, <2>2, BooksPopped
  <2>4. \A p \in Owners : \A i \in 1 .. Len(Popped(posted, o)[p]) :
          \E j \in 1 .. Len(posted[p]) : Popped(posted, o)[p][i] = posted[p][j]
    <3> SUFFICES ASSUME NEW p \in Owners, NEW i \in 1 .. Len(Popped(posted, o)[p])
                 PROVE  \E j \in 1 .. Len(posted[p]) : Popped(posted, o)[p][i] = posted[p][j]
      OBVIOUS
    <3>1. CASE p = o
      <4>1. /\ Popped(posted, o)[p] = Tail(posted[o]) /\ posted[o] \in Seq(Items)
            /\ posted[o] # <<>>
        BY <2>2, <3>1 DEF Popped
      <4>2. i + 1 \in 1 .. Len(posted[o]) /\ Tail(posted[o])[i] = posted[o][i + 1]
        BY <4>1
      <4> QED
        BY <3>1, <4>1, <4>2
    <3>2. CASE p # o
      BY <2>2, <3>2 DEF Popped
    <3> QED
      BY <3>1, <3>2
  <2>5. \A p \in Owners : \A i \in 1 .. Len(Popped(posted, o)[p]) :
          /\ ~Same(Popped(posted, o)[p][i], Head(posted[o]))
          /\ p = o => Before(Head(posted[o]), Popped(posted, o)[p][i], moved)
    BY ONLY <2>1, <2>2, BooksPopped, Zenon
  <2> QED
    BY ONLY <2>3, <2>4, <2>5
<1>3. P = [posted EXCEPT ![o] = Tail(@)]
  BY DEF Popped
<1> HIDE DEF P
<1>4. AtHome(P)
  <2> SUFFICES ASSUME NEW p \in Owners, NEW i \in 1 .. Len(P[p])
               PROVE  Receiver[P[p][i].c] \notin moved =>
                        p = nodeOwner[Receiver[P[p][i].c]] /\ Queue(P[p][i].c, P[p][i].by)
    BY DEF AtHome
  <2>1. PICK j \in 1 .. Len(posted[p]) : P[p][i] = posted[p][j]
    BY <1>2
  <2> QED
    BY <2>1 DEF AtHome
<1>5. Receiver[x.c] \notin moved => o = nodeOwner[Receiver[x.c]]
  <2>1. 1 \in 1 .. Len(posted[o]) /\ x = posted[o][1]
    BY <1>1
  <2> QED
    BY <2>1 DEF AtHome
<1>6. Placed(x, posted, calls) /\ x.c \in Conns /\ nodeOwner[Receiver[x.c]] \in Owners
  <2>1. x.c \in Conns
    BY <1>2 DEF Items
  <2> QED
    BY <1>2, <2>1 DEF Placed, TypeOK, Nodes
<1> HIDE DEF x
<1>7. ASSUME \A y : Placed(y, posted', calls') => Placed(y, posted, calls)
      PROVE  Numbers' /\ Nested' /\ ListOnce' /\ Known' /\ NotYet'
  <2>1. Numbers' /\ Nested' /\ ListOnce'
    BY <1>1 DEF Numbers, Nested, ListOnce, connVars
  <2>2. Known'
    BY <1>1, <1>7 DEF Known
  <2>3. \A p \in Owners : \A k \in 1 .. Len(emitting[p]) :
           ~emitting[p][k].inSlot => Unseen(emitting[p][k], p, posted', calls')
    BY <1>7 DEF NotYet, Unseen
  <2>4. NotYet'
    BY <1>1, <2>3 DEF NotYet
  <2> QED
    BY <2>1, <2>2, <2>4
<1>8. CASE posted' = P /\ UNCHANGED calls
  <2>1. TypeOK'
    BY <1>1, <1>2, <1>8 DEF TypeOK, connVars, blockVars
  <2>2. Numbers' /\ Nested' /\ ListOnce' /\ Known' /\ NotYet'
    BY <1>2, <1>7, <1>8 DEF Placed
  <2>3. AtHome(posted)' /\ Books(posted, calls, moved)'
    BY <1>1, <1>2, <1>4, <1>8 DEF AtHome, Queue, blockVars
  <2> QED
    BY <2>1, <2>2, <2>3
<1>9. CASE /\ nodeOwner[Receiver[x.c]] # o /\ UNCHANGED calls
           /\ posted' = [P EXCEPT ![nodeOwner[Receiver[x.c]]] = Append(@, x)]
  <2> DEFINE h == nodeOwner[Receiver[x.c]]
             n == Len(P[h])
  <2>1. h \in Owners /\ posted' = Appended(P, h, x) /\ Receiver[x.c] \in moved
    BY <1>5, <1>6, <1>9 DEF Appended
  <2>2. Newest(x, P, calls, moved)
    <3> SUFFICES ASSUME NEW y, Placed(y, P, calls) PROVE ~Same(y, x) /\ Before(y, x, moved)
      BY DEF Newest
    <3>1. ~Same(y, x)
      <4>1. CASE Waits(y, P)
        BY <1>2, <4>1 DEF Waits
      <4>2. CASE Called(y, calls)
        BY <1>2, <4>2 DEF Books, QueuedAfterCalled
      <4> QED
        BY <4>1, <4>2 DEF Placed
    <3>2. Before(y, x, moved)
      BY <2>1 DEF Before
    <3> QED
      BY <3>1, <3>2
  <2>3. /\ posted' \in [Owners -> Seq(Items)]
        /\ n \in Nat /\ Len(posted'[h]) = n + 1
        /\ posted'[h][n + 1] = x
        /\ \A i \in 1 .. n : posted'[h][i] = P[h][i]
        /\ \A p \in Owners : p # h => posted'[p] = P[p]
    <3> HIDE DEF h
    <3>1. h \in Owners /\ P \in [Owners -> Seq(Items)] /\ x \in Items
      BY <1>2, <2>1
    <3>2. posted' = Appended(P, h, x)
      BY <2>1
    <3>3. /\ Appended(P, h, x) \in [Owners -> Seq(Items)]
          /\ n \in Nat /\ Len(Appended(P, h, x)[h]) = n + 1
          /\ Appended(P, h, x)[h][n + 1] = x
          /\ \A i \in 1 .. n : Appended(P, h, x)[h][i] = P[h][i]
          /\ \A p \in Owners : p # h => Appended(P, h, x)[p] = P[p]
      BY ONLY <3>1, AppendedFields
    <3> QED
      BY ONLY <3>2, <3>3
  <2>4. \A y : Waits(y, posted') <=> Waits(y, P) \/ y = x
    BY <1>2, <2>1, WaitsAppended
  <2>5. Books(posted', calls, moved)
    BY <1>2, <2>1, <2>2, BooksQueued
  <2>6. TypeOK'
    BY <1>1, <1>9, <2>3 DEF TypeOK, connVars, blockVars
  <2>7. Numbers' /\ Nested' /\ ListOnce' /\ Known' /\ NotYet'
    BY <1>2, <1>6, <1>7, <1>9, <2>4 DEF Placed
  <2>8. \A p \in Owners : \A i \in 1 .. Len(posted'[p]) :
           Receiver[posted'[p][i].c] \notin moved =>
             p = nodeOwner[Receiver[posted'[p][i].c]] /\ Queue(posted'[p][i].c, posted'[p][i].by)
    <3> SUFFICES ASSUME NEW p \in Owners, NEW i \in 1 .. Len(posted'[p]),
                        Receiver[posted'[p][i].c] \notin moved
                 PROVE  /\ p = nodeOwner[Receiver[posted'[p][i].c]]
                        /\ Queue(posted'[p][i].c, posted'[p][i].by)
      OBVIOUS
    <3>1. ~(p = h /\ i = n + 1)
      BY <2>1, <2>3
    <3>2. i \in 1 .. Len(P[p]) /\ posted'[p][i] = P[p][i]
      <4>1. CASE p = h
        BY <2>3, <3>1, <4>1
      <4>2. CASE p # h
        BY <2>3, <4>2
      <4> QED
        BY <4>1, <4>2
    <3> QED
      BY <1>4, <3>2 DEF AtHome
  <2>9. AtHome(posted)' /\ Books(posted, calls, moved)'
    BY <1>1, <1>9, <2>5, <2>8 DEF AtHome, Queue, blockVars
  <2> QED
    BY <2>6, <2>7, <2>9
<1>10. CASE /\ nodeOwner[Receiver[x.c]] = o /\ posted' = P
            /\ Call(o, x) /\ calls' # calls
  <2> DEFINE k == [item |-> x, on |-> o]
  <2>1. calls' = Append(calls, k) /\ k \in CallType /\ k.item = x /\ calls \in Seq(CallType)
    BY <1>2, <1>10 DEF Call, CallType, TypeOK
  <2> HIDE DEF k
  <2>2. \A y : Called(y, calls) => ~Same(y, k.item) /\ Before(y, k.item, moved)
    BY <1>2, <2>1 DEF Books, QueuedAfterCalled
  <2>3. ASSUME NEW y, Waits(y, P) PROVE ~Same(k.item, y) /\ Before(k.item, y, moved)
    <3>1. PICK p \in Owners : \E i \in 1 .. Len(P[p]) : y = P[p][i]
      BY <2>3 DEF Waits
    <3>2. PICK i \in 1 .. Len(P[p]) : y = P[p][i]
      BY <3>1
    <3>3. ~Same(x, y)
      BY <1>2, <3>2 DEF Same
    <3>4. CASE p = o
      BY <1>2, <2>1, <3>2, <3>3, <3>4
    <3>5. CASE p # o
      <4>1. Receiver[y.c] \notin moved => p = nodeOwner[Receiver[y.c]]
        BY <1>4, <3>2 DEF AtHome
      <4> QED
        BY <1>10, <2>1, <3>3, <3>5, <4>1 DEF Before
    <3> QED
      BY <3>4, <3>5
  <2>4. /\ Books(P, calls', moved) /\ calls' \in Seq(CallType)
        /\ \A y : Called(y, calls') <=> Called(y, calls) \/ y = x
    BY <1>2, <2>1, <2>2, <2>3, BooksCalled
  <2>5. TypeOK'
    BY <1>1, <1>2, <1>10, <2>4 DEF TypeOK, connVars, blockVars
  <2>6. Numbers' /\ Nested' /\ ListOnce' /\ Known' /\ NotYet'
    BY <1>2, <1>6, <1>7, <1>10, <2>4 DEF Placed
  <2>7. AtHome(posted)' /\ Books(posted, calls, moved)'
    BY <1>1, <1>4, <1>10, <2>4 DEF AtHome, Queue, blockVars
  <2> QED
    BY <2>5, <2>6, <2>7
<1> QED
  <2>1. \/ posted' = P /\ UNCHANGED calls
        \/ /\ nodeOwner[Receiver[x.c]] # o /\ UNCHANGED calls
           /\ posted' = [P EXCEPT ![nodeOwner[Receiver[x.c]]] = Append(@, x)]
        \/ nodeOwner[Receiver[x.c]] = o /\ posted' = P /\ Call(o, x)
    BY <1>3 DEF RunPosted, Forward, x
  <2> QED
    BY <1>8, <1>9, <1>10, <2>1

LEMMA NextKeepsInv ==
  ASSUME Inv, [Next]_vars
  PROVE  Inv'
<1>1. CASE UNCHANGED vars
  <2>1. /\ UNCHANGED <<m_slots, connected, made, nodeOwner, moved, posted, emitting, emits, calls>>
        /\ Inv
    BY <1>1 DEF vars, connVars, blockVars
  <2>2. TypeOK' /\ Numbers' /\ Nested' /\ ListOnce'
    BY <2>1 DEF Inv, TypeOK, Numbers, Nested, ListOnce
  <2>3. Known' /\ NotYet'
    BY <2>1 DEF Inv, Known, NotYet
  <2>4. AtHome(posted)' /\ Books(posted, calls, moved)'
    BY <2>1 DEF Inv, AtHome, Queue
  <2> QED
    BY <2>2, <2>3, <2>4 DEF Inv
<1>2. ASSUME NEW n \in Nodes, NEW o \in Owners, Migrate(n, o) \/ Mark(n) \/ Die(n)
      PROVE  Inv'
  <2>1. PICK c \in Conns : n = Receiver[c]
    BY DEF Nodes
  <2> QED
    BY <1>2, ReceiverKeeps
<1>3. ASSUME NEW n \in Nodes, Mark(n) \/ Die(n)
      PROVE  Inv'
  <2>1. nodeOwner[n] \in Owners
    BY DEF Inv, TypeOK
  <2> QED
    BY <1>2, <1>3, <2>1
<1>4. ASSUME NEW c \in Conns, Disconnect(c)
      PROVE  Inv'
  <2>1. Receiver[c] \in Nodes /\ nodeOwner[Receiver[c]] \in Owners
    BY DEF Inv, TypeOK, Nodes
  <2> QED
    BY <1>4, <2>1, ReceiverKeeps
<1> QED
  BY <1>1, <1>2, <1>3, <1>4, ConnectKeeps, EmitKeeps, VisitKeeps, SlotReturnsKeeps,
     RunPostedKeeps DEF Next

LEMMA InvHolds == Spec => []Inv
<1>1. Inv /\ [Next]_vars => Inv'
  BY NextKeepsInv
<1> QED
  BY <1>1, InitInv, PTL DEF Spec

-----------------------------------------------------------------------------
LEMMA InvInOrder == Inv => EmissionsOnceAndInOrder
<1> SUFFICES ASSUME Inv, NEW i \in DOMAIN calls, NEW j \in DOMAIN calls, i < j,
                    calls[i].item.c = calls[j].item.c
             PROVE  LET a == calls[i].item
                        b == calls[j].item IN
                    /\ a.e # b.e
                    /\ a.by = b.by /\ Receiver[a.c] \notin moved =>
                         a.e < b.e \/ b.e \in a.in
  BY DEF EmissionsOnceAndInOrder
<1>1. DOMAIN calls = 1 .. Len(calls)
  BY DEF Inv, TypeOK
<1> QED
  BY <1>1 DEF Inv, Books, CalledInOrder, Same, Before

(* For any threads, connections and receivers, whatever connects, cuts,    *)
(* migrates, dies and emits again in between: a slot sees an emission at   *)
(* most once, and those of one thread in the order of its calls of emit()  *)
(* as long as the receiver stays, but that one from inside a slot may      *)
(* overtake those it is nested in (Signal::emit, postToReceiverOwner).     *)
THEOREM EmissionsCorrect == Spec => []EmissionsOnceAndInOrder
  BY InvHolds, InvInOrder, PTL

LEMMA NextAtHome ==
  ASSUME Type \in [Conns -> {"Direct", "Queued", "Auto"}], Inv, [Next]_vars
  PROVE  SlotRunsAtHome
<1> SUFFICES ASSUME calls' # calls PROVE SlotRunsAtHome
  BY DEF SlotRunsAtHome
<1> DEFINE Fits(k) == LET c == k.item.c IN
             /\ Type[c] # "Direct" => nodeOwner[Receiver[c]] = k.on
             /\ Receiver[c] \in nodeAlive \ nodeMarked /\ c \in connected
<1>1. ASSUME NEW k \in CallType, calls' = Append(calls, k), Fits(k) PROVE SlotRunsAtHome
  <2>1. calls \in Seq(CallType)
    BY DEF Inv, TypeOK
  <2>2. calls'[Len(calls')] = k
    BY <1>1, <2>1
  <2> QED
    BY <1>1, <2>2 DEF SlotRunsAtHome
<1>2. ASSUME NEW o \in Owners, Visit(o) PROVE SlotRunsAtHome
  <2> DEFINE c == Head(emitting[o]).c
             x == [c |-> c, e |-> Head(emitting[o]).e, by |-> o, in |-> Head(emitting[o]).in]
  <2>1. /\ c \in connected /\ CanInvokeReceiver(c) /\ ~Queue(c, o) /\ Call(o, x)
        /\ emitting[o] # <<>> /\ ~UserCode(o)
    BY <1>2 DEF Visit, UserCode
  <2>2. c \in Conns /\ x \in Items
    <3>1. x \in Items
      BY <2>1, VisitNewest
    <3> QED
      BY <3>1 DEF Items
  <2>3. calls' = Append(calls, [item |-> x, on |-> o]) /\ [item |-> x, on |-> o] \in CallType
    BY <2>1, <2>2 DEF Call, CallType
  <2>4. Type[c] # "Direct" => nodeOwner[Receiver[c]] = o
    BY <2>1, <2>2 DEF Queue
  <2> HIDE DEF c
  <2>5. Fits([item |-> x, on |-> o])
    BY <2>1, <2>4 DEF CanInvokeReceiver
  <2> QED
    BY <1>1, <2>3, <2>5
<1>3. ASSUME NEW o \in Owners, RunPosted(o) PROVE SlotRunsAtHome
  <2> DEFINE x == Head(posted[o])
  <2>1. /\ posted[o] # <<>> /\ CanInvokeReceiver(x.c) /\ nodeOwner[Receiver[x.c]] = o
        /\ Call(o, x)
    BY <1>3 DEF RunPosted, Forward
  <2>2. x \in Items
    BY <2>1 DEF Inv, TypeOK
  <2> HIDE DEF x
  <2>3. /\ calls' = Append(calls, [item |-> x, on |-> o]) /\ [item |-> x, on |-> o] \in CallType
        /\ x.c \in connected
    BY <2>1, <2>2 DEF Call, CallType
  <2>4. Fits([item |-> x, on |-> o])
    BY <2>1, <2>3 DEF CanInvokeReceiver
  <2> QED
    BY <1>1, <2>3, <2>4
<1>4. ASSUME NEW c \in Conns, Connect(c) \/ Disconnect(c) PROVE FALSE
  BY <1>4 DEF Connect, Disconnect
<1>5. ASSUME NEW o \in Owners, Emit(o) \/ SlotReturns(o) PROVE FALSE
  BY <1>5 DEF Emit, SlotReturns
<1>6. ASSUME NEW n \in Nodes, Mark(n) \/ Die(n) \/ \E o \in Owners : Migrate(n, o) PROVE FALSE
  BY <1>6 DEF Mark, Die, Migrate
<1>7. ~UNCHANGED vars
  BY DEF vars
<1> QED
  BY <1>2, <1>3, <1>4, <1>5, <1>6, <1>7 DEF Next

(* For any threads, connections and receivers: a slot that is not Direct   *)
(* runs on the thread that owns the receiver at that moment, on a receiver *)
(* that is neither dead nor marked (canInvokeReceiver, Signal::connect).   *)
THEOREM SlotsRunAtHomeCorrect ==
  ASSUME Type \in [Conns -> {"Direct", "Queued", "Auto"}]
  PROVE  Spec => SlotsRunAtHome
<1>1. Inv /\ [Next]_vars => [SlotRunsAtHome]_vars
  BY NextAtHome
<1> QED
  BY <1>1, InvHolds, PTL DEF Spec, SlotsRunAtHome
=============================================================================
