---------------------- MODULE AsyncTaskSequenceProofs -----------------------
(***************************************************************************)
(* Theorems about AsyncTaskSequence and the ThreadPool below it: what its  *)
(* invariants say of the small instance that TLC explores holds for every  *)
(* number of workers, of threads and of tasks.                             *)
(*                                                                         *)
(* TypeOK gives the shape of the agendas: a thread has one thing to do now *)
(* and, behind it, only tasks to schedule, waiters to notify and loops to  *)
(* stop and join.  CountInv adds that the queues are finite, RunInv where  *)
(* every task is (Placed), what the bookkeeping of the sequence says of    *)
(* the graph (Books) and what the jobs on their way carry (InputsRight).   *)
(***************************************************************************)
EXTENDS AsyncTaskSequence, SequenceTheorems, FiniteSetTheorems,
        WellFoundedInduction, TLAPS

-----------------------------------------------------------------------------
(* The type invariant.                                                     *)
JobType == [id : Ids, input : SUBSET Ids]
LaterOps == {"schedule", "notify", "stop", "join"}
StepType ==
  [op : {"construct", "asleep", "wait", "waiting", "notify", "join"}, x : {None}]
    \cup [op : {"stop"}, x : Workers]
    \cup [op : {"schedule"}, x : Ids]
    \cup [op : {"submit"}, x : JobType]
    \cup [op : {"post"}, x : [w : Workers, j : JobType]]
    \cup [op : {"finish"}, x : [id : Ids, output : SUBSET Ids]]

PoolType ==
  /\ m_stopping \in BOOLEAN /\ m_nextWorker \in Nat
  /\ m_queuedTasks \in Int /\ m_activeTasks \in Int
  /\ m_workerLoops \in SUBSET Workers

LoopType ==
  /\ loopTasks \in [Workers -> Seq(JobType \cup {Ready})]
  /\ loopStop \in SUBSET Workers
  /\ wpc \in [Workers -> {"start", "drain", "run", "ran", "wait", "exited"}]
  /\ DOMAIN cur = Workers
  /\ \A w \in Workers : wpc[w] \in {"run", "ran"} => cur[w] \in JobType

GraphType ==
  /\ taskCount \in 0 .. MaxTasks
  /\ m_running \in BOOLEAN /\ m_finished \in BOOLEAN
  /\ m_remainingTasks \in Int
  /\ pending \in [Ids -> Int]
  /\ scheduled \in SUBSET Ids /\ done \in SUBSET Ids
  /\ output \in [Ids -> SUBSET Ids]
  /\ starts \in Nat

(* What a thread has to do: one thing now, and later only to schedule      *)
(* tasks, to notify, to stop loops and to join.  A worker has something to *)
(* do only after run() has returned.                                       *)
Orderly(s) == \A k \in 2 .. Len(s) : s[k].op \in LaterOps
AgendaType ==
  /\ agenda \in [Threads -> Seq(StepType)]
  /\ \A t \in Threads : Orderly(agenda[t])
  /\ \A w \in Workers : wpc[w] # "ran" => agenda[w] = <<>>

TypeOK == PoolType /\ LoopType /\ GraphType /\ AgendaType

-----------------------------------------------------------------------------
(* Sequences.                                                              *)
LEMMA Replaced ==
  ASSUME NEW S, NEW s \in Seq(S), NEW q \in Seq(S), q # <<>>
  PROVE  /\ s \o Tail(q) \in Seq(S)
         /\ Len(s \o Tail(q)) = Len(s) + Len(q) - 1
         /\ Len(s) \in Nat /\ Len(q) \in Nat /\ Len(q) >= 1
         /\ \A k \in 1 .. Len(s) : (s \o Tail(q))[k] = s[k]
         /\ \A k \in 2 .. Len(q) : (s \o Tail(q))[Len(s) + k - 1] = q[k]
         /\ \A k \in (Len(s) + 1) .. (Len(s) + Len(q) - 1) :
              (s \o Tail(q))[k] = q[k - Len(s) + 1]
<1> DEFINE r == Tail(q)
<1>1. /\ r \in Seq(S) /\ Len(r) = Len(q) - 1 /\ Len(q) \in Nat /\ Len(q) >= 1
      /\ \A k \in 1 .. Len(r) : r[k] = q[k + 1]
  OBVIOUS
<1> HIDE DEF r
<1>2. /\ s \o r \in Seq(S) /\ Len(s \o r) = Len(s) + Len(r) /\ Len(s) \in Nat
      /\ \A k \in 1 .. Len(s) : (s \o r)[k] = s[k]
      /\ \A k \in (Len(s) + 1) .. (Len(s) + Len(r)) : (s \o r)[k] = r[k - Len(s)]
  <2>1. s \o r \in Seq(S) /\ Len(s \o r) = Len(s) + Len(r)
    BY <1>1, ConcatProperties
  <2>3. Len(s) \in Nat
    OBVIOUS
  <2>2. \A k \in 1 .. Len(s) + Len(r) :
          (s \o r)[k] = IF k <= Len(s) THEN s[k] ELSE r[k - Len(s)]
    BY <1>1, ConcatProperties
  <2> QED
    BY <1>1, <2>1, <2>2, <2>3
<1>3. ASSUME NEW k \in (Len(s) + 1) .. (Len(s) + Len(q) - 1)
      PROVE  (s \o r)[k] = q[k - Len(s) + 1]
  <2>1. k - Len(s) \in 1 .. Len(r) /\ k \in (Len(s) + 1) .. (Len(s) + Len(r))
    BY <1>1, <1>2
  <2> QED
    BY <1>1, <1>2, <2>1
<1>4. ASSUME NEW k \in 2 .. Len(q)
      PROVE  (s \o r)[Len(s) + k - 1] = q[k]
  <2>1. Len(s) + k - 1 \in (Len(s) + 1) .. (Len(s) + Len(q) - 1)
        /\ (Len(s) + k - 1) - Len(s) + 1 = k
    BY <1>1, <1>2
  <2> QED
    BY <1>3, <2>1
<1>5. Len(s \o r) = Len(s) + Len(q) - 1
  BY <1>1, <1>2
<1> QED
  BY <1>1, <1>2, <1>3, <1>4, <1>5 DEF r

(* The order of the workers.                                               *)
LEMMA WorkersInARow ==
  /\ WorkerSeq \in Seq(Workers) /\ Len(WorkerSeq) \in Nat /\ Len(WorkerSeq) >= 1
  /\ \A n \in Nat : WorkerSeq[(n % Len(WorkerSeq)) + 1] \in Workers
<1>1. PICK n \in Nat : n = Cardinality(Workers) /\ ExistsBijection(1 .. n, Workers)
  BY FS_CardinalityType, SequenceAssumption
<1>2. PICK f \in Bijection(1 .. n, Workers) : TRUE
  BY <1>1 DEF ExistsBijection
<1>3. f \in [1 .. n -> Workers] /\ IsInjective(f)
  BY <1>2 DEF Bijection, Injection, IsInjective
<1>4. WorkerSeq \in [1 .. n -> Workers]
  BY <1>1, <1>3 DEF WorkerSeq, SetToSeq
<1>5. n >= 1
  BY <1>1, FS_EmptySet, SequenceAssumption
<1>6. WorkerSeq \in Seq(Workers) /\ Len(WorkerSeq) = n
  BY <1>4
<1>7. ASSUME NEW k \in Nat PROVE WorkerSeq[(k % n) + 1] \in Workers
  <2>1. (k % n) + 1 \in 1 .. n
    BY <1>5
  <2> QED
    BY <1>4, <2>1
<1> QED
  BY <1>5, <1>6, <1>7

LEMMA SetInduction ==
  ASSUME NEW N \in SUBSET Nat, 0 \in N, \A n \in N : n + 1 \in N
  PROVE  N = Nat
<1> DEFINE T == {n \in Nat : n \notin N}
           Less == {ss \in Nat \X Nat : ss[1] < ss[2]}
<1>1. SUFFICES ASSUME T # {} PROVE FALSE
  OBVIOUS
<1>2. IsWellFoundedOn(Less, Nat)
  BY NatLessThanWellFounded DEF OpToRel
<1>3. T \subseteq Nat
  OBVIOUS
<1> HIDE DEF Less
<1>4. PICK x \in T : \A y \in T : ~ (<<y, x>> \in Less)
  BY <1>1, <1>2, <1>3, WFMin
<1>5. x \in Nat /\ x # 0 /\ x - 1 \in Nat
  BY <1>4
<1>6. x - 1 \in N => x \in N
  BY <1>5
<1>7. x - 1 \in T
  BY <1>4, <1>5, <1>6
<1>8. <<x - 1, x>> \in Less
  BY <1>5 DEF Less
<1> QED
  BY <1>4, <1>7, <1>8

(* f is the recursion in Schedule, which has a solution.                   *)
Adds(s, ids, i) == IF i \in ids THEN Append(s, Step("schedule", i)) ELSE s
Solves(f, ids) ==
  /\ Schedule(ids) = f[MaxTasks]
  /\ f[0] = <<>>
  /\ \A n \in 1 .. MaxTasks : f[n] = Adds(f[n - 1], ids, n - 1)

LEMMA ScheduleWellDefined ==
  ASSUME NEW ids
  PROVE  \E f : Solves(f, ids)
<1> DEFINE Unrolls(f, k) ==
      f = [n \in 0 .. k |->
             IF n = 0 THEN <<>>
             ELSE IF n - 1 \in ids THEN Append(f[n - 1], Step("schedule", n - 1))
             ELSE f[n - 1]]
           N == {k \in Nat : \E f : Unrolls(f, k)}
<1>1. 0 \in N
  <2>1. Unrolls([n \in 0 .. 0 |-> <<>>], 0)
    OBVIOUS
  <2> QED
    BY <2>1
<1>2. ASSUME NEW k \in N PROVE k + 1 \in N
  <2>1. PICK f : Unrolls(f, k)
    BY <1>2
  <2> DEFINE g == [n \in 0 .. k + 1 |-> IF n = k + 1 THEN Adds(f[k], ids, k) ELSE f[n]]
  <2>2. \A n \in 0 .. k : g[n] = f[n]
    OBVIOUS
  <2>3. \A n \in 0 .. k : f[n] = IF n = 0 THEN <<>> ELSE Adds(f[n - 1], ids, n - 1)
    BY <2>1 DEF Adds
  <2>4. ASSUME NEW n \in 0 .. k + 1
        PROVE  g[n] = IF n = 0 THEN <<>> ELSE Adds(g[n - 1], ids, n - 1)
    <3>1. CASE n = 0
      <4>1. 0 \in 0 .. k
        OBVIOUS
      <4>2. g[0] = f[0] /\ f[0] = <<>>
        BY <2>2, <2>3, <4>1
      <4> QED
        BY <3>1, <4>2
    <3>2. CASE n \in 1 .. k
      <4>1. n \in 0 .. k /\ n - 1 \in 0 .. k /\ n # 0
        BY <3>2
      <4> QED
        BY <4>1, <2>2, <2>3
    <3>3. CASE n = k + 1
      <4>1. k \in 0 .. k /\ n - 1 = k /\ n # 0
        BY <3>3
      <4>2. g[n - 1] = f[k]
        BY <4>1, <2>2
      <4>3. g[n] = Adds(f[k], ids, k)
        BY <3>3
      <4> QED
        BY <4>1, <4>2, <4>3
    <3> QED
      BY <3>1, <3>2, <3>3
  <2>5. Unrolls(g, k + 1)
    <3> HIDE DEF g
    <3>1. g = [n \in 0 .. k + 1 |-> g[n]]
      BY DEF g
    <3>2. \A n \in 0 .. k + 1 : g[n] =
             IF n = 0 THEN <<>>
             ELSE IF n - 1 \in ids THEN Append(g[n - 1], Step("schedule", n - 1))
             ELSE g[n - 1]
      BY <2>4 DEF Adds
    <3> QED
      BY <3>1, <3>2
  <2> HIDE DEF g
  <2>6. \E h : Unrolls(h, k + 1)
    BY <2>5
  <2>7. k + 1 \in Nat
    OBVIOUS
  <2> QED
    BY <2>6, <2>7
<1>3. N = Nat
  <2>1. N \in SUBSET Nat
    OBVIOUS
  <2> HIDE DEF N
  <2> QED
    BY <1>1, <1>2, <2>1, SetInduction
<1>4. MaxTasks \in Nat
  BY SequenceAssumption
<1>5. \E f : Unrolls(f, MaxTasks)
  BY <1>3, <1>4
<1> DEFINE F == CHOOSE f : Unrolls(f, MaxTasks)
<1>6. Unrolls(F, MaxTasks)
  <2> HIDE DEF Unrolls
  <2> QED
    BY <1>5
<1>7. Schedule(ids) = F[MaxTasks]
  BY DEF Schedule
<1> HIDE DEF F
<1>8. \A n \in 0 .. MaxTasks : F[n] = IF n = 0 THEN <<>> ELSE Adds(F[n - 1], ids, n - 1)
  BY <1>6 DEF Adds
<1>9. F[0] = <<>> /\ \A n \in 1 .. MaxTasks : F[n] = Adds(F[n - 1], ids, n - 1)
  BY <1>4, <1>8
<1> QED
  BY <1>7, <1>9 DEF Solves

(* What is handed to scheduleTask() is every task of ids, once.            *)
ScheduleType(ids) == [op : {"schedule"}, x : ids]
Once(s, ids) ==
  \A i \in ids : \E k \in 1 .. Len(s) :
    /\ s[k].x = i
    /\ \A n \in 1 .. Len(s) : s[n].x = i => n = k

LEMMA SeqOfMore ==
  ASSUME NEW S, NEW T, S \subseteq T, NEW s \in Seq(S)
  PROVE  s \in Seq(T)
<1>1. Len(s) \in Nat /\ s = [k \in 1 .. Len(s) |-> s[k]] /\ \A k \in 1 .. Len(s) : s[k] \in S
  OBVIOUS
<1>2. \A k \in 1 .. Len(s) : s[k] \in T
  BY <1>1
<1>3. s \in [1 .. Len(s) -> T]
  BY <1>1, <1>2
<1> QED
  BY <1>1, <1>3

LEMMA OnceAppend ==
  ASSUME NEW ids, NEW S, NEW s \in Seq(ScheduleType(S)), Once(s, S), NEW i, i \notin S
  PROVE  /\ Append(s, Step("schedule", i)) \in Seq(ScheduleType(S \cup {i}))
         /\ Once(Append(s, Step("schedule", i)), S \cup {i})
<1> DEFINE r == Append(s, Step("schedule", i))
<1>1. s \in Seq(ScheduleType(S \cup {i})) /\ Step("schedule", i) \in ScheduleType(S \cup {i})
  <2>1. ScheduleType(S) \subseteq ScheduleType(S \cup {i})
    BY DEF ScheduleType
  <2>2. Step("schedule", i) \in ScheduleType(S \cup {i})
    BY DEF ScheduleType, Step
  <2> QED
    BY <2>1, <2>2, SeqOfMore
<1>2. /\ r \in Seq(ScheduleType(S \cup {i})) /\ Len(r) = Len(s) + 1 /\ Len(s) \in Nat
      /\ r[Len(s) + 1] = Step("schedule", i)
      /\ \A n \in 1 .. Len(s) : r[n] = s[n] /\ s[n] \in ScheduleType(S)
  BY <1>1
<1> HIDE DEF r
<1>3. r[Len(s) + 1].x = i
  BY <1>2 DEF Step
<1>4. \A n \in 1 .. Len(s) : r[n].x \in S /\ r[n].x = s[n].x
  BY <1>2 DEF ScheduleType
<1>5. \A n \in 1 .. Len(r) : n \in 1 .. Len(s) \/ n = Len(s) + 1
  BY <1>2
<1>6. ASSUME NEW j \in S \cup {i}
      PROVE  \E k \in 1 .. Len(r) :
               r[k].x = j /\ \A n \in 1 .. Len(r) : r[n].x = j => n = k
  <2>1. CASE j = i
    <3>1. Len(s) + 1 \in 1 .. Len(r)
      BY <1>2
    <3> QED
      BY <2>1, <3>1, <1>3, <1>4, <1>5
  <2>2. CASE j # i
    <3>1. PICK k \in 1 .. Len(s) : s[k].x = j /\ \A n \in 1 .. Len(s) : s[n].x = j => n = k
      BY <2>2 DEF Once
    <3>2. k \in 1 .. Len(r)
      BY <1>2
    <3> QED
      BY <2>2, <3>1, <3>2, <1>3, <1>4, <1>5
  <2> QED
    BY <2>1, <2>2
<1> QED
  BY <1>2, <1>6 DEF Once, r

LEMMA ScheduleIs ==
  ASSUME NEW ids \in SUBSET Ids
  PROVE  Schedule(ids) \in Seq(ScheduleType(ids)) /\ Once(Schedule(ids), ids)
<1>1. PICK f : Solves(f, ids)
  BY ScheduleWellDefined
<1> DEFINE Below(n) == {i \in ids : i < n}
           Right(n) == f[n] \in Seq(ScheduleType(Below(n))) /\ Once(f[n], Below(n))
           N == {n \in Nat : n <= MaxTasks => Right(n)}
<1>0. MaxTasks \in Nat /\ \A i \in ids : i \in Nat /\ i < MaxTasks
  BY SequenceAssumption DEF Ids
<1>2. 0 \in N
  <2>1. Below(0) = {}
    BY <1>0
  <2>2. f[0] = <<>> /\ f[0] \in Seq(ScheduleType(Below(0)))
    BY <1>1 DEF Solves
  <2>3. Once(f[0], Below(0))
    BY <2>1 DEF Once
  <2> QED
    BY <2>2, <2>3
<1>3. ASSUME NEW n \in N PROVE n + 1 \in N
  <2> SUFFICES ASSUME n + 1 <= MaxTasks PROVE Right(n + 1)
    OBVIOUS
  <2>1. n \in Nat /\ n + 1 \in 1 .. MaxTasks /\ (n + 1) - 1 = n /\ MaxTasks \in Nat
    BY SequenceAssumption
  <2>2. Right(n)
    BY <2>1
  <2>3. f[n + 1] = Adds(f[n], ids, n)
    BY <1>1, <2>1 DEF Solves
  <2>4. CASE n \in ids
    <3>1. Below(n + 1) = Below(n) \cup {n} /\ n \notin Below(n)
      <4>1. \A i \in ids : i < n + 1 <=> (i < n \/ i = n)
        BY <1>0, <2>1
      <4>2. ~ (n < n)
        BY <2>1
      <4> QED
        BY <2>4, <4>1, <4>2
    <3>2. f[n + 1] = Append(f[n], Step("schedule", n))
      BY <2>3, <2>4 DEF Adds
    <3> HIDE DEF Below
    <3> QED
      BY <2>2, <3>1, <3>2, OnceAppend
  <2>5. CASE n \notin ids
    <3>1. Below(n + 1) = Below(n)
      BY <1>0, <2>1, <2>5
    <3>2. f[n + 1] = f[n]
      BY <2>3, <2>5 DEF Adds
    <3> QED
      BY <2>2, <3>1, <3>2
  <2> QED
    BY <2>4, <2>5
<1>4. N = Nat
  <2>1. N \in SUBSET Nat
    OBVIOUS
  <2> HIDE DEF N
  <2> QED
    BY <1>2, <1>3, <2>1, SetInduction
<1>5. Right(MaxTasks)
  BY <1>4, SequenceAssumption
<1>6. Below(MaxTasks) = ids
  BY <1>0
<1>7. Schedule(ids) = f[MaxTasks]
  BY <1>1 DEF Solves
<1> QED
  BY <1>5, <1>6, <1>7
-----------------------------------------------------------------------------
(* What a step of an agenda carries.                                       *)
LEMMA StepFields ==
  ASSUME NEW s \in StepType
  PROVE  /\ s.op = "schedule" => s.x \in Ids
         /\ s.op = "submit" => s.x \in JobType
         /\ s.op = "post" => s.x \in [w : Workers, j : JobType]
         /\ s.op = "finish" => s.x \in [id : Ids, output : SUBSET Ids]
         /\ s.op = "stop" => s.x \in Workers
<1>1. CASE s \in [op : {"construct", "asleep", "wait", "waiting", "notify", "join"}, x : {None}]
  BY <1>1
<1>2. CASE s \in [op : {"stop"}, x : Workers]
  BY <1>2
<1>3. CASE s \in [op : {"schedule"}, x : Ids]
  BY <1>3
<1>4. CASE s \in [op : {"submit"}, x : JobType]
  BY <1>4
<1>5. CASE s \in [op : {"post"}, x : [w : Workers, j : JobType]]
  BY <1>5
<1>6. CASE s \in [op : {"finish"}, x : [id : Ids, output : SUBSET Ids]]
  BY <1>6
<1> QED
  BY <1>1, <1>2, <1>3, <1>4, <1>5, <1>6 DEF StepType

LEMMA StepsAre ==
  /\ \A op \in {"construct", "asleep", "wait", "waiting", "notify", "join"} :
       Step(op, None) \in StepType
  /\ \A w \in Workers : Step("stop", w) \in StepType
  /\ \A i \in Ids : Step("schedule", i) \in StepType
  /\ \A j \in JobType : Step("submit", j) \in StepType
  /\ \A w \in Workers, j \in JobType : Step("post", [w |-> w, j |-> j]) \in StepType
  /\ \A i \in Ids, o \in SUBSET Ids : Step("finish", [id |-> i, output |-> o]) \in StepType
  /\ \A S \in SUBSET Ids : ScheduleType(S) \subseteq StepType
<1>1. \A op \in {"construct", "asleep", "wait", "waiting", "notify", "join"} :
        Step(op, None) \in StepType
  BY DEF Step, StepType
<1>2. \A w \in Workers : Step("stop", w) \in StepType
  BY DEF Step, StepType
<1>3. \A i \in Ids : Step("schedule", i) \in StepType
  BY DEF Step, StepType
<1>4. \A j \in JobType : Step("submit", j) \in StepType
  BY DEF Step, StepType
<1>5. \A w \in Workers, j \in JobType : Step("post", [w |-> w, j |-> j]) \in StepType
  BY DEF Step, StepType
<1>6. \A i \in Ids, o \in SUBSET Ids : Step("finish", [id |-> i, output |-> o]) \in StepType
  BY DEF Step, StepType
<1>7. \A S \in SUBSET Ids : ScheduleType(S) \subseteq StepType
  BY DEF ScheduleType, StepType
<1> QED
  BY <1>1, <1>2, <1>3, <1>4, <1>5, <1>6, <1>7

LEMMA AtHead ==
  ASSUME AgendaType, NEW t \in Threads, agenda[t] # <<>>
  PROVE  /\ agenda[t] \in Seq(StepType) /\ Len(agenda[t]) \in Nat /\ Len(agenda[t]) >= 1
         /\ Head(agenda[t]) = agenda[t][1] /\ Head(agenda[t]) \in StepType
BY DEF AgendaType

-----------------------------------------------------------------------------
(* How an agenda changes in a step.                                        *)
Steps(s) == s \in Seq(StepType) /\ Orderly(s)
Replaces(u, s) == agenda[u] # <<>> /\ agenda'[u] = s \o Tail(agenda[u])
Begins(u, s) == agenda[u] = <<>> /\ agenda'[u] = s
Moves(u) ==
  \/ agenda'[u] = agenda[u]
  \/ \E s : Steps(s) /\ (Replaces(u, s) \/ (Begins(u, s) /\ (u \in Workers => wpc'[u] = "ran")))
AgendaStep == agenda' = [u \in Threads |-> agenda'[u]] /\ \A u \in Threads : Moves(u)

LEMMA ThenMoves ==
  ASSUME AgendaType, NEW t \in Threads, agenda[t] # <<>>, NEW s, Steps(s), Then(t, s)
  PROVE  AgendaStep /\ Replaces(t, s) /\ \A u \in Threads : u # t => agenda'[u] = agenda[u]
BY DEF AgendaType, AgendaStep, Moves, Replaces, Then

LEMMA CallMoves ==
  ASSUME AgendaType, NEW t \in Threads, agenda[t] = <<>>, NEW s, Steps(s), Call(t, s),
         t \in Workers => wpc'[t] = "ran"
  PROVE  AgendaStep /\ Begins(t, s) /\ \A u \in Threads : u # t => agenda'[u] = agenda[u]
<1>1. s \o <<>> = s
  <2>1. s \in Seq(StepType)
    BY DEF Steps
  <2> QED
    BY <2>1, ConcatEmptySeq
<1> QED
  BY <1>1 DEF AgendaType, AgendaStep, Moves, Begins, Call

LEMMA AgendaStays ==
  ASSUME AgendaType, agenda' = agenda
  PROVE  AgendaStep
BY DEF AgendaType, AgendaStep, Moves

(* A thread that wakes goes on with the rest, after s.                     *)
LEMMA WakeMoves ==
  ASSUME AgendaType, NEW W \in SUBSET Threads, \A u \in W : agenda[u] # <<>>,
         NEW s, Steps(s),
         agenda' = [u \in Threads |-> IF u \in W THEN s \o Tail(agenda[u]) ELSE agenda[u]]
  PROVE  AgendaStep /\ \A u \in W : Replaces(u, s)
BY DEF AgendaType, AgendaStep, Moves, Replaces

LEMMA OrderlyReplaced ==
  ASSUME NEW s, NEW q, Steps(s), Steps(q), q # <<>>
  PROVE  Steps(s \o Tail(q))
<1>1. s \in Seq(StepType) /\ q \in Seq(StepType)
  BY DEF Steps
<1> DEFINE r == s \o Tail(q)
<1>2. /\ r \in Seq(StepType)
      /\ Len(r) = Len(s) + Len(q) - 1
      /\ Len(s) \in Nat /\ Len(q) \in Nat /\ Len(q) >= 1
      /\ \A k \in 1 .. Len(s) : r[k] = s[k]
      /\ \A k \in (Len(s) + 1) .. (Len(s) + Len(q) - 1) : r[k] = q[k - Len(s) + 1]
  BY <1>1, Replaced
<1> HIDE DEF r
<1>3. ASSUME NEW k \in 2 .. Len(r) PROVE r[k].op \in LaterOps
  <2>1. CASE k \in 1 .. Len(s)
    <3>1. k \in 2 .. Len(s)
      BY <2>1
    <3> QED
      BY <1>2, <2>1, <3>1 DEF Steps, Orderly
  <2>2. CASE k \notin 1 .. Len(s)
    <3>1. k \in (Len(s) + 1) .. (Len(s) + Len(q) - 1) /\ k - Len(s) + 1 \in 2 .. Len(q)
      BY <1>2, <2>2
    <3> QED
      BY <1>2, <3>1 DEF Steps, Orderly
  <2> QED
    BY <2>1, <2>2
<1> QED
  BY <1>2, <1>3 DEF Steps, Orderly, r

LEMMA AgendaKept ==
  ASSUME AgendaType, AgendaStep,
         \A w \in Workers : wpc[w] = "ran" /\ wpc'[w] # "ran" => agenda'[w] = <<>>
  PROVE  AgendaType'
<1>1. \A u \in Threads : Steps(agenda[u])
  BY DEF AgendaType, Steps
<1>2. ASSUME NEW u \in Threads PROVE Steps(agenda'[u])
  <2>1. CASE agenda'[u] = agenda[u]
    BY <1>1, <2>1
  <2>2. ASSUME NEW s, Steps(s), Replaces(u, s) PROVE Steps(agenda'[u])
    BY <1>1, <2>2, OrderlyReplaced DEF Replaces
  <2>3. ASSUME NEW s, Steps(s), Begins(u, s) PROVE Steps(agenda'[u])
    BY <2>3 DEF Begins
  <2> QED
    BY <2>1, <2>2, <2>3 DEF AgendaStep, Moves
<1>3. agenda' \in [Threads -> Seq(StepType)]
  BY <1>2 DEF AgendaStep, Steps
<1>4. ASSUME NEW w \in Workers, wpc'[w] # "ran" PROVE agenda'[w] = <<>>
  <2>1. w \in Threads
    BY DEF Threads
  <2>2. CASE wpc[w] = "ran"
    BY <1>4, <2>2
  <2>3. CASE wpc[w] # "ran"
    <3>1. agenda[w] = <<>>
      BY <2>3 DEF AgendaType
    <3> QED
      BY <1>4, <2>1, <3>1 DEF AgendaStep, Moves, Replaces, Begins
  <2> QED
    BY <2>2, <2>3
<1> QED
  BY <1>2, <1>3, <1>4 DEF AgendaType, Steps

(* The pieces of agendas that the actions make.                            *)
Later(s) == s \in Seq(StepType) /\ \A k \in 1 .. Len(s) : s[k].op \in LaterOps

LEMMA LaterSteps ==
  ASSUME NEW s, Later(s), NEW r, Later(r)
  PROVE  Steps(s) /\ Later(s \o r) /\ Steps(s \o r)
<1>1. s \in Seq(StepType) /\ r \in Seq(StepType)
  BY DEF Later
<1>2. /\ s \o r \in Seq(StepType) /\ Len(s \o r) = Len(s) + Len(r)
      /\ \A k \in 1 .. Len(s) + Len(r) :
           (s \o r)[k] = IF k <= Len(s) THEN s[k] ELSE r[k - Len(s)]
  BY <1>1, ConcatProperties
<1>3. Len(s) \in Nat /\ Len(r) \in Nat
  BY <1>1
<1>4. ASSUME NEW k \in 1 .. Len(s) + Len(r) PROVE (s \o r)[k].op \in LaterOps
  <2>1. CASE k <= Len(s)
    <3>1. k \in 1 .. Len(s)
      BY <1>3, <2>1
    <3> QED
      BY <1>2, <2>1, <3>1 DEF Later
  <2>2. CASE ~ (k <= Len(s))
    <3>1. k - Len(s) \in 1 .. Len(r)
      BY <1>3, <2>2
    <3> QED
      BY <1>2, <2>2, <3>1 DEF Later
  <2> QED
    BY <2>1, <2>2
<1>5. \A q : Later(q) => Steps(q)
  <2> SUFFICES ASSUME NEW q, Later(q) PROVE Steps(q)
    OBVIOUS
  <2>1. q \in Seq(StepType) /\ Len(q) \in Nat
    BY DEF Later
  <2>2. \A k \in 2 .. Len(q) : k \in 1 .. Len(q)
    BY <2>1
  <2> QED
    BY <2>1, <2>2 DEF Later, Steps, Orderly
<1>6. Later(s \o r)
  BY <1>2, <1>4 DEF Later
<1> QED
  BY <1>5, <1>6

LEMMA OneStep ==
  /\ Later(<<>>) /\ Steps(<<>>)
  /\ \A x \in StepType : Steps(<<x>>)
  /\ \A x \in StepType : x.op \in LaterOps => Later(<<x>>)
<1>1. <<>> \in Seq(StepType) /\ Len(<<>>) = 0
  OBVIOUS
<1>2. Later(<<>>) /\ Steps(<<>>)
  BY <1>1 DEF Later, Steps, Orderly
<1>3. ASSUME NEW x \in StepType
      PROVE  Steps(<<x>>) /\ (x.op \in LaterOps => Later(<<x>>))
  <2>1. <<x>> \in Seq(StepType) /\ Len(<<x>>) = 1 /\ <<x>>[1] = x
    OBVIOUS
  <2>2. 2 .. 1 = {} /\ 1 .. 1 = {1}
    OBVIOUS
  <2> QED
    BY <2>1, <2>2 DEF Later, Steps, Orderly
<1> QED
  BY <1>2, <1>3

LEMMA ScheduleSteps ==
  ASSUME NEW ids \in SUBSET Ids
  PROVE  /\ Later(Schedule(ids)) /\ Steps(Schedule(ids))
         /\ \A b \in BOOLEAN :
              Steps(Schedule(ids) \o (IF b THEN <<Step("notify", None)>> ELSE <<>>))
<1>1. Schedule(ids) \in Seq(ScheduleType(ids)) /\ ScheduleType(ids) \subseteq StepType
  BY ScheduleIs, StepsAre
<1>2. Schedule(ids) \in Seq(StepType)
  BY <1>1, SeqOfMore
<1>3. Later(Schedule(ids))
  <2> DEFINE s == Schedule(ids)
  <2>1. s \in Seq(ScheduleType(ids)) /\ s \in Seq(StepType)
    BY <1>1, <1>2
  <2> HIDE DEF s
  <2>2. \A k \in 1 .. Len(s) : s[k] \in ScheduleType(ids)
    BY <2>1
  <2>3. \A k \in 1 .. Len(s) : s[k].op \in LaterOps
    BY <2>2 DEF ScheduleType, LaterOps
  <2>4. Later(s)
    BY <2>1, <2>3 DEF Later
  <2> QED
    BY <2>4 DEF s
<1>4. Later(<<>>) /\ Later(<<Step("notify", None)>>)
  <2>1. Step("notify", None) \in StepType /\ Step("notify", None).op \in LaterOps
    BY StepsAre DEF Step, LaterOps
  <2> QED
    BY <2>1, OneStep
<1> QED
  BY <1>3, <1>4, LaterSteps

LEMMA StopSteps ==
  Steps([i \in DOMAIN WorkerSeq |-> Step("stop", WorkerSeq[i])] \o <<Step("join", None)>>)
<1> DEFINE s == [i \in DOMAIN WorkerSeq |-> Step("stop", WorkerSeq[i])]
<1>1. WorkerSeq \in Seq(Workers) /\ Len(WorkerSeq) \in Nat
  BY WorkersInARow
<1>2. DOMAIN WorkerSeq = 1 .. Len(WorkerSeq) /\ \A i \in 1 .. Len(WorkerSeq) : WorkerSeq[i] \in Workers
  BY <1>1
<1>3. s \in [1 .. Len(WorkerSeq) -> StepType]
  BY <1>2, StepsAre
<1>4. s \in Seq(StepType) /\ Len(s) = Len(WorkerSeq)
  BY <1>1, <1>3
<1>5. \A k \in 1 .. Len(s) : s[k].op \in LaterOps
  BY <1>2, <1>4 DEF Step, LaterOps
<1> HIDE DEF s
<1>6. Later(s)
  BY <1>4, <1>5 DEF Later
<1>7. Later(<<Step("join", None)>>)
  <2>1. Step("join", None) \in StepType /\ Step("join", None).op \in LaterOps
    BY StepsAre DEF Step, LaterOps
  <2> QED
    BY <2>1, OneStep
<1>8. Steps(s \o <<Step("join", None)>>)
  BY <1>6, <1>7, LaterSteps
<1> QED
  BY <1>8 DEF s

LEMMA AtIs ==
  ASSUME AgendaType, NEW t \in Threads, NEW op, At(t, op)
  PROVE  /\ agenda[t] # <<>> /\ agenda[t] \in Seq(StepType) /\ Len(agenda[t]) >= 1
         /\ agenda[t][1].op = op /\ Arg(t) = agenda[t][1].x
         /\ op = "schedule" => Arg(t) \in Ids
         /\ op = "submit" => Arg(t) \in JobType
         /\ op = "post" => Arg(t) \in [w : Workers, j : JobType]
         /\ op = "finish" => Arg(t) \in [id : Ids, output : SUBSET Ids]
         /\ op = "stop" => Arg(t) \in Workers
<1>1. agenda[t] # <<>> /\ Head(agenda[t]).op = op
  BY DEF At
<1>2. /\ agenda[t] \in Seq(StepType) /\ Len(agenda[t]) >= 1
      /\ Head(agenda[t]) = agenda[t][1] /\ Head(agenda[t]) \in StepType
  BY <1>1, AtHead
<1> QED
  BY <1>1, <1>2, StepFields DEF Arg
-----------------------------------------------------------------------------
(* Every step keeps the types.                                             *)
LEMMA InitType == Init => TypeOK
<1> SUFFICES ASSUME Init PROVE TypeOK
  OBVIOUS
<1>1. PoolType
  <2>1. /\ m_stopping = FALSE /\ m_nextWorker = 0
        /\ m_queuedTasks = 0 /\ m_activeTasks = 0 /\ m_workerLoops = {}
    BY DEF Init, PoolInit
  <2>2. m_stopping \in BOOLEAN
    BY <2>1
  <2>3. m_nextWorker \in Nat /\ m_queuedTasks \in Int /\ m_activeTasks \in Int
        /\ m_workerLoops \in SUBSET Workers
    BY <2>1
  <2> QED
    BY <2>2, <2>3 DEF PoolType
<1>2. LoopType
  BY DEF Init, PoolInit, LoopType
<1>3. GraphType
  <2>1. /\ taskCount = 0 /\ m_running = FALSE /\ m_finished = FALSE /\ m_remainingTasks = 0
        /\ pending = [i \in Ids |-> 0] /\ scheduled = {} /\ done = {}
        /\ output = [i \in Ids |-> {}] /\ starts = 0 /\ MaxTasks \in Nat
    BY SequenceAssumption DEF Init
  <2>2. m_running \in BOOLEAN /\ m_finished \in BOOLEAN
    BY <2>1
  <2>3. /\ taskCount \in 0 .. MaxTasks /\ m_remainingTasks \in Int
        /\ pending \in [Ids -> Int] /\ scheduled \in SUBSET Ids /\ done \in SUBSET Ids
        /\ output \in [Ids -> SUBSET Ids] /\ starts \in Nat
    BY <2>1
  <2> QED
    BY <2>2, <2>3 DEF GraphType
<1>4. AgendaType
  <2>1. (CHOOSE c \in Clients : TRUE) \in Clients
    BY SequenceAssumption
  <2>2. \A t \in Threads : Steps(agenda[t])
    <3>1. Steps(<<Step("construct", None)>>) /\ Steps(<<>>)
      BY OneStep, StepsAre
    <3> QED
      BY <3>1 DEF Init, PoolInit
  <2>3. \A w \in Workers : w \in Threads /\ w # (CHOOSE c \in Clients : TRUE)
    BY <2>1, SequenceAssumption DEF Threads
  <2>4. agenda \in [Threads -> Seq(StepType)]
    BY <2>2 DEF Steps, Init, PoolInit
  <2>5. \A w \in Workers : agenda[w] = <<>>
    BY <2>3 DEF Init, PoolInit
  <2> QED
    BY <2>2, <2>4, <2>5 DEF AgendaType, Steps
<1> QED
  BY <1>1, <1>2, <1>3, <1>4 DEF TypeOK

(* A step in which wpc stays.                                              *)
LEMMA AgendaOnly ==
  ASSUME TypeOK, AgendaStep, wpc' = wpc
  PROVE  AgendaType'
BY AgendaKept DEF TypeOK

LEMMA PoolActionTypes ==
  ASSUME TypeOK, PoolStep, UNCHANGED <<graphVars, runVars, starts>>
  PROVE  TypeOK'
<1> USE DEF poolVars, loopVars, graphVars, runVars
<1>0. GraphType'
  BY DEF TypeOK, GraphType
<1>1. ASSUME NEW t \in Clients, WaitForDone(t) PROVE TypeOK'
  <2>1. PoolType' /\ LoopType' /\ wpc' = wpc
    BY <1>1 DEF TypeOK, WaitForDone, PoolType, LoopType
  <2>2. t \in Threads /\ t \notin Workers
    BY SequenceAssumption DEF Threads
  <2>3. agenda[t] = <<>>
    BY <1>1 DEF WaitForDone, UserCode
  <2> DEFINE s == IF AllDone(m_activeTasks) THEN <<>> ELSE <<Step("waiting", None)>>
  <2>4. Steps(s) /\ Call(t, s)
    BY <1>1, OneStep, StepsAre DEF WaitForDone
  <2> HIDE DEF s
  <2>5. AgendaStep
    BY <2>2, <2>3, <2>4, CallMoves DEF TypeOK
  <2> QED
    BY <1>0, <2>1, <2>5, AgendaOnly DEF TypeOK
<1>2. ASSUME NEW t \in Clients, Shutdown(t) PROVE TypeOK'
  <2>1. PoolType' /\ LoopType' /\ wpc' = wpc
    BY <1>2 DEF TypeOK, Shutdown, PoolType, LoopType
  <2>2. t \in Threads /\ t \notin Workers
    BY SequenceAssumption DEF Threads
  <2>3. agenda[t] = <<>>
    BY <1>2 DEF Shutdown, UserCode
  <2> DEFINE s == [i \in DOMAIN WorkerSeq |-> Step("stop", WorkerSeq[i])] \o <<Step("join", None)>>
  <2>4. Steps(s) /\ Call(t, s)
    BY <1>2, StopSteps DEF Shutdown
  <2> HIDE DEF s
  <2>5. AgendaStep
    BY <2>2, <2>3, <2>4, CallMoves DEF TypeOK
  <2> QED
    BY <1>0, <2>1, <2>5, AgendaOnly DEF TypeOK
<1>3. ASSUME NEW t \in Threads, Post(t) PROVE TypeOK'
  <2>1. At(t, "post") /\ agenda[t] # <<>> /\ Arg(t) \in [w : Workers, j : JobType]
    BY <1>3, AtIs DEF TypeOK, Post
  <2>2. PoolType' /\ wpc' = wpc
    BY <1>3 DEF TypeOK, Post, PoolType
  <2>3. LoopType'
    BY <1>3, <2>1 DEF TypeOK, Post, LoopType
  <2>4. AgendaStep
    BY <1>3, <2>1, OneStep, ThenMoves DEF TypeOK, Post
  <2> QED
    BY <1>0, <2>2, <2>3, <2>4, AgendaOnly DEF TypeOK
<1>4. ASSUME NEW t \in Threads, StopLoop(t) PROVE TypeOK'
  <2>1. At(t, "stop") /\ agenda[t] # <<>> /\ Arg(t) \in Workers
    BY <1>4, AtIs DEF TypeOK, StopLoop
  <2>2. PoolType' /\ wpc' = wpc
    BY <1>4 DEF TypeOK, StopLoop, PoolType
  <2>3. LoopType'
    BY <1>4, <2>1 DEF TypeOK, StopLoop, LoopType
  <2>4. AgendaStep
    BY <1>4, <2>1, OneStep, ThenMoves DEF TypeOK, StopLoop
  <2> QED
    BY <1>0, <2>2, <2>3, <2>4, AgendaOnly DEF TypeOK
<1>5. ASSUME NEW t \in Threads, Join(t) PROVE TypeOK'
  <2>1. At(t, "join") /\ agenda[t] # <<>>
    BY <1>5, AtIs DEF TypeOK, Join
  <2>2. PoolType' /\ LoopType' /\ wpc' = wpc
    BY <1>5 DEF TypeOK, Join, PoolType, LoopType
  <2>4. AgendaStep
    BY <1>5, <2>1, OneStep, ThenMoves DEF TypeOK, Join
  <2> QED
    BY <1>0, <2>2, <2>4, AgendaOnly DEF TypeOK
<1>6. ASSUME NEW w \in Workers, WorkerLoop(w) PROVE TypeOK'
  <2>1. PoolType' /\ LoopType'
    BY <1>6 DEF TypeOK, WorkerLoop, PoolType, LoopType
  <2>2. AgendaType'
    BY <1>6 DEF TypeOK, WorkerLoop, AgendaType, LoopType
  <2> QED
    BY <1>0, <2>1, <2>2 DEF TypeOK
<1>7. ASSUME NEW w \in Workers, RunReady(w) PROVE TypeOK'
  <2>1. PoolType' /\ LoopType' /\ wpc' = wpc
    BY <1>7 DEF TypeOK, RunReady, PoolType, LoopType
  <2> DEFINE W == {u \in Threads : At(u, "construct") /\ AllReady}
  <2>2. \A u \in W : agenda[u] # <<>> /\ Tail(agenda[u]) = <<>> \o Tail(agenda[u])
    <3> SUFFICES ASSUME NEW u \in W PROVE agenda[u] # <<>> /\ Tail(agenda[u]) = <<>> \o Tail(agenda[u])
      OBVIOUS
    <3>1. agenda[u] # <<>> /\ agenda[u] \in Seq(StepType)
      BY AtIs DEF TypeOK
    <3>2. Tail(agenda[u]) \in Seq(StepType)
      BY <3>1
    <3> QED
      BY <3>1, <3>2, ConcatEmptySeq
  <2>3. agenda' = [u \in Threads |-> IF u \in W THEN <<>> \o Tail(agenda[u]) ELSE agenda[u]]
    BY <1>7, <2>2 DEF RunReady
  <2> HIDE DEF W
  <2>4. W \in SUBSET Threads
    BY DEF W
  <2>5. AgendaStep
    BY <2>2, <2>3, <2>4, OneStep, WakeMoves DEF TypeOK
  <2> QED
    BY <1>0, <2>1, <2>5, AgendaOnly DEF TypeOK
<1>8. ASSUME NEW w \in Workers, TakeTask(w) PROVE TypeOK'
  <2>1. Head(loopTasks[w]) \in JobType /\ Tail(loopTasks[w]) \in Seq(JobType \cup {Ready})
    BY <1>8 DEF TypeOK, TakeTask, LoopType
  <2>2. PoolType'
    BY <1>8 DEF TypeOK, TakeTask, PoolType
  <2>3. LoopType'
    BY <1>8, <2>1 DEF TypeOK, TakeTask, LoopType
  <2>4. AgendaType'
    BY <1>8 DEF TypeOK, TakeTask, AgendaType, LoopType
  <2> QED
    BY <1>0, <2>2, <2>3, <2>4 DEF TypeOK
<1>9. ASSUME NEW w \in Workers, EndTask(w) PROVE TypeOK'
  <2>1. PoolType'
    BY <1>9 DEF TypeOK, EndTask, PoolType
  <2>2. LoopType'
    BY <1>9 DEF TypeOK, EndTask, LoopType
  <2> DEFINE W == {u \in Threads : At(u, "waiting") /\ AllDone(m_activeTasks - 1)}
  <2>3. \A u \in W : agenda[u] # <<>> /\ Tail(agenda[u]) = <<>> \o Tail(agenda[u])
    <3> SUFFICES ASSUME NEW u \in W PROVE agenda[u] # <<>> /\ Tail(agenda[u]) = <<>> \o Tail(agenda[u])
      OBVIOUS
    <3>1. agenda[u] # <<>> /\ agenda[u] \in Seq(StepType)
      BY AtIs DEF TypeOK
    <3>2. Tail(agenda[u]) \in Seq(StepType)
      BY <3>1
    <3> QED
      BY <3>1, <3>2, ConcatEmptySeq
  <2>4. agenda' = [u \in Threads |-> IF u \in W THEN <<>> \o Tail(agenda[u]) ELSE agenda[u]]
    BY <1>9, <2>3 DEF EndTask
  <2> HIDE DEF W
  <2>5. W \in SUBSET Threads
    BY DEF W
  <2>6. AgendaStep
    BY <2>3, <2>4, <2>5, OneStep, WakeMoves DEF TypeOK
  <2>7. w \notin W /\ agenda'[w] = <<>>
    BY <1>9, <2>3, <2>4 DEF EndTask, Threads
  <2>8. \A v \in Workers : v # w => wpc'[v] = wpc[v]
    BY <1>9 DEF TypeOK, LoopType, EndTask
  <2>9. AgendaType'
    BY <2>6, <2>7, <2>8, AgendaKept DEF TypeOK
  <2> QED
    BY <1>0, <2>1, <2>2, <2>9 DEF TypeOK
<1>10. ASSUME NEW w \in Workers, DrainOver(w) PROVE TypeOK'
  BY <1>0, <1>10 DEF TypeOK, DrainOver, PoolType, LoopType, AgendaType
<1>11. ASSUME NEW w \in Workers, Wait(w) PROVE TypeOK'
  BY <1>0, <1>11 DEF TypeOK, Wait, PoolType, LoopType, AgendaType
<1> QED
  BY <1>1, <1>2, <1>3, <1>4, <1>5, <1>6, <1>7, <1>8, <1>9, <1>10, <1>11
  DEF PoolStep, ClientStep, ThreadStep, WorkerStep

LEMMA TaskSets ==
  ASSUME GraphType
  PROVE  /\ Tasks \subseteq Ids /\ IsFiniteSet(Tasks) /\ Cardinality(Tasks) = taskCount
         /\ taskCount \in Nat
         /\ \A i : /\ Dependencies(i) \subseteq Tasks /\ Dependents(i) \subseteq Tasks
                   /\ IsFiniteSet(Dependencies(i)) /\ Cardinality(Dependencies(i)) \in Nat
<1>1. taskCount \in Nat /\ taskCount <= MaxTasks /\ MaxTasks \in Nat
  BY SequenceAssumption DEF GraphType
<1>2. Tasks \subseteq Ids
  BY <1>1 DEF Tasks, Ids
<1>3. IsFiniteSet(Tasks) /\ Cardinality(Tasks) = taskCount
  <2>1. 0 \in Int /\ taskCount - 1 \in Int
    BY <1>1
  <2>2. /\ IsFiniteSet(0 .. taskCount - 1)
        /\ Cardinality(0 .. taskCount - 1) = IF 0 > taskCount - 1 THEN 0 ELSE (taskCount - 1) - 0 + 1
    BY <2>1, FS_Interval
  <2> QED
    BY <1>1, <2>2 DEF Tasks
<1>4. ASSUME NEW i
      PROVE  /\ Dependencies(i) \subseteq Tasks /\ Dependents(i) \subseteq Tasks
             /\ IsFiniteSet(Dependencies(i)) /\ Cardinality(Dependencies(i)) \in Nat
  <2>1. Dependencies(i) \subseteq Tasks /\ Dependents(i) \subseteq Tasks
    BY DEF Dependencies, Dependents
  <2> QED
    BY <1>3, <2>1, FS_Subset, FS_CardinalityType
<1> QED
  BY <1>1, <1>2, <1>3, <1>4

LEMMA GraphActionTypes ==
  ASSUME TypeOK,
         \/ \E w \in Workers : Execute(w)
         \/ \E t \in Threads : GraphStep(t) \/ WaitSequence(t)
         \/ \E t \in Clients : AddTask(t) \/ Start(t) \/ \E a, b \in Ids : AddDependency(t, a, b)
  PROVE  TypeOK'
<1> USE DEF poolVars, loopVars, graphVars, runVars
<1>1. ASSUME NEW w \in Workers, Execute(w) PROVE TypeOK'
  <2>1. w \in Threads /\ agenda[w] = <<>> /\ cur[w] \in JobType
    BY <1>1 DEF Threads, Execute, TypeOK, LoopType, AgendaType
  <2>2. PoolType' /\ GraphType'
    BY <1>1 DEF TypeOK, Execute, PoolType, GraphType
  <2>3. LoopType' /\ wpc'[w] = "ran"
    BY <1>1, <2>1 DEF TypeOK, Execute, LoopType
  <2>4. PICK o \in {{}, {cur[w].id}} : Call(w, <<Step("finish", [id |-> cur[w].id, output |-> o])>>)
    BY <1>1 DEF Execute
  <2>5. cur[w].id \in Ids /\ o \in SUBSET Ids
    BY <2>1 DEF JobType
  <2>6. Steps(<<Step("finish", [id |-> cur[w].id, output |-> o])>>)
    BY <2>5, OneStep, StepsAre
  <2>7. AgendaStep
    BY <2>1, <2>3, <2>4, <2>6, CallMoves DEF TypeOK
  <2>8. \A v \in Workers : wpc[v] = "ran" => wpc'[v] = "ran"
    BY <1>1 DEF Execute, TypeOK, LoopType
  <2>9. AgendaType'
    BY <2>7, <2>8, AgendaKept DEF TypeOK
  <2> QED
    BY <2>2, <2>3, <2>9 DEF TypeOK
<1>2. ASSUME NEW t \in Threads, ScheduleTask(t) PROVE TypeOK'
  <2>1. At(t, "schedule") /\ agenda[t] # <<>> /\ Arg(t) \in Ids
    BY <1>2, AtIs DEF TypeOK, ScheduleTask
  <2>2. PoolType' /\ LoopType' /\ GraphType' /\ wpc' = wpc
    BY <1>2 DEF TypeOK, ScheduleTask, PoolType, LoopType, GraphType
  <2> DEFINE j == [id |-> Arg(t), input |-> UNION {output[d] : d \in Dependencies(Arg(t))}]
             s == IF m_running THEN <<Step("submit", j)>> ELSE <<>>
  <2>3. j \in JobType
    <3>1. \A d \in Dependencies(Arg(t)) : output[d] \in SUBSET Ids
      BY TaskSets DEF TypeOK, GraphType
    <3>2. UNION {output[d] : d \in Dependencies(Arg(t))} \in SUBSET Ids
      BY <3>1
    <3> QED
      BY <2>1, <3>2 DEF JobType
  <2>4. Then(t, s)
    BY <1>2 DEF ScheduleTask
  <2> HIDE DEF j
  <2>5. Steps(s)
    BY <2>3, OneStep, StepsAre
  <2> HIDE DEF s
  <2>6. AgendaStep
    BY <2>1, <2>4, <2>5, ThenMoves DEF TypeOK
  <2> QED
    BY <2>2, <2>6, AgendaOnly DEF TypeOK
<1>3. ASSUME NEW t \in Threads, Submit(t) PROVE TypeOK'
  <2>1. At(t, "submit") /\ agenda[t] # <<>> /\ Arg(t) \in JobType
    BY <1>3, AtIs DEF TypeOK, Submit
  <2>2. LoopType' /\ GraphType' /\ wpc' = wpc
    BY <1>3 DEF TypeOK, Submit, StartJob, LoopType, GraphType
  <2>3. Len(WorkerSeq) \in Nat /\ Len(WorkerSeq) >= 1
    BY WorkersInARow
  <2>4. PoolType'
    <3>1. (m_nextWorker + 1) % Len(WorkerSeq) \in Nat
      BY <2>3 DEF TypeOK, PoolType
    <3> QED
      BY <1>3, <3>1 DEF TypeOK, Submit, StartJob, PoolType
  <2>5. PICK w \in Workers : Then(t, <<Step("post", [w |-> w, j |-> Arg(t)])>>)
    <3>1. WorkerSeq[(m_nextWorker % Len(WorkerSeq)) + 1] \in Workers
      BY WorkersInARow DEF TypeOK, PoolType
    <3> QED
      BY <1>3, <3>1 DEF Submit, StartJob
  <2>6. Steps(<<Step("post", [w |-> w, j |-> Arg(t)])>>)
    BY <2>1, OneStep, StepsAre
  <2>7. AgendaStep
    BY <2>1, <2>5, <2>6, ThenMoves DEF TypeOK
  <2> QED
    BY <2>2, <2>4, <2>7, AgendaOnly DEF TypeOK
<1>4. ASSUME NEW t \in Threads, SubmitRefused(t) PROVE TypeOK'
  <2>1. At(t, "submit") /\ agenda[t] # <<>> /\ Arg(t) \in JobType
    BY <1>4, AtIs DEF TypeOK, SubmitRefused
  <2>2. PoolType' /\ LoopType' /\ GraphType' /\ wpc' = wpc
    BY <1>4 DEF TypeOK, SubmitRefused, PoolType, LoopType, GraphType
  <2>3. Arg(t).id \in Ids /\ {} \in SUBSET Ids
    BY <2>1 DEF JobType
  <2>4. Steps(<<Step("finish", [id |-> Arg(t).id, output |-> {}])>>)
    BY <2>3, OneStep, StepsAre
  <2>5. AgendaStep
    BY <1>4, <2>1, <2>4, ThenMoves DEF TypeOK, SubmitRefused
  <2> QED
    BY <2>2, <2>5, AgendaOnly DEF TypeOK
<1>5. ASSUME NEW t \in Threads, OnTaskFinished(t) PROVE TypeOK'
  <2>1. /\ At(t, "finish") /\ agenda[t] # <<>>
        /\ Arg(t).id \in Ids /\ Arg(t).output \in SUBSET Ids
    BY <1>5, AtIs DEF TypeOK, OnTaskFinished
  <2>2. PoolType' /\ LoopType' /\ wpc' = wpc
    BY <1>5 DEF TypeOK, OnTaskFinished, PoolType, LoopType
  <2> DEFINE ids == Released(Arg(t).id)
             last == m_remainingTasks = 1
             s == Schedule(ids) \o (IF last THEN <<Step("notify", None)>> ELSE <<>>)
  <2>3. ids \in SUBSET Ids
    BY TaskSets DEF Released, TypeOK
  <2>4. GraphType'
    <3>1. /\ m_running' = ~last /\ m_finished' = (m_finished \/ last)
          /\ output' = [output EXCEPT ![Arg(t).id] = Arg(t).output]
          /\ done' = done \union {Arg(t).id}
          /\ m_remainingTasks' = m_remainingTasks - 1
          /\ pending' = [d \in Ids |-> IF d \in Dependents(Arg(t).id) /\ pending[d] > 0
                               THEN pending[d] - 1 ELSE pending[d]]
          /\ scheduled' = scheduled \union ids
          /\ taskCount' = taskCount /\ starts' = starts
      BY <1>5 DEF OnTaskFinished
    <3>2. m_running' \in BOOLEAN /\ m_finished' \in BOOLEAN
      BY <3>1
    <3> HIDE DEF ids
    <3>3. pending' \in [Ids -> Int]
      BY <3>1 DEF TypeOK, GraphType
    <3> QED
      BY <2>1, <2>3, <3>1, <3>2, <3>3 DEF TypeOK, GraphType
  <2>5. Then(t, s)
    BY <1>5 DEF OnTaskFinished
  <2>6. Steps(s)
    BY <2>3, ScheduleSteps
  <2> HIDE DEF s
  <2>7. AgendaStep
    BY <2>1, <2>5, <2>6, ThenMoves DEF TypeOK
  <2> QED
    BY <2>2, <2>4, <2>7, AgendaOnly DEF TypeOK
<1>6. ASSUME NEW t \in Threads, NotifyDone(t) PROVE TypeOK'
  <2>1. At(t, "notify") /\ agenda[t] # <<>>
    BY <1>6, AtIs DEF TypeOK, NotifyDone
  <2>2. PoolType' /\ LoopType' /\ GraphType' /\ wpc' = wpc
    BY <1>6 DEF TypeOK, NotifyDone, PoolType, LoopType, GraphType
  <2>3. Steps(<<>>) /\ Steps(<<Step("wait", None)>>)
    BY OneStep, StepsAre
  <2>4. Tail(agenda[t]) = <<>> \o Tail(agenda[t])
    <3>1. Tail(agenda[t]) \in Seq(StepType)
      BY <2>1 DEF TypeOK, AgendaType
    <3> QED
      BY <3>1, ConcatEmptySeq
  <2>5. ASSUME NEW u \in Threads PROVE Moves(u)
    <3>1. CASE u = t
      BY <1>6, <2>1, <2>3, <2>4, <3>1 DEF NotifyDone, Moves, Replaces
    <3>2. CASE u # t /\ At(u, "asleep")
      BY <1>6, <2>3, <3>2 DEF NotifyDone, Moves, Replaces, At
    <3>3. CASE u # t /\ ~At(u, "asleep")
      BY <1>6, <3>3 DEF NotifyDone, Moves
    <3> QED
      BY <3>1, <3>2, <3>3
  <2>6. AgendaStep
    BY <1>6, <2>5 DEF AgendaStep, NotifyDone
  <2> QED
    BY <2>2, <2>6, AgendaOnly DEF TypeOK
<1>7. ASSUME NEW t \in Threads, WaitSequence(t) PROVE TypeOK'
  <2>1. PoolType' /\ LoopType' /\ GraphType' /\ wpc' = wpc
    BY <1>7 DEF TypeOK, WaitSequence, PoolType, LoopType, GraphType
  <2>2. Steps(<<>>) /\ Steps(<<Step("asleep", None)>>)
    BY OneStep, StepsAre
  <2>3. CASE UserCode(t) /\ t \in Clients /\ Call(t, <<Step("asleep", None)>>)
    <3>1. agenda[t] = <<>> /\ t \notin Workers
      BY <2>3, SequenceAssumption DEF UserCode
    <3>2. AgendaStep
      BY <2>2, <2>3, <3>1, CallMoves DEF TypeOK
    <3> QED
      BY <2>1, <3>2, AgendaOnly DEF TypeOK
  <2>4. CASE At(t, "wait") /\ Then(t, IF m_running THEN <<Step("asleep", None)>> ELSE <<>>)
    <3>1. agenda[t] # <<>>
      BY <2>4 DEF At
    <3> DEFINE s == IF m_running THEN <<Step("asleep", None)>> ELSE <<>>
    <3>2. Steps(s) /\ Then(t, s)
      BY <2>2, <2>4
    <3> HIDE DEF s
    <3>3. AgendaStep
      BY <3>1, <3>2, ThenMoves DEF TypeOK
    <3> QED
      BY <2>1, <3>3, AgendaOnly DEF TypeOK
  <2> QED
    BY <1>7, <2>3, <2>4 DEF WaitSequence
<1>8. ASSUME NEW t \in Clients, AddTask(t) PROVE TypeOK'
  <2>1. PoolType' /\ LoopType' /\ wpc' = wpc /\ agenda' = agenda
    BY <1>8 DEF TypeOK, AddTask, PoolType, LoopType
  <2>2. GraphType'
    BY <1>8, SequenceAssumption DEF TypeOK, AddTask, GraphType
  <2> QED
    BY <2>1, <2>2, AgendaStays, AgendaOnly DEF TypeOK
<1>9. ASSUME NEW t \in Clients, NEW a \in Ids, NEW b \in Ids, AddDependency(t, a, b) PROVE TypeOK'
  <2>1. PoolType' /\ LoopType' /\ wpc' = wpc /\ agenda' = agenda /\ GraphType'
    BY <1>9 DEF TypeOK, AddDependency, PoolType, LoopType, GraphType
  <2> QED
    BY <2>1, AgendaStays, AgendaOnly DEF TypeOK
<1>10. ASSUME NEW t \in Clients, Start(t) PROVE TypeOK'
  <2> DEFINE ready == {i \in Tasks : Dependencies(i) = {}}
  <2>1. t \in Threads /\ t \notin Workers /\ agenda[t] = <<>>
    BY <1>10, SequenceAssumption DEF Threads, Start, UserCode
  <2>2. PoolType' /\ LoopType' /\ wpc' = wpc
    BY <1>10 DEF TypeOK, Start, PoolType, LoopType
  <2>3. ready \in SUBSET Ids
    BY TaskSets DEF TypeOK
  <2>4. GraphType'
    <3>1. /\ m_running' = TRUE /\ m_finished' = FALSE
          /\ m_remainingTasks' = taskCount
          /\ pending' = [i \in Ids |-> Cardinality(Dependencies(i))]
          /\ scheduled' = ready /\ done' = {}
          /\ output' = [i \in Ids |-> {}]
          /\ starts' = starts + 1 /\ taskCount' = taskCount
      BY <1>10 DEF Start
    <3>2. m_running' \in BOOLEAN /\ m_finished' \in BOOLEAN
      BY <3>1
    <3>3. pending' \in [Ids -> Int]
      BY <3>1, TaskSets DEF TypeOK
    <3>4. starts' \in Nat /\ m_remainingTasks' \in Int /\ taskCount' \in 0 .. MaxTasks
      BY <3>1, SequenceAssumption DEF TypeOK, GraphType
    <3> QED
      BY <2>3, <3>1, <3>2, <3>3, <3>4 DEF GraphType
  <2>5. Steps(Schedule(ready)) /\ Call(t, Schedule(ready))
    BY <1>10, <2>3, ScheduleSteps DEF Start
  <2> HIDE DEF ready
  <2>6. AgendaStep
    BY <2>1, <2>5, CallMoves DEF TypeOK
  <2> QED
    BY <2>2, <2>4, <2>6, AgendaOnly DEF TypeOK
<1> QED
  BY <1>1, <1>2, <1>3, <1>4, <1>5, <1>6, <1>7, <1>8, <1>9, <1>10 DEF GraphStep

LEMMA TypeStep == TypeOK /\ [Next]_vars => TypeOK'
<1>1. ASSUME TypeOK, Next PROVE TypeOK'
  BY <1>1, PoolActionTypes, GraphActionTypes DEF Next
<1>2. ASSUME TypeOK, UNCHANGED vars PROVE TypeOK'
  BY <1>2 DEF vars, poolVars, loopVars, graphVars, runVars,
              TypeOK, PoolType, LoopType, GraphType, AgendaType
<1> QED
  BY <1>1, <1>2
-----------------------------------------------------------------------------
(* Steps of an agenda that are not about a task.                           *)
IdleOps == {"construct", "asleep", "wait", "waiting", "notify", "join", "stop"}
Idles(s) == \A k \in 1 .. Len(s) : s[k].op \in IdleOps
Idle(u) ==
  \/ agenda'[u] = agenda[u]
  \/ \E s : /\ Steps(s) /\ Idles(s)
            /\ Begins(u, s) \/ (Replaces(u, s) /\ agenda[u][1].op \in IdleOps)
IdleAgendas == \A u \in Threads : Idle(u)

LEMMA IdleOne ==
  /\ Idles(<<>>)
  /\ \A op \in IdleOps : Idles(<<Step(op, None)>>)
  /\ Idles([i \in DOMAIN WorkerSeq |-> Step("stop", WorkerSeq[i])] \o <<Step("join", None)>>)
<1>1. Idles(<<>>)
  BY DEF Idles
<1>2. \A op \in IdleOps : Idles(<<Step(op, None)>>)
  BY DEF Idles, Step
<1> DEFINE s == [i \in DOMAIN WorkerSeq |-> Step("stop", WorkerSeq[i])]
           r == <<Step("join", None)>>
<1>3. WorkerSeq \in Seq(Workers) /\ Len(WorkerSeq) \in Nat
  BY WorkersInARow
<1>4. DOMAIN WorkerSeq = 1 .. Len(WorkerSeq) /\ \A i \in 1 .. Len(WorkerSeq) : WorkerSeq[i] \in Workers
  BY <1>3
<1>5. s \in [1 .. Len(WorkerSeq) -> StepType] /\ r \in Seq(StepType) /\ Len(r) = 1 /\ r[1].op = "join"
  BY <1>4, StepsAre DEF Step
<1>6. s \in Seq(StepType) /\ Len(s) = Len(WorkerSeq) /\ \A k \in 1 .. Len(s) : s[k].op = "stop"
  BY <1>3, <1>5 DEF Step
<1> HIDE DEF s, r
<1>0. s \in Seq(StepType) /\ r \in Seq(StepType)
  BY <1>5, <1>6
<1>7. Len(s \o r) = Len(s) + 1
  <2>1. Len(s \o r) = Len(s) + Len(r)
    BY <1>0, ConcatProperties
  <2> QED
    BY <1>5, <2>1
<1>8. \A k \in 1 .. Len(s) + Len(r) : (s \o r)[k] = IF k <= Len(s) THEN s[k] ELSE r[k - Len(s)]
  BY <1>0, ConcatProperties
<1>9. ASSUME NEW k \in 1 .. Len(s) + 1 PROVE (s \o r)[k].op \in IdleOps
  <2>1. Len(s) \in Nat /\ k \in 1 .. Len(s) + Len(r)
    BY <1>3, <1>5, <1>6
  <2>2. CASE k <= Len(s)
    <3>1. k \in 1 .. Len(s) /\ (s \o r)[k] = s[k]
      BY <1>8, <2>1, <2>2
    <3> QED
      BY <1>6, <3>1 DEF IdleOps
  <2>3. CASE ~ (k <= Len(s))
    <3>1. k - Len(s) = 1
      BY <2>1, <2>3
    <3>2. (s \o r)[k] = r[1]
      BY <1>8, <2>1, <2>3, <3>1
    <3> QED
      BY <1>5, <3>2 DEF IdleOps
  <2> QED
    BY <2>2, <2>3
<1>10. Idles(s \o r)
  BY <1>7, <1>9 DEF Idles
<1> QED
  BY <1>1, <1>2, <1>10 DEF s, r

LEMMA IdleThen ==
  ASSUME AgendaType, NEW t \in Threads, NEW op \in IdleOps, At(t, op),
         NEW s, Steps(s), Idles(s), Then(t, s)
  PROVE  IdleAgendas
BY AtIs, ThenMoves DEF IdleAgendas, Idle

LEMMA IdleCall ==
  ASSUME AgendaType, NEW t \in Clients, agenda[t] = <<>>,
         NEW s, Steps(s), Idles(s), Call(t, s)
  PROVE  IdleAgendas
<1>1. t \in Threads /\ t \notin Workers
  BY SequenceAssumption DEF Threads
<1> QED
  BY <1>1, CallMoves DEF IdleAgendas, Idle

LEMMA IdleWake ==
  ASSUME AgendaType, NEW W \in SUBSET Threads, NEW op \in IdleOps, \A u \in W : At(u, op),
         agenda' = [u \in Threads |-> IF u \in W THEN Tail(agenda[u]) ELSE agenda[u]]
  PROVE  IdleAgendas
<1>1. \A u \in W : /\ agenda[u] # <<>> /\ agenda[u][1].op \in IdleOps
                   /\ Tail(agenda[u]) = <<>> \o Tail(agenda[u])
  <2> SUFFICES ASSUME NEW u \in W
               PROVE  /\ agenda[u] # <<>> /\ agenda[u][1].op \in IdleOps
                      /\ Tail(agenda[u]) = <<>> \o Tail(agenda[u])
    OBVIOUS
  <2>1. agenda[u] # <<>> /\ agenda[u] \in Seq(StepType) /\ agenda[u][1].op \in IdleOps
    BY AtIs
  <2>2. Tail(agenda[u]) \in Seq(StepType)
    BY <2>1
  <2> QED
    BY <2>1, <2>2, ConcatEmptySeq
<1>2. Steps(<<>>) /\ Idles(<<>>)
  BY OneStep, IdleOne
<1> QED
  BY <1>1, <1>2 DEF IdleAgendas, Idle, Replaces

IdleStep ==
  \/ \E t \in Clients : WaitForDone(t) \/ Shutdown(t) \/ AddTask(t)
  \/ \E t \in Threads : StopLoop(t) \/ Join(t) \/ NotifyDone(t) \/ WaitSequence(t)
  \/ \E w \in Workers : RunReady(w) \/ EndTask(w)
  \/ agenda' = agenda

LEMMA IdleSteps ==
  ASSUME TypeOK, IdleStep
  PROVE  IdleAgendas
<1>0. AgendaType
  BY DEF TypeOK
<1>1. ASSUME NEW t \in Clients, WaitForDone(t) PROVE IdleAgendas
  <2> DEFINE s == IF AllDone(m_activeTasks) THEN <<>> ELSE <<Step("waiting", None)>>
  <2>1. agenda[t] = <<>> /\ Call(t, s)
    BY <1>1 DEF WaitForDone, UserCode
  <2>2. Steps(s) /\ Idles(s)
    BY OneStep, StepsAre, IdleOne DEF IdleOps
  <2> HIDE DEF s
  <2> QED
    BY <1>0, <2>1, <2>2, IdleCall
<1>2. ASSUME NEW t \in Clients, Shutdown(t) PROVE IdleAgendas
  <2> DEFINE s == [i \in DOMAIN WorkerSeq |-> Step("stop", WorkerSeq[i])] \o <<Step("join", None)>>
  <2>1. agenda[t] = <<>> /\ Call(t, s)
    BY <1>2 DEF Shutdown, UserCode
  <2>2. Steps(s) /\ Idles(s)
    BY StopSteps, IdleOne
  <2> HIDE DEF s
  <2> QED
    BY <1>0, <2>1, <2>2, IdleCall
<1>3. ASSUME agenda' = agenda PROVE IdleAgendas
  BY <1>3 DEF IdleAgendas, Idle
<1>4. ASSUME NEW t \in Clients, AddTask(t) PROVE IdleAgendas
  BY <1>3, <1>4 DEF AddTask
<1>5. ASSUME NEW t \in Threads, StopLoop(t) \/ Join(t) PROVE IdleAgendas
  <2>1. PICK op \in {"stop", "join"} : At(t, op) /\ Then(t, <<>>)
    BY <1>5 DEF StopLoop, Join
  <2>2. op \in IdleOps
    BY DEF IdleOps
  <2> QED
    BY <1>0, <2>1, <2>2, OneStep, IdleOne, IdleThen
<1>6. ASSUME NEW t \in Threads, NotifyDone(t) PROVE IdleAgendas
  <2>1. At(t, "notify") /\ agenda[t] # <<>> /\ agenda[t][1].op = "notify"
    BY <1>0, <1>6, AtIs DEF NotifyDone
  <2>2. Steps(<<>>) /\ Steps(<<Step("wait", None)>>) /\ Idles(<<>>) /\ Idles(<<Step("wait", None)>>)
    BY OneStep, StepsAre, IdleOne DEF IdleOps
  <2>3. Tail(agenda[t]) = <<>> \o Tail(agenda[t])
    <3>1. Tail(agenda[t]) \in Seq(StepType)
      BY <1>0, <2>1 DEF AgendaType
    <3> QED
      BY <3>1, ConcatEmptySeq
  <2>4. ASSUME NEW u \in Threads PROVE Idle(u)
    <3>1. CASE u = t
      <4>1. Replaces(u, <<>>) /\ agenda[u][1].op \in IdleOps
        BY <1>6, <2>1, <2>3, <3>1 DEF NotifyDone, Replaces, IdleOps
      <4> QED
        BY <2>2, <4>1 DEF Idle
    <3>2. CASE u # t /\ At(u, "asleep")
      <4>1. agenda[u] # <<>> /\ agenda[u][1].op = "asleep"
        BY <1>0, <3>2, AtIs
      <4>2. Replaces(u, <<Step("wait", None)>>)
        BY <1>6, <3>2, <4>1 DEF NotifyDone, Replaces
      <4> QED
        BY <2>2, <4>1, <4>2 DEF Idle, IdleOps
    <3>3. CASE u # t /\ ~At(u, "asleep")
      BY <1>6, <3>3 DEF NotifyDone, Idle
    <3> QED
      BY <3>1, <3>2, <3>3
  <2> QED
    BY <2>4 DEF IdleAgendas
<1>7. ASSUME NEW t \in Threads, WaitSequence(t) PROVE IdleAgendas
  <2>1. Steps(<<>>) /\ Steps(<<Step("asleep", None)>>) /\ Idles(<<>>) /\ Idles(<<Step("asleep", None)>>)
    BY OneStep, StepsAre, IdleOne DEF IdleOps
  <2>2. CASE UserCode(t) /\ t \in Clients /\ Call(t, <<Step("asleep", None)>>)
    BY <1>0, <2>1, <2>2, IdleCall DEF UserCode
  <2>3. CASE At(t, "wait") /\ Then(t, IF m_running THEN <<Step("asleep", None)>> ELSE <<>>)
    <3> DEFINE s == IF m_running THEN <<Step("asleep", None)>> ELSE <<>>
    <3>1. Steps(s) /\ Idles(s) /\ Then(t, s) /\ "wait" \in IdleOps
      BY <2>1, <2>3 DEF IdleOps
    <3> HIDE DEF s
    <3> QED
      BY <1>0, <2>3, <3>1, IdleThen
  <2> QED
    BY <1>7, <2>2, <2>3 DEF WaitSequence
<1>8. ASSUME NEW w \in Workers, RunReady(w) PROVE IdleAgendas
  <2> DEFINE W == {u \in Threads : At(u, "construct") /\ AllReady}
  <2>1. agenda' = [u \in Threads |-> IF u \in W THEN Tail(agenda[u]) ELSE agenda[u]]
    BY <1>8 DEF RunReady
  <2>2. W \in SUBSET Threads /\ \A u \in W : At(u, "construct")
    OBVIOUS
  <2> HIDE DEF W
  <2>3. "construct" \in IdleOps
    BY DEF IdleOps
  <2> QED
    BY <1>0, <2>1, <2>2, <2>3, IdleWake
<1>9. ASSUME NEW w \in Workers, EndTask(w) PROVE IdleAgendas
  <2> DEFINE W == {u \in Threads : At(u, "waiting") /\ AllDone(m_activeTasks - 1)}
  <2>1. agenda' = [u \in Threads |-> IF u \in W THEN Tail(agenda[u]) ELSE agenda[u]]
    BY <1>9 DEF EndTask
  <2>2. W \in SUBSET Threads /\ \A u \in W : At(u, "waiting")
    OBVIOUS
  <2> HIDE DEF W
  <2>3. "waiting" \in IdleOps
    BY DEF IdleOps
  <2> QED
    BY <1>0, <2>1, <2>2, <2>3, IdleWake
<1> QED
  BY <1>1, <1>2, <1>3, <1>4, <1>5, <1>6, <1>7, <1>8, <1>9 DEF IdleStep
-----------------------------------------------------------------------------
(* The counters.                                                           *)
Posting == {t \in Threads : \E k \in DOMAIN agenda[t] : agenda[t][k].op = "post"}
Queued ==
  UNION {{<<w, k>> : k \in {n \in DOMAIN loopTasks[w] : loopTasks[w][n] # Ready}} : w \in Workers}
Active == {w \in Workers : wpc[w] \in {"run", "ran"}}

LEMMA ThreadsFinite == IsFiniteSet(Threads)
BY SequenceAssumption, FS_Union DEF Threads

LEMMA CountersAre ==
  CountersExact <=> /\ m_queuedTasks = Cardinality(Posting) + Cardinality(Queued)
                    /\ m_activeTasks = Cardinality(Active)
BY DEF CountersExact, Posting, Queued, Active

(* Only the head of an agenda can be a post.                               *)
LEMMA PostIsFirst ==
  ASSUME NEW q, Steps(q)
  PROVE  (\E k \in DOMAIN q : q[k].op = "post") <=> (q # <<>> /\ q[1].op = "post")
<1>1. q \in Seq(StepType) /\ Len(q) \in Nat /\ DOMAIN q = 1 .. Len(q) /\ (q # <<>> <=> Len(q) >= 1)
  BY DEF Steps
<1>2. ASSUME NEW k \in DOMAIN q, q[k].op = "post" PROVE k = 1
  <2>1. k \in 2 .. Len(q) => q[k].op \in LaterOps
    BY DEF Steps, Orderly
  <2> QED
    BY <1>1, <1>2, <2>1 DEF LaterOps
<1>3. q # <<>> => 1 \in DOMAIN q
  BY <1>1
<1>4. \A k \in DOMAIN q : q # <<>>
  BY <1>1
<1> QED
  BY <1>2, <1>3, <1>4

LEMMA PostingIs ==
  ASSUME AgendaType, NEW t \in Threads
  PROVE  /\ t \in Posting <=> (agenda[t] # <<>> /\ agenda[t][1].op = "post")
         /\ t \in Posting <=> At(t, "post")
<1>1. Steps(agenda[t])
  BY DEF AgendaType, Steps
<1>2. t \in Posting <=> (agenda[t] # <<>> /\ agenda[t][1].op = "post")
  BY <1>1, PostIsFirst DEF Posting
<1>3. agenda[t] # <<>> => Head(agenda[t]) = agenda[t][1]
  BY <1>1 DEF Steps
<1> QED
  BY <1>2, <1>3 DEF At

LEMMA PostingAfter ==
  ASSUME AgendaType, AgendaType', NEW t \in Threads, NEW s, Steps(s), Replaces(t, s) \/ Begins(t, s)
  PROVE  t \in Posting' <=> (s # <<>> /\ s[1].op = "post")
<1>1. t \in Posting' <=> (agenda'[t] # <<>> /\ agenda'[t][1].op = "post")
  <2>1. Steps(agenda'[t])
    BY DEF AgendaType, Steps
  <2> QED
    BY <2>1, PostIsFirst DEF Posting
<1>2. s \in Seq(StepType) /\ Len(s) \in Nat /\ (s # <<>> <=> Len(s) >= 1)
  BY DEF Steps
<1>3. CASE Begins(t, s)
  BY <1>1, <1>3 DEF Begins
<1>4. CASE Replaces(t, s)
  <2> DEFINE r == s \o Tail(agenda[t])
  <2>0. agenda[t] \in Seq(StepType) /\ agenda[t] # <<>> /\ agenda'[t] = r
    BY <1>4 DEF AgendaType, Replaces
  <2>1. /\ r \in Seq(StepType) /\ Len(r) = Len(s) + Len(agenda[t]) - 1
        /\ Len(agenda[t]) \in Nat /\ Len(agenda[t]) >= 1
        /\ \A k \in 1 .. Len(s) : r[k] = s[k]
        /\ \A k \in (Len(s) + 1) .. (Len(s) + Len(agenda[t]) - 1) : r[k] = agenda[t][k - Len(s) + 1]
    BY <1>2, <2>0, Replaced
  <2> HIDE DEF r
  <2>2. r # <<>> => Len(r) >= 1
    BY <2>1
  <2>3. CASE s # <<>>
    <3>1. r # <<>> /\ r[1] = s[1]
      <4>1. Len(r) >= 1 /\ 1 \in 1 .. Len(s)
        BY <1>2, <2>1, <2>3
      <4> QED
        BY <2>1, <4>1
    <3> QED
      BY <1>1, <2>0, <2>2, <2>3, <3>1
  <2>4. CASE s = <<>>
    <3>1. Len(s) = 0
      BY <2>4
    <3>2. ASSUME r # <<>> PROVE r[1].op \in LaterOps
      <4>1. Len(r) >= 1
        BY <2>2, <3>2
      <4>2. 2 \in 2 .. Len(agenda[t]) /\ 1 \in (Len(s) + 1) .. (Len(s) + Len(agenda[t]) - 1)
            /\ 1 - Len(s) + 1 = 2
        BY <2>1, <3>1, <4>1
      <4>3. r[1] = agenda[t][2] /\ agenda[t][2].op \in LaterOps
        BY <2>1, <4>2 DEF AgendaType, Orderly
      <4> QED
        BY <4>3
    <3> QED
      BY <1>1, <2>0, <2>2, <2>4, <3>2 DEF LaterOps
  <2> QED
    BY <2>3, <2>4
<1> QED
  BY <1>3, <1>4

LEMMA PostingStays ==
  ASSUME AgendaType, AgendaType', NEW t \in Threads, agenda'[t] = agenda[t]
  PROVE  t \in Posting' <=> t \in Posting
BY DEF Posting

LEMMA PostingIdle ==
  ASSUME AgendaType, AgendaType', IdleAgendas
  PROVE  Posting' = Posting
<1>1. ASSUME NEW t \in Threads PROVE t \in Posting' <=> t \in Posting
  <2>1. CASE agenda'[t] = agenda[t]
    BY <2>1, PostingStays
  <2>2. ASSUME NEW s, Steps(s), Idles(s),
               Begins(t, s) \/ (Replaces(t, s) /\ agenda[t][1].op \in IdleOps)
        PROVE  t \in Posting' <=> t \in Posting
    <3>1. t \notin Posting'
      <4>1. s # <<>> => 1 \in 1 .. Len(s)
        BY <2>2 DEF Steps
      <4>2. s # <<>> => s[1].op # "post"
        BY <2>2, <4>1 DEF Idles, IdleOps
      <4> QED
        BY <2>2, <4>2, PostingAfter
    <3>2. t \notin Posting
      BY <2>2, PostingIs DEF Begins, Replaces, IdleOps
    <3> QED
      BY <3>1, <3>2
  <2> QED
    BY <2>1, <2>2 DEF IdleAgendas, Idle
<1> QED
  BY <1>1 DEF Posting

(* The queues.                                                             *)
LEMMA TailIs ==
  ASSUME NEW S, NEW q \in Seq(S), q # <<>>
  PROVE  /\ Len(q) \in Nat /\ Len(q) >= 1 /\ Head(q) = q[1]
         /\ Tail(q) \in Seq(S) /\ Len(Tail(q)) = Len(q) - 1
         /\ \A k \in 1 .. Len(q) - 1 : Tail(q)[k] = q[k + 1]
OBVIOUS

LEMMA QueuedIs ==
  ASSUME LoopType, NEW p
  PROVE  p \in Queued <=>
           \E v \in Workers : \E k \in 1 .. Len(loopTasks[v]) : p = <<v, k>> /\ loopTasks[v][k] # Ready
<1>1. \A v \in Workers : DOMAIN loopTasks[v] = 1 .. Len(loopTasks[v])
  BY DEF LoopType
<1> QED
  BY <1>1 DEF Queued

Appends(w, j) == loopTasks' = [loopTasks EXCEPT ![w] = Append(@, j)]

LEMMA QueuedAppend ==
  ASSUME LoopType, LoopType', NEW w \in Workers, NEW j,
         Appends(w, j), IsFiniteSet(Queued)
  PROVE  /\ IsFiniteSet(Queued')
         /\ Cardinality(Queued') = Cardinality(Queued) + (IF j = Ready THEN 0 ELSE 1)
<1>1. loopTasks[w] \in Seq(JobType \cup {Ready}) /\ Len(loopTasks[w]) \in Nat
  BY DEF LoopType
<1> DEFINE n == Len(loopTasks[w]) + 1
<1>2. /\ loopTasks'[w] = Append(loopTasks[w], j)
      /\ \A v \in Workers : v # w => loopTasks'[v] = loopTasks[v]
  BY DEF LoopType, Appends
<1>3. /\ Len(loopTasks'[w]) = n /\ loopTasks'[w][n] = j
      /\ \A k \in 1 .. Len(loopTasks[w]) : loopTasks'[w][k] = loopTasks[w][k]
  BY <1>1, <1>2
<1>4. \A k : k \in 1 .. n <=> k \in 1 .. Len(loopTasks[w]) \/ k = n
  BY <1>1
<1>5. n \notin 1 .. Len(loopTasks[w])
  BY <1>1
<1> HIDE DEF n
<1>6. \A p : p \in Queued' <=>
        \E v \in Workers : \E k \in 1 .. Len(loopTasks'[v]) : p = <<v, k>> /\ loopTasks'[v][k] # Ready
  <2>1. \A v \in Workers : DOMAIN loopTasks'[v] = 1 .. Len(loopTasks'[v])
    BY DEF LoopType
  <2> QED
    BY <2>1 DEF Queued
<1>7. <<w, n>> \notin Queued
  BY <1>5, QueuedIs
<1>8. \A p : p \in Queued' <=> p \in Queued \/ (p = <<w, n>> /\ j # Ready)
  <2> SUFFICES ASSUME NEW p PROVE p \in Queued' <=> p \in Queued \/ (p = <<w, n>> /\ j # Ready)
    OBVIOUS
  <2>1. ASSUME p \in Queued' PROVE p \in Queued \/ (p = <<w, n>> /\ j # Ready)
    <3>1. PICK v, k  :
            /\ v \in Workers /\ k \in 1 .. Len(loopTasks'[v])
            /\ p = <<v, k>> /\ loopTasks'[v][k] # Ready
      BY <1>6, <2>1
    <3>2. CASE v # w
      BY <1>2, <3>1, <3>2, QueuedIs
    <3>3. CASE v = w
      BY <1>3, <1>4, <3>1, <3>3, QueuedIs
    <3> QED
      BY <3>2, <3>3
  <2>2. ASSUME p \in Queued PROVE p \in Queued'
    <3>1. PICK v, k  :
            /\ v \in Workers /\ k \in 1 .. Len(loopTasks[v])
            /\ p = <<v, k>> /\ loopTasks[v][k] # Ready
      BY <2>2, QueuedIs
    <3>2. CASE v # w
      BY <1>2, <1>6, <3>1, <3>2
    <3>3. CASE v = w
      BY <1>3, <1>4, <1>6, <3>1, <3>3
    <3> QED
      BY <3>2, <3>3
  <2>3. ASSUME p = <<w, n>>, j # Ready PROVE p \in Queued'
    BY <1>3, <1>4, <1>6, <2>3
  <2> QED
    BY <2>1, <2>2, <2>3
<1>9. CASE j = Ready
  <2>1. Queued' = Queued
    BY <1>8, <1>9
  <2>2. Cardinality(Queued) \in Nat
    BY FS_CardinalityType
  <2> QED
    BY <1>9, <2>1, <2>2
<1>10. CASE j # Ready
  <2>1. Queued' = Queued \cup {<<w, n>>}
    BY <1>8, <1>10
  <2> QED
    BY <1>7, <1>10, <2>1, FS_AddElement
<1> QED
  BY <1>9, <1>10

LEMMA QueuedTail ==
  ASSUME LoopType, LoopType', NEW w \in Workers, loopTasks[w] # <<>>,
         loopTasks' = [loopTasks EXCEPT ![w] = Tail(@)],
         IsFiniteSet(Queued)
  PROVE  /\ IsFiniteSet(Queued')
         /\ Cardinality(Queued') =
              Cardinality(Queued) - (IF Head(loopTasks[w]) = Ready THEN 0 ELSE 1)
<1>1. /\ loopTasks[w] \in Seq(JobType \cup {Ready}) /\ Len(loopTasks[w]) \in Nat
      /\ Len(loopTasks[w]) >= 1 /\ Head(loopTasks[w]) = loopTasks[w][1]
  BY DEF LoopType
<1>2. /\ loopTasks'[w] = Tail(loopTasks[w])
      /\ \A v \in Workers : v # w => loopTasks'[v] = loopTasks[v]
  BY DEF LoopType
<1>3. /\ Len(loopTasks'[w]) = Len(loopTasks[w]) - 1
      /\ \A k \in 1 .. Len(loopTasks'[w]) : loopTasks'[w][k] = loopTasks[w][k + 1]
  <2> DEFINE q == loopTasks[w]
  <2>1. q \in Seq(JobType \cup {Ready}) /\ q # <<>>
    BY <1>1
  <2> HIDE DEF q
  <2>2. Len(Tail(q)) = Len(q) - 1 /\ \A k \in 1 .. Len(q) - 1 : Tail(q)[k] = q[k + 1]
    BY <2>1, TailIs
  <2>3. loopTasks'[w] = Tail(q)
    BY <1>2 DEF q
  <2>4. /\ Len(loopTasks'[w]) = Len(q) - 1
        /\ \A k \in 1 .. Len(loopTasks'[w]) : loopTasks'[w][k] = q[k + 1]
    BY <2>2, <2>3
  <2> QED
    BY <2>4 DEF q
<1>4. \A p : p \in Queued' <=>
        \E v \in Workers : \E k \in 1 .. Len(loopTasks'[v]) : p = <<v, k>> /\ loopTasks'[v][k] # Ready
  <2>1. \A v \in Workers : DOMAIN loopTasks'[v] = 1 .. Len(loopTasks'[v])
    BY DEF LoopType
  <2> QED
    BY <2>1 DEF Queued
<1> DEFINE S == Queued \ {<<w, 1>>}
           f == [p \in S |-> <<p[1], IF p[1] = w THEN p[2] - 1 ELSE p[2]>>]
<1>5. \A p \in S : \E v \in Workers : \E k \in 1 .. Len(loopTasks[v]) :
        /\ p = <<v, k>> /\ loopTasks[v][k] # Ready /\ p[1] = v /\ p[2] = k /\ k \in Nat
        /\ v = w => k - 1 \in 1 .. Len(loopTasks'[w]) /\ (k - 1) + 1 = k
  <2> SUFFICES ASSUME NEW p \in S
               PROVE \E v \in Workers : \E k \in 1 .. Len(loopTasks[v]) :
                 /\ p = <<v, k>> /\ loopTasks[v][k] # Ready /\ p[1] = v /\ p[2] = k /\ k \in Nat
                 /\ v = w => k - 1 \in 1 .. Len(loopTasks'[w]) /\ (k - 1) + 1 = k
    OBVIOUS
  <2>1. PICK v, k  :
            /\ v \in Workers /\ k \in 1 .. Len(loopTasks[v])
            /\ p = <<v, k>> /\ loopTasks[v][k] # Ready
    BY QueuedIs
  <2>2. v = w => k # 1
    BY <2>1
  <2>3. v = w => k - 1 \in 1 .. Len(loopTasks'[w]) /\ (k - 1) + 1 = k
    BY <1>1, <1>3, <2>1, <2>2
  <2> QED
    BY <2>1, <2>3
<1>6. f \in [S -> Queued']
  <2> SUFFICES ASSUME NEW p \in S
               PROVE  <<p[1], IF p[1] = w THEN p[2] - 1 ELSE p[2]>> \in Queued'
    OBVIOUS
  <2>1. PICK v, k  :
            /\ v \in Workers /\ k \in 1 .. Len(loopTasks[v])
            /\ p = <<v, k>> /\ loopTasks[v][k] # Ready /\ p[1] = v /\ p[2] = k /\ k \in Nat
            /\ v = w => k - 1 \in 1 .. Len(loopTasks'[w]) /\ (k - 1) + 1 = k
    BY <1>5
  <2>2. CASE v = w
    <3>1. loopTasks'[w][k - 1] = loopTasks[w][k]
      BY <1>3, <2>1, <2>2
    <3>2. <<p[1], IF p[1] = w THEN p[2] - 1 ELSE p[2]>> = <<w, k - 1>>
      BY <2>1, <2>2
    <3> QED
      BY <1>4, <2>1, <2>2, <3>1, <3>2
  <2>3. CASE v # w
    <3>1. <<p[1], IF p[1] = w THEN p[2] - 1 ELSE p[2]>> = <<v, k>>
      BY <2>1, <2>3
    <3> QED
      BY <1>2, <1>4, <2>1, <2>3, <3>1
  <2> QED
    BY <2>2, <2>3
<1>7. \A p, q \in S : f[p] = f[q] => p = q
  <2> SUFFICES ASSUME NEW p \in S, NEW q \in S, f[p] = f[q] PROVE p = q
    OBVIOUS
  <2>1. PICK v, k  :
            /\ v \in Workers /\ k \in 1 .. Len(loopTasks[v])
            /\ p = <<v, k>> /\ p[1] = v /\ p[2] = k /\ k \in Nat
    BY <1>5
  <2>2. PICK u, m  :
            /\ u \in Workers /\ m \in 1 .. Len(loopTasks[u])
            /\ q = <<u, m>> /\ q[1] = u /\ q[2] = m /\ m \in Nat
    BY <1>5
  <2>3. /\ f[p] = <<v, IF v = w THEN k - 1 ELSE k>>
        /\ f[q] = <<u, IF u = w THEN m - 1 ELSE m>>
    BY <2>1, <2>2
  <2> DEFINE a == IF v = w THEN k - 1 ELSE k
             b == IF u = w THEN m - 1 ELSE m
  <2>6. <<v, a>> = <<u, b>>
    BY <2>3
  <2> HIDE DEF f, S, a, b
  <2>7. u = v /\ a = b
    BY <2>6
  <2>4. u = v /\ (IF v = w THEN k - 1 ELSE k) = (IF u = w THEN m - 1 ELSE m)
    BY <2>7 DEF a, b
  <2>5. k = m
    BY <2>1, <2>2, <2>4
  <2> QED
    BY <2>1, <2>2, <2>4, <2>5
<1>8. \A r \in Queued' : \E p \in S : f[p] = r
  <2> SUFFICES ASSUME NEW r \in Queued' PROVE \E p \in S : f[p] = r
    OBVIOUS
  <2>1. PICK v, k  :
            /\ v \in Workers /\ k \in 1 .. Len(loopTasks'[v])
            /\ r = <<v, k>> /\ loopTasks'[v][k] # Ready
    BY <1>4
  <2>2. CASE v = w
    <3>1. k + 1 \in 1 .. Len(loopTasks[w]) /\ k + 1 # 1 /\ loopTasks[w][k + 1] # Ready /\ (k + 1) - 1 = k
      BY <1>1, <1>3, <2>1, <2>2
    <3>2. <<w, k + 1>> \in S
      BY <3>1, QueuedIs
    <3>3. f[<<w, k + 1>>] = r
      BY <2>1, <2>2, <3>1, <3>2
    <3> QED
      BY <3>2, <3>3
  <2>3. CASE v # w
    <3>1. <<v, k>> \in S
      BY <1>2, <2>1, <2>3, QueuedIs
    <3>2. f[<<v, k>>] = r
      BY <2>1, <2>3, <3>1
    <3> QED
      BY <3>1, <3>2
  <2> QED
    BY <2>2, <2>3
<1>9. ExistsBijection(S, Queued')
  <2> HIDE DEF f, S
  <2>1. f \in Bijection(S, Queued')
    BY <1>6, <1>7, <1>8 DEF Bijection, Injection, Surjection, IsInjective
  <2> QED
    BY <2>1 DEF ExistsBijection
<1>10. <<w, 1>> \in Queued <=> Head(loopTasks[w]) # Ready
  BY <1>1, QueuedIs
<1>11. /\ IsFiniteSet(S)
       /\ Cardinality(S) = Cardinality(Queued) - (IF Head(loopTasks[w]) = Ready THEN 0 ELSE 1)
  BY <1>10, FS_RemoveElement, FS_CardinalityType
<1> HIDE DEF S
<1> QED
  BY <1>9, <1>11, FS_Bijection
CountInv == CountersExact /\ IsFiniteSet(Queued)

LEMMA CountInit == Init => CountInv
<1> SUFFICES ASSUME Init PROVE CountInv
  OBVIOUS
<1>1. TypeOK
  BY InitType
<1>2. Posting = {}
  <2>1. ASSUME NEW t \in Threads PROVE t \notin Posting
    <3>1. agenda[t] = <<>> \/ (agenda[t] # <<>> /\ agenda[t][1].op = "construct")
      BY DEF Init, PoolInit, Step
    <3> QED
      BY <1>1, <3>1, PostingIs DEF TypeOK
  <2> QED
    BY <2>1 DEF Posting
<1>3. Queued = {}
  <2>1. \A v \in Workers : loopTasks[v] = <<>>
    BY DEF Init, PoolInit
  <2> QED
    BY <2>1 DEF Queued
<1>4. Active = {}
  BY DEF Init, PoolInit, Active
<1>5. m_queuedTasks = 0 /\ m_activeTasks = 0
  BY DEF Init, PoolInit
<1> QED
  BY <1>2, <1>3, <1>4, <1>5, FS_EmptySet, CountersAre DEF CountInv

LEMMA CountSame ==
  ASSUME CountInv, Posting' = Posting, Active' = Active,
         IsFiniteSet(Queued'), Cardinality(Queued') = Cardinality(Queued),
         m_queuedTasks' = m_queuedTasks, m_activeTasks' = m_activeTasks
  PROVE  CountInv'
BY DEF CountInv, CountersExact, Posting, Queued, Active

LEMMA Finite ==
  ASSUME TypeOK, CountInv
  PROVE  /\ IsFiniteSet(Posting) /\ Cardinality(Posting) \in Nat
         /\ IsFiniteSet(Active) /\ Cardinality(Active) \in Nat
         /\ Cardinality(Queued) \in Nat
         /\ m_queuedTasks = Cardinality(Posting) + Cardinality(Queued)
         /\ m_activeTasks = Cardinality(Active)
<1>1. Posting \in SUBSET Threads /\ Active \in SUBSET Workers
  BY DEF Posting, Active
<1>2. IsFiniteSet(Posting) /\ IsFiniteSet(Active)
  BY <1>1, ThreadsFinite, SequenceAssumption, FS_Subset
<1> QED
  BY <1>2, FS_CardinalityType, CountersAre DEF CountInv

(* The steps of the pool and of the sequence that make, move or end a job. *)
LEMMA CountStep ==
  ASSUME TypeOK, TypeOK', CountInv, Next
  PROVE  CountInv'
<1> USE DEF poolVars, loopVars, graphVars, runVars
<1>0. AgendaType /\ AgendaType' /\ LoopType /\ LoopType'
  BY DEF TypeOK
<1>a. ASSUME UNCHANGED <<loopTasks, wpc, m_queuedTasks, m_activeTasks>>, Posting' = Posting
      PROVE  CountInv'
  <2>1. Queued' = Queued /\ Active' = Active
    BY <1>a DEF Queued, Active
  <2> QED
    BY <1>a, <2>1, CountSame DEF CountInv
<1>b. ASSUME NEW t \in Threads, NEW s, Steps(s), NEW op, At(t, op), op # "post", Then(t, s),
             s # <<>> => s[1].op # "post"
      PROVE  Posting' = Posting
  <2>1. /\ Replaces(t, s) /\ \A u \in Threads : u # t => agenda'[u] = agenda[u]
    BY <1>0, <1>b, ThenMoves DEF At
  <2>2. t \notin Posting'
    BY <1>0, <1>b, <2>1, PostingAfter
  <2>3. t \notin Posting
    BY <1>0, <1>b, AtIs, PostingIs
  <2>4. \A u \in Threads : u # t => (u \in Posting' <=> u \in Posting)
    BY <1>0, <2>1, PostingStays
  <2> QED
    BY <2>2, <2>3, <2>4 DEF Posting
<1>c. ASSUME NEW t \in Threads, agenda[t] = <<>>, NEW s, Steps(s), Call(t, s),
             t \in Workers => wpc'[t] = "ran",
             s # <<>> => s[1].op # "post"
      PROVE  Posting' = Posting
  <2>1. /\ Begins(t, s) /\ \A u \in Threads : u # t => agenda'[u] = agenda[u]
    BY <1>0, <1>c, CallMoves
  <2>2. t \notin Posting'
    BY <1>0, <1>c, <2>1, PostingAfter
  <2>3. t \notin Posting
    BY <1>0, <1>c, PostingIs
  <2>4. \A u \in Threads : u # t => (u \in Posting' <=> u \in Posting)
    BY <1>0, <2>1, PostingStays
  <2> QED
    BY <2>2, <2>3, <2>4 DEF Posting
<1>1. ASSUME NEW t \in Clients, WaitForDone(t) \/ Shutdown(t) PROVE CountInv'
  <2>1. Posting' = Posting
    BY <1>0, <1>1, IdleSteps, PostingIdle DEF IdleStep
  <2> QED
    BY <1>a, <1>1, <2>1 DEF WaitForDone, Shutdown
<1>2. ASSUME NEW t \in Threads, StopLoop(t) \/ Join(t) \/ NotifyDone(t) \/ WaitSequence(t)
      PROVE  CountInv'
  <2>1. Posting' = Posting
    BY <1>0, <1>2, IdleSteps, PostingIdle DEF IdleStep
  <2> QED
    BY <1>a, <1>2, <2>1 DEF StopLoop, Join, NotifyDone, WaitSequence
<1>3. ASSUME NEW t \in Clients, AddTask(t) \/ \E a, b \in Ids : AddDependency(t, a, b)
      PROVE  CountInv'
  <2>1. UNCHANGED <<loopTasks, wpc, m_queuedTasks, m_activeTasks, agenda>>
    BY <1>3 DEF AddTask, AddDependency
  <2>2. Posting' = Posting
    BY <2>1 DEF Posting
  <2> QED
    BY <1>a, <2>1, <2>2
<1>4. ASSUME NEW w \in Workers, DrainOver(w) \/ Wait(w) PROVE CountInv'
  <2>1. UNCHANGED <<loopTasks, m_queuedTasks, m_activeTasks, agenda>>
    BY <1>4 DEF DrainOver, Wait
  <2>2. Posting' = Posting /\ Queued' = Queued
    BY <2>1 DEF Posting, Queued
  <2>3. Active' = Active
    BY <1>0, <1>4 DEF DrainOver, Wait, Active, LoopType
  <2> QED
    BY <2>1, <2>2, <2>3, CountSame DEF CountInv
<1>5. ASSUME NEW w \in Workers, WorkerLoop(w) PROVE CountInv'
  <2>1. UNCHANGED <<m_queuedTasks, m_activeTasks, agenda>>
    BY <1>5 DEF WorkerLoop
  <2>2. Posting' = Posting
    BY <2>1 DEF Posting
  <2>3. Active' = Active
    BY <1>0, <1>5 DEF WorkerLoop, Active, LoopType
  <2>4. IsFiniteSet(Queued') /\ Cardinality(Queued') = Cardinality(Queued)
    <3>1. Appends(w, Ready)
      BY <1>5 DEF WorkerLoop, Appends
    <3>2. IsFiniteSet(Queued') /\ Cardinality(Queued') = Cardinality(Queued) + 0
      BY <1>0, <3>1, QueuedAppend DEF CountInv
    <3> QED
      BY <3>2, Finite
  <2> QED
    BY <2>1, <2>2, <2>3, <2>4, CountSame
<1>6. ASSUME NEW w \in Workers, RunReady(w) PROVE CountInv'
  <2>1. Posting' = Posting
    BY <1>0, <1>6, IdleSteps, PostingIdle DEF IdleStep
  <2>2. UNCHANGED <<m_queuedTasks, m_activeTasks, wpc>>
    BY <1>6 DEF RunReady
  <2>3. Active' = Active
    BY <2>2 DEF Active
  <2>4. IsFiniteSet(Queued') /\ Cardinality(Queued') = Cardinality(Queued)
    <3>1. /\ loopTasks[w] # <<>> /\ Head(loopTasks[w]) = Ready
          /\ loopTasks' = [loopTasks EXCEPT ![w] = Tail(@)]
      BY <1>6 DEF RunReady
    <3>2. IsFiniteSet(Queued') /\ Cardinality(Queued') = Cardinality(Queued) - 0
      BY <1>0, <3>1, QueuedTail DEF CountInv
    <3> QED
      BY <3>2, Finite
  <2> QED
    BY <2>1, <2>2, <2>3, <2>4, CountSame
<1>7. ASSUME NEW w \in Workers, TakeTask(w) PROVE CountInv'
  <2>1. Posting' = Posting
    BY <1>7 DEF TakeTask, Posting
  <2>2. /\ m_queuedTasks' = m_queuedTasks - 1 /\ m_activeTasks' = m_activeTasks + 1
        /\ loopTasks[w] # <<>> /\ Head(loopTasks[w]) # Ready
        /\ loopTasks' = [loopTasks EXCEPT ![w] = Tail(@)]
        /\ wpc[w] = "drain" /\ wpc' = [wpc EXCEPT ![w] = "run"]
    BY <1>7 DEF TakeTask
  <2>3. Active' = Active \cup {w} /\ w \notin Active
    BY <1>0, <2>2 DEF Active, LoopType
  <2>4. IsFiniteSet(Queued') /\ Cardinality(Queued') = Cardinality(Queued) - 1
    BY <1>0, <2>2, QueuedTail DEF CountInv
  <2>5. Cardinality(Active') = Cardinality(Active) + 1
    BY <2>3, Finite, FS_AddElement
  <2>6. m_queuedTasks' = Cardinality(Posting') + Cardinality(Queued') /\ m_activeTasks' = Cardinality(Active')
    BY <2>1, <2>2, <2>4, <2>5, Finite
  <2> QED
    BY <2>4, <2>6 DEF CountInv, CountersExact, Posting, Queued, Active
<1>8. ASSUME NEW w \in Workers, EndTask(w) PROVE CountInv'
  <2>1. Posting' = Posting
    BY <1>0, <1>8, IdleSteps, PostingIdle DEF IdleStep
  <2>2. /\ m_queuedTasks' = m_queuedTasks /\ m_activeTasks' = m_activeTasks - 1
        /\ loopTasks' = loopTasks
        /\ wpc[w] = "ran" /\ wpc' = [wpc EXCEPT ![w] = "drain"]
    BY <1>8 DEF EndTask
  <2>3. Active' = Active \ {w} /\ w \in Active
    BY <1>0, <2>2 DEF Active, LoopType
  <2>4. Queued' = Queued
    BY <2>2 DEF Queued
  <2>5. Cardinality(Active') = Cardinality(Active) - 1
    BY <2>3, Finite, FS_RemoveElement
  <2>6. m_queuedTasks' = Cardinality(Posting') + Cardinality(Queued') /\ m_activeTasks' = Cardinality(Active')
    BY <2>1, <2>2, <2>4, <2>5, Finite
  <2> QED
    BY <2>4, <2>6 DEF CountInv, CountersExact, Posting, Queued, Active
<1>9. ASSUME NEW t \in Threads, Post(t) PROVE CountInv'
  <2>1. At(t, "post") /\ agenda[t] # <<>> /\ agenda[t][1].op = "post"
        /\ Arg(t) \in [w : Workers, j : JobType] /\ Then(t, <<>>)
    BY <1>0, <1>9, AtIs DEF Post
  <2>2. Replaces(t, <<>>) /\ \A u \in Threads : u # t => agenda'[u] = agenda[u]
    BY <1>0, <2>1, OneStep, ThenMoves
  <2>3. t \notin Posting' /\ t \in Posting
    BY <1>0, <2>1, <2>2, OneStep, PostingAfter, PostingIs
  <2>4. Posting' = Posting \ {t}
    <3>1. \A u \in Threads : u # t => (u \in Posting' <=> u \in Posting)
      BY <1>0, <2>2, PostingStays
    <3> QED
      BY <2>3, <3>1 DEF Posting
  <2>5. Arg(t).w \in Workers /\ Arg(t).j # Ready
    BY <2>1, SequenceAssumption DEF JobType
  <2>6. /\ m_queuedTasks' = m_queuedTasks /\ m_activeTasks' = m_activeTasks
        /\ loopTasks' = [loopTasks EXCEPT ![Arg(t).w] = Append(@, Arg(t).j)]
        /\ wpc' = wpc
    BY <1>9 DEF Post
  <2>7. IsFiniteSet(Queued') /\ Cardinality(Queued') = Cardinality(Queued) + 1
    <3>1. PICK w, j : w \in Workers /\ j # Ready /\ Appends(w, j)
      BY <2>5, <2>6 DEF Appends
    <3>2. IsFiniteSet(Queued)
      BY DEF CountInv
    <3>3. /\ IsFiniteSet(Queued')
          /\ Cardinality(Queued') = Cardinality(Queued) + (IF j = Ready THEN 0 ELSE 1)
      BY <1>0, <3>1, <3>2, QueuedAppend
    <3> QED
      BY <3>1, <3>3
  <2>8. Active' = Active
    BY <2>6 DEF Active
  <2>9. Cardinality(Posting') = Cardinality(Posting) - 1
    BY <2>3, <2>4, Finite, FS_RemoveElement
  <2>10. m_queuedTasks' = Cardinality(Posting') + Cardinality(Queued') /\ m_activeTasks' = Cardinality(Active')
    BY <2>6, <2>7, <2>8, <2>9, Finite
  <2> QED
    BY <2>7, <2>10 DEF CountInv, CountersExact, Posting, Queued, Active
<1>10. ASSUME NEW t \in Threads, Submit(t) PROVE CountInv'
  <2> DEFINE w == WorkerSeq[(m_nextWorker % Len(WorkerSeq)) + 1]
             s == <<Step("post", [w |-> w, j |-> Arg(t)])>>
  <2>1. At(t, "submit") /\ agenda[t] # <<>> /\ agenda[t][1].op = "submit" /\ Arg(t) \in JobType
    BY <1>0, <1>10, AtIs DEF Submit
  <2>2. Then(t, s) /\ m_queuedTasks' = m_queuedTasks + 1
        /\ UNCHANGED <<loopTasks, wpc, m_activeTasks>>
    BY <1>10 DEF Submit, StartJob
  <2>3. w \in Workers
    BY WorkersInARow DEF TypeOK, PoolType
  <2> HIDE DEF w
  <2>4. Steps(s) /\ s # <<>> /\ s[1].op = "post"
    BY <2>1, <2>3, OneStep, StepsAre DEF Step
  <2> HIDE DEF s
  <2>5. Replaces(t, s) /\ \A u \in Threads : u # t => agenda'[u] = agenda[u]
    BY <1>0, <2>1, <2>2, <2>4, ThenMoves
  <2>6. t \in Posting' /\ t \notin Posting
    BY <1>0, <2>1, <2>4, <2>5, PostingAfter, PostingIs
  <2>7. Posting' = Posting \cup {t}
    <3>1. \A u \in Threads : u # t => (u \in Posting' <=> u \in Posting)
      BY <1>0, <2>5, PostingStays
    <3> QED
      BY <2>6, <3>1 DEF Posting
  <2>8. Active' = Active /\ Queued' = Queued
    BY <2>2 DEF Active, Queued
  <2>9. Cardinality(Posting') = Cardinality(Posting) + 1
    BY <2>6, <2>7, Finite, FS_AddElement
  <2>10. m_queuedTasks' = Cardinality(Posting') + Cardinality(Queued') /\ m_activeTasks' = Cardinality(Active')
    BY <2>2, <2>8, <2>9, Finite
  <2> QED
    BY <2>8, <2>10 DEF CountInv, CountersExact, Posting, Queued, Active
<1>11. ASSUME NEW t \in Threads, SubmitRefused(t) PROVE CountInv'
  <2> DEFINE s == <<Step("finish", [id |-> Arg(t).id, output |-> {}])>>
  <2>1. At(t, "submit") /\ Arg(t) \in JobType /\ Then(t, s)
    BY <1>0, <1>11, AtIs DEF SubmitRefused
  <2>2. Arg(t).id \in Ids /\ {} \in SUBSET Ids
    BY <2>1 DEF JobType
  <2>3. Steps(s) /\ s[1].op # "post"
    BY <2>2, OneStep, StepsAre DEF Step
  <2> HIDE DEF s
  <2>4. Posting' = Posting
    BY <1>b, <2>1, <2>3
  <2> QED
    BY <1>a, <1>11, <2>4 DEF SubmitRefused
<1>12. ASSUME NEW t \in Threads, ScheduleTask(t) PROVE CountInv'
  <2> DEFINE j == [id |-> Arg(t), input |-> UNION {output[d] : d \in Dependencies(Arg(t))}]
             s == IF m_running THEN <<Step("submit", j)>> ELSE <<>>
  <2>1. At(t, "schedule") /\ Arg(t) \in Ids /\ Then(t, s)
    BY <1>0, <1>12, AtIs DEF ScheduleTask
  <2>2. j \in JobType
    <3>1. \A d \in Dependencies(Arg(t)) : output[d] \in SUBSET Ids
      BY TaskSets DEF TypeOK, GraphType
    <3>2. UNION {output[d] : d \in Dependencies(Arg(t))} \in SUBSET Ids
      BY <3>1
    <3> QED
      BY <2>1, <3>2 DEF JobType
  <2> HIDE DEF j
  <2>3. Steps(s) /\ (s # <<>> => s[1].op # "post")
    BY <2>2, OneStep, StepsAre DEF Step
  <2> HIDE DEF s
  <2>4. Posting' = Posting
    BY <1>b, <2>1, <2>3
  <2> QED
    BY <1>a, <1>12, <2>4 DEF ScheduleTask
<1>13. ASSUME NEW t \in Threads, OnTaskFinished(t) PROVE CountInv'
  <2> DEFINE ids == Released(Arg(t).id)
             s == Schedule(ids) \o (IF m_remainingTasks = 1 THEN <<Step("notify", None)>> ELSE <<>>)
  <2>1. At(t, "finish") /\ Then(t, s)
    BY <1>13 DEF OnTaskFinished
  <2>2. ids \in SUBSET Ids
    BY TaskSets DEF Released, TypeOK
  <2>3. Later(s) /\ Steps(s)
    <3>1. Later(Schedule(ids)) /\ Later(<<>>) /\ Later(<<Step("notify", None)>>)
      <4>1. Step("notify", None) \in StepType /\ Step("notify", None).op \in LaterOps
        BY StepsAre DEF Step, LaterOps
      <4> QED
        BY <2>2, <4>1, OneStep, ScheduleSteps
    <3> QED
      BY <3>1, LaterSteps
  <2> HIDE DEF s
  <2>4. s # <<>> => s[1].op # "post"
    <3>1. s # <<>> => 1 \in 1 .. Len(s)
      BY <2>3 DEF Later
    <3> QED
      BY <2>3, <3>1 DEF Later, LaterOps
  <2>5. Posting' = Posting
    BY <1>b, <2>1, <2>3, <2>4
  <2> QED
    BY <1>a, <1>13, <2>5 DEF OnTaskFinished
<1>14. ASSUME NEW t \in Clients, Start(t) PROVE CountInv'
  <2> DEFINE ready == {i \in Tasks : Dependencies(i) = {}}
             s == Schedule(ready)
  <2>1. t \in Threads /\ t \notin Workers /\ agenda[t] = <<>> /\ Call(t, s)
    BY <1>14, SequenceAssumption DEF Start, UserCode, Threads
  <2>2. ready \in SUBSET Ids
    BY TaskSets DEF TypeOK
  <2>3. Later(s) /\ Steps(s)
    BY <2>2, ScheduleSteps
  <2> HIDE DEF s
  <2>4. s # <<>> => s[1].op # "post"
    <3>1. s # <<>> => 1 \in 1 .. Len(s)
      BY <2>3 DEF Later
    <3> QED
      BY <2>3, <3>1 DEF Later, LaterOps
  <2>5. Posting' = Posting
    BY <1>c, <2>1, <2>3, <2>4
  <2> QED
    BY <1>a, <1>14, <2>5 DEF Start
<1>15. ASSUME NEW w \in Workers, Execute(w) PROVE CountInv'
  <2>1. w \in Threads /\ agenda[w] = <<>> /\ cur[w] \in JobType /\ wpc[w] = "run"
        /\ wpc' = [wpc EXCEPT ![w] = "ran"] /\ wpc'[w] = "ran"
        /\ UNCHANGED <<loopTasks, m_queuedTasks, m_activeTasks>>
    BY <1>0, <1>15 DEF Execute, Threads, AgendaType, LoopType
  <2>2. PICK o \in {{}, {cur[w].id}} : Call(w, <<Step("finish", [id |-> cur[w].id, output |-> o])>>)
    BY <1>15 DEF Execute
  <2>3. cur[w].id \in Ids /\ o \in SUBSET Ids
    BY <2>1 DEF JobType
  <2> DEFINE s == <<Step("finish", [id |-> cur[w].id, output |-> o])>>
  <2>4. Steps(s) /\ s[1].op # "post"
    BY <2>3, OneStep, StepsAre DEF Step
  <2>5. Call(w, s)
    BY <2>2
  <2> HIDE DEF s
  <2>6. Posting' = Posting
    BY <1>c, <2>1, <2>4, <2>5
  <2>7. Queued' = Queued /\ Active' = Active
    BY <1>0, <2>1 DEF Queued, Active, LoopType
  <2> QED
    BY <2>1, <2>6, <2>7, CountSame DEF CountInv
<1> QED
  BY <1>1, <1>2, <1>3, <1>4, <1>5, <1>6, <1>7, <1>8, <1>9, <1>10, <1>11, <1>12, <1>13, <1>14, <1>15
  DEF Next, PoolStep, ClientStep, ThreadStep, WorkerStep, GraphStep

LEMMA CountInvariant == Spec => [](TypeOK /\ CountInv)
<1>1. Init => TypeOK /\ CountInv
  BY InitType, CountInit
<1>2. TypeOK /\ CountInv /\ [Next]_vars => (TypeOK /\ CountInv)'
  <2>1. ASSUME TypeOK, CountInv, Next PROVE (TypeOK /\ CountInv)'
    <3>1. TypeOK'
      BY <2>1, TypeStep
    <3> QED
      BY <2>1, <3>1, CountStep
  <2>2. ASSUME TypeOK, CountInv, UNCHANGED vars PROVE (TypeOK /\ CountInv)'
    <3>1. TypeOK'
      BY <2>2, TypeStep
    <3>2. CountInv'
      BY <2>2 DEF vars, poolVars, loopVars, CountInv, CountersExact, Queued
    <3> QED
      BY <3>1, <3>2
  <2> QED
    BY <2>1, <2>2
<1> QED
  BY <1>1, <1>2, PTL DEF Spec

-----------------------------------------------------------------------------
(* The two counters of ThreadPool that waitForDone() waits for account for *)
(* every runnable that start() has accepted, for any number of workers,    *)
(* of threads that use the pool and of tasks (ThreadPool.cpp, start()).    *)
THEOREM CountersExactCorrect == Spec => []CountersExact
<1>1. TypeOK /\ CountInv => CountersExact
  BY DEF CountInv
<1> QED
  BY <1>1, CountInvariant, PTL
-----------------------------------------------------------------------------
(* Where the tasks are.                                                    *)
About(s, i) ==
  \/ s.op = "schedule" /\ s.x = i
  \/ s.op \in {"submit", "finish"} /\ s.x.id = i
  \/ s.op = "post" /\ s.x.j.id = i
Runs(w, i) == wpc[w] = "run" /\ cur[w].id = i
AboutIn(q, i) == {k \in 1 .. Len(q) : About(q[k], i)}

LEMMA PlacesAre ==
  ASSUME NEW i
  PROVE  /\ \A t, k : <<t, "agenda", k>> \in Places(i) <=> t \in Threads /\ k \in InAgenda(t, i)
         /\ \A w, k : <<w, "queue", k>> \in Places(i) <=> w \in Workers /\ k \in InLoop(w, i)
         /\ \A w : <<w, "run", 0>> \in Places(i) <=> w \in Workers /\ Runs(w, i)
         /\ \A p \in Places(i) :
              \/ \E t \in Threads : \E k \in InAgenda(t, i) : p = <<t, "agenda", k>>
              \/ \E w \in Workers : \E k \in InLoop(w, i) : p = <<w, "queue", k>>
              \/ \E w \in Workers : Runs(w, i) /\ p = <<w, "run", 0>>
<1>1. \A p : p \in Places(i) <=>
              \/ \E t \in Threads : \E k \in InAgenda(t, i) : p = <<t, "agenda", k>>
              \/ \E w \in Workers : \E k \in InLoop(w, i) : p = <<w, "queue", k>>
              \/ \E w \in Workers : Runs(w, i) /\ p = <<w, "run", 0>>
  BY DEF Places, Runs
<1>2. ASSUME NEW t, NEW k
      PROVE  <<t, "agenda", k>> \in Places(i) <=> t \in Threads /\ k \in InAgenda(t, i)
  BY <1>1
<1>3. ASSUME NEW w, NEW k
      PROVE  <<w, "queue", k>> \in Places(i) <=> w \in Workers /\ k \in InLoop(w, i)
  BY <1>1
<1>4. ASSUME NEW w
      PROVE  <<w, "run", 0>> \in Places(i) <=> w \in Workers /\ Runs(w, i)
  BY <1>1
<1> QED
  BY <1>1, <1>2, <1>3, <1>4

(* The same in the next state.                                             *)
LEMMA PlacesAreNext ==
  ASSUME NEW i
  PROVE  /\ \A t, k : <<t, "agenda", k>> \in Places(i)' <=> t \in Threads /\ k \in InAgenda(t, i)'
         /\ \A w, k : <<w, "queue", k>> \in Places(i)' <=> w \in Workers /\ k \in InLoop(w, i)'
         /\ \A w : <<w, "run", 0>> \in Places(i)' <=> w \in Workers /\ Runs(w, i)'
         /\ \A p \in Places(i)' :
              \/ \E t \in Threads : \E k \in InAgenda(t, i)' : p = <<t, "agenda", k>>
              \/ \E w \in Workers : \E k \in InLoop(w, i)' : p = <<w, "queue", k>>
              \/ \E w \in Workers : Runs(w, i)' /\ p = <<w, "run", 0>>
<1>1. \A p : p \in Places(i)' <=>
              \/ \E t \in Threads : \E k \in InAgenda(t, i)' : p = <<t, "agenda", k>>
              \/ \E w \in Workers : \E k \in InLoop(w, i)' : p = <<w, "queue", k>>
              \/ \E w \in Workers : Runs(w, i)' /\ p = <<w, "run", 0>>
  BY DEF Places, Runs, Threads
<1>2. ASSUME NEW t, NEW k
      PROVE  <<t, "agenda", k>> \in Places(i)' <=> t \in Threads /\ k \in InAgenda(t, i)'
  BY <1>1
<1>3. ASSUME NEW w, NEW k
      PROVE  <<w, "queue", k>> \in Places(i)' <=> w \in Workers /\ k \in InLoop(w, i)'
  BY <1>1
<1>4. ASSUME NEW w
      PROVE  <<w, "run", 0>> \in Places(i)' <=> w \in Workers /\ Runs(w, i)'
  BY <1>1
<1> QED
  BY <1>1, <1>2, <1>3, <1>4

LEMMA PlacesDiffer ==
  /\ \A t, k, u, n : <<t, "agenda", k>> = <<u, "agenda", n>> => t = u /\ k = n
  /\ \A t, k, u, n : <<t, "queue", k>> = <<u, "queue", n>> => t = u /\ k = n
  /\ \A t, u : <<t, "run", 0>> = <<u, "run", 0>> => t = u
  /\ \A t, k, u, n : <<t, "agenda", k>> # <<u, "queue", n>> /\ <<u, "queue", n>> # <<t, "agenda", k>>
  /\ \A t, k, u : <<t, "agenda", k>> # <<u, "run", 0>> /\ <<u, "run", 0>> # <<t, "agenda", k>>
  /\ \A t, k, u : <<t, "queue", k>> # <<u, "run", 0>> /\ <<u, "run", 0>> # <<t, "queue", k>>
OBVIOUS

(* The places of a task that is only handed on, or that nobody touches.    *)
Kept(i) ==
  /\ (\E p : Places(i) = {p}) => (\E p : Places(i)' = {p})
  /\ Places(i) = {} => Places(i)' = {}

Shifted(S, d) == {k + d : k \in S}

LEMMA ShiftKept ==
  ASSUME NEW i, NEW a \in [Threads -> Int], NEW b \in [Workers -> Int],
         \A t \in Threads : InAgenda(t, i)' = Shifted(InAgenda(t, i), a[t]),
         \A w \in Workers : InLoop(w, i)' = Shifted(InLoop(w, i), b[w]),
         \A w \in Workers : Runs(w, i)' <=> Runs(w, i)
  PROVE  Kept(i)
<1> DEFINE f == [p \in Places(i) |->
                   IF p[2] = "agenda" THEN <<p[1], "agenda", p[3] + a[p[1]]>>
                   ELSE IF p[2] = "queue" THEN <<p[1], "queue", p[3] + b[p[1]]>> ELSE p]
<1>1. ASSUME NEW p \in Places(i) PROVE f[p] \in Places(i)'
  <2>1. ASSUME NEW t \in Threads, NEW k \in InAgenda(t, i), p = <<t, "agenda", k>>
        PROVE  f[p] \in Places(i)'
    <3>1. f[p] = <<t, "agenda", k + a[t]>>
      BY <2>1
    <3>2. k + a[t] \in InAgenda(t, i)'
      BY DEF Shifted
    <3> QED
      BY <3>1, <3>2, PlacesAreNext
  <2>2. ASSUME NEW w \in Workers, NEW k \in InLoop(w, i), p = <<w, "queue", k>>
        PROVE  f[p] \in Places(i)'
    <3>1. f[p] = <<w, "queue", k + b[w]>>
      BY <2>2
    <3>2. k + b[w] \in InLoop(w, i)'
      BY DEF Shifted
    <3> QED
      BY <3>1, <3>2, PlacesAreNext
  <2>3. ASSUME NEW w \in Workers, Runs(w, i), p = <<w, "run", 0>>
        PROVE  f[p] \in Places(i)'
    <3>1. f[p] = <<w, "run", 0>>
      BY <2>3
    <3> QED
      BY <2>3, <3>1, PlacesAreNext
  <2> HIDE DEF f
  <2> QED
    BY <2>1, <2>2, <2>3, PlacesAre
<1>2. ASSUME NEW r \in Places(i)' PROVE \E p \in Places(i) : f[p] = r
  <2>1. ASSUME NEW t \in Threads, NEW k \in InAgenda(t, i)', r = <<t, "agenda", k>>
        PROVE  \E p \in Places(i) : f[p] = r
    <3>1. PICK n \in InAgenda(t, i) : k = n + a[t]
      BY DEF Shifted
    <3>2. <<t, "agenda", n>> \in Places(i)
      BY PlacesAre
    <3>3. f[<<t, "agenda", n>>] = r
      BY <2>1, <3>1, <3>2
    <3> QED
      BY <3>2, <3>3
  <2>2. ASSUME NEW w \in Workers, NEW k \in InLoop(w, i)', r = <<w, "queue", k>>
        PROVE  \E p \in Places(i) : f[p] = r
    <3>1. PICK n \in InLoop(w, i) : k = n + b[w]
      BY DEF Shifted
    <3>2. <<w, "queue", n>> \in Places(i)
      BY PlacesAre
    <3>3. f[<<w, "queue", n>>] = r
      BY <2>2, <3>1, <3>2
    <3> QED
      BY <3>2, <3>3
  <2>3. ASSUME NEW w \in Workers, Runs(w, i)', r = <<w, "run", 0>>
        PROVE  \E p \in Places(i) : f[p] = r
    <3>1. <<w, "run", 0>> \in Places(i)
      BY <2>3, PlacesAre
    <3>2. f[<<w, "run", 0>>] = r
      BY <2>3, <3>1
    <3> QED
      BY <3>1, <3>2
  <2> HIDE DEF f
  <2> QED
    BY <2>1, <2>2, <2>3, PlacesAreNext
<1> HIDE DEF f
<1>3. ASSUME NEW p, Places(i) = {p} PROVE Places(i)' = {f[p]}
  <2>1. f[p] \in Places(i)'
    BY <1>1, <1>3
  <2>2. \A r \in Places(i)' : r = f[p]
    BY <1>2, <1>3
  <2> QED
    BY <2>1, <2>2
<1>4. ASSUME Places(i) = {} PROVE Places(i)' = {}
  BY <1>2, <1>4
<1> QED
  BY <1>3, <1>4 DEF Kept

(* What the places of a task say about the parts.                          *)
LEMMA AtOneAgenda ==
  ASSUME NEW i, NEW t \in Threads, NEW k \in InAgenda(t, i), \E p : Places(i) = {p}
  PROVE  /\ InAgenda(t, i) = {k} /\ \A u \in Threads : u # t => InAgenda(u, i) = {}
         /\ \A w \in Workers : InLoop(w, i) = {} /\ ~Runs(w, i)
<1>1. Places(i) = {<<t, "agenda", k>>}
  BY PlacesAre
<1>2. ASSUME NEW u \in Threads, NEW n \in InAgenda(u, i) PROVE u = t /\ n = k
  <2>1. <<u, "agenda", n>> = <<t, "agenda", k>>
    BY <1>1, PlacesAre
  <2> QED
    BY <2>1, PlacesDiffer
<1>3. \A w \in Workers : \A n \in InLoop(w, i) : FALSE
  BY <1>1, PlacesAre, PlacesDiffer
<1>4. \A w \in Workers : ~Runs(w, i)
  BY <1>1, PlacesAre, PlacesDiffer
<1> QED
  BY <1>2, <1>3, <1>4

LEMMA AtOneQueue ==
  ASSUME NEW i, NEW w \in Workers, NEW k \in InLoop(w, i), \E p : Places(i) = {p}
  PROVE  /\ \A u \in Threads : InAgenda(u, i) = {}
         /\ InLoop(w, i) = {k} /\ \A v \in Workers : v # w => InLoop(v, i) = {}
         /\ \A v \in Workers : ~Runs(v, i)
<1>1. Places(i) = {<<w, "queue", k>>}
  BY PlacesAre
<1>2. \A u \in Threads : \A n \in InAgenda(u, i) : FALSE
  BY <1>1, PlacesAre, PlacesDiffer
<1>3. ASSUME NEW v \in Workers, NEW n \in InLoop(v, i) PROVE v = w /\ n = k
  <2>1. <<v, "queue", n>> = <<w, "queue", k>>
    BY <1>1, PlacesAre
  <2> QED
    BY <2>1, PlacesDiffer
<1>4. \A v \in Workers : ~Runs(v, i)
  BY <1>1, PlacesAre, PlacesDiffer
<1> QED
  BY <1>2, <1>3, <1>4

LEMMA AtOneRun ==
  ASSUME NEW i, NEW w \in Workers, Runs(w, i), \E p : Places(i) = {p}
  PROVE  /\ \A u \in Threads : InAgenda(u, i) = {}
         /\ \A v \in Workers : InLoop(v, i) = {}
         /\ \A v \in Workers : v # w => ~Runs(v, i)
<1>1. Places(i) = {<<w, "run", 0>>}
  BY PlacesAre
<1>2. \A u \in Threads : \A n \in InAgenda(u, i) : FALSE
  BY <1>1, PlacesAre, PlacesDiffer
<1>3. \A v \in Workers : \A n \in InLoop(v, i) : FALSE
  BY <1>1, PlacesAre, PlacesDiffer
<1>4. ASSUME NEW v \in Workers, Runs(v, i) PROVE v = w
  <2>1. <<v, "run", 0>> = <<w, "run", 0>>
    BY <1>1, <1>4, PlacesAre
  <2> QED
    BY <2>1, PlacesDiffer
<1> QED
  BY <1>2, <1>3, <1>4

LEMMA NowhereIs ==
  ASSUME NEW i
  PROVE  Places(i) = {} <=> /\ \A u \in Threads : InAgenda(u, i) = {}
                            /\ \A w \in Workers : InLoop(w, i) = {} /\ ~Runs(w, i)
<1>1. ASSUME Places(i) = {}
      PROVE  /\ \A u \in Threads : InAgenda(u, i) = {}
             /\ \A w \in Workers : InLoop(w, i) = {} /\ ~Runs(w, i)
  <2>1. \A u \in Threads : \A n \in InAgenda(u, i) : FALSE
    BY <1>1, PlacesAre
  <2>2. \A w \in Workers : \A n \in InLoop(w, i) : FALSE
    BY <1>1, PlacesAre
  <2>3. \A w \in Workers : ~Runs(w, i)
    BY <1>1, PlacesAre
  <2> QED
    BY <2>1, <2>2, <2>3
<1>2. ASSUME /\ \A u \in Threads : InAgenda(u, i) = {}
             /\ \A w \in Workers : InLoop(w, i) = {} /\ ~Runs(w, i)
      PROVE  \A p \in Places(i) : FALSE
  BY <1>2, PlacesAre
<1> QED
  BY <1>1, <1>2

(* A task that is nowhere but in one place of an agenda, of a queue, or    *)
(* run, in the next state.                                                 *)
LEMMA NowhereNext ==
  ASSUME NEW i, \A u \in Threads : InAgenda(u, i)' = {},
         \A w \in Workers : InLoop(w, i)' = {} /\ ~Runs(w, i)'
  PROVE  Places(i)' = {}
<1>1. \A p \in Places(i)' : FALSE
  BY PlacesAreNext
<1> QED
  BY <1>1

LEMMA AgendaNext ==
  ASSUME NEW i, NEW t \in Threads, NEW k, InAgenda(t, i)' = {k},
         \A u \in Threads : u # t => InAgenda(u, i)' = {},
         \A w \in Workers : InLoop(w, i)' = {} /\ ~Runs(w, i)'
  PROVE  Places(i)' = {<<t, "agenda", k>>}
<1>1. <<t, "agenda", k>> \in Places(i)'
  BY PlacesAreNext
<1>2. \A p \in Places(i)' : p = <<t, "agenda", k>>
  <2> SUFFICES ASSUME NEW p \in Places(i)' PROVE p = <<t, "agenda", k>>
    OBVIOUS
  <2>1. PICK u \in Threads : \E n \in InAgenda(u, i)' : p = <<u, "agenda", n>>
    BY PlacesAreNext
  <2>2. PICK n \in InAgenda(u, i)' : p = <<u, "agenda", n>>
    BY <2>1
  <2>3. u = t
    BY <2>2
  <2> QED
    BY <2>2, <2>3
<1> QED
  BY <1>1, <1>2

LEMMA QueueNext ==
  ASSUME NEW i, NEW w \in Workers, NEW k, InLoop(w, i)' = {k},
         \A u \in Threads : InAgenda(u, i)' = {},
         \A v \in Workers : v # w => InLoop(v, i)' = {},
         \A v \in Workers : ~Runs(v, i)'
  PROVE  Places(i)' = {<<w, "queue", k>>}
<1>1. <<w, "queue", k>> \in Places(i)'
  BY PlacesAreNext
<1>2. \A p \in Places(i)' : p = <<w, "queue", k>>
  <2> SUFFICES ASSUME NEW p \in Places(i)' PROVE p = <<w, "queue", k>>
    OBVIOUS
  <2>1. PICK v \in Workers : \E n \in InLoop(v, i)' : p = <<v, "queue", n>>
    BY PlacesAreNext
  <2>2. PICK n \in InLoop(v, i)' : p = <<v, "queue", n>>
    BY <2>1
  <2>3. v = w
    BY <2>2
  <2> QED
    BY <2>2, <2>3
<1> QED
  BY <1>1, <1>2

LEMMA RunNext ==
  ASSUME NEW i, NEW w \in Workers, Runs(w, i)',
         \A u \in Threads : InAgenda(u, i)' = {},
         \A v \in Workers : InLoop(v, i)' = {},
         \A v \in Workers : v # w => ~Runs(v, i)'
  PROVE  Places(i)' = {<<w, "run", 0>>}
<1>1. <<w, "run", 0>> \in Places(i)'
  BY PlacesAreNext
<1>2. \A p \in Places(i)' : p = <<w, "run", 0>>
  BY PlacesAreNext
<1> QED
  BY <1>1, <1>2
-----------------------------------------------------------------------------
(* How the places change in a step.                                        *)
LEMMA AboutAfter ==
  ASSUME NEW s, NEW q, Steps(s), Steps(q), q # <<>>, NEW i
  PROVE  AboutIn(s \o Tail(q), i) = AboutIn(s, i) \cup Shifted(AboutIn(q, i) \ {1}, Len(s) - 1)
<1>1. s \in Seq(StepType) /\ q \in Seq(StepType)
  BY DEF Steps
<1> DEFINE r == s \o Tail(q)
<1>2. /\ Len(r) = Len(s) + Len(q) - 1
      /\ Len(s) \in Nat /\ Len(q) \in Nat /\ Len(q) >= 1
      /\ \A k \in 1 .. Len(s) : r[k] = s[k]
      /\ \A k \in 2 .. Len(q) : r[Len(s) + k - 1] = q[k]
      /\ \A k \in (Len(s) + 1) .. (Len(s) + Len(q) - 1) : r[k] = q[k - Len(s) + 1]
  BY <1>1, Replaced
<1> HIDE DEF r
<1>3. ASSUME NEW k \in AboutIn(r, i)
      PROVE  k \in AboutIn(s, i) \cup Shifted(AboutIn(q, i) \ {1}, Len(s) - 1)
  <2>1. k \in 1 .. Len(s) + Len(q) - 1 /\ About(r[k], i)
    BY <1>2 DEF AboutIn
  <2>2. CASE k \in 1 .. Len(s)
    BY <1>2, <2>1, <2>2 DEF AboutIn
  <2>3. CASE k \notin 1 .. Len(s)
    <3>1. /\ k \in (Len(s) + 1) .. (Len(s) + Len(q) - 1)
          /\ k - Len(s) + 1 \in 1 .. Len(q) /\ k - Len(s) + 1 # 1
          /\ (k - Len(s) + 1) + (Len(s) - 1) = k
      BY <1>2, <2>1, <2>3
    <3>2. About(q[k - Len(s) + 1], i)
      BY <1>2, <2>1, <3>1
    <3>3. k - Len(s) + 1 \in AboutIn(q, i) \ {1}
      BY <3>1, <3>2 DEF AboutIn
    <3> QED
      BY <3>1, <3>3 DEF Shifted
  <2> QED
    BY <2>2, <2>3
<1>4. ASSUME NEW k \in AboutIn(s, i) PROVE k \in AboutIn(r, i)
  <2>1. k \in 1 .. Len(s) /\ About(s[k], i) /\ k \in 1 .. Len(r)
    BY <1>2 DEF AboutIn
  <2> QED
    BY <1>2, <2>1 DEF AboutIn
<1>5. ASSUME NEW n \in AboutIn(q, i) \ {1} PROVE n + (Len(s) - 1) \in AboutIn(r, i)
  <2>1. /\ n \in 2 .. Len(q) /\ About(q[n], i)
        /\ n + (Len(s) - 1) = Len(s) + n - 1
        /\ n + (Len(s) - 1) \in 1 .. Len(r)
    BY <1>2 DEF AboutIn
  <2> QED
    BY <1>2, <2>1 DEF AboutIn
<1> QED
  BY <1>3, <1>4, <1>5 DEF Shifted, r

LEMMA InAgendaIs ==
  ASSUME AgendaType, NEW t \in Threads, NEW i
  PROVE  InAgenda(t, i) = AboutIn(agenda[t], i)
<1>1. DOMAIN agenda[t] = 1 .. Len(agenda[t])
  BY DEF AgendaType
<1> QED
  BY <1>1 DEF InAgenda, AboutIn, About

LEMMA InAgendaNext ==
  ASSUME AgendaType', NEW t \in Threads, NEW i
  PROVE  InAgenda(t, i)' = AboutIn(agenda'[t], i)
<1>1. DOMAIN agenda'[t] = 1 .. Len(agenda'[t])
  BY DEF AgendaType
<1> QED
  BY <1>1 DEF InAgenda, AboutIn, About

LEMMA AgendaAfter ==
  ASSUME AgendaType, AgendaType', NEW t \in Threads, NEW s, Steps(s), Replaces(t, s), NEW i
  PROVE  InAgenda(t, i)' = AboutIn(s, i) \cup Shifted(InAgenda(t, i) \ {1}, Len(s) - 1)
<1>1. Steps(agenda[t]) /\ agenda[t] # <<>> /\ agenda'[t] = s \o Tail(agenda[t])
  BY DEF AgendaType, Steps, Replaces
<1>2. InAgenda(t, i) = AboutIn(agenda[t], i) /\ InAgenda(t, i)' = AboutIn(agenda'[t], i)
  BY InAgendaIs, InAgendaNext
<1>3. AboutIn(s \o Tail(agenda[t]), i)
        = AboutIn(s, i) \cup Shifted(AboutIn(agenda[t], i) \ {1}, Len(s) - 1)
  BY <1>1, AboutAfter
<1> QED
  BY <1>1, <1>2, <1>3

LEMMA AgendaBegun ==
  ASSUME AgendaType, AgendaType', NEW t \in Threads, NEW s, Begins(t, s), NEW i
  PROVE  InAgenda(t, i) = {} /\ InAgenda(t, i)' = AboutIn(s, i)
<1>1. agenda[t] = <<>> /\ agenda'[t] = s
  BY DEF Begins
<1>2. AboutIn(<<>>, i) = {}
  BY DEF AboutIn
<1> QED
  BY <1>1, <1>2, InAgendaIs, InAgendaNext

LEMMA AgendaSame ==
  ASSUME NEW t, agenda'[t] = agenda[t], NEW i
  PROVE  InAgenda(t, i)' = InAgenda(t, i)
BY DEF InAgenda

LEMMA ShiftNone ==
  ASSUME NEW S \in SUBSET Int
  PROVE  Shifted(S, 0) = S
<1>1. \A k \in S : k + 0 = k
  OBVIOUS
<1> QED
  BY <1>1 DEF Shifted

LEMMA PlacesAreNumbers ==
  ASSUME TypeOK, NEW i
  PROVE  /\ \A t \in Threads : InAgenda(t, i) \in SUBSET Int
         /\ \A w \in Workers : InLoop(w, i) \in SUBSET Int
<1>1. \A t \in Threads : InAgenda(t, i) \in SUBSET Int
  BY InAgendaIs DEF TypeOK, AboutIn
<1>2. ASSUME NEW w \in Workers PROVE InLoop(w, i) \in SUBSET Int
  <2>1. DOMAIN loopTasks[w] = 1 .. Len(loopTasks[w])
    BY DEF TypeOK, LoopType
  <2> QED
    BY <2>1 DEF InLoop
<1> QED
  BY <1>1, <1>2

(* A step of an agenda that becomes one about the same task.               *)
LEMMA HandedOn ==
  ASSUME AgendaType, AgendaType', NEW t \in Threads, NEW x \in StepType,
         Replaces(t, <<x>>), NEW i, About(x, i) <=> About(agenda[t][1], i)
  PROVE  InAgenda(t, i)' = InAgenda(t, i)
<1>1. Steps(<<x>>) /\ Len(<<x>>) = 1 /\ <<x>>[1] = x
  BY OneStep
<1>2. InAgenda(t, i)' = AboutIn(<<x>>, i) \cup Shifted(InAgenda(t, i) \ {1}, 0)
  <2>1. Len(<<x>>) - 1 = 0
    BY <1>1
  <2> QED
    BY <1>1, <2>1, AgendaAfter
<1>3. InAgenda(t, i) \in SUBSET Int /\ (1 \in InAgenda(t, i) <=> About(agenda[t][1], i))
  <2>1. Len(agenda[t]) \in Nat /\ Len(agenda[t]) >= 1
    BY AtHead DEF Replaces
  <2>2. 1 \in 1 .. Len(agenda[t])
    BY <2>1
  <2> QED
    BY <2>2, InAgendaIs DEF AboutIn
<1>4. Shifted(InAgenda(t, i) \ {1}, 0) = InAgenda(t, i) \ {1}
  BY <1>3, ShiftNone
<1>5. AboutIn(<<x>>, i) = IF About(x, i) THEN {1} ELSE {}
  BY <1>1 DEF AboutIn
<1> QED
  BY <1>2, <1>3, <1>4, <1>5

LEMMA IdleShifts ==
  ASSUME AgendaType, AgendaType', IdleAgendas, NEW t \in Threads, NEW i
  PROVE  \E d \in Int : InAgenda(t, i)' = Shifted(InAgenda(t, i), d)
<1>1. CASE agenda'[t] = agenda[t]
  <2>1. InAgenda(t, i) \in SUBSET Int
    BY InAgendaIs DEF AboutIn
  <2> QED
    BY <1>1, <2>1, AgendaSame, ShiftNone
<1>2. ASSUME NEW s, Steps(s), Idles(s),
             Begins(t, s) \/ (Replaces(t, s) /\ agenda[t][1].op \in IdleOps)
      PROVE  \E d \in Int : InAgenda(t, i)' = Shifted(InAgenda(t, i), d)
  <2>1. AboutIn(s, i) = {}
    BY <1>2 DEF AboutIn, About, Idles, IdleOps
  <2>2. CASE Begins(t, s)
    <3>1. InAgenda(t, i) = {} /\ InAgenda(t, i)' = {}
      BY <2>1, <2>2, AgendaBegun
    <3> QED
      BY <3>1, ShiftNone
  <2>3. CASE Replaces(t, s) /\ agenda[t][1].op \in IdleOps
    <3>1. 1 \notin InAgenda(t, i)
      BY <2>3, InAgendaIs DEF AboutIn, About, IdleOps
    <3>2. InAgenda(t, i)' = Shifted(InAgenda(t, i), Len(s) - 1)
      <4>1. InAgenda(t, i) \ {1} = InAgenda(t, i)
        BY <3>1
      <4>2. InAgenda(t, i)' = {} \cup Shifted(InAgenda(t, i), Len(s) - 1)
        BY <1>2, <2>1, <2>3, <4>1, AgendaAfter
      <4> QED
        BY <4>2
    <3>3. Len(s) - 1 \in Int
      BY <1>2 DEF Steps
    <3> QED
      BY <3>2, <3>3
  <2> QED
    BY <1>2, <2>2, <2>3
<1> QED
  BY <1>1, <1>2 DEF IdleAgendas, Idle

LEMMA QueueAppend ==
  ASSUME LoopType, LoopType', NEW w \in Workers, NEW j, Appends(w, j), NEW i
  PROVE  /\ InLoop(w, i)' =
              InLoop(w, i) \cup (IF j # Ready /\ j.id = i THEN {Len(loopTasks[w]) + 1} ELSE {})
         /\ \A v \in Workers : v # w => InLoop(v, i)' = InLoop(v, i)
<1>1. loopTasks[w] \in Seq(JobType \cup {Ready}) /\ Len(loopTasks[w]) \in Nat
  BY DEF LoopType
<1> DEFINE n == Len(loopTasks[w]) + 1
<1>2. /\ loopTasks'[w] = Append(loopTasks[w], j)
      /\ \A v \in Workers : v # w => loopTasks'[v] = loopTasks[v]
  BY DEF LoopType, Appends
<1>3. /\ Len(loopTasks'[w]) = n /\ loopTasks'[w][n] = j
      /\ \A k \in 1 .. Len(loopTasks[w]) : loopTasks'[w][k] = loopTasks[w][k]
  BY <1>1, <1>2
<1>4. \A k : k \in 1 .. n <=> k \in 1 .. Len(loopTasks[w]) \/ k = n
  BY <1>1
<1>5. DOMAIN loopTasks'[w] = 1 .. n /\ DOMAIN loopTasks[w] = 1 .. Len(loopTasks[w])
  BY <1>1, <1>3 DEF LoopType
<1> HIDE DEF n
<1>6. InLoop(w, i)' = InLoop(w, i) \cup (IF j # Ready /\ j.id = i THEN {n} ELSE {})
  BY <1>3, <1>4, <1>5 DEF InLoop
<1> QED
  BY <1>2, <1>6 DEF InLoop, n

Takes(w) == loopTasks[w] # <<>> /\ loopTasks' = [loopTasks EXCEPT ![w] = Tail(@)]

LEMMA QueueTail ==
  ASSUME LoopType, LoopType', NEW w \in Workers, Takes(w), NEW i
  PROVE  /\ InLoop(w, i)' = Shifted(InLoop(w, i) \ {1}, -1)
         /\ 1 \in InLoop(w, i) <=> Head(loopTasks[w]) # Ready /\ Head(loopTasks[w]).id = i
         /\ \A v \in Workers : v # w => InLoop(v, i)' = InLoop(v, i)
<1>1. loopTasks[w] \in Seq(JobType \cup {Ready}) /\ loopTasks[w] # <<>>
  BY DEF LoopType, Takes
<1>2. /\ loopTasks'[w] = Tail(loopTasks[w])
      /\ \A v \in Workers : v # w => loopTasks'[v] = loopTasks[v]
  BY DEF LoopType, Takes
<1>3. /\ Len(loopTasks[w]) \in Nat /\ Len(loopTasks[w]) >= 1
      /\ Head(loopTasks[w]) = loopTasks[w][1]
      /\ Len(loopTasks'[w]) = Len(loopTasks[w]) - 1
      /\ \A k \in 1 .. Len(loopTasks[w]) - 1 : loopTasks'[w][k] = loopTasks[w][k + 1]
  BY <1>1, <1>2, TailIs
<1>4. /\ DOMAIN loopTasks'[w] = 1 .. Len(loopTasks[w]) - 1
      /\ DOMAIN loopTasks[w] = 1 .. Len(loopTasks[w])
  BY <1>1, <1>3 DEF LoopType
<1>5. ASSUME NEW k \in InLoop(w, i)' PROVE k \in Shifted(InLoop(w, i) \ {1}, -1)
  <2>1. k \in 1 .. Len(loopTasks[w]) - 1 /\ loopTasks'[w][k] # Ready /\ loopTasks'[w][k].id = i
    BY <1>4 DEF InLoop
  <2>2. k + 1 \in 1 .. Len(loopTasks[w]) /\ k + 1 # 1 /\ (k + 1) + (-1) = k
    BY <1>3, <2>1
  <2>3. k + 1 \in InLoop(w, i) \ {1}
    BY <1>3, <1>4, <2>1, <2>2 DEF InLoop
  <2> QED
    BY <2>2, <2>3 DEF Shifted
<1>6. ASSUME NEW n \in InLoop(w, i) \ {1} PROVE n + (-1) \in InLoop(w, i)'
  <2>1. n \in 1 .. Len(loopTasks[w]) /\ n # 1 /\ loopTasks[w][n] # Ready /\ loopTasks[w][n].id = i
    BY <1>4 DEF InLoop
  <2>2. n + (-1) \in 1 .. Len(loopTasks[w]) - 1 /\ (n + (-1)) + 1 = n
    BY <1>3, <2>1
  <2>3. loopTasks'[w][n + (-1)] = loopTasks[w][n]
    BY <1>3, <2>2
  <2> QED
    BY <1>4, <2>1, <2>2, <2>3 DEF InLoop
<1>7. InLoop(w, i)' = Shifted(InLoop(w, i) \ {1}, -1)
  BY <1>5, <1>6 DEF Shifted
<1>8. 1 \in InLoop(w, i) <=> Head(loopTasks[w]) # Ready /\ Head(loopTasks[w]).id = i
  <2>1. 1 \in 1 .. Len(loopTasks[w])
    BY <1>3
  <2> QED
    BY <1>3, <1>4, <2>1 DEF InLoop
<1> QED
  BY <1>2, <1>7, <1>8 DEF InLoop

LEMMA ShiftsKept ==
  ASSUME NEW i,
         \A t \in Threads : \E d \in Int : InAgenda(t, i)' = Shifted(InAgenda(t, i), d),
         \A w \in Workers : \E d \in Int : InLoop(w, i)' = Shifted(InLoop(w, i), d),
         \A w \in Workers : Runs(w, i)' <=> Runs(w, i)
  PROVE  Kept(i)
<1> DEFINE a == [t \in Threads |-> CHOOSE d \in Int : InAgenda(t, i)' = Shifted(InAgenda(t, i), d)]
           b == [w \in Workers |-> CHOOSE d \in Int : InLoop(w, i)' = Shifted(InLoop(w, i), d)]
<1>1. a \in [Threads -> Int] /\ b \in [Workers -> Int]
  OBVIOUS
<1>2. \A t \in Threads : InAgenda(t, i)' = Shifted(InAgenda(t, i), a[t])
  OBVIOUS
<1>3. \A w \in Workers : InLoop(w, i)' = Shifted(InLoop(w, i), b[w])
  OBVIOUS
<1> HIDE DEF a, b
<1> QED
  BY <1>1, <1>2, <1>3, ShiftKept

LEMMA SameShifts ==
  ASSUME TypeOK, NEW i
  PROVE  /\ \A t \in Threads : InAgenda(t, i)' = InAgenda(t, i) =>
              \E d \in Int : InAgenda(t, i)' = Shifted(InAgenda(t, i), d)
         /\ \A w \in Workers : InLoop(w, i)' = InLoop(w, i) =>
              \E d \in Int : InLoop(w, i)' = Shifted(InLoop(w, i), d)
BY PlacesAreNumbers, ShiftNone
-----------------------------------------------------------------------------
(* The jobs that have not run yet, and what they carry.                    *)
HeadJobs ==
  {j \in JobType : \E t \in Threads : \/ At(t, "submit") /\ Arg(t) = j
                                      \/ At(t, "post") /\ Arg(t).j = j}
QueueJobs == {j \in JobType : \E w \in Workers : \E k \in 1 .. Len(loopTasks[w]) : loopTasks[w][k] = j}
RunJobs == {j \in JobType : \E w \in Workers : wpc[w] = "run" /\ cur[w] = j}
InputRight(j) == j.input = UNION {output[d] : d \in Dependencies(j.id)}

(* Every scheduled task is in one place, every other one in none.          *)
Placed ==
  \A i \in Ids : /\ m_running /\ i \in scheduled \ done => \E p : Places(i) = {p}
                 /\ ~ (m_running /\ i \in scheduled \ done) => Places(i) = {}
Books ==
  /\ done \subseteq scheduled /\ scheduled \subseteq Tasks
  /\ m_running =>
       /\ m_remainingTasks = taskCount - Cardinality(done)
       /\ \A i \in Tasks : pending[i] = Cardinality(Dependencies(i) \ done)
       /\ \A i \in scheduled : Dependencies(i) \subseteq done
InputsRight == \A j \in HeadJobs \cup QueueJobs \cup RunJobs : InputRight(j)
RunInv == Placed /\ Books /\ InputsRight

LEMMA HeadAfter ==
  ASSUME AgendaType, NEW t \in Threads, NEW s, Steps(s),
         Replaces(t, s) \/ Begins(t, s), NEW op, op \notin LaterOps, At(t, op)'
  PROVE  s # <<>> /\ s[1].op = op /\ Arg(t)' = s[1].x
<1>1. s \in Seq(StepType) /\ Len(s) \in Nat /\ (s # <<>> <=> Len(s) >= 1)
  BY DEF Steps
<1>2. agenda'[t] # <<>> /\ Head(agenda'[t]).op = op /\ Arg(t)' = Head(agenda'[t]).x
  BY DEF At, Arg
<1>3. CASE Begins(t, s)
  <2>1. agenda'[t] = s /\ s # <<>>
    BY <1>2, <1>3 DEF Begins
  <2>2. Head(s) = s[1]
    BY <1>1, <2>1
  <2> QED
    BY <1>2, <2>1, <2>2
<1>4. CASE Replaces(t, s)
  <2> DEFINE r == s \o Tail(agenda[t])
  <2>0. agenda[t] \in Seq(StepType) /\ agenda[t] # <<>> /\ agenda'[t] = r
    BY <1>4 DEF AgendaType, Replaces
  <2>1. /\ r \in Seq(StepType) /\ Len(r) = Len(s) + Len(agenda[t]) - 1
        /\ Len(agenda[t]) \in Nat /\ Len(agenda[t]) >= 1
        /\ \A k \in 1 .. Len(s) : r[k] = s[k]
        /\ \A k \in (Len(s) + 1) .. (Len(s) + Len(agenda[t]) - 1) : r[k] = agenda[t][k - Len(s) + 1]
    BY <1>1, <2>0, Replaced
  <2> HIDE DEF r
  <2>2. r # <<>> /\ Head(r) = r[1] /\ Len(r) >= 1
    BY <1>2, <2>0, <2>1
  <2>3. CASE s # <<>>
    <3>1. 1 \in 1 .. Len(s)
      BY <1>1, <2>3
    <3> QED
      BY <1>2, <2>0, <2>1, <2>2, <2>3, <3>1
  <2>4. CASE s = <<>>
    <3>1. Len(s) = 0
      BY <2>4
    <3>2. 2 \in 2 .. Len(agenda[t]) /\ 1 \in (Len(s) + 1) .. (Len(s) + Len(agenda[t]) - 1)
          /\ 1 - Len(s) + 1 = 2
      BY <2>1, <2>2, <3>1
    <3>3. r[1] = agenda[t][2] /\ agenda[t][2].op \in LaterOps
      BY <2>1, <3>2 DEF AgendaType, Orderly
    <3> QED
      BY <1>2, <2>0, <2>2, <3>3
  <2> QED
    BY <2>3, <2>4
<1> QED
  BY <1>3, <1>4

LEMMA HeadJobsAfter ==
  ASSUME AgendaType, NEW t \in Threads, NEW s, Steps(s), Replaces(t, s) \/ Begins(t, s),
         \A u \in Threads : u # t => agenda'[u] = agenda[u],
         NEW j \in HeadJobs', j \notin HeadJobs
  PROVE  s # <<>> /\ ((s[1].op = "submit" /\ s[1].x = j) \/ (s[1].op = "post" /\ s[1].x.j = j))
<1>1. PICK u \in Threads : \/ At(u, "submit")' /\ Arg(u)' = j
                           \/ At(u, "post")' /\ Arg(u)'.j = j
  BY DEF HeadJobs, Threads
<1>2. u = t
  <2>1. ASSUME u # t PROVE j \in HeadJobs
    <3>1. agenda'[u] = agenda[u]
      BY <2>1
    <3>2. \/ At(u, "submit") /\ Arg(u) = j
          \/ At(u, "post") /\ Arg(u).j = j
      BY <1>1, <3>1 DEF At, Arg
    <3> QED
      BY <3>2 DEF HeadJobs
  <2> QED
    BY <2>1
<1>3. "submit" \notin LaterOps /\ "post" \notin LaterOps
  BY DEF LaterOps
<1>4. CASE At(t, "submit")' /\ Arg(t)' = j
  BY <1>3, <1>4, HeadAfter
<1>5. CASE At(t, "post")' /\ Arg(t)'.j = j
  BY <1>3, <1>5, HeadAfter
<1> QED
  BY <1>1, <1>2, <1>4, <1>5

LEMMA HeadJobsIdle ==
  ASSUME AgendaType, IdleAgendas
  PROVE  HeadJobs' \subseteq HeadJobs
<1> SUFFICES ASSUME NEW j \in HeadJobs' PROVE j \in HeadJobs
  OBVIOUS
<1>1. PICK u \in Threads : \/ At(u, "submit")' /\ Arg(u)' = j
                           \/ At(u, "post")' /\ Arg(u)'.j = j
  BY DEF HeadJobs, Threads
<1>2. CASE agenda'[u] = agenda[u]
  BY <1>1, <1>2 DEF HeadJobs, At, Arg
<1>3. ASSUME NEW s, Steps(s), Idles(s), Replaces(u, s) \/ Begins(u, s) PROVE FALSE
  <2>1. s # <<>> => s[1].op \in IdleOps
    <3>1. s # <<>> => 1 \in 1 .. Len(s)
      BY <1>3 DEF Steps
    <3> QED
      BY <1>3, <3>1 DEF Idles
  <2>2. "submit" \notin LaterOps /\ "post" \notin LaterOps
        /\ "submit" \notin IdleOps /\ "post" \notin IdleOps
    BY DEF LaterOps, IdleOps
  <2>3. CASE At(u, "submit")'
    BY <1>3, <2>1, <2>2, <2>3, HeadAfter
  <2>4. CASE At(u, "post")'
    BY <1>3, <2>1, <2>2, <2>4, HeadAfter
  <2> QED
    BY <1>1, <2>3, <2>4
<1> QED
  BY <1>2, <1>3 DEF IdleAgendas, Idle

LEMMA QueueJobsAfter ==
  ASSUME LoopType, NEW w \in Workers
  PROVE  /\ \A j : Appends(w, j) => QueueJobs' \subseteq QueueJobs \cup {j}
         /\ Takes(w) => QueueJobs' \subseteq QueueJobs
                        /\ (Head(loopTasks[w]) # Ready => Head(loopTasks[w]) \in QueueJobs)
<1>1. loopTasks[w] \in Seq(JobType \cup {Ready}) /\ Len(loopTasks[w]) \in Nat
  BY DEF LoopType
<1>2. ASSUME NEW j, Appends(w, j), NEW r \in QueueJobs' PROVE r \in QueueJobs \cup {j}
  <2>1. PICK v \in Workers : \E k \in 1 .. Len(loopTasks'[v]) : loopTasks'[v][k] = r
    BY <1>2 DEF QueueJobs
  <2>2. PICK k \in 1 .. Len(loopTasks'[v]) : loopTasks'[v][k] = r
    BY <2>1
  <2>3. r \in JobType
    BY <1>2 DEF QueueJobs
  <2>4. CASE v # w
    <3>1. loopTasks'[v] = loopTasks[v]
      BY <1>2, <2>4 DEF LoopType, Appends
    <3> QED
      BY <2>2, <2>3, <3>1 DEF QueueJobs
  <2>5. CASE v = w
    <3>1. loopTasks'[w] = Append(loopTasks[w], j)
      BY <1>2 DEF LoopType, Appends
    <3>2. /\ Len(loopTasks'[w]) = Len(loopTasks[w]) + 1
          /\ loopTasks'[w][Len(loopTasks[w]) + 1] = j
          /\ \A n \in 1 .. Len(loopTasks[w]) : loopTasks'[w][n] = loopTasks[w][n]
      BY <1>1, <3>1
    <3>3. k \in 1 .. Len(loopTasks[w]) \/ k = Len(loopTasks[w]) + 1
      BY <1>1, <2>2, <2>5, <3>2
    <3> QED
      BY <2>2, <2>3, <2>5, <3>2, <3>3 DEF QueueJobs
  <2> QED
    BY <2>4, <2>5
<1>3. ASSUME Takes(w)
      PROVE  QueueJobs' \subseteq QueueJobs
             /\ (Head(loopTasks[w]) # Ready => Head(loopTasks[w]) \in QueueJobs)
  <2>1. /\ loopTasks'[w] = Tail(loopTasks[w]) /\ loopTasks[w] # <<>>
        /\ \A v \in Workers : v # w => loopTasks'[v] = loopTasks[v]
    BY <1>3 DEF LoopType, Takes
  <2>2. /\ Len(loopTasks[w]) >= 1 /\ Head(loopTasks[w]) = loopTasks[w][1]
        /\ Len(loopTasks'[w]) = Len(loopTasks[w]) - 1
        /\ \A k \in 1 .. Len(loopTasks[w]) - 1 : loopTasks'[w][k] = loopTasks[w][k + 1]
    BY <1>1, <2>1, TailIs
  <2>3. ASSUME NEW r \in QueueJobs' PROVE r \in QueueJobs
    <3>1. PICK v \in Workers : \E k \in 1 .. Len(loopTasks'[v]) : loopTasks'[v][k] = r
      BY <2>3 DEF QueueJobs
    <3>2. PICK k \in 1 .. Len(loopTasks'[v]) : loopTasks'[v][k] = r
      BY <3>1
    <3>3. r \in JobType
      BY <2>3 DEF QueueJobs
    <3>4. CASE v # w
      BY <2>1, <3>2, <3>3, <3>4 DEF QueueJobs
    <3>5. CASE v = w
      <4>1. k \in 1 .. Len(loopTasks[w]) - 1 /\ k + 1 \in 1 .. Len(loopTasks[w])
        BY <1>1, <2>2, <3>2, <3>5
      <4>2. loopTasks[w][k + 1] = r
        BY <2>2, <3>2, <3>5, <4>1
      <4> QED
        BY <3>3, <4>1, <4>2 DEF QueueJobs
    <3> QED
      BY <3>4, <3>5
  <2>4. ASSUME Head(loopTasks[w]) # Ready PROVE Head(loopTasks[w]) \in QueueJobs
    <3>1. 1 \in 1 .. Len(loopTasks[w])
      BY <1>1, <2>2
    <3>2. loopTasks[w][1] \in JobType \cup {Ready}
      BY <1>1, <3>1
    <3> QED
      BY <2>2, <2>4, <3>1, <3>2 DEF QueueJobs
  <2> QED
    BY <2>3, <2>4
<1> QED
  BY <1>2, <1>3

(* A step of the pool moves tasks and jobs, and nothing else.              *)
LEMMA PoolMoves ==
  ASSUME TypeOK, RunInv, UNCHANGED <<graphVars, runVars>>,
         \A i \in Ids : Kept(i),
         \A j \in (HeadJobs \cup QueueJobs \cup RunJobs)' :
           j \in HeadJobs \cup QueueJobs \cup RunJobs \/ InputRight(j)
  PROVE  RunInv'
<1> USE DEF graphVars, runVars
<1>1. Placed'
  BY DEF RunInv, Placed, Kept
<1>2. Books'
  BY DEF RunInv, Books, Tasks, Dependencies
<1>3. \A j : InputRight(j)' <=> InputRight(j)
  BY DEF InputRight, Dependencies, Tasks
<1>4. InputsRight'
  BY <1>3 DEF RunInv, InputsRight
<1> QED
  BY <1>1, <1>2, <1>4 DEF RunInv

(* Steps that touch no task.                                               *)
Quiet ==
  /\ IdleAgendas /\ UNCHANGED <<graphVars, runVars>>
  /\ \/ loopTasks' = loopTasks
     \/ \E w \in Workers : Appends(w, Ready) \/ (Takes(w) /\ Head(loopTasks[w]) = Ready)
  /\ \A w \in Workers : /\ wpc'[w] = "run" <=> wpc[w] = "run"
                        /\ wpc[w] = "run" => cur'[w] = cur[w]

LEMMA QuietStep ==
  ASSUME TypeOK, TypeOK', RunInv, Quiet
  PROVE  RunInv'
<1>0. AgendaType /\ AgendaType' /\ LoopType /\ LoopType'
  BY DEF TypeOK
<1>1. ASSUME NEW i \in Ids PROVE Kept(i)
  <2>1. \A t \in Threads : \E d \in Int : InAgenda(t, i)' = Shifted(InAgenda(t, i), d)
    BY <1>0, IdleShifts DEF Quiet
  <2>2. ASSUME NEW v \in Workers PROVE \E d \in Int : InLoop(v, i)' = Shifted(InLoop(v, i), d)
    <3>1. CASE loopTasks' = loopTasks
      <4>1. InLoop(v, i)' = InLoop(v, i)
        BY <3>1 DEF InLoop
      <4> QED
        BY <4>1, SameShifts
    <3>2. ASSUME NEW w \in Workers, Appends(w, Ready)
          PROVE  \E d \in Int : InLoop(v, i)' = Shifted(InLoop(v, i), d)
      <4>1. InLoop(v, i)' = InLoop(v, i)
        BY <1>0, <3>2, QueueAppend
      <4> QED
        BY <4>1, SameShifts
    <3>3. ASSUME NEW w \in Workers, Takes(w), Head(loopTasks[w]) = Ready
          PROVE  \E d \in Int : InLoop(v, i)' = Shifted(InLoop(v, i), d)
      <4>1. CASE v # w
        <5>1. InLoop(v, i)' = InLoop(v, i)
          BY <1>0, <3>3, <4>1, QueueTail
        <5> QED
          BY <5>1, SameShifts
      <4>2. CASE v = w
        <5>1. InLoop(w, i)' = Shifted(InLoop(w, i) \ {1}, -1) /\ 1 \notin InLoop(w, i)
          BY <1>0, <3>3, QueueTail
        <5>2. InLoop(w, i) \ {1} = InLoop(w, i)
          BY <5>1
        <5> QED
          BY <4>2, <5>1, <5>2
      <4> QED
        BY <4>1, <4>2
    <3> QED
      BY <3>1, <3>2, <3>3 DEF Quiet
  <2>3. \A w \in Workers : Runs(w, i)' <=> Runs(w, i)
    BY DEF Quiet, Runs
  <2> QED
    BY <2>1, <2>2, <2>3, ShiftsKept
<1>2. HeadJobs' \subseteq HeadJobs
  BY <1>0, HeadJobsIdle DEF Quiet
<1>3. \A j \in QueueJobs' : j \in QueueJobs
  <2>0. \A j \in QueueJobs' : j # Ready
    BY SequenceAssumption DEF QueueJobs, JobType
  <2>1. CASE loopTasks' = loopTasks
    BY <2>1 DEF QueueJobs
  <2>2. ASSUME NEW w \in Workers, Appends(w, Ready) PROVE \A j \in QueueJobs' : j \in QueueJobs
    BY <1>0, <2>0, <2>2, QueueJobsAfter
  <2>3. ASSUME NEW w \in Workers, Takes(w) PROVE \A j \in QueueJobs' : j \in QueueJobs
    BY <1>0, <2>3, QueueJobsAfter
  <2> QED
    BY <2>1, <2>2, <2>3 DEF Quiet
<1>4. RunJobs' \subseteq RunJobs
  BY DEF Quiet, RunJobs
<1> QED
  BY <1>1, <1>2, <1>3, <1>4, PoolMoves DEF Quiet

(* Steps in which thread t goes on with the task it has in hand.           *)
LEMMA HandOverStep ==
  ASSUME TypeOK, TypeOK', RunInv, NEW t \in Threads, NEW x \in StepType,
         Replaces(t, <<x>>), \A u \in Threads : u # t => agenda'[u] = agenda[u],
         \A i \in Ids : About(x, i) <=> About(agenda[t][1], i),
         x.op = "submit" => InputRight(x.x),
         x.op = "post" => InputRight(x.x.j),
         UNCHANGED <<loopVars, graphVars, runVars>>
  PROVE  RunInv'
<1>0. AgendaType /\ AgendaType'
  BY DEF TypeOK
<1>1. ASSUME NEW i \in Ids PROVE Kept(i)
  <2>1. ASSUME NEW u \in Threads PROVE InAgenda(u, i)' = InAgenda(u, i)
    BY <1>0, HandedOn, AgendaSame
  <2>2. \A w \in Workers : InLoop(w, i)' = InLoop(w, i) /\ (Runs(w, i)' <=> Runs(w, i))
    BY DEF loopVars, InLoop, Runs
  <2> QED
    BY <2>1, <2>2, SameShifts, ShiftsKept
<1>2. ASSUME NEW j \in HeadJobs' PROVE j \in HeadJobs \/ InputRight(j)
  <2>1. Steps(<<x>>) /\ <<x>>[1] = x
    BY OneStep
  <2> QED
    BY <1>0, <1>2, <2>1, HeadJobsAfter
<1>3. QueueJobs' = QueueJobs /\ RunJobs' = RunJobs
  BY DEF loopVars, QueueJobs, RunJobs
<1> QED
  BY <1>1, <1>2, <1>3, PoolMoves
-----------------------------------------------------------------------------
(* The steps one by one.                                                   *)

(* A task that is at one place is a scheduled one of a sequence that runs. *)
LEMMA PlacedIs ==
  ASSUME Placed, NEW i \in Ids, Places(i) # {}
  PROVE  m_running /\ i \in scheduled /\ i \notin done /\ \E p : Places(i) = {p}
BY DEF Placed

LEMMA JobPlaced ==
  ASSUME TypeOK, NEW j \in HeadJobs \cup QueueJobs \cup RunJobs
  PROVE  Places(j.id) # {}
<1>0. AgendaType /\ LoopType
  BY DEF TypeOK
<1>1. ASSUME j \in HeadJobs PROVE Places(j.id) # {}
  <2>1. PICK t \in Threads : \/ At(t, "submit") /\ Arg(t) = j
                             \/ At(t, "post") /\ Arg(t).j = j
    BY <1>1 DEF HeadJobs
  <2>2. agenda[t] # <<>> /\ About(agenda[t][1], j.id)
    BY <1>0, <2>1, AtIs DEF About
  <2>3. 1 \in 1 .. Len(agenda[t])
    BY <1>0, <2>2, AtHead
  <2>4. 1 \in InAgenda(t, j.id)
    BY <1>0, <2>2, <2>3, InAgendaIs DEF AboutIn
  <2> QED
    BY <2>4, PlacesAre
<1>2. ASSUME j \in QueueJobs PROVE Places(j.id) # {}
  <2>1. PICK w \in Workers : \E k \in 1 .. Len(loopTasks[w]) : loopTasks[w][k] = j
    BY <1>2 DEF QueueJobs
  <2>2. PICK k \in 1 .. Len(loopTasks[w]) : loopTasks[w][k] = j
    BY <2>1
  <2>3. j # Ready /\ DOMAIN loopTasks[w] = 1 .. Len(loopTasks[w])
    BY <1>0, <1>2, SequenceAssumption DEF LoopType, QueueJobs, JobType
  <2>4. k \in InLoop(w, j.id)
    BY <2>2, <2>3 DEF InLoop
  <2> QED
    BY <2>4, PlacesAre
<1>3. ASSUME j \in RunJobs PROVE Places(j.id) # {}
  <2>1. PICK w \in Workers : Runs(w, j.id)
    BY <1>3 DEF RunJobs, Runs
  <2> QED
    BY <2>1, PlacesAre
<1> QED
  BY <1>1, <1>2, <1>3

LEMMA HeadIsPlaced ==
  ASSUME TypeOK, Placed, NEW t \in Threads, agenda[t] # <<>>,
         NEW i \in Ids, About(agenda[t][1], i)
  PROVE  /\ m_running /\ i \in scheduled /\ i \notin done /\ \E p : Places(i) = {p}
         /\ 1 \in InAgenda(t, i)
<1>1. Len(agenda[t]) \in Nat /\ Len(agenda[t]) >= 1
  BY AtHead DEF TypeOK
<1>2. 1 \in 1 .. Len(agenda[t])
  BY <1>1
<1>3. 1 \in InAgenda(t, i)
  BY <1>2, InAgendaIs DEF TypeOK, AboutIn
<1>4. <<t, "agenda", 1>> \in Places(i)
  BY <1>3, PlacesAre
<1> QED
  BY <1>3, <1>4, PlacedIs

LEMMA ScheduleTaskRuns ==
  ASSUME TypeOK, TypeOK', RunInv, NEW t \in Threads, ScheduleTask(t)
  PROVE  RunInv'
<1> USE DEF poolVars, loopVars, graphVars, runVars
<1>1. /\ At(t, "schedule") /\ agenda[t] # <<>> /\ Arg(t) \in Ids
      /\ agenda[t][1].op = "schedule" /\ Arg(t) = agenda[t][1].x
  BY AtIs DEF TypeOK, ScheduleTask
<1> DEFINE j == [id |-> Arg(t), input |-> UNION {output[d] : d \in Dependencies(Arg(t))}]
           x == Step("submit", j)
<1>2. m_running
  BY <1>1, HeadIsPlaced DEF About, RunInv
<1>3. j \in JobType /\ j.id = Arg(t) /\ InputRight(j)
  <2>1. \A d \in Dependencies(Arg(t)) : output[d] \in SUBSET Ids
    BY TaskSets DEF TypeOK, GraphType
  <2>2. UNION {output[d] : d \in Dependencies(Arg(t))} \in SUBSET Ids
    BY <2>1
  <2> QED
    BY <1>1, <2>2 DEF JobType, InputRight
<1>4. Then(t, <<x>>) /\ UNCHANGED <<loopVars, graphVars, runVars>>
  BY <1>2 DEF ScheduleTask
<1> HIDE DEF j
<1>5. x \in StepType /\ x.op = "submit" /\ x.x = j
  BY <1>3, StepsAre DEF Step
<1> HIDE DEF x
<1>6. \A i \in Ids : About(x, i) <=> About(agenda[t][1], i)
  BY <1>1, <1>3, <1>5 DEF About
<1>7. Replaces(t, <<x>>) /\ \A u \in Threads : u # t => agenda'[u] = agenda[u]
  BY <1>1, <1>4, <1>5, OneStep, ThenMoves DEF TypeOK
<1> QED
  BY <1>3, <1>4, <1>5, <1>6, <1>7, HandOverStep

LEMMA SubmitRuns ==
  ASSUME TypeOK, TypeOK', RunInv, NEW t \in Threads, Submit(t) \/ SubmitRefused(t)
  PROVE  RunInv'
<1> USE DEF poolVars, loopVars, graphVars, runVars
<1>1. /\ At(t, "submit") /\ agenda[t] # <<>> /\ Arg(t) \in JobType
      /\ agenda[t][1].op = "submit" /\ Arg(t) = agenda[t][1].x
  BY AtIs DEF TypeOK, Submit, SubmitRefused
<1>2. UNCHANGED <<loopVars, graphVars, runVars>>
  BY DEF Submit, SubmitRefused, StartJob
<1>3. CASE Submit(t)
  <2> DEFINE w == WorkerSeq[(m_nextWorker % Len(WorkerSeq)) + 1]
             x == Step("post", [w |-> w, j |-> Arg(t)])
  <2>1. Then(t, <<x>>)
    BY <1>3 DEF Submit, StartJob
  <2>2. w \in Workers
    BY WorkersInARow DEF TypeOK, PoolType
  <2> HIDE DEF w
  <2>3. x \in StepType /\ x.op = "post" /\ x.x.j = Arg(t)
    BY <1>1, <2>2, StepsAre DEF Step
  <2> HIDE DEF x
  <2>4. InputRight(x.x.j)
    <3>1. Arg(t) \in HeadJobs
      BY <1>1 DEF HeadJobs
    <3> QED
      BY <2>3, <3>1 DEF RunInv, InputsRight
  <2>5. \A i \in Ids : About(x, i) <=> About(agenda[t][1], i)
    BY <1>1, <2>3 DEF About
  <2>6. Replaces(t, <<x>>) /\ \A u \in Threads : u # t => agenda'[u] = agenda[u]
    BY <1>1, <2>1, <2>3, OneStep, ThenMoves DEF TypeOK
  <2> QED
    BY <1>2, <2>3, <2>4, <2>5, <2>6, HandOverStep
<1>4. CASE SubmitRefused(t)
  <2> DEFINE x == Step("finish", [id |-> Arg(t).id, output |-> {}])
  <2>1. Then(t, <<x>>)
    BY <1>4 DEF SubmitRefused
  <2>2. Arg(t).id \in Ids /\ {} \in SUBSET Ids
    BY <1>1 DEF JobType
  <2>3. x \in StepType /\ x.op = "finish" /\ x.x.id = Arg(t).id
    BY <2>2, StepsAre DEF Step
  <2> HIDE DEF x
  <2>4. \A i \in Ids : About(x, i) <=> About(agenda[t][1], i)
    BY <1>1, <2>3 DEF About
  <2>5. Replaces(t, <<x>>) /\ \A u \in Threads : u # t => agenda'[u] = agenda[u]
    BY <1>1, <2>1, <2>3, OneStep, ThenMoves DEF TypeOK
  <2> QED
    BY <1>2, <2>3, <2>4, <2>5, HandOverStep
<1> QED
  BY <1>3, <1>4

LEMMA PostRuns ==
  ASSUME TypeOK, TypeOK', RunInv, NEW t \in Threads, Post(t),
         UNCHANGED <<graphVars, runVars>>
  PROVE  RunInv'
<1> USE DEF poolVars
<1>0. AgendaType /\ AgendaType' /\ LoopType /\ LoopType' /\ Placed
  BY DEF TypeOK, RunInv
<1>1. /\ At(t, "post") /\ agenda[t] # <<>> /\ Arg(t) \in [w : Workers, j : JobType]
      /\ agenda[t][1].op = "post" /\ Arg(t) = agenda[t][1].x
  BY <1>0, AtIs DEF Post
<1>2. PICK w \in Workers, j \in JobType : w = Arg(t).w /\ j = Arg(t).j
  BY <1>1
<1>3. j.id \in Ids /\ j # Ready
  BY SequenceAssumption DEF JobType
<1>4. /\ Appends(w, j) /\ Then(t, <<>>) /\ wpc' = wpc /\ cur' = cur
  BY <1>2 DEF Post, Appends
<1>5. Replaces(t, <<>>) /\ \A u \in Threads : u # t => agenda'[u] = agenda[u]
  BY <1>0, <1>1, <1>4, OneStep, ThenMoves
<1>6. \A i : About(agenda[t][1], i) <=> j.id = i
  BY <1>1, <1>2 DEF About
<1>7. ASSUME NEW i
      PROVE  /\ InAgenda(t, i)' = Shifted(InAgenda(t, i) \ {1}, -1)
             /\ \A u \in Threads : u # t => InAgenda(u, i)' = InAgenda(u, i)
             /\ InLoop(w, i)' = InLoop(w, i) \cup (IF j.id = i THEN {Len(loopTasks[w]) + 1} ELSE {})
             /\ \A v \in Workers : v # w => InLoop(v, i)' = InLoop(v, i)
             /\ \A v \in Workers : Runs(v, i)' <=> Runs(v, i)
  <2>1. InAgenda(t, i)' = AboutIn(<<>>, i) \cup Shifted(InAgenda(t, i) \ {1}, Len(<<>>) - 1)
    BY <1>0, <1>5, OneStep, AgendaAfter
  <2>2. AboutIn(<<>>, i) = {} /\ Len(<<>>) - 1 = -1
    BY DEF AboutIn
  <2>3. InAgenda(t, i)' = Shifted(InAgenda(t, i) \ {1}, -1)
    BY <2>1, <2>2
  <2> QED
    BY <1>0, <1>3, <1>4, <1>5, <2>3, QueueAppend, AgendaSame DEF Runs
<1>8. ASSUME NEW i \in Ids PROVE Kept(i)
  <2>1. CASE i = j.id
    <3>1. (\E p : Places(i) = {p}) /\ 1 \in InAgenda(t, i)
      BY <1>0, <1>1, <1>6, <2>1, HeadIsPlaced
    <3>2. /\ InAgenda(t, i) = {1} /\ \A u \in Threads : u # t => InAgenda(u, i) = {}
          /\ \A v \in Workers : InLoop(v, i) = {} /\ ~Runs(v, i)
      BY <3>1, AtOneAgenda
    <3>3. InAgenda(t, i)' = {}
      BY <1>7, <3>2 DEF Shifted
    <3>4. /\ \A u \in Threads : InAgenda(u, i)' = {}
          /\ InLoop(w, i)' = {Len(loopTasks[w]) + 1}
          /\ \A v \in Workers : v # w => InLoop(v, i)' = {}
          /\ \A v \in Workers : ~Runs(v, i)'
      BY <1>7, <2>1, <3>2, <3>3
    <3>5. Places(i)' = {<<w, "queue", Len(loopTasks[w]) + 1>>}
      BY <3>4, QueueNext
    <3>6. Places(i) # {}
      BY <3>1
    <3> QED
      BY <3>5, <3>6 DEF Kept
  <2>2. CASE i # j.id
    <3>1. 1 \notin InAgenda(t, i)
      BY <1>0, <1>6, <2>2, InAgendaIs DEF AboutIn
    <3>2. InAgenda(t, i)' = Shifted(InAgenda(t, i), -1)
      <4>1. InAgenda(t, i) \ {1} = InAgenda(t, i)
        BY <3>1
      <4> QED
        BY <1>7, <4>1
    <3>3. ASSUME NEW u \in Threads
          PROVE  \E d \in Int : InAgenda(u, i)' = Shifted(InAgenda(u, i), d)
      <4>1. -1 \in Int
        OBVIOUS
      <4>2. CASE u = t
        BY <3>2, <4>1, <4>2
      <4>3. CASE u # t
        BY <1>7, <4>3, SameShifts
      <4> QED
        BY <4>2, <4>3
    <3>4. \A v \in Workers : InLoop(v, i)' = InLoop(v, i)
      BY <1>7, <2>2
    <3>5. \A v \in Workers : \E d \in Int : InLoop(v, i)' = Shifted(InLoop(v, i), d)
      BY <3>4, SameShifts
    <3> QED
      BY <1>7, <3>3, <3>5, ShiftsKept
  <2> QED
    BY <2>1, <2>2
<1>9. j \in HeadJobs
  BY <1>1, <1>2 DEF HeadJobs
<1>10. \A r \in HeadJobs' : r \in HeadJobs
  <2>1. Steps(<<>>)
    BY OneStep
  <2> QED
    BY <1>0, <1>5, <2>1, HeadJobsAfter
<1>11. QueueJobs' \subseteq QueueJobs \cup {j}
  BY <1>0, <1>4, QueueJobsAfter
<1>12. RunJobs' = RunJobs
  BY <1>4 DEF RunJobs
<1> QED
  BY <1>8, <1>9, <1>10, <1>11, <1>12, PoolMoves

LEMMA TakeTaskRuns ==
  ASSUME TypeOK, TypeOK', RunInv, NEW w \in Workers, TakeTask(w),
         UNCHANGED <<graphVars, runVars>>
  PROVE  RunInv'
<1>0. AgendaType /\ AgendaType' /\ LoopType /\ LoopType' /\ Placed
  BY DEF TypeOK, RunInv
<1>1. /\ wpc[w] = "drain" /\ loopTasks[w] # <<>> /\ Head(loopTasks[w]) # Ready
      /\ Takes(w) /\ agenda' = agenda
  BY DEF TakeTask, Takes
<1>2. PICK j \in JobType : j = Head(loopTasks[w])
  BY <1>0, <1>1 DEF LoopType
<1>3. /\ wpc'[w] = "run" /\ cur'[w] = j
      /\ \A v \in Workers : v # w => wpc'[v] = wpc[v] /\ cur'[v] = cur[v]
  BY <1>0, <1>2 DEF TakeTask, LoopType
<1>4. j.id \in Ids
  BY DEF JobType
<1>5. ASSUME NEW i
      PROVE  /\ \A t \in Threads : InAgenda(t, i)' = InAgenda(t, i)
             /\ InLoop(w, i)' = Shifted(InLoop(w, i) \ {1}, -1)
             /\ 1 \in InLoop(w, i) <=> j.id = i
             /\ \A v \in Workers : v # w => InLoop(v, i)' = InLoop(v, i)
             /\ ~Runs(w, i) /\ (Runs(w, i)' <=> j.id = i)
             /\ \A v \in Workers : v # w => (Runs(v, i)' <=> Runs(v, i))
  BY <1>0, <1>1, <1>2, <1>3, QueueTail, AgendaSame DEF Runs
<1>6. ASSUME NEW i \in Ids PROVE Kept(i)
  <2>1. CASE i = j.id
    <3>1. 1 \in InLoop(w, i)
      BY <1>5, <2>1
    <3>2. <<w, "queue", 1>> \in Places(i)
      BY <3>1, PlacesAre
    <3>3. \E p : Places(i) = {p}
      BY <1>0, <3>2, PlacedIs
    <3>4. /\ \A u \in Threads : InAgenda(u, i) = {}
          /\ InLoop(w, i) = {1} /\ \A v \in Workers : v # w => InLoop(v, i) = {}
          /\ \A v \in Workers : ~Runs(v, i)
      BY <3>1, <3>3, AtOneQueue
    <3>5. InLoop(w, i)' = {}
      BY <1>5, <3>4 DEF Shifted
    <3>6. /\ Runs(w, i)' /\ \A u \in Threads : InAgenda(u, i)' = {}
          /\ \A v \in Workers : InLoop(v, i)' = {}
          /\ \A v \in Workers : v # w => ~Runs(v, i)'
      BY <1>5, <2>1, <3>4, <3>5
    <3>7. Places(i)' = {<<w, "run", 0>>}
      BY <3>6, RunNext
    <3> QED
      BY <3>2, <3>7 DEF Kept
  <2>2. CASE i # j.id
    <3>1. InLoop(w, i)' = Shifted(InLoop(w, i), -1)
      <4>1. InLoop(w, i) \ {1} = InLoop(w, i)
        BY <1>5, <2>2
      <4> QED
        BY <1>5, <4>1
    <3>2. ASSUME NEW v \in Workers PROVE \E d \in Int : InLoop(v, i)' = Shifted(InLoop(v, i), d)
      <4>1. -1 \in Int
        OBVIOUS
      <4>2. CASE v = w
        BY <3>1, <4>1, <4>2
      <4>3. CASE v # w
        BY <1>5, <4>3, SameShifts
      <4> QED
        BY <4>2, <4>3
    <3>3. \A u \in Threads : \E d \in Int : InAgenda(u, i)' = Shifted(InAgenda(u, i), d)
      BY <1>5, SameShifts
    <3>4. \A v \in Workers : Runs(v, i)' <=> Runs(v, i)
      BY <1>5, <2>2
    <3> QED
      BY <3>2, <3>3, <3>4, ShiftsKept
  <2> QED
    BY <2>1, <2>2
<1>7. HeadJobs' = HeadJobs
  BY <1>1 DEF HeadJobs, At, Arg
<1>8. QueueJobs' \subseteq QueueJobs /\ j \in QueueJobs
  BY <1>0, <1>1, <1>2, QueueJobsAfter
<1>9. RunJobs' \subseteq RunJobs \cup {j}
  BY <1>3 DEF RunJobs
<1> QED
  BY <1>6, <1>7, <1>8, <1>9, PoolMoves

LEMMA ExecuteRuns ==
  ASSUME TypeOK, TypeOK', RunInv, NEW w \in Workers, Execute(w)
  PROVE  RunInv'
<1> USE DEF poolVars, graphVars, runVars
<1>0. AgendaType /\ AgendaType' /\ LoopType /\ LoopType' /\ Placed
  BY DEF TypeOK, RunInv
<1>1. /\ w \in Threads /\ wpc[w] = "run" /\ agenda[w] = <<>> /\ cur[w] \in JobType
      /\ loopTasks' = loopTasks /\ cur' = cur
  BY <1>0 DEF Threads, Execute, LoopType, AgendaType
<1>2. PICK i0 \in Ids : i0 = cur[w].id
  BY <1>1 DEF JobType
<1>3. PICK o \in SUBSET Ids : Call(w, <<Step("finish", [id |-> i0, output |-> o])>>)
  BY <1>2 DEF Execute
<1>4. wpc'[w] = "ran" /\ \A v \in Workers : v # w => wpc'[v] = wpc[v]
  BY <1>0 DEF Execute, LoopType
<1> DEFINE x == Step("finish", [id |-> i0, output |-> o])
<1>5. x \in StepType /\ x.op = "finish" /\ x.x.id = i0
  BY StepsAre DEF Step
<1>6. Call(w, <<x>>)
  BY <1>3
<1> HIDE DEF x
<1>7. Begins(w, <<x>>) /\ \A u \in Threads : u # w => agenda'[u] = agenda[u]
  BY <1>0, <1>1, <1>4, <1>5, <1>6, OneStep, CallMoves
<1>8. ASSUME NEW i
      PROVE  /\ InAgenda(w, i) = {} /\ InAgenda(w, i)' = IF i = i0 THEN {1} ELSE {}
             /\ \A u \in Threads : u # w => InAgenda(u, i)' = InAgenda(u, i)
             /\ \A v \in Workers : InLoop(v, i)' = InLoop(v, i)
             /\ Runs(w, i) <=> i = i0
             /\ ~Runs(w, i)' /\ \A v \in Workers : v # w => (Runs(v, i)' <=> Runs(v, i))
  <2>1. AboutIn(<<x>>, i) = IF i = i0 THEN {1} ELSE {}
    <3>1. Len(<<x>>) = 1 /\ <<x>>[1] = x
      OBVIOUS
    <3> QED
      BY <1>5, <3>1 DEF AboutIn, About
  <2>2. InAgenda(w, i) = {} /\ InAgenda(w, i)' = AboutIn(<<x>>, i)
    BY <1>0, <1>1, <1>7, AgendaBegun
  <2>3. \A v \in Workers : InLoop(v, i)' = InLoop(v, i)
    BY <1>1 DEF InLoop
  <2> QED
    BY <1>1, <1>2, <1>4, <1>7, <2>1, <2>2, <2>3, AgendaSame DEF Runs
<1>9. ASSUME NEW i \in Ids PROVE Kept(i)
  <2>1. CASE i = i0
    <3>1. <<w, "run", 0>> \in Places(i)
      BY <1>8, <2>1, PlacesAre
    <3>2. \E p : Places(i) = {p}
      BY <1>0, <3>1, PlacedIs
    <3>3. /\ \A u \in Threads : InAgenda(u, i) = {}
          /\ \A v \in Workers : InLoop(v, i) = {}
          /\ \A v \in Workers : v # w => ~Runs(v, i)
      BY <1>8, <2>1, <3>2, AtOneRun
    <3>4. /\ InAgenda(w, i)' = {1}
          /\ \A u \in Threads : u # w => InAgenda(u, i)' = {}
          /\ \A v \in Workers : InLoop(v, i)' = {} /\ ~Runs(v, i)'
      BY <1>8, <2>1, <3>3
    <3>5. Places(i)' = {<<w, "agenda", 1>>}
      BY <1>1, <3>4, AgendaNext
    <3> QED
      BY <3>1, <3>5 DEF Kept
  <2>2. CASE i # i0
    <3>1. \A u \in Threads : InAgenda(u, i)' = InAgenda(u, i)
      BY <1>8, <2>2
    <3>2. \A v \in Workers : Runs(v, i)' <=> Runs(v, i)
      BY <1>8, <2>2
    <3> QED
      BY <1>8, <3>1, <3>2, SameShifts, ShiftsKept
  <2> QED
    BY <2>1, <2>2
<1>10. \A j \in HeadJobs' : j \in HeadJobs
  <2>1. Steps(<<x>>) /\ <<x>>[1] = x
    BY <1>5, OneStep
  <2> QED
    BY <1>0, <1>1, <1>5, <1>7, <2>1, HeadJobsAfter
<1>11. QueueJobs' = QueueJobs /\ RunJobs' \subseteq RunJobs
  BY <1>1, <1>4 DEF QueueJobs, RunJobs
<1>12. UNCHANGED <<graphVars, runVars>>
  BY DEF Execute
<1> QED
  BY <1>9, <1>10, <1>11, <1>12, PoolMoves
-----------------------------------------------------------------------------
(* The end of a task, and the start of the sequence.                       *)

(* The steps that hand tasks to scheduleTask() have each task once.        *)
HandsOut(s, ids) ==
  /\ Steps(s) /\ Later(s)
  /\ \A i \in ids : \E k : AboutIn(s, i) = {k}
  /\ \A i : i \notin ids => AboutIn(s, i) = {}

LEMMA AboutSchedule ==
  ASSUME NEW ids \in SUBSET Ids, NEW tail \in {<<>>, <<Step("notify", None)>>}
  PROVE  HandsOut(Schedule(ids) \o tail, ids)
<1> DEFINE s == Schedule(ids)
           r == s \o tail
<1>1. s \in Seq(ScheduleType(ids)) /\ Once(s, ids) /\ Later(s)
  BY ScheduleIs, ScheduleSteps
<1>2. Later(tail) /\ tail \in Seq(StepType) /\ s \in Seq(StepType)
  <2>1. Step("notify", None) \in StepType /\ Step("notify", None).op \in LaterOps
    BY StepsAre DEF Step, LaterOps
  <2>2. Later(tail)
    BY <2>1, OneStep
  <2> HIDE DEF s
  <2> QED
    BY <1>1, <2>2 DEF Later
<1> HIDE DEF s
<1>3. Steps(r) /\ Later(r)
  BY <1>1, <1>2, LaterSteps
<1>4. Len(r) = Len(s) + Len(tail) /\ Len(s) \in Nat /\ Len(tail) \in Nat
  <2>1. Len(r) = Len(s) + Len(tail)
    BY <1>2, ConcatProperties
  <2>2. Len(s) \in Nat /\ Len(tail) \in Nat
    BY <1>2
  <2> QED
    BY <2>1, <2>2
<1>5. \A k \in 1 .. Len(s) + Len(tail) : r[k] = IF k <= Len(s) THEN s[k] ELSE tail[k - Len(s)]
  BY <1>2, ConcatProperties
<1> HIDE DEF r
<1>6. \A k \in 1 .. Len(s) : s[k].op = "schedule" /\ s[k].x \in ids
  <2>1. \A k \in 1 .. Len(s) : s[k] \in ScheduleType(ids)
    BY <1>1
  <2> QED
    BY <2>1 DEF ScheduleType
<1>7. \A k \in 1 .. Len(tail) : tail[k].op = "notify"
  <2>1. CASE tail = <<>>
    BY <2>1
  <2>2. CASE tail = <<Step("notify", None)>>
    <3>1. Len(tail) = 1 /\ tail[1] = Step("notify", None)
      BY <2>2
    <3> QED
      BY <3>1 DEF Step
  <2> QED
    BY <2>1, <2>2
<1>8. ASSUME NEW i PROVE \A k : k \in AboutIn(r, i) <=> k \in 1 .. Len(s) /\ s[k].x = i
  <2> SUFFICES ASSUME NEW k PROVE k \in AboutIn(r, i) <=> k \in 1 .. Len(s) /\ s[k].x = i
    OBVIOUS
  <2>1. CASE k \in 1 .. Len(s)
    <3>1. r[k] = s[k] /\ k \in 1 .. Len(r)
      BY <1>4, <1>5, <2>1
    <3>2. s[k].op = "schedule"
      BY <1>6, <2>1
    <3> QED
      BY <2>1, <3>1, <3>2 DEF AboutIn, About
  <2>2. CASE k \in 1 .. Len(r) /\ k \notin 1 .. Len(s)
    <3>1. k - Len(s) \in 1 .. Len(tail) /\ ~ (k <= Len(s)) /\ k \in 1 .. Len(s) + Len(tail)
      BY <1>4, <2>2
    <3>2. r[k].op = "notify"
      BY <1>5, <1>7, <3>1
    <3> QED
      BY <2>2, <3>2 DEF AboutIn, About
  <2>3. CASE k \notin 1 .. Len(r)
    BY <1>4, <2>3 DEF AboutIn
  <2> QED
    BY <2>1, <2>2, <2>3
<1>9. ASSUME NEW i \in ids PROVE \E k : AboutIn(r, i) = {k}
  <2>1. PICK k \in 1 .. Len(s) : s[k].x = i /\ \A n \in 1 .. Len(s) : s[n].x = i => n = k
    BY <1>1 DEF Once
  <2>2. AboutIn(r, i) = {k}
    BY <1>8, <2>1
  <2> QED
    BY <2>2
<1>10. ASSUME NEW i, i \notin ids PROVE AboutIn(r, i) = {}
  BY <1>6, <1>8, <1>10
<1> QED
  BY <1>3, <1>9, <1>10 DEF HandsOut, r, s

(* The books after a task i has finished.                                  *)
LEMMA Dependence ==
  ASSUME GraphType, NEW i \in Tasks, NEW d \in Tasks
  PROVE  d \in Dependents(i) <=> i \in Dependencies(d)
BY DEF Dependents, Dependencies

Finishes(i) ==
  /\ done' = done \cup {i} /\ scheduled' = scheduled \cup Released(i)
  /\ m_remainingTasks' = m_remainingTasks - 1
  /\ m_running' = (m_remainingTasks # 1)
  /\ pending' = [d \in Ids |-> IF d \in Dependents(i) /\ pending[d] > 0
                               THEN pending[d] - 1 ELSE pending[d]]
  /\ UNCHANGED graphVars

LEMMA BooksAfter ==
  ASSUME TypeOK, TypeOK', Books, m_running, NEW i \in scheduled, i \notin done, Finishes(i)
  PROVE  /\ Books'
         /\ Released(i) \subseteq Tasks \ scheduled
         /\ ~m_running' => Released(i) = {} /\ scheduled \ done = {i}
<1> USE DEF graphVars
<1>0. GraphType /\ GraphType'
  BY DEF TypeOK
<1>1. /\ done \subseteq scheduled /\ scheduled \subseteq Tasks
      /\ m_remainingTasks = taskCount - Cardinality(done)
      /\ \A d \in Tasks : pending[d] = Cardinality(Dependencies(d) \ done)
      /\ \A d \in scheduled : Dependencies(d) \subseteq done
  BY DEF Books
<1>2. i \in Tasks /\ Tasks' = Tasks /\ \A d : Dependencies(d)' = Dependencies(d)
  BY <1>1 DEF Finishes, Tasks, Dependencies
<1>3. /\ IsFiniteSet(done) /\ Cardinality(done) \in Nat
      /\ Cardinality(done \cup {i}) = Cardinality(done) + 1
      /\ done \cup {i} \subseteq Tasks
  <2>1. done \subseteq Tasks
    BY <1>1
  <2> QED
    BY <1>0, <1>2, <2>1, TaskSets, FS_Subset, FS_CardinalityType, FS_AddElement
<1>4. Released(i) \subseteq Tasks \ scheduled
  BY <1>0, TaskSets DEF Released
<1>5. ASSUME NEW d \in Tasks
      PROVE  /\ IsFiniteSet(Dependencies(d) \ done) /\ Cardinality(Dependencies(d) \ done) \in Nat
             /\ i \in Dependencies(d) =>
                  /\ Cardinality(Dependencies(d) \ done) >= 1
                  /\ Cardinality(Dependencies(d) \ (done \cup {i}))
                       = Cardinality(Dependencies(d) \ done) - 1
                  /\ Cardinality(Dependencies(d) \ done) <= 1 => Dependencies(d) \ done = {i}
             /\ i \notin Dependencies(d) => Dependencies(d) \ (done \cup {i}) = Dependencies(d) \ done
  <2> DEFINE D == Dependencies(d) \ done
  <2>1. IsFiniteSet(D) /\ Cardinality(D) \in Nat
    <3>1. IsFiniteSet(Dependencies(d)) /\ D \subseteq Dependencies(d)
      BY <1>0, TaskSets
    <3> QED
      BY <3>1, FS_Subset, FS_CardinalityType
  <2>2. ASSUME i \in Dependencies(d)
        PROVE  /\ Cardinality(D) >= 1
               /\ Cardinality(D \ {i}) = Cardinality(D) - 1
               /\ Dependencies(d) \ (done \cup {i}) = D \ {i}
               /\ Cardinality(D) <= 1 => D = {i}
    <3>1. i \in D
      BY <2>2
    <3> HIDE DEF D
    <3>2. Cardinality(D \ {i}) = Cardinality(D) - 1 /\ IsFiniteSet(D \ {i})
      BY <2>1, <3>1, FS_RemoveElement
    <3>3. Cardinality(D \ {i}) \in Nat
      BY <3>2, FS_CardinalityType
    <3>4. Cardinality(D) >= 1
      BY <2>1, <3>2, <3>3
    <3>5. ASSUME Cardinality(D) <= 1 PROVE D = {i}
      <4>1. Cardinality(D \ {i}) = 0
        BY <2>1, <3>2, <3>3, <3>5
      <4>2. D \ {i} = {}
        BY <3>2, <4>1, FS_EmptySet
      <4> QED
        BY <3>1, <4>2
    <3>6. Dependencies(d) \ (done \cup {i}) = D \ {i}
      BY DEF D
    <3> QED
      BY <3>2, <3>4, <3>5, <3>6
  <2> QED
    BY <2>1, <2>2
<1>6. \A d \in Tasks : pending'[d] = Cardinality(Dependencies(d) \ (done \cup {i}))
  <2> SUFFICES ASSUME NEW d \in Tasks
               PROVE  pending'[d] = Cardinality(Dependencies(d) \ (done \cup {i}))
    OBVIOUS
  <2>1. d \in Ids
    BY <1>0, TaskSets
  <2>2. pending'[d] = IF i \in Dependencies(d) /\ pending[d] > 0 THEN pending[d] - 1 ELSE pending[d]
    BY <1>0, <1>2, <2>1, Dependence DEF Finishes
  <2>3. CASE i \in Dependencies(d)
    <3>1. pending[d] = Cardinality(Dependencies(d) \ done) /\ pending[d] \in Nat /\ pending[d] >= 1
      BY <1>1, <1>5, <2>3
    <3>2. pending'[d] = pending[d] - 1
      BY <2>2, <2>3, <3>1
    <3> QED
      BY <1>5, <2>3, <3>1, <3>2
  <2>4. CASE i \notin Dependencies(d)
    BY <1>1, <1>5, <2>2, <2>4
  <2> QED
    BY <2>3, <2>4
<1>7. \A d \in scheduled \cup Released(i) : Dependencies(d) \subseteq done \cup {i}
  <2>1. ASSUME NEW d \in scheduled PROVE Dependencies(d) \subseteq done \cup {i}
    BY <1>1
  <2>2. ASSUME NEW d \in Released(i) PROVE Dependencies(d) \subseteq done \cup {i}
    <3>1. d \in Tasks /\ i \in Dependencies(d) /\ pending[d] <= 1
      BY <1>0, <1>2, <1>4, Dependence DEF Released
    <3>2. Dependencies(d) \ done = {i}
      BY <1>1, <1>5, <3>1
    <3> QED
      BY <3>2
  <2> QED
    BY <2>1, <2>2
<1>8. m_remainingTasks' = taskCount - Cardinality(done \cup {i})
  <2>1. taskCount \in Nat
    BY <1>0, TaskSets
  <2> QED
    BY <1>1, <1>3, <2>1 DEF Finishes
<1>9. Books'
  <2>1. /\ done' = done \cup {i} /\ scheduled' = scheduled \cup Released(i)
        /\ taskCount' = taskCount
    BY DEF Finishes
  <2>2. done' \subseteq scheduled' /\ scheduled' \subseteq Tasks'
    BY <1>1, <1>2, <1>4, <2>1
  <2> QED
    BY <1>2, <1>6, <1>7, <1>8, <2>1, <2>2 DEF Books
<1>10. ASSUME ~m_running' PROVE Released(i) = {} /\ scheduled \ done = {i}
  <2>1. m_remainingTasks = 1 /\ taskCount \in Nat
    BY <1>0, <1>10, TaskSets DEF Finishes
  <2>2. Cardinality(done \cup {i}) = Cardinality(Tasks)
    BY <1>0, <1>1, <1>3, <2>1, TaskSets
  <2>3. done \cup {i} = Tasks
    BY <1>0, <1>3, <2>2, TaskSets, FS_Subset
  <2> QED
    BY <1>1, <1>4, <2>3
<1> QED
  BY <1>4, <1>9, <1>10

LEMMA FinishRuns ==
  ASSUME TypeOK, TypeOK', RunInv, NEW t \in Threads, OnTaskFinished(t)
  PROVE  RunInv'
<1> USE DEF poolVars, loopVars, graphVars
<1>0. AgendaType /\ AgendaType' /\ LoopType /\ LoopType' /\ GraphType /\ Placed /\ Books
  BY DEF TypeOK, RunInv
<1>1. /\ At(t, "finish") /\ agenda[t] # <<>> /\ Arg(t).id \in Ids
      /\ agenda[t][1].op = "finish" /\ Arg(t) = agenda[t][1].x
  BY <1>0, AtIs DEF OnTaskFinished
<1>2. PICK i0 \in Ids : i0 = Arg(t).id
  BY <1>1
<1>3. \A i : About(agenda[t][1], i) <=> i = i0
  BY <1>1, <1>2 DEF About
<1>4. /\ m_running /\ i0 \in scheduled /\ i0 \notin done
      /\ \E p : Places(i0) = {p}
      /\ 1 \in InAgenda(t, i0)
  BY <1>0, <1>1, <1>3, HeadIsPlaced
<1> DEFINE ids == Released(i0)
           tail == IF m_remainingTasks = 1 THEN <<Step("notify", None)>> ELSE <<>>
           s == Schedule(ids) \o tail
<1>5. /\ Finishes(i0) /\ Then(t, s)
      /\ \E o : output' = [output EXCEPT ![i0] = o]
      /\ UNCHANGED <<loopTasks, loopStop, wpc, cur, deps, taskCount>>
  BY <1>2 DEF OnTaskFinished, Finishes
<1>6. /\ Books' /\ ids \subseteq Tasks \ scheduled
      /\ ~m_running' => ids = {} /\ scheduled \ done = {i0}
  BY <1>0, <1>4, <1>5, BooksAfter
<1>7. ids \in SUBSET Ids /\ tail \in {<<>>, <<Step("notify", None)>>}
  BY <1>0, <1>6, TaskSets
<1> HIDE DEF tail, ids
<1>8. HandsOut(s, ids)
  BY <1>7, AboutSchedule
<1> HIDE DEF s
<1> USE DEF HandsOut
<1>9. Replaces(t, s) /\ \A u \in Threads : u # t => agenda'[u] = agenda[u]
  BY <1>0, <1>1, <1>5, <1>8, ThenMoves
<1>10. ASSUME NEW i
       PROVE  /\ InAgenda(t, i)' = AboutIn(s, i) \cup Shifted(InAgenda(t, i) \ {1}, Len(s) - 1)
              /\ 1 \in InAgenda(t, i) <=> i = i0
              /\ \A u \in Threads : u # t => InAgenda(u, i)' = InAgenda(u, i)
              /\ \A w \in Workers : InLoop(w, i)' = InLoop(w, i) /\ (Runs(w, i)' <=> Runs(w, i))
  <2>1. InAgenda(t, i)' = AboutIn(s, i) \cup Shifted(InAgenda(t, i) \ {1}, Len(s) - 1)
    BY <1>0, <1>8, <1>9, AgendaAfter
  <2>2. 1 \in InAgenda(t, i) <=> i = i0
    BY <1>0, <1>3, <1>4, InAgendaIs DEF AboutIn
  <2>3. \A w \in Workers : InLoop(w, i)' = InLoop(w, i) /\ (Runs(w, i)' <=> Runs(w, i))
    BY <1>5 DEF InLoop, Runs
  <2> QED
    BY <1>9, <2>1, <2>2, <2>3, AgendaSame
<1>11. Places(i0)' = {}
  <2>1. /\ InAgenda(t, i0) = {1} /\ \A u \in Threads : u # t => InAgenda(u, i0) = {}
        /\ \A w \in Workers : InLoop(w, i0) = {} /\ ~Runs(w, i0)
    BY <1>4, AtOneAgenda
  <2>2. AboutIn(s, i0) = {}
    BY <1>4, <1>6, <1>8 DEF ids
  <2>3. InAgenda(t, i0)' = {}
    <3>1. Shifted(InAgenda(t, i0) \ {1}, Len(s) - 1) = {}
      BY <2>1 DEF Shifted
    <3> QED
      BY <1>10, <2>2, <3>1
  <2> QED
    BY <1>10, <2>1, <2>3, NowhereNext
<1>12. ASSUME NEW i \in ids PROVE \E p : Places(i)' = {p}
  <2>1. i \in Ids /\ i \notin scheduled /\ i # i0
    BY <1>4, <1>6, <1>7, <1>12 DEF ids
  <2>2. Places(i) = {}
    BY <1>0, <2>1 DEF Placed
  <2>3. /\ \A u \in Threads : InAgenda(u, i) = {}
        /\ \A w \in Workers : InLoop(w, i) = {} /\ ~Runs(w, i)
    BY <2>2, NowhereIs
  <2>4. PICK k : AboutIn(s, i) = {k}
    BY <1>8, <1>12
  <2>5. InAgenda(t, i)' = {k}
    <3>1. Shifted(InAgenda(t, i) \ {1}, Len(s) - 1) = {}
      BY <2>3 DEF Shifted
    <3> QED
      BY <1>10, <2>4, <3>1
  <2>6. /\ \A u \in Threads : u # t => InAgenda(u, i)' = {}
        /\ \A w \in Workers : InLoop(w, i)' = {} /\ ~Runs(w, i)'
    BY <1>10, <2>3
  <2>7. Places(i)' = {<<t, "agenda", k>>}
    BY <2>5, <2>6, AgendaNext
  <2> QED
    BY <2>7
<1>13. ASSUME NEW i, i # i0, i \notin ids PROVE Kept(i)
  <2>1. AboutIn(s, i) = {} /\ 1 \notin InAgenda(t, i)
    BY <1>8, <1>10, <1>13
  <2>2. InAgenda(t, i)' = Shifted(InAgenda(t, i), Len(s) - 1) /\ Len(s) - 1 \in Int
    <3>1. InAgenda(t, i) \ {1} = InAgenda(t, i)
      BY <2>1
    <3>2. InAgenda(t, i)' = Shifted(InAgenda(t, i), Len(s) - 1)
      BY <1>10, <2>1, <3>1
    <3>3. Len(s) - 1 \in Int
      BY <1>8 DEF Steps
    <3> QED
      BY <3>2, <3>3
  <2>3. ASSUME NEW u \in Threads
        PROVE  \E d \in Int : InAgenda(u, i)' = Shifted(InAgenda(u, i), d)
    <3>1. CASE u = t
      BY <2>2, <3>1
    <3>2. CASE u # t
      BY <1>10, <3>2, SameShifts
    <3> QED
      BY <3>1, <3>2
  <2> QED
    BY <1>10, <2>3, SameShifts, ShiftsKept
<1>14. Placed'
  <2>1. done' = done \cup {i0} /\ scheduled' = scheduled \cup ids
    BY <1>5 DEF Finishes, ids
  <2>2. \A i \in ids : i \notin scheduled /\ i \notin done
    BY <1>0, <1>6 DEF ids, Books
  <2>3. ASSUME NEW i \in Ids
        PROVE  /\ m_running' /\ i \in scheduled' \ done' => \E p : Places(i)' = {p}
               /\ ~ (m_running' /\ i \in scheduled' \ done') => Places(i)' = {}
    <3>1. CASE i = i0
      BY <1>11, <2>1, <3>1
    <3>2. CASE i \in ids
      BY <1>4, <1>6, <1>12, <2>1, <2>2, <3>2 DEF ids
    <3>3. CASE i # i0 /\ i \notin ids
      <4>1. i \in scheduled' \ done' <=> i \in scheduled \ done
        BY <2>1, <3>3
      <4>2. Kept(i)
        BY <1>13, <3>3
      <4>3. CASE i \in scheduled \ done
        <5>1. m_running'
          BY <1>6, <3>3, <4>3
        <5> QED
          BY <1>0, <1>4, <4>1, <4>2, <4>3, <5>1 DEF Placed, Kept
      <4>4. CASE i \notin scheduled \ done
        BY <1>0, <4>1, <4>2, <4>4 DEF Placed, Kept
      <4> QED
        BY <4>3, <4>4
    <3> QED
      BY <3>1, <3>2, <3>3
  <2> QED
    BY <2>3 DEF Placed, Ids
<1>15. InputsRight'
  <2>1. ASSUME NEW j \in HeadJobs' PROVE j \in HeadJobs
    <3>1. s # <<>> => s[1].op \in LaterOps
      <4>1. s # <<>> => 1 \in 1 .. Len(s)
        BY <1>8 DEF Later
      <4> QED
        BY <1>8, <4>1 DEF Later
    <3> QED
      BY <1>0, <1>8, <1>9, <2>1, <3>1, HeadJobsAfter DEF LaterOps
  <2>2. QueueJobs' = QueueJobs /\ RunJobs' = RunJobs
    BY <1>5 DEF QueueJobs, RunJobs
  <2>3. ASSUME NEW j \in HeadJobs \cup QueueJobs \cup RunJobs PROVE InputRight(j)'
    <3>1. InputRight(j) /\ j \in JobType /\ j.id \in Ids
      BY <2>3 DEF RunInv, InputsRight, HeadJobs, QueueJobs, RunJobs, JobType
    <3>2. Places(j.id) # {}
      BY <1>0, <2>3, JobPlaced
    <3>3. Dependencies(j.id) \subseteq done
      BY <1>0, <3>1, <3>2, PlacedIs DEF Books
    <3>4. \A d \in Dependencies(j.id) : output'[d] = output[d]
      BY <1>0, <1>4, <1>5, <3>3 DEF GraphType
    <3>5. Dependencies(j.id)' = Dependencies(j.id)
      BY <1>5 DEF Dependencies, Tasks
    <3>6. {output'[d] : d \in Dependencies(j.id)} = {output[d] : d \in Dependencies(j.id)}
      BY <3>4
    <3> QED
      BY <3>1, <3>5, <3>6 DEF InputRight
  <2> QED
    BY <2>1, <2>2, <2>3 DEF InputsRight
<1> QED
  BY <1>6, <1>14, <1>15 DEF RunInv

(* Before the sequence runs no task is anywhere.                           *)
LEMMA NotRunning ==
  ASSUME TypeOK, RunInv, ~m_running
  PROVE  /\ \A i \in Ids : Places(i) = {}
         /\ HeadJobs \cup QueueJobs \cup RunJobs = {}
<1>1. \A i \in Ids : Places(i) = {}
  BY DEF RunInv, Placed
<1>2. ASSUME NEW j \in HeadJobs \cup QueueJobs \cup RunJobs PROVE FALSE
  <2>1. j.id \in Ids
    BY <1>2 DEF HeadJobs, QueueJobs, RunJobs, JobType
  <2>2. Places(j.id) # {}
    BY <1>2, JobPlaced DEF TypeOK
  <2> QED
    BY <1>1, <2>1, <2>2
<1> QED
  BY <1>1, <1>2

LEMMA StartRuns ==
  ASSUME TypeOK, TypeOK', RunInv, NEW t \in Clients, Start(t)
  PROVE  RunInv'
<1> USE DEF poolVars, loopVars, graphVars
<1>0. AgendaType /\ AgendaType' /\ GraphType
  BY DEF TypeOK
<1> DEFINE ready == {i \in Tasks : Dependencies(i) = {}}
           s == Schedule(ready) \o <<>>
<1>1. /\ t \in Threads /\ t \notin Workers /\ agenda[t] = <<>> /\ ~m_running
      /\ m_running' = TRUE /\ m_remainingTasks' = taskCount
      /\ pending' = [i \in Ids |-> Cardinality(Dependencies(i))]
      /\ scheduled' = ready /\ done' = {}
      /\ Call(t, Schedule(ready))
      /\ UNCHANGED <<loopTasks, wpc, cur, taskCount, deps>>
  BY SequenceAssumption DEF Start, UserCode, Threads
<1>2. ready \in SUBSET Ids /\ ready \subseteq Tasks
  BY <1>0, TaskSets
<1>3. HandsOut(s, ready)
  <2> HIDE DEF ready
  <2> QED
    BY <1>2, AboutSchedule
<1>4. Call(t, s)
  <2>1. Schedule(ready) \in Seq(StepType)
    BY <1>2, ScheduleSteps DEF Steps
  <2>2. Schedule(ready) \o <<>> = Schedule(ready)
    BY <2>1, ConcatEmptySeq
  <2> QED
    BY <1>1, <2>2
<1> HIDE DEF s
<1> USE DEF HandsOut
<1>5. Begins(t, s) /\ \A u \in Threads : u # t => agenda'[u] = agenda[u]
  BY <1>0, <1>1, <1>3, <1>4, CallMoves
<1>6. ASSUME NEW i \in Ids
      PROVE  /\ InAgenda(t, i)' = AboutIn(s, i)
             /\ \A u \in Threads : u # t => InAgenda(u, i)' = {}
             /\ \A w \in Workers : InLoop(w, i)' = {} /\ ~Runs(w, i)'
  <2>1. /\ \A u \in Threads : InAgenda(u, i) = {}
        /\ \A w \in Workers : InLoop(w, i) = {} /\ ~Runs(w, i)
    BY <1>1, NotRunning, NowhereIs
  <2>2. InAgenda(t, i)' = AboutIn(s, i)
    BY <1>0, <1>1, <1>5, AgendaBegun
  <2>3. \A u \in Threads : u # t => InAgenda(u, i)' = {}
    BY <1>5, <2>1, AgendaSame
  <2>4. \A w \in Workers : InLoop(w, i)' = {} /\ ~Runs(w, i)'
    BY <1>1, <2>1 DEF InLoop, Runs
  <2> QED
    BY <2>2, <2>3, <2>4
<1>7. Placed'
  <2>1. ASSUME NEW i \in Ids, i \in ready PROVE \E p : Places(i)' = {p}
    <3>1. PICK k : AboutIn(s, i) = {k}
      BY <1>3, <2>1
    <3>2. Places(i)' = {<<t, "agenda", k>>}
      BY <1>1, <1>6, <3>1, AgendaNext
    <3> QED
      BY <3>2
  <2>2. ASSUME NEW i \in Ids, i \notin ready PROVE Places(i)' = {}
    <3>1. AboutIn(s, i) = {}
      BY <1>3, <2>2
    <3> QED
      BY <1>6, <3>1, NowhereNext
  <2> HIDE DEF ready
  <2> QED
    BY <1>1, <2>1, <2>2 DEF Placed, Ids
<1>8. Books'
  <2>1. Tasks' = Tasks /\ \A i : Dependencies(i)' = Dependencies(i)
    BY <1>1 DEF Tasks, Dependencies
  <2>2. Cardinality({}) = 0 /\ taskCount \in Nat /\ \A i : Dependencies(i) \ {} = Dependencies(i)
    BY <1>0, FS_EmptySet, TaskSets
  <2>3. m_remainingTasks' = taskCount' - Cardinality(done')
    BY <1>1, <2>2
  <2>4. \A i \in Tasks' : pending'[i] = Cardinality(Dependencies(i)' \ done')
    BY <1>0, <1>1, <2>1, <2>2, TaskSets
  <2>5. \A i \in scheduled' : Dependencies(i)' \subseteq done'
    BY <1>1, <2>1
  <2>6. done' \subseteq scheduled' /\ scheduled' \subseteq Tasks'
    BY <1>1, <1>2, <2>1
  <2> QED
    BY <2>3, <2>4, <2>5, <2>6 DEF Books
<1>9. InputsRight'
  <2>1. HeadJobs \cup QueueJobs \cup RunJobs = {}
    BY <1>1, NotRunning
  <2>2. ASSUME NEW j \in HeadJobs' PROVE FALSE
    <3>1. s # <<>> => s[1].op \in LaterOps
      <4>1. s # <<>> => 1 \in 1 .. Len(s)
        BY <1>3 DEF Later
      <4> QED
        BY <1>3, <4>1 DEF Later
    <3>2. j \notin HeadJobs
      BY <2>1
    <3>3. s # <<>> /\ s[1].op \in {"submit", "post"}
      BY <1>0, <1>1, <1>3, <1>5, <2>2, <3>2, HeadJobsAfter
    <3> QED
      BY <3>1, <3>3 DEF LaterOps
  <2>3. QueueJobs' = QueueJobs /\ RunJobs' = RunJobs
    BY <1>1 DEF QueueJobs, RunJobs
  <2> QED
    BY <2>1, <2>2, <2>3 DEF InputsRight
<1> QED
  BY <1>7, <1>8, <1>9 DEF RunInv

LEMMA WiderInterval ==
  ASSUME NEW m \in Nat, NEW n \in Nat, m <= n
  PROVE  0 .. m - 1 \subseteq 0 .. n - 1
OBVIOUS

LEMMA GraphGrows ==
  ASSUME TypeOK, TypeOK', RunInv, NEW t \in Clients,
         AddTask(t) \/ \E a, b \in Ids : AddDependency(t, a, b)
  PROVE  RunInv'
<1> USE DEF poolVars, loopVars, runVars
<1>1. /\ ~m_running /\ m_running' = m_running
      /\ UNCHANGED <<loopTasks, wpc, cur, agenda, scheduled, done>>
      /\ taskCount' \in {taskCount, taskCount + 1}
  BY DEF AddTask, AddDependency
<1>2. \A i : Places(i)' = Places(i)
  BY <1>1 DEF Places, InAgenda, InLoop
<1>3. Placed'
  BY <1>1, <1>2 DEF RunInv, Placed, Ids
<1>4. Books'
  <2>1. Tasks \subseteq Tasks'
    <3>1. taskCount \in Nat
      BY TaskSets DEF TypeOK
    <3>2. taskCount' \in Nat /\ taskCount <= taskCount'
      BY <1>1, <3>1
    <3> QED
      BY <3>1, <3>2, WiderInterval DEF Tasks
  <2> QED
    BY <1>1, <2>1 DEF RunInv, Books
<1>5. InputsRight'
  <2>1. (HeadJobs \cup QueueJobs \cup RunJobs)' = HeadJobs \cup QueueJobs \cup RunJobs
    BY <1>1 DEF HeadJobs, QueueJobs, RunJobs, At, Arg
  <2> QED
    BY <1>1, <2>1, NotRunning DEF InputsRight
<1> QED
  BY <1>3, <1>4, <1>5 DEF RunInv

LEMMA RunInit == Init => RunInv
<1> SUFFICES ASSUME Init PROVE RunInv
  OBVIOUS
<1>1. /\ ~m_running /\ taskCount = 0 /\ scheduled = {} /\ done = {}
      /\ \A w \in Workers : loopTasks[w] = <<>> /\ wpc[w] = "start"
  BY DEF Init, PoolInit
<1>2. ASSUME NEW t \in Threads, agenda[t] # <<>>
      PROVE  Len(agenda[t]) = 1 /\ agenda[t][1].op = "construct" /\ Head(agenda[t]).op = "construct"
  <2>1. agenda[t] = <<Step("construct", None)>>
    BY <1>2 DEF Init, PoolInit
  <2>2. Step("construct", None).op = "construct"
    BY DEF Step
  <2> QED
    BY <2>1, <2>2
<1>3. ASSUME NEW i PROVE Places(i) = {}
  <2>1. ASSUME NEW t \in Threads PROVE InAgenda(t, i) = {}
    <3>1. CASE agenda[t] = <<>>
      BY <3>1 DEF InAgenda
    <3>2. CASE agenda[t] # <<>>
      <4>1. AgendaType
        BY InitType DEF TypeOK
      <4>0. Len(agenda[t]) = 1
        BY <1>2, <3>2
      <4>2. \A k \in 1 .. Len(agenda[t]) : k = 1
        BY <4>0
      <4>3. \A k \in 1 .. Len(agenda[t]) : ~About(agenda[t][k], i)
        BY <1>2, <3>2, <4>2 DEF About
      <4> QED
        BY <4>1, <4>3, InAgendaIs DEF AboutIn
    <3> QED
      BY <3>1, <3>2
  <2>2. \A w \in Workers : InLoop(w, i) = {} /\ ~Runs(w, i)
    BY <1>1 DEF InLoop, Runs
  <2> QED
    BY <2>1, <2>2, NowhereIs
<1>4. Placed
  BY <1>1, <1>3 DEF Placed
<1>5. Books
  BY <1>1 DEF Books
<1>6. InputsRight
  <2>1. ASSUME NEW j \in HeadJobs \cup QueueJobs \cup RunJobs PROVE FALSE
    BY <1>3, <2>1, InitType, JobPlaced
  <2> QED
    BY <2>1 DEF InputsRight
<1> QED
  BY <1>4, <1>5, <1>6 DEF RunInv

LEMMA QuietPool ==
  ASSUME TypeOK, TypeOK', PoolStep, UNCHANGED <<graphVars, runVars>>,
         ~ \E t \in Threads : Post(t), ~ \E w \in Workers : TakeTask(w)
  PROVE  Quiet
<1> USE DEF loopVars
<1>0. LoopType
  BY DEF TypeOK
<1>1. ASSUME NEW t \in Clients, WaitForDone(t) \/ Shutdown(t) PROVE Quiet
  <2>1. IdleAgendas
    BY <1>1, IdleSteps DEF IdleStep
  <2>2. UNCHANGED loopVars
    BY <1>1 DEF WaitForDone, Shutdown
  <2> QED
    BY <2>1, <2>2 DEF Quiet
<1>2. ASSUME NEW t \in Threads, StopLoop(t) \/ Join(t) PROVE Quiet
  <2>1. IdleAgendas
    BY <1>2, IdleSteps DEF IdleStep
  <2>2. UNCHANGED <<loopTasks, wpc, cur>>
    BY <1>2 DEF StopLoop, Join
  <2> QED
    BY <2>1, <2>2 DEF Quiet
<1>3. ASSUME NEW w \in Workers, WorkerLoop(w) PROVE Quiet
  <2>1. IdleAgendas
    BY <1>3, IdleSteps DEF IdleStep, WorkerLoop
  <2>2. Appends(w, Ready) /\ cur' = cur /\ wpc[w] = "start" /\ wpc' = [wpc EXCEPT ![w] = "drain"]
    BY <1>3 DEF WorkerLoop, Appends
  <2> QED
    BY <1>0, <2>1, <2>2 DEF Quiet, LoopType
<1>4. ASSUME NEW w \in Workers, RunReady(w) PROVE Quiet
  <2>1. IdleAgendas
    BY <1>4, IdleSteps DEF IdleStep
  <2>2. Takes(w) /\ Head(loopTasks[w]) = Ready /\ UNCHANGED <<wpc, cur>>
    BY <1>4 DEF RunReady, Takes
  <2> QED
    BY <2>1, <2>2 DEF Quiet
<1>5. ASSUME NEW w \in Workers, EndTask(w) PROVE Quiet
  <2>1. IdleAgendas
    BY <1>5, IdleSteps DEF IdleStep
  <2>2. /\ loopTasks' = loopTasks /\ wpc[w] = "ran" /\ wpc' = [wpc EXCEPT ![w] = "drain"]
        /\ cur' = [cur EXCEPT ![w] = None]
    BY <1>5 DEF EndTask
  <2> QED
    BY <1>0, <2>1, <2>2 DEF Quiet, LoopType
<1>6. ASSUME NEW w \in Workers, DrainOver(w) \/ Wait(w) PROVE Quiet
  <2>1. IdleAgendas
    BY <1>6, IdleSteps DEF IdleStep, DrainOver, Wait
  <2>2. /\ loopTasks' = loopTasks /\ cur' = cur /\ wpc[w] \in {"drain", "wait"}
        /\ \E pc \in {"wait", "exited", "drain"} : wpc' = [wpc EXCEPT ![w] = pc]
    BY <1>6 DEF DrainOver, Wait
  <2> QED
    BY <1>0, <2>1, <2>2 DEF Quiet, LoopType
<1> QED
  BY <1>1, <1>2, <1>3, <1>4, <1>5, <1>6 DEF PoolStep, ClientStep, ThreadStep, WorkerStep

LEMMA RunStep ==
  ASSUME TypeOK, TypeOK', RunInv, Next
  PROVE  RunInv'
<1>1. ASSUME PoolStep, UNCHANGED <<graphVars, runVars, starts>> PROVE RunInv'
  BY <1>1, PostRuns, TakeTaskRuns, QuietPool, QuietStep
<1>2. ASSUME NEW t \in Threads, NotifyDone(t) \/ WaitSequence(t) PROVE RunInv'
  <2>1. IdleAgendas
    BY <1>2, IdleSteps DEF IdleStep
  <2>2. UNCHANGED <<loopVars, graphVars, runVars>>
    BY <1>2 DEF NotifyDone, WaitSequence
  <2>3. Quiet
    BY <2>1, <2>2 DEF Quiet, loopVars
  <2> QED
    BY <2>3, QuietStep
<1>3. ASSUME NEW w \in Workers, Execute(w) PROVE RunInv'
  BY <1>3, ExecuteRuns
<1>4. ASSUME NEW t \in Threads, ScheduleTask(t) \/ Submit(t) \/ SubmitRefused(t) \/ OnTaskFinished(t)
      PROVE  RunInv'
  BY <1>4, ScheduleTaskRuns, SubmitRuns, FinishRuns
<1>5. ASSUME NEW t \in Clients, AddTask(t) \/ Start(t) \/ \E a, b \in Ids : AddDependency(t, a, b)
      PROVE  RunInv'
  BY <1>5, GraphGrows, StartRuns
<1> QED
  BY <1>1, <1>2, <1>3, <1>4, <1>5 DEF Next, GraphStep

LEMMA RunInvariant == Spec => [](TypeOK /\ RunInv)
<1>1. Init => TypeOK /\ RunInv
  BY InitType, RunInit
<1>2. TypeOK /\ RunInv /\ [Next]_vars => (TypeOK /\ RunInv)'
  <2>1. ASSUME TypeOK, RunInv, Next PROVE (TypeOK /\ RunInv)'
    <3>1. TypeOK'
      BY <2>1, TypeStep
    <3> QED
      BY <2>1, <3>1, RunStep
  <2>2. ASSUME TypeOK, RunInv, UNCHANGED vars PROVE (TypeOK /\ RunInv)'
    <3>1. TypeOK'
      BY <2>2, TypeStep
    <3>2. Placed'
      BY <2>2 DEF vars, poolVars, loopVars, graphVars, runVars, RunInv, Placed, Places, InAgenda, InLoop
    <3>3. Books'
      BY <2>2 DEF vars, graphVars, runVars, RunInv, Books, Tasks, Dependencies
    <3>4. InputsRight'
      <4>1. HeadJobs' = HeadJobs /\ QueueJobs' = QueueJobs /\ RunJobs' = RunJobs
        BY <2>2 DEF vars, loopVars, HeadJobs, QueueJobs, RunJobs, At, Arg
      <4>2. \A j : InputRight(j)' <=> InputRight(j)
        BY <2>2 DEF vars, graphVars, runVars, InputRight, Dependencies, Tasks
      <4> QED
        BY <2>2, <4>1, <4>2 DEF RunInv, InputsRight
    <3> QED
      BY <3>1, <3>2, <3>3, <3>4 DEF RunInv
  <2> QED
    BY <2>1, <2>2
<1> QED
  BY <1>1, <1>2, PTL DEF Spec

-----------------------------------------------------------------------------
(* "dependency must finish before dependent" (AsyncTaskSequence.h:26), for *)
(* every graph, any number of workers and of threads: a task that runs has *)
(* its dependencies done and the values they left, and a task that has     *)
(* been scheduled is in one place until it is done, so that it runs at     *)
(* most once and is not forgotten, in whatever order its dependencies      *)
(* finish and whichever tasks the pool refuses.                            *)
THEOREM RunsOnceAndInOrderCorrect == Spec => []RunsOnceAndInOrder
<1>1. ASSUME TypeOK, RunInv PROVE RunsOnceAndInOrder
  <2>1. ASSUME NEW w \in Workers, wpc[w] = "run"
        PROVE  /\ Dependencies(cur[w].id) \subseteq done
               /\ cur[w].input = UNION {output[d] : d \in Dependencies(cur[w].id)}
    <3>1. cur[w] \in JobType /\ cur[w].id \in Ids
      BY <1>1, <2>1 DEF TypeOK, LoopType, JobType
    <3>2. cur[w] \in RunJobs
      BY <2>1, <3>1 DEF RunJobs
    <3>3. m_running /\ cur[w].id \in scheduled
      BY <1>1, <3>1, <3>2, JobPlaced, PlacedIs DEF RunInv
    <3> QED
      BY <1>1, <3>2, <3>3 DEF RunInv, InputsRight, InputRight, Books
  <2>2. ASSUME NEW i \in Tasks
        PROVE  Cardinality(Places(i)) = (IF m_running /\ i \in scheduled \ done THEN 1 ELSE 0)
    <3>1. i \in Ids
      BY <1>1, TaskSets DEF TypeOK
    <3>2. CASE m_running /\ i \in scheduled \ done
      <4>1. PICK p : Places(i) = {p}
        BY <1>1, <3>1, <3>2 DEF RunInv, Placed
      <4> QED
        BY <3>2, <4>1, FS_Singleton
    <3>3. CASE ~ (m_running /\ i \in scheduled \ done)
      <4>1. Places(i) = {}
        BY <1>1, <3>1, <3>3 DEF RunInv, Placed
      <4> QED
        BY <3>3, <4>1, FS_EmptySet
    <3> QED
      BY <3>2, <3>3
  <2> QED
    BY <2>1, <2>2 DEF RunsOnceAndInOrder
<1> QED
  BY <1>1, RunInvariant, PTL
=============================================================================
