---------------------------- MODULE MCDataWidgets ----------------------------
(***************************************************************************)
(* The components of Database, Snmp, Widgets and Profiler and the settings *)
(* of Core, checked one by one in a single run, as in MCCoreNetwork: part  *)
(* says which of them a behaviour is about, and that one has the variables *)
(* v1, v2, ... for its own. Its constants are given here, with the bounds, *)
(* but for those that a theorem here leaves open: the .cfg gives them.     *)
(***************************************************************************)
EXTENDS Integers, Sequences, SequenceTheorems, WellFoundedInduction, TLAPS

CONSTANTS Checked,     \* the components that are checked
          None,        \* the value of what is absent
          Idle,        \* see TextInputs
          NaN,         \* see TextInputs
          MaxResultRows, MaxOutages,            \* see Database
          TableKeys, TableValues, MaxFailures,  \* see SqlTableModel
          Pages, MaxTabs,                       \* see PagedWidgets
          PopupWindows, PopupBoxes,             \* see Popups
          Buttons,                              \* see RadioButtons
          IntSize, InitialCapacity, Margin, MaxText   \* see TextInputs

\* A result has a number of rows, and no cell is one that SQL cannot write.
ASSUME DataAssumption ==
    /\ MaxResultRows \in Nat
    /\ {"color", "double"} \intersect (TableKeys \union TableValues) = {}

\* A window is no message box, and None is neither.
ASSUME PopupsAssumption ==
    PopupWindows \intersect PopupBoxes = {} /\ None \notin PopupWindows \union PopupBoxes

\* NaN and Idle are no numbers, int holds the numbers typed, a buffer starts
\* with the room that a frame leaves.
ASSUME InputsAssumption ==
    /\ IntSize \in Nat /\ IntSize > 2
    /\ NaN \notin Int /\ Idle \notin Int /\ Idle # NaN
    /\ InitialCapacity \in Nat /\ Margin \in Nat
    /\ InitialCapacity > 0 /\ Margin <= InitialCapacity

VARIABLES part,      \* the component that this behaviour is about
          v1, v2, v3, v4, v5, v6, v7, v8, v9, v10, v11, v12, v13, v14

vars == <<part, v1, v2, v3, v4, v5, v6, v7, v8, v9, v10, v11, v12, v13, v14>>

\* What is in the file when IniParser reads it: nothing, comments and repeated
\* sections, and text that is no ini file.
Line(kind, name, value) == [kind |-> kind, name |-> name, value |-> value]
Section(s) == Line("section", s, "")
Entry(k, v) == Line("entry", k, v)

IniFiles ==
    {<<>>,
     <<Line("comment", "", ""), Section("s"), Entry("k", "a ;b"), Section("t"), Section("s"), Entry("k", "a")>>,
     <<Entry("k", "a"), Line("broken", "", "")>>}

Option(names, flag) == [names |-> names, flag |-> flag]
Argument(form, names, value) == [form |-> form, names |-> names, value |-> value]

\* The second option "a" takes the place of the first.
DeclaredOptions ==
    <<Option(<<"a">>, FALSE), Option(<<"b", "big">>, TRUE), Option(<<"o", "out">>, FALSE), Option(<<"a">>, TRUE)>>

\* --out, --out=v, --out=, -o, -o=, -ab, -ao, --big, --big=v, --nope, -h,
\* --version and a word.
WrittenArguments ==
    {Argument("long", <<"out">>, v) : v \in {None, "v", ""}} \cup
    {Argument("short", <<"o">>, v) : v \in {None, ""}} \cup
    {Argument("short", names, None) : names \in {<<"a", "b">>, <<"a", "o">>, <<"h">>}} \cup
    {Argument("long", <<"big">>, v) : v \in {None, "v"}} \cup
    {Argument("long", <<n>>, None) : n \in {"nope", "version"}} \cup
    {Argument("word", <<>>, None)}

\* A number, a string, and two bytes of an Opaque.
SnmpValues ==
    {[type |-> "Integer32", bytes |-> <<5>>],
     [type |-> "OctetString", bytes |-> <<1, 65>>],
     [type |-> "Opaque", bytes |-> <<18, 52>>]}

-----------------------------------------------------------------------------
(* The databases. What is proved comes first, where the provers have       *)
(* little to look at.                                                      *)

\* A MySQL and an SQLite connection, a query on each, for any bounds. my is v1,
\* lite v2, query v3, the server v4, what is posted v5.
Db == INSTANCE Database WITH
    MaxRows <- MaxResultRows,
    my <- v1, lite <- v2, query <- v3, server <- v4, posted <- v5

(* What holds of zero and of the next holds of all.                        *)
LEMMA SetInduction ==
  ASSUME NEW N \in SUBSET Nat, 0 \in N, \A n \in N : n + 1 \in N
  PROVE  N = Nat
<1> DEFINE T == {n \in Nat : n \notin N}
           Less == {ss \in Nat \X Nat : ss[1] < ss[2]}
<1>1. SUFFICES ASSUME T # {} PROVE FALSE
  OBVIOUS
<1>2. IsWellFoundedOn(Less, Nat)
  BY NatLessThanWellFounded DEF OpToRel
<1>3. T \subseteq Nat
  OBVIOUS
<1> HIDE DEF Less
<1>4. PICK x \in T : \A y \in T : ~ (<<y, x>> \in Less)
  BY <1>1, <1>2, <1>3, WFMin
<1>5. x \in Nat /\ x # 0 /\ x - 1 \in Nat
  BY <1>4
<1>6. x - 1 \in N => x \in N
  BY <1>5
<1>7. x - 1 \in T
  BY <1>4, <1>5, <1>6
<1>8. <<x - 1, x>> \in Less
  BY <1>5 DEF Less
<1> QED
  BY <1>4, <1>7, <1>8

(* A handler leaves the connection watched: what it is given, and whether  *)
(* it configures the timer itself, makes no difference.                    *)
LEMMA DatabaseCloses ==
  ASSUME NEW m, NEW w \in BOOLEAN, Db!MySqlType(m), Db!Watched(m, w), NEW emits \in BOOLEAN
  PROVE  /\ Db!MySqlType(Db!CloseHandle(m, emits)) /\ ~Db!CloseHandle(m, emits).handle
         /\ emits => Db!Watched(Db!CloseHandle(m, emits), w)
         /\ Db!CloseHandle(m, emits).flags = m.flags
         /\ ~m.handle => Db!Watched(Db!CloseHandle(m, emits), w)
BY DEF Db!CloseHandle, Db!MySqlType, Db!Watched, Db!Errors

LEMMA DatabaseConfigures ==
  ASSUME NEW m, NEW w \in BOOLEAN, Db!MySqlType(m), m.told = m.handle
  PROVE  /\ Db!MySqlType(Db!ConfigurePingTimer(m)) /\ Db!Watched(Db!ConfigurePingTimer(m), w)
         /\ Db!ConfigurePingTimer(m).flags = m.flags
BY DEF Db!ConfigurePingTimer, Db!MySqlType, Db!Watched, Db!Errors

LEMMA DatabaseConnects ==
  ASSUME NEW m, NEW w \in BOOLEAN, Db!MySqlType(m), Db!Watched(m, w), ~m.handle
  PROVE  Db!MySqlType(Db!Connect(m)) /\ Db!Watched(Db!Connect(m), w)
<1> DEFINE closed == Db!CloseHandle(m, FALSE)
           up == [closed EXCEPT !.handle = TRUE, !.alive = TRUE, !.err = "NoError", !.told = TRUE]
           down == [closed EXCEPT !.err = "OpenFailed"]
<1>1. Db!MySqlType(closed) /\ ~closed.handle /\ Db!Watched(closed, w)
  BY DatabaseCloses
<1>2. Db!Connect(m) = Db!ConfigurePingTimer(up) \/ Db!Connect(m) = down
  BY DEF Db!Connect
<1> HIDE DEF closed
<1>3. Db!MySqlType(up) /\ up.told = up.handle
  BY <1>1 DEF Db!MySqlType, Db!Errors
<1>4. Db!MySqlType(down) /\ Db!Watched(down, w)
  BY <1>1 DEF Db!MySqlType, Db!Errors, Db!Watched
<1> HIDE DEF up, down
<1> QED
  BY <1>2, <1>3, <1>4, DatabaseConfigures

LEMMA DatabaseOpens ==
  ASSUME NEW m, NEW w \in BOOLEAN, Db!MySqlType(m), Db!Watched(m, w)
  PROVE  Db!MySqlType(Db!OpenMySql(m)) /\ Db!Watched(Db!OpenMySql(m), w)
<1> DEFINE good == [m EXCEPT !.err = "NoError"]
           bad == [m EXCEPT !.err = "OpenFailed"]
<1>1. Db!MySqlType(good) /\ good.told = good.handle
  BY DEF Db!MySqlType, Db!Errors, Db!Watched
<1>2. Db!MySqlType(bad) /\ Db!Watched(bad, w)
  BY DEF Db!MySqlType, Db!Errors, Db!Watched
<1>3. \/ Db!OpenMySql(m) = Db!ConfigurePingTimer(good)
      \/ m.handle /\ Db!OpenMySql(m) = Db!Connect(Db!CloseHandle(bad, TRUE))
      \/ ~m.handle /\ Db!OpenMySql(m) = Db!Connect(m)
  BY DEF Db!OpenMySql, Db!MySqlType
<1> HIDE DEF good, bad
<1> QED
  BY <1>1, <1>2, <1>3, DatabaseCloses, DatabaseConfigures, DatabaseConnects

LEMMA DatabaseClosesAll ==
  ASSUME NEW m, NEW w \in BOOLEAN, Db!MySqlType(m), Db!Watched(m, w)
  PROVE  Db!MySqlType(Db!CloseMySql(m)) /\ Db!Watched(Db!CloseMySql(m), w) /\ ~Db!CloseMySql(m).handle
BY DEF Db!CloseMySql, Db!CloseHandle, Db!MySqlType, Db!Watched, Db!Errors

LEMMA DatabaseLoses ==
  ASSUME NEW m, NEW w \in BOOLEAN, Db!MySqlType(m), Db!Watched(m, w)
  PROVE  Db!MySqlType(Db!HandleConnectionLost(m)) /\ Db!Watched(Db!HandleConnectionLost(m), w)
<1> DEFINE lost == Db!CloseHandle([m EXCEPT !.timer = FALSE], m.handle)
<1>1. Db!MySqlType(lost) /\ Db!Watched(lost, w)
  BY DEF Db!CloseHandle, Db!MySqlType, Db!Watched, Db!Errors
<1>2. Db!HandleConnectionLost(m) = Db!OpenMySql(lost) \/ Db!HandleConnectionLost(m) = lost
  BY DEF Db!HandleConnectionLost
<1> HIDE DEF lost
<1> QED
  BY <1>1, <1>2, DatabaseOpens

LEMMA DatabasePings ==
  ASSUME NEW m, NEW w \in BOOLEAN, Db!MySqlType(m), Db!Watched(m, w)
  PROVE  Db!MySqlType(Db!PingMySql(m)) /\ Db!Watched(Db!PingMySql(m), w)
<1>1. ASSUME NEW e \in Db!Errors PROVE LET n == [m EXCEPT !.err = e] IN Db!MySqlType(n) /\ Db!Watched(n, w)
  BY DEF Db!MySqlType, Db!Watched
<1>2. \/ \E e \in Db!Errors : Db!PingMySql(m) = [m EXCEPT !.err = e]
      \/ Db!PingMySql(m) = Db!HandleConnectionLost([m EXCEPT !.err = "OpenFailed"])
  BY DEF Db!PingMySql, Db!Errors, Db!MySqlType
<1>3. "OpenFailed" \in Db!Errors
  BY DEF Db!Errors
<1> QED
  BY <1>1, <1>2, <1>3, DatabaseLoses

LEMMA DatabaseTimeouts ==
  ASSUME NEW m, NEW w \in BOOLEAN, Db!MySqlType(m), Db!Watched(m, w)
  PROVE  Db!MySqlType(Db!OnPingTimeout(m)) /\ Db!Watched(Db!OnPingTimeout(m), w)
BY DatabaseConfigures, DatabasePings DEF Db!OnPingTimeout, Db!Watched

-----------------------------------------------------------------------------
(* What a step that leaves the queries alone has to show.                  *)
LEMMA DatabaseMySqlSteps ==
  ASSUME Db!Inv, UNCHANGED <<v2, v3>>, v5' \in Nat,
         Db!MySqlType(v1'), Db!Watched(v1', v5' > 0)
  PROVE  Db!Inv'
BY DEF Db!Inv, Db!DbTypeOK

(* What a step of the queries has to show.                                 *)
LEMMA DatabaseQuerySteps ==
  ASSUME Db!Inv, UNCHANGED v5, NEW d \in {"my", "lite"}, NEW q,
         q \in [rows : Nat, err : Db!Errors, driverErr : Db!Errors, failed : BOOLEAN], Db!QueryErrs(q),
         v3' = [v3 EXCEPT ![d] = q],
         Db!MySqlType(v1'), Db!Watched(v1', v5 > 0),
         v2' \in [handle : BOOLEAN, name : BOOLEAN, err : Db!Errors]
  PROVE  Db!Inv'
BY DEF Db!Inv, Db!DbTypeOK

LEMMA DatabaseErrs ==
  ASSUME Db!Inv, NEW d \in {"my", "lite"}, NEW e \in Db!Errors, NEW m, Db!MySqlType(m), Db!Watched(m, v5 > 0),
         Db!SetError(d, e, m)
  PROVE  /\ Db!MySqlType(v1') /\ Db!Watched(v1', v5 > 0)
         /\ v2' \in [handle : BOOLEAN, name : BOOLEAN, err : Db!Errors]
<1>1. LET n == [m EXCEPT !.err = e] IN Db!MySqlType(n) /\ Db!Watched(n, v5 > 0)
  BY DEF Db!MySqlType, Db!Watched
<1>2. CASE d = "my"
  BY <1>1, <1>2 DEF Db!SetError, Db!Inv, Db!DbTypeOK
<1>3. CASE d # "my"
  BY <1>3 DEF Db!SetError, Db!Inv, Db!DbTypeOK
<1> QED
  BY <1>2, <1>3

LEMMA DatabaseFails ==
  ASSUME Db!Inv, NEW d \in {"my", "lite"}, NEW e \in Db!Errors \ {"NoError"}, NEW m, Db!MySqlType(m),
         Db!Watched(m, v5 > 0), Db!QueryFails(d, e, m), UNCHANGED v5
  PROVE  Db!Inv'
<1> DEFINE q == [rows |-> 0, err |-> e, driverErr |-> e, failed |-> TRUE]
<1>1. q \in [rows : Nat, err : Db!Errors, driverErr : Db!Errors, failed : BOOLEAN] /\ Db!QueryErrs(q)
  BY DEF Db!QueryErrs
<1>2. Db!SetError(d, e, m) /\ v3' = [v3 EXCEPT ![d] = q]
  BY DEF Db!QueryFails
<1> HIDE DEF q
<1> QED
  BY <1>1, <1>2, DatabaseErrs, DatabaseQuerySteps

(* The queries: those that fail, those that succeed, and the rows they     *)
(* hand out.                                                               *)
LEMMA DatabaseExecs ==
  ASSUME Db!Inv, NEW d \in {"my", "lite"}, Db!Exec(d)
  PROVE  Db!Inv'
<1> USE DataAssumption
<1>1. PICK rows \in 0 .. MaxResultRows : IF d = "my" THEN Db!ExecMySql(rows) ELSE Db!ExecSqlite(rows)
  BY DEF Db!Exec
<1>2. UNCHANGED v5 /\ Db!MySqlType(v1) /\ Db!Watched(v1, v5 > 0)
  BY DEF Db!Exec, Db!Inv, Db!DbTypeOK
<1>3. \A e \in {"InvalidOperation", "QueryFailed"} : e \in Db!Errors \ {"NoError"}
  BY DEF Db!Errors
<1> DEFINE q == [Db!NewQuery EXCEPT !.rows = rows]
<1>4. q \in [rows : Nat, err : Db!Errors, driverErr : Db!Errors, failed : BOOLEAN] /\ Db!QueryErrs(q)
  <2>1. rows \in Nat
    OBVIOUS
  <2>2. Db!NewQuery \in [rows : Nat, err : Db!Errors, driverErr : Db!Errors, failed : BOOLEAN]
        /\ Db!NewQuery.err = "NoError" /\ Db!NewQuery.driverErr = "NoError" /\ ~Db!NewQuery.failed
    BY DEF Db!NewQuery, Db!Errors
  <2> QED
    BY <2>1, <2>2 DEF Db!QueryErrs
<1>5. \/ \E e \in {"InvalidOperation", "QueryFailed"} :
           Db!QueryFails(d, e, v1) \/ Db!QueryFails(d, e, Db!HandleConnectionLost(v1))
      \/ Db!SetError(d, "NoError", v1) /\ v3' = [v3 EXCEPT ![d] = q]
  BY <1>1 DEF Db!ExecMySql, Db!ExecSqlite
<1>6. "NoError" \in Db!Errors
  BY DEF Db!Errors
<1>7. Db!MySqlType(Db!HandleConnectionLost(v1)) /\ Db!Watched(Db!HandleConnectionLost(v1), v5 > 0)
  <2>1. (v5 > 0) \in BOOLEAN
    OBVIOUS
  <2> QED
    BY <1>2, <2>1, DatabaseLoses
<1> HIDE DEF q
<1>8. CASE Db!SetError(d, "NoError", v1) /\ v3' = [v3 EXCEPT ![d] = q]
  BY <1>2, <1>4, <1>6, <1>8, DatabaseErrs, DatabaseQuerySteps
<1> QED
  BY <1>2, <1>3, <1>5, <1>7, <1>8, DatabaseFails

LEMMA DatabaseRows ==
  ASSUME Db!Inv, NEW d \in {"my", "lite"}, Db!NextRow(d) \/ Db!Finish(d)
  PROVE  Db!Inv'
<1>1. v3[d] \in [rows : Nat, err : Db!Errors, driverErr : Db!Errors, failed : BOOLEAN]
      /\ Db!QueryErrs(v3[d]) /\ Db!MySqlType(v1) /\ Db!Watched(v1, v5 > 0)
      /\ v2 \in [handle : BOOLEAN, name : BOOLEAN, err : Db!Errors]
  BY DEF Db!Inv, Db!DbTypeOK
<1> DEFINE q == v3[d]
           next == [q EXCEPT !.rows = IF q.rows > 0 THEN q.rows - 1 ELSE 0, !.driverErr = "NoError"]
           end == [q EXCEPT !.rows = 0]
<1>2. /\ next \in [rows : Nat, err : Db!Errors, driverErr : Db!Errors, failed : BOOLEAN]
      /\ Db!QueryErrs(next)
  <2> DEFINE n == IF q.rows > 0 THEN q.rows - 1 ELSE 0
  <2>1. q.rows \in Nat
    BY <1>1
  <2>2. n \in Nat /\ "NoError" \in Db!Errors /\ next = [q EXCEPT !.rows = n, !.driverErr = "NoError"]
    BY <2>1 DEF Db!Errors
  <2> HIDE DEF n, next
  <2> QED
    BY <1>1, <2>2 DEF Db!QueryErrs
<1>3. /\ end \in [rows : Nat, err : Db!Errors, driverErr : Db!Errors, failed : BOOLEAN]
      /\ Db!QueryErrs(end)
  BY <1>1 DEF Db!QueryErrs
<1>4. UNCHANGED <<v1, v2, v5>>
  BY DEF Db!NextRow, Db!Finish
<1>5. CASE Db!NextRow(d)
  <2>1. v3' = [v3 EXCEPT ![d] = next]
    BY <1>5 DEF Db!NextRow
  <2> HIDE DEF next, end, q
  <2> QED
    BY <1>1, <1>2, <1>4, <2>1, DatabaseQuerySteps
<1>6. CASE Db!Finish(d)
  <2>1. v3' = [v3 EXCEPT ![d] = end]
    BY <1>6 DEF Db!Finish
  <2> HIDE DEF next, end, q
  <2> QED
    BY <1>1, <1>3, <1>4, <2>1, DatabaseQuerySteps
<1> QED
  BY <1>5, <1>6

LEMMA DatabaseInit == Db!Init => Db!Inv
BY DEF Db!Init, Db!Inv, Db!DbTypeOK, Db!MySqlType, Db!Watched, Db!QueryErrs, Db!NewQuery, Db!Errors

LEMMA DatabaseNext ==
  ASSUME Db!Inv, [Db!Next]_Db!dbVars
  PROVE  Db!Inv'
<1> DEFINE w == v5 > 0
<1>1. Db!MySqlType(v1) /\ Db!Watched(v1, w) /\ w \in BOOLEAN /\ v5 \in Nat
  BY DEF Db!Inv, Db!DbTypeOK
<1>2. CASE UNCHANGED Db!dbVars
  BY <1>2 DEF Db!dbVars, Db!Inv, Db!DbTypeOK
<1>3. CASE Db!Open \/ Db!Close \/ Db!Ping \/ Db!PingTimeoutFires
  <2>1. UNCHANGED <<v2, v3, v5>>
    BY <1>3 DEF Db!Open, Db!Close, Db!Ping, Db!PingTimeoutFires
  <2>2. v1' \in {Db!OpenMySql(v1), Db!CloseMySql(v1), Db!PingMySql(v1), Db!OnPingTimeout(v1)}
    BY <1>3 DEF Db!Open, Db!Close, Db!Ping, Db!PingTimeoutFires
  <2>3. Db!MySqlType(v1') /\ Db!Watched(v1', w)
    BY <1>1, <2>2, DatabaseOpens, DatabaseClosesAll, DatabasePings, DatabaseTimeouts
  <2> QED
    BY <1>1, <2>1, <2>3, DatabaseMySqlSteps
<1>4. CASE Db!SetConnectionOptions
  <2> DEFINE m == IF v1.handle THEN Db!CloseMySql(v1) ELSE v1
  <2>1. PICK name \in BOOLEAN : v1' = [m EXCEPT !.name = name, !.err = "NoError"]
    BY <1>4 DEF Db!SetConnectionOptions
  <2>2. Db!MySqlType(m) /\ Db!Watched(m, w)
    BY <1>1, DatabaseClosesAll
  <2> HIDE DEF m
  <2>3. Db!MySqlType(v1') /\ Db!Watched(v1', w)
    BY <2>1, <2>2 DEF Db!MySqlType, Db!Watched, Db!Errors
  <2> QED
    BY <1>1, <1>4, <2>3, DatabaseMySqlSteps DEF Db!SetConnectionOptions
<1>5. CASE Db!SetFeatureFlags
  <2>1. PICK flags \in SUBSET Db!Flags : v1' = Db!ConfigurePingTimer([v1 EXCEPT !.flags = flags])
    BY <1>5 DEF Db!SetFeatureFlags
  <2> DEFINE m == [v1 EXCEPT !.flags = flags]
  <2>2. Db!MySqlType(m) /\ m.told = m.handle
    BY <1>1 DEF Db!MySqlType, Db!Watched
  <2> HIDE DEF m
  <2>3. Db!MySqlType(v1') /\ Db!Watched(v1', w)
    BY <1>1, <2>1, <2>2, DatabaseConfigures DEF m
  <2> QED
    BY <1>1, <1>5, <2>3, DatabaseMySqlSteps DEF Db!SetFeatureFlags
<1>6. CASE Db!MoveToThread
  <2>1. /\ v1' = [v1 EXCEPT !.restart = v1.timer, !.timer = FALSE]
        /\ v5' = IF v1.timer THEN 1 ELSE 0
        /\ v5 = 0
    BY <1>1, <1>6 DEF Db!MoveToThread, Db!OnAboutToMoveToThread, Db!OnMovedToThread, Db!MySqlType
  <2>2. v5' \in Nat /\ (v5' > 0 <=> v1.timer) /\ ~w
    BY <1>1, <2>1
  <2>3. Db!MySqlType(v1') /\ v1'.handle = v1.handle /\ v1'.flags = v1.flags /\ v1'.told = v1.told
    BY <1>1, <2>1 DEF Db!MySqlType
  <2>4. Db!Watched(v1', v5' > 0)
    BY <1>1, <2>2, <2>3 DEF Db!Watched
  <2> QED
    BY <1>6, <2>2, <2>3, <2>4, DatabaseMySqlSteps DEF Db!MoveToThread
<1>7. CASE Db!RunPosted
  <2>1. v5' \in Nat /\ v1' = Db!ConfigurePingTimer(v1) /\ (v5' > 0) \in BOOLEAN
    BY <1>1, <1>7 DEF Db!RunPosted
  <2>2. Db!MySqlType(v1') /\ Db!Watched(v1', v5' > 0)
    BY <1>1, <2>1, DatabaseConfigures DEF Db!Watched
  <2> QED
    BY <1>7, <2>1, <2>2, DatabaseMySqlSteps DEF Db!RunPosted
<1>8. CASE Db!ServerDown \/ Db!ServerUp
  <2>1. v1' = v1 \/ v1' = [v1 EXCEPT !.alive = FALSE]
    BY <1>8 DEF Db!ServerDown, Db!ServerUp
  <2>2. Db!MySqlType(v1') /\ Db!Watched(v1', w)
    BY <1>1, <2>1 DEF Db!MySqlType, Db!Watched
  <2> QED
    BY <1>1, <1>8, <2>2, DatabaseMySqlSteps DEF Db!ServerDown, Db!ServerUp
<1>9. CASE Db!SetDatabaseName \/ Db!OpenSqlite \/ Db!CloseSqlite
  <2>1. UNCHANGED <<v1, v3, v5>>
    BY <1>9 DEF Db!SetDatabaseName, Db!OpenSqlite, Db!CloseSqlite
  <2>2. v2 \in [handle : BOOLEAN, name : BOOLEAN, err : Db!Errors]
        /\ {"NoError", "OpenFailed"} \subseteq Db!Errors
    BY DEF Db!Inv, Db!DbTypeOK, Db!Errors
  <2>3. v2' \in [handle : BOOLEAN, name : BOOLEAN, err : Db!Errors]
    <3>1. CASE Db!SetDatabaseName
      BY <2>2, <3>1 DEF Db!SetDatabaseName
    <3>2. CASE Db!OpenSqlite
      BY <2>2, <3>2 DEF Db!OpenSqlite
    <3>3. CASE Db!CloseSqlite
      BY <2>2, <3>3 DEF Db!CloseSqlite
    <3> QED
      BY <1>9, <3>1, <3>2, <3>3
  <2> QED
    BY <2>1, <2>3 DEF Db!Inv, Db!DbTypeOK
<1>10. ASSUME NEW d \in {"my", "lite"}, Db!ExecRejected(d) PROVE Db!Inv'
  <2>1. Db!QueryFails(d, "QueryFailed", v1) /\ UNCHANGED v5 /\ "QueryFailed" \in Db!Errors \ {"NoError"}
    BY <1>10 DEF Db!ExecRejected, Db!Errors
  <2> QED
    BY <1>1, <2>1, DatabaseFails
<1>11. CASE Db!NextFails
  <2>1. Db!QueryFails("lite", "QueryFailed", v1) /\ UNCHANGED v5
        /\ "QueryFailed" \in Db!Errors \ {"NoError"} /\ "lite" \in {"my", "lite"}
    BY <1>11 DEF Db!NextFails, Db!Errors
  <2> QED
    BY <1>1, <2>1, DatabaseFails
<1> QED
  BY <1>2, <1>3, <1>4, <1>5, <1>6, <1>7, <1>8, <1>9, <1>10, <1>11, DatabaseExecs, DatabaseRows DEF Db!Next

(* What it comes to.                                                       *)
LEMMA DatabaseIsWatched == Db!Inv => Db!ConnectionWatched /\ Db!FailuresReported
BY DEF Db!Inv, Db!DbTypeOK, Db!ConnectionWatched, Db!Watched, Db!FailuresReported, Db!QueryErrs, Db!LastError

-----------------------------------------------------------------------------
(* The edits of a table.                                                    *)

\* A table of any keys and values, no key twice. The table is v1, the cache v2,
\* the edits v3, what the views were told v4.
Sm == INSTANCE SqlTableModel WITH
    Keys <- TableKeys, Values <- TableValues, UniqueKeys <- TRUE,
    db <- v1, rows <- v2, pending <- v3, told <- v4, failures <- v5

(* What the edits are.                                                     *)
TableEdit == UNION {[cs -> Sm!Cells] : cs \in SUBSET (1..2)}

LEMMA TableEditsAre ==
  /\ Sm!NoEdits \in Sm!Edits
  /\ \A e \in Sm!Edits : /\ DOMAIN e \subseteq 1..2
                      /\ e = [r \in DOMAIN e |-> e[r]]
                      /\ \A r \in DOMAIN e : e[r] \in TableEdit
  /\ \A rs \in SUBSET (1..2) : [rs -> TableEdit] \subseteq Sm!Edits
  /\ \A f \in TableEdit : DOMAIN f \subseteq 1..2 /\ \A c \in DOMAIN f : f[c] \in Sm!Cells
  /\ \A cs \in SUBSET (1..2) : [cs -> Sm!Cells] \subseteq TableEdit
<1>1. \A rs \in SUBSET (1..2) : [rs -> TableEdit] \subseteq Sm!Edits
  BY DEF Sm!Edits, TableEdit
<1>2. \A cs \in SUBSET (1..2) : [cs -> Sm!Cells] \subseteq TableEdit
  BY DEF TableEdit
<1>3. Sm!NoEdits \in [{} -> TableEdit]
  BY DEF Sm!NoEdits
<1>4. \A e \in Sm!Edits : \E rs \in SUBSET (1..2) : e \in [rs -> TableEdit]
  BY DEF Sm!Edits, TableEdit
<1>5. \A f \in TableEdit : \E cs \in SUBSET (1..2) : f \in [cs -> Sm!Cells]
  BY DEF TableEdit
<1> QED
  BY <1>1, <1>2, <1>3, <1>4, <1>5

(* What is stored is what was edited.                                      *)
LEMMA TableLiteral ==
  ASSUME NEW v \in Sm!Cells
  PROVE  Sm!VariantToSqlLiteral(v) = v
BY DataAssumption DEF Sm!VariantToSqlLiteral, Sm!Cells

LEMMA TableAppliedIs ==
  ASSUME NEW row \in [1..2 -> Sm!Cells], NEW f \in TableEdit
  PROVE  Sm!Applied(row, f) \in [1..2 -> Sm!Cells]
<1>1. \A c \in DOMAIN f : f[c] \in Sm!Cells
  BY TableEditsAre
<1> QED
  BY <1>1 DEF Sm!Applied

(* A statement whose key is that of one row alone changes that row.        *)
LEMMA TableUpdatedIs ==
  ASSUME NEW t \in Sm!Table, Sm!Legal(t), NEW r \in 1..2, NEW f \in TableEdit
  PROVE  Sm!Updated(t, t[r][1], f) = [t EXCEPT ![r] = Sm!Applied(t[r], f)]
<1>1. \A i, j \in 1..2 : t[i][1] = t[j][1] => i = j
  BY DataAssumption DEF Sm!Legal, Sm!Table
<1>2. \A c \in DOMAIN f : Sm!VariantToSqlLiteral(f[c]) = f[c]
  BY TableEditsAre, TableLiteral
<1>3. [c \in 1..2 |-> IF c \in DOMAIN f THEN Sm!VariantToSqlLiteral(f[c]) ELSE t[r][c]] = Sm!Applied(t[r], f)
  BY <1>2 DEF Sm!Applied
<1>4. DOMAIN t = 1..2 /\ t = [i \in 1..2 |-> t[i]]
  BY DEF Sm!Table
<1> DEFINE u == [t EXCEPT ![r] = Sm!Applied(t[r], f)]
<1>5. u = [i \in 1..2 |-> IF i = r THEN Sm!Applied(t[r], f) ELSE t[i]]
  BY <1>4
<1>6. Sm!Updated(t, t[r][1], f) = [i \in 1..2 |-> IF i = r THEN Sm!Applied(t[r], f) ELSE t[i]]
  <2>1. \A i \in 1..2 : (t[i][1] # t[r][1]) <=> i # r
    BY <1>1
  <2>2. \A i \in 1..2 : (IF t[i][1] # t[r][1] THEN t[i]
                ELSE [c \in 1..2 |-> IF c \in DOMAIN f THEN Sm!VariantToSqlLiteral(f[c]) ELSE t[i][c]])
           = IF i = r THEN Sm!Applied(t[r], f) ELSE t[i]
    BY <1>3, <2>1
  <2> QED
    BY <1>4, <2>2 DEF Sm!Updated
<1> QED
  BY <1>5, <1>6

(* Where submit() has got to when the rows in done have had their turn.    *)
TableLoop(s, done) ==
  /\ s \in [db : Sm!Table, rows : Sm!Table, failed : SUBSET (1..2), success : BOOLEAN]
  /\ s.rows = s.db /\ Sm!Legal(s.db) /\ s.failed \subseteq done
  /\ \A r \in 1..2 : s.rows[r] = IF r \in done \ s.failed THEN Sm!Applied(v2[r], v3[r]) ELSE v2[r]

LEMMA TableOneTurn ==
  ASSUME v3 \in Sm!Edits, NEW done \in SUBSET (1..2), NEW s, TableLoop(s, done),
         NEW r \in DOMAIN v3 \ done, NEW f \in BOOLEAN
  PROVE  TableLoop(Sm!SubmitRow(s, r, f), done \union {r})
<1>1. r \in 1..2 /\ v3[r] \in TableEdit
  BY TableEditsAre
<1>2. /\ s.db \in Sm!Table /\ s.rows = s.db /\ Sm!Legal(s.db) /\ s.failed \in SUBSET (1..2)
           /\ s.success \in BOOLEAN
      /\ s.rows[r] = v2[r] /\ s.failed \subseteq done
      /\ \A q \in 1..2 : s.rows[q] = IF q \in done \ s.failed THEN Sm!Applied(v2[q], v3[q]) ELSE v2[q]
  BY <1>1 DEF TableLoop
<1> DEFINE row == Sm!Applied(s.rows[r], v3[r])
           table == Sm!Updated(s.db, s.rows[r][1], v3[r])
           cache == [s.rows EXCEPT ![r] = row]
<1>3. table = cache
  BY <1>1, <1>2, TableUpdatedIs
<1>4. row \in [1..2 -> Sm!Cells]
  <2>1. s.rows[r] \in [1..2 -> Sm!Cells]
    BY <1>1, <1>2 DEF Sm!Table
  <2> QED
    BY <1>1, <2>1, TableAppliedIs
<1>5. cache \in Sm!Table /\ \A q \in 1..2 : cache[q] = IF q = r THEN row ELSE s.rows[q]
  BY <1>1, <1>2, <1>4 DEF Sm!Table
<1> DEFINE a == [s EXCEPT !.failed = @ \cup {r}]
           b == [s EXCEPT !.failed = @ \cup {r}, !.success = FALSE]
           d == [s EXCEPT !.db = table, !.rows = cache]
<1>6. \/ Sm!SubmitRow(s, r, f) = a
      \/ Sm!SubmitRow(s, r, f) = b
      \/ Sm!Legal(table) /\ Sm!SubmitRow(s, r, f) = d
  BY DEF Sm!SubmitRow
<1>7. r \notin done \ s.failed /\ r \notin s.failed
  BY <1>2
<1>8. row = Sm!Applied(v2[r], v3[r])
  BY <1>2
<1>9. s \in [db : Sm!Table, rows : Sm!Table, failed : SUBSET (1..2), success : BOOLEAN]
  BY DEF TableLoop
<1>10. TableLoop(a, done \union {r})
  <2>1. /\ a \in [db : Sm!Table, rows : Sm!Table, failed : SUBSET (1..2), success : BOOLEAN]
        /\ a.rows = s.rows /\ a.db = s.db /\ a.failed = s.failed \union {r}
    BY <1>1, <1>9
  <2> HIDE DEF a, row
  <2>2. (done \union {r}) \ a.failed = done \ s.failed
    BY <1>7, <2>1
  <2> QED
    BY <1>2, <2>1, <2>2 DEF TableLoop
<1>11. TableLoop(b, done \union {r})
  <2>1. /\ b \in [db : Sm!Table, rows : Sm!Table, failed : SUBSET (1..2), success : BOOLEAN]
        /\ b.rows = s.rows /\ b.db = s.db /\ b.failed = s.failed \union {r}
    BY <1>1, <1>9
  <2> HIDE DEF b, row
  <2>2. (done \union {r}) \ b.failed = done \ s.failed
    BY <1>7, <2>1
  <2> QED
    BY <1>2, <2>1, <2>2 DEF TableLoop
<1>12. ASSUME Sm!Legal(table) PROVE TableLoop(d, done \union {r})
  <2> HIDE DEF row, table, cache
  <2>1. /\ d \in [db : Sm!Table, rows : Sm!Table, failed : SUBSET (1..2), success : BOOLEAN]
        /\ d.rows = cache /\ d.db = table /\ d.failed = s.failed
    BY <1>3, <1>5, <1>9
  <2> HIDE DEF d
  <2>2. (done \union {r}) \ d.failed = (done \ s.failed) \union {r}
    BY <1>7, <2>1
  <2>3. \A q \in 1..2 : d.rows[q] = IF q \in (done \union {r}) \ d.failed
                                  THEN Sm!Applied(v2[q], v3[q]) ELSE v2[q]
    BY <1>2, <1>5, <1>8, <2>1, <2>2
  <2> QED
    BY <1>2, <1>3, <1>12, <2>1, <2>2, <2>3 DEF TableLoop
<1> HIDE DEF a, b, d, table
<1> QED
  BY <1>6, <1>10, <1>11, <1>12

(* k is the recursion in Submitted, which has a solution.                  *)
TableStart == [db |-> v1, rows |-> v2, failed |-> {}, success |-> TRUE]
TableRuns(k, n, order, reject) ==
  /\ Sm!Submitted(n, order, reject) = k[n] /\ k[0] = TableStart
  /\ \A i \in 1 .. n : k[i] = Sm!SubmitRow(k[i - 1], order[i], order[i] = reject)

LEMMA TableSubmittedWellDefined ==
  ASSUME NEW n \in Nat, NEW order, NEW reject
  PROVE  \E k : TableRuns(k, n, order, reject)
<1> DEFINE Solves(k, m) ==
      k = [i \in 0 .. m |->
             IF i = 0 THEN TableStart
             ELSE Sm!SubmitRow(k[i - 1], order[i], order[i] = reject)]
           N == {m \in Nat : \E k : Solves(k, m)}
<1>1. 0 \in N
  <2>1. Solves([i \in 0 .. 0 |-> TableStart], 0)
    OBVIOUS
  <2> QED
    BY <2>1
<1>2. ASSUME NEW m \in N PROVE m + 1 \in N
  <2>1. PICK k : Solves(k, m)
    BY <1>2
  <2> DEFINE g == [i \in 0 .. m + 1 |->
                     IF i = m + 1 THEN Sm!SubmitRow(k[m], order[i], order[i] = reject) ELSE k[i]]
  <2>2. \A i \in 0 .. m : g[i] = k[i]
    OBVIOUS
  <2>3. \A i \in 0 .. m : k[i] = IF i = 0 THEN TableStart
                               ELSE Sm!SubmitRow(k[i - 1], order[i], order[i] = reject)
    BY <2>1
  <2>4. ASSUME NEW i \in 0 .. m + 1
        PROVE  g[i] = IF i = 0 THEN TableStart ELSE Sm!SubmitRow(g[i - 1], order[i], order[i] = reject)
    <3>1. CASE i = 0
      <4>1. 0 \in 0 .. m
        OBVIOUS
      <4>2. g[0] = k[0] /\ k[0] = TableStart
        BY <2>2, <2>3, <4>1
      <4> QED
        BY <3>1, <4>2
    <3>2. CASE i \in 1 .. m
      <4>1. i \in 0 .. m /\ i - 1 \in 0 .. m /\ i # 0
        BY <3>2
      <4> QED
        BY <4>1, <2>2, <2>3
    <3>3. CASE i = m + 1
      <4>1. m \in 0 .. m /\ i - 1 = m /\ i # 0
        BY <3>3
      <4>2. g[i - 1] = k[m]
        BY <4>1, <2>2
      <4>3. g[i] = Sm!SubmitRow(k[m], order[i], order[i] = reject)
        BY <3>3
      <4> QED
        BY <4>1, <4>2, <4>3
    <3> QED
      BY <3>1, <3>2, <3>3
  <2>5. g = [i \in 0 .. m + 1 |-> IF i = 0 THEN TableStart
                                 ELSE Sm!SubmitRow(g[i - 1], order[i], order[i] = reject)]
    <3> HIDE DEF g
    <3>1. g = [i \in 0 .. m + 1 |-> g[i]]
      BY DEF g
    <3> QED
      BY <2>4, <3>1
  <2> HIDE DEF g
  <2>6. \E h : Solves(h, m + 1)
    BY <2>5
  <2>7. m + 1 \in Nat
    OBVIOUS
  <2> QED
    BY <2>6, <2>7
<1>3. N = Nat
  <2>1. N \in SUBSET Nat
    OBVIOUS
  <2> HIDE DEF N
  <2> QED
    BY <1>1, <1>2, <2>1, SetInduction
<1>4. \E k : Solves(k, n)
  <2>1. n \in N
    BY <1>3
  <2> QED
    BY <2>1
<1> DEFINE solution == CHOOSE k : Solves(k, n)
<1>5. Solves(solution, n)
  BY <1>4
<1>6. Sm!Submitted(n, order, reject) = solution[n]
  BY DEF Sm!Submitted, TableStart
<1> HIDE DEF solution
<1>7. \A i \in 0 .. n :
        solution[i] = IF i = 0 THEN TableStart ELSE Sm!SubmitRow(solution[i - 1], order[i], order[i] = reject)
  BY <1>5
<1>8. solution[0] = TableStart
  BY <1>7
<1>9. \A i \in 1 .. n :
         solution[i] = Sm!SubmitRow(solution[i - 1], order[i], order[i] = reject)
  BY <1>7
<1> QED
  BY <1>6, <1>8, <1>9 DEF TableRuns

(* After the loop every edited row has had its turn.                       *)
LEMMA TableSubmittedIs ==
  ASSUME v2 = v1, v1 \in Sm!Table, Sm!Legal(v1), v3 \in Sm!Edits,
         NEW n \in Nat, NEW order \in Sm!Bijection(1..n, DOMAIN v3), NEW reject
  PROVE  TableLoop(Sm!Submitted(n, order, reject), DOMAIN v3)
<1>2. PICK k : TableRuns(k, n, order, reject)
  BY TableSubmittedWellDefined
<1>3. /\ order \in [1..n -> DOMAIN v3]
      /\ \A i, j \in 1..n : order[i] = order[j] => i = j
      /\ \A r \in DOMAIN v3 : \E i \in 1..n : order[i] = r
  BY DEF Sm!Bijection, Sm!Injection, Sm!Surjection, Sm!IsInjective
<1> DEFINE First(m) == {order[i] : i \in 1..m}
           N == {m \in Nat : m <= n => TableLoop(k[m], First(m))}
<1>4. 0 \in N
  <2>1. First(0) = {} /\ k[0] = TableStart
    BY <1>2 DEF TableRuns
  <2>2. TableStart \in [db : Sm!Table, rows : Sm!Table, failed : SUBSET (1..2), success : BOOLEAN]
        /\ TableStart.rows = v2 /\ TableStart.db = v1 /\ TableStart.failed = {}
    BY DEF TableStart
  <2>3. TableLoop(TableStart, {})
    BY <2>2 DEF TableLoop
  <2> QED
    BY <2>1, <2>3
<1>5. ASSUME NEW m \in N PROVE m + 1 \in N
  <2> SUFFICES ASSUME m + 1 <= n PROVE TableLoop(k[m + 1], First(m + 1))
    OBVIOUS
  <2>1. m \in Nat /\ m + 1 \in 1 .. n
    OBVIOUS
  <2>2. TableLoop(k[m], First(m))
    BY <2>1
  <2> DEFINE r == order[m + 1]   f == (r = reject)   q == k[m]   done == First(m)
  <2>3. First(m + 1) = done \union {r}
    <3>1. 1 .. m + 1 = 1 .. m \union {m + 1}
      BY <2>1
    <3> QED
      BY <3>1
  <2>4. k[m + 1] = Sm!SubmitRow(q, r, f)
    <3>1. (m + 1) - 1 = m
      BY <2>1
    <3> QED
      BY <1>2, <2>1, <3>1 DEF TableRuns
  <2>5. \A i \in 1 .. m : i \in 1 .. n /\ i # m + 1
    BY <2>1
  <2>6. r \in DOMAIN v3 \ done
    BY <1>3, <2>1, <2>5
  <2>7. done \in SUBSET (1..2)
    BY <1>3, <2>5, TableEditsAre
  <2>8. f \in BOOLEAN
    OBVIOUS
  <2>9. TableLoop(q, done)
    BY <2>2
  <2> HIDE DEF r, f, q, done
  <2>10. TableLoop(Sm!SubmitRow(q, r, f), done \union {r})
    BY <2>6, <2>7, <2>8, <2>9, TableOneTurn
  <2> QED
    BY <2>3, <2>4, <2>10
<1>6. N = Nat
  <2>1. N \in SUBSET Nat
    OBVIOUS
  <2> HIDE DEF N
  <2> QED
    BY <1>4, <1>5, <2>1, SetInduction
<1>7. TableLoop(k[n], First(n))
  <2> HIDE DEF N
  <2>1. n \in N
    BY <1>6
  <2> HIDE DEF First
  <2> QED
    BY <2>1 DEF N
<1>8. First(n) = DOMAIN v3
  <2> DEFINE D == DOMAIN v3
  <2>1. (\A i \in 1..n : order[i] \in D) /\ \A r \in D : \E i \in 1..n : order[i] = r
    BY <1>3
  <2> HIDE DEF D
  <2>2. \A r : r \in First(n) <=> \E i \in 1..n : r = order[i]
    OBVIOUS
  <2> HIDE DEF First
  <2>3. First(n) = D
    BY <2>1, <2>2
  <2> QED
    BY <2>3 DEF D
<1>9. Sm!Submitted(n, order, reject) = k[n]
  BY <1>2 DEF TableRuns
<1> HIDE DEF First
<1> QED
  BY <1>7, <1>8, <1>9

LEMMA TableSubmitKeeps ==
  ASSUME Sm!Inv, Sm!Submit
  PROVE  Sm!Inv'
<1>1. /\ v2 = v1 /\ v1 \in Sm!Table /\ Sm!Legal(v1) /\ v4 = Sm!Seen /\ v3 \in Sm!Edits
  BY DEF Sm!Submit, Sm!Inv
<1>0. PICK n \in 0..2 : \E order \in Sm!Bijection(1..n, DOMAIN v3), reject \in {0} \union DOMAIN v3 :
        /\ v1' = Sm!Submitted(n, order, reject).db /\ v2' = Sm!Submitted(n, order, reject).rows
        /\ v3' = [r \in Sm!Submitted(n, order, reject).failed |-> v3[r]]
        /\ v4' = v4
  BY DEF Sm!Submit
<1>2. PICK order \in Sm!Bijection(1..n, DOMAIN v3), reject \in {0} \union DOMAIN v3 :
        /\ v1' = Sm!Submitted(n, order, reject).db /\ v2' = Sm!Submitted(n, order, reject).rows
        /\ v3' = [r \in Sm!Submitted(n, order, reject).failed |-> v3[r]]
        /\ v4' = v4
  BY <1>0
<1> DEFINE s == Sm!Submitted(n, order, reject)
<1>3. TableLoop(s, DOMAIN v3)
  BY <1>1, <1>2, TableSubmittedIs
<1>4. v1' = s.db /\ v2' = s.rows /\ v3' = [r \in s.failed |-> v3[r]] /\ v4' = v4
  BY <1>2
<1> HIDE DEF s
<1>5. /\ s.db \in Sm!Table /\ s.rows = s.db /\ Sm!Legal(s.db) /\ s.failed \subseteq DOMAIN v3
      /\ \A r \in 1..2 : s.rows[r] = IF r \in DOMAIN v3 \ s.failed THEN Sm!Applied(v2[r], v3[r]) ELSE v2[r]
  BY <1>3 DEF TableLoop
<1>6. v3' \in Sm!Edits
  <2>1. \A r \in s.failed : v3[r] \in TableEdit
    BY <1>1, <1>5, TableEditsAre
  <2>2. s.failed \in SUBSET (1..2)
    BY <1>1, <1>5, TableEditsAre
  <2>3. v3' \in [s.failed -> TableEdit]
    BY <1>4, <2>1
  <2> QED
    BY <2>2, <2>3, TableEditsAre
<1>7. DOMAIN v2 = 1..2 /\ DOMAIN v2' = 1..2
  BY <1>1, <1>4, <1>5 DEF Sm!Table
<1>8. ASSUME NEW r \in 1..2, NEW c \in 1..2 PROVE Sm!Cell(r, c)' = Sm!Cell(r, c)
  <2>1. Sm!Cell(r, c)' = IF r \in s.failed /\ c \in DOMAIN v3[r] THEN v3[r][c] ELSE s.rows[r][c]
    BY <1>4 DEF Sm!Cell
  <2>2. \A row : Sm!Applied(row, v3[r])[c] = IF c \in DOMAIN v3[r] THEN v3[r][c] ELSE row[c]
    BY DEF Sm!Applied
  <2>3. s.rows[r] = IF r \in DOMAIN v3 \ s.failed THEN Sm!Applied(v2[r], v3[r]) ELSE v2[r]
    BY <1>5
  <2>4. Sm!Applied(v2[r], v3[r])[c] = IF c \in DOMAIN v3[r] THEN v3[r][c] ELSE v2[r][c]
    BY <2>2
  <2> QED
    BY <1>5, <2>1, <2>3, <2>4 DEF Sm!Cell
<1>9. Sm!Seen' = Sm!Seen
  BY <1>7, <1>8 DEF Sm!Seen
<1>10. Sm!Legal(v1)'
  BY <1>4, <1>5 DEF Sm!Legal
<1> QED
  BY <1>1, <1>4, <1>5, <1>6, <1>9, <1>10 DEF Sm!Inv

LEMMA TableIs ==
  ASSUME NEW t \in Sm!Table
  PROVE  DOMAIN t = 1..2 /\ t = [r \in 1..2 |-> [c \in 1..2 |-> t[r][c]]]
<1>1. DOMAIN t = 1..2 /\ t = [r \in 1..2 |-> t[r]]
  BY DEF Sm!Table
<1>2. \A r \in 1..2 : t[r] = [c \in 1..2 |-> t[r][c]]
  BY DEF Sm!Table
<1> QED
  BY <1>1, <1>2

LEMMA TableSelectKeeps ==
  ASSUME Sm!Inv, Sm!Select
  PROVE  Sm!Inv'
<1>1. v2' = v1 /\ v3' = Sm!NoEdits /\ v4' = v1 /\ v1' = v1 /\ v1 \in Sm!Table /\ Sm!Legal(v1)
  BY DEF Sm!Select, Sm!Inv
<1>2. v3' \in Sm!Edits
  BY <1>1, TableEditsAre
<1>3. DOMAIN v3' = {}
  BY <1>1 DEF Sm!NoEdits
<1>4. \A r, c \in 1..2 : Sm!Cell(r, c)' = v1[r][c]
  BY <1>1, <1>3 DEF Sm!Cell
<1>5. DOMAIN v2' = 1..2 /\ v1 = [r \in 1..2 |-> [c \in 1..2 |-> v1[r][c]]]
  BY <1>1, TableIs
<1>6. Sm!Seen' = v1
  BY <1>4, <1>5 DEF Sm!Seen
<1>7. Sm!Legal(v1)'
  BY <1>1 DEF Sm!Legal
<1> QED
  BY <1>1, <1>2, <1>6, <1>7 DEF Sm!Inv

LEMMA TableRevertKeeps ==
  ASSUME Sm!Inv, Sm!Revert
  PROVE  Sm!Inv'
<1>1. /\ v2 = v1 /\ v1 \in Sm!Table /\ Sm!Legal(v1) /\ v4 = Sm!Seen /\ v3 \in Sm!Edits
      /\ v3' = Sm!NoEdits /\ v2' = v2 /\ v1' = v1
      /\ v4' = [r \in DOMAIN v4 |-> [c \in 1..2 |-> IF r \in DOMAIN v3 /\ c \in DOMAIN v3[r]
                                                        THEN v2[r][c] ELSE v4[r][c]]]
  BY DEF Sm!Revert, Sm!Inv
<1>2. v3' \in Sm!Edits
  BY <1>1, TableEditsAre
<1>3. DOMAIN v3' = {}
  BY <1>1 DEF Sm!NoEdits
<1>4. DOMAIN v2 = 1..2
  BY <1>1, TableIs
<1>5. \A r, c \in 1..2 : Sm!Cell(r, c)' = v2[r][c]
  BY <1>1, <1>3 DEF Sm!Cell
<1>6. DOMAIN v4 = 1..2 /\ \A r, c \in 1..2 : v4[r][c] = Sm!Cell(r, c)
  BY <1>1, <1>4 DEF Sm!Seen
<1>7. \A r, c \in 1..2 : (IF r \in DOMAIN v3 /\ c \in DOMAIN v3[r] THEN v2[r][c] ELSE v4[r][c]) = v2[r][c]
  BY <1>6 DEF Sm!Cell
<1>8. v4' = [r \in 1..2 |-> [c \in 1..2 |-> v2[r][c]]]
  BY <1>1, <1>6, <1>7
<1>9. Sm!Seen' = [r \in 1..2 |-> [c \in 1..2 |-> v2[r][c]]]
  BY <1>1, <1>4, <1>5 DEF Sm!Seen
<1>10. Sm!Legal(v1)'
  BY <1>1 DEF Sm!Legal
<1> QED
  BY <1>1, <1>2, <1>8, <1>9, <1>10 DEF Sm!Inv

LEMMA TableSetDataKeeps ==
  ASSUME Sm!Inv, NEW r \in 1..2, NEW c \in 1..2, NEW v \in Sm!Cells, Sm!SetData(r, c, v)
  PROVE  Sm!Inv'
<1> DEFINE before == IF r \in DOMAIN v3 THEN v3[r] ELSE [x \in {} |-> 0]
           edit == [x \in DOMAIN before \cup {c} |-> IF x = c THEN v ELSE before[x]]
<1>1. /\ v2 = v1 /\ v1 \in Sm!Table /\ Sm!Legal(v1) /\ v4 = Sm!Seen /\ v3 \in Sm!Edits
      /\ v2' = v2 /\ v1' = v1
      /\ v3' = [x \in DOMAIN v3 \cup {r} |-> IF x = r THEN edit ELSE v3[x]]
      /\ v4' = [v4 EXCEPT ![r][c] = v]
  BY DEF Sm!SetData, Sm!Inv
<1>2. before \in TableEdit
  <2>1. [x \in {} |-> 0] \in [{} -> Sm!Cells]
    OBVIOUS
  <2>2. [x \in {} |-> 0] \in TableEdit
    BY <2>1, TableEditsAre
  <2> QED
    BY <1>1, <2>2, TableEditsAre
<1> HIDE DEF before
<1>3. DOMAIN edit \in SUBSET (1..2) /\ edit \in [DOMAIN edit -> Sm!Cells]
  BY <1>2, TableEditsAre
<1>4. edit \in TableEdit
  BY <1>3, TableEditsAre
<1>5. DOMAIN edit = DOMAIN before \union {c} /\ \A x \in DOMAIN edit : edit[x] = IF x = c THEN v ELSE before[x]
  OBVIOUS
<1> HIDE DEF edit
<1>6. /\ DOMAIN v3' = DOMAIN v3 \union {r}
      /\ \A x \in DOMAIN v3' : v3'[x] = IF x = r THEN edit ELSE v3[x]
  BY <1>1
<1>7. v3' \in Sm!Edits
  <2>1. DOMAIN v3 \subseteq 1..2 /\ \A x \in DOMAIN v3 : v3[x] \in TableEdit
    BY <1>1, TableEditsAre
  <2>2. v3' \in [DOMAIN v3' -> TableEdit]
    BY <1>1, <1>4, <2>1
  <2>3. DOMAIN v3' \in SUBSET (1..2)
    BY <1>6, <2>1
  <2> QED
    BY <2>2, <2>3, TableEditsAre
<1>8. DOMAIN v2 = 1..2
  BY <1>1, TableIs
<1>9. ASSUME NEW x \in 1..2, NEW y \in 1..2
      PROVE  Sm!Cell(x, y)' = IF x = r /\ y = c THEN v ELSE Sm!Cell(x, y)
  <2>1. Sm!Cell(x, y)' = IF x \in DOMAIN v3' /\ y \in DOMAIN v3'[x] THEN v3'[x][y] ELSE v2[x][y]
    BY <1>1 DEF Sm!Cell
  <2>2. CASE x # r
    <3>1. x \in DOMAIN v3' <=> x \in DOMAIN v3
      BY <1>6, <2>2
    <3>2. x \in DOMAIN v3 => v3'[x] = v3[x]
      BY <1>6, <2>2
    <3> QED
      BY <2>1, <2>2, <3>1, <3>2 DEF Sm!Cell
  <2>3. CASE x = r
    <3>1. x \in DOMAIN v3' /\ v3'[x] = edit
      BY <1>6, <2>3
    <3>2. Sm!Cell(x, y)' = IF y \in DOMAIN edit THEN edit[y] ELSE v2[x][y]
      BY <2>1, <3>1
    <3>3. CASE y = c
      BY <1>5, <2>3, <3>2, <3>3
    <3>4. CASE y # c
      <4>1. Sm!Cell(x, y)' = IF y \in DOMAIN before THEN before[y] ELSE v2[x][y]
        BY <1>5, <3>2, <3>4
      <4>2. DOMAIN [z \in {} |-> 0] = {}
        OBVIOUS
      <4>3. Sm!Cell(x, y) = IF y \in DOMAIN before THEN before[y] ELSE v2[x][y]
        BY <2>3, <4>2 DEF Sm!Cell, before
      <4> QED
        BY <3>4, <4>1, <4>3
    <3> QED
      BY <3>3, <3>4
  <2> QED
    BY <2>2, <2>3
<1>10. v4 = [x \in 1..2 |-> [y \in 1..2 |-> Sm!Cell(x, y)]]
  BY <1>1, <1>8 DEF Sm!Seen
<1>11. v4' = [x \in 1..2 |-> [y \in 1..2 |-> IF x = r /\ y = c THEN v ELSE Sm!Cell(x, y)]]
  <2>1. v4' = [v4 EXCEPT ![r] = [v4[r] EXCEPT ![c] = v]]
    BY <1>1
  <2>2. [v4[r] EXCEPT ![c] = v] = [y \in 1..2 |-> IF y = c THEN v ELSE Sm!Cell(r, y)]
    BY <1>10
  <2>3. v4' = [x \in 1..2 |-> IF x = r THEN [v4[r] EXCEPT ![c] = v] ELSE v4[x]]
    BY <1>10, <2>1
  <2>4. \A x \in 1..2 : v4[x] = [y \in 1..2 |-> Sm!Cell(x, y)]
    BY <1>10
  <2>5. \A x \in 1..2 : (IF x = r THEN [v4[r] EXCEPT ![c] = v] ELSE v4[x])
                       = [y \in 1..2 |-> IF x = r /\ y = c THEN v ELSE Sm!Cell(x, y)]
    BY <2>2, <2>4
  <2> QED
    BY <2>3, <2>5
<1>12. Sm!Seen' = [x \in 1..2 |-> [y \in 1..2 |-> IF x = r /\ y = c THEN v ELSE Sm!Cell(x, y)]]
  BY <1>1, <1>8, <1>9 DEF Sm!Seen
<1>13. Sm!Legal(v1)'
  BY <1>1 DEF Sm!Legal
<1> QED
  BY <1>1, <1>7, <1>11, <1>12, <1>13 DEF Sm!Inv

LEMMA TableInit == Sm!Init => Sm!Inv
<1> SUFFICES ASSUME Sm!Init PROVE Sm!Inv
  OBVIOUS
<1>1. PICK v \in TableValues, w \in TableValues, ks \in {s \in [1..2 -> TableKeys] : ~TRUE \/ s[1] # s[2]} :
        /\ v1 = <<<<ks[1], v>>, <<ks[2], w>>>> /\ v2 = <<>> /\ v3 = Sm!NoEdits /\ v4 = <<>>
  BY DEF Sm!Init
<1>2. ks[1] \in TableKeys /\ ks[2] \in TableKeys /\ ks[1] # ks[2]
  BY DataAssumption
<1> DEFINE x == <<ks[1], v>>   y == <<ks[2], w>>
<1>3. x \in [1..2 -> Sm!Cells] /\ y \in [1..2 -> Sm!Cells] /\ x[1] = ks[1] /\ y[1] = ks[2]
  BY <1>2 DEF Sm!Cells
<1>4. v1 = <<x, y>>
  BY <1>1
<1> HIDE DEF x, y
<1>5. v1 \in Sm!Table /\ v1[1] = x /\ v1[2] = y
  BY <1>3, <1>4 DEF Sm!Table
<1>6. Sm!Legal(v1)
  <2>1. \A i \in DOMAIN v1 : i = 1 \/ i = 2
    BY <1>5 DEF Sm!Table
  <2> QED
    BY <1>2, <1>3, <1>5, <2>1 DEF Sm!Legal
<1> QED
  BY <1>1, <1>5, <1>6 DEF Sm!Inv

LEMMA TableNext == Sm!Inv /\ [Sm!Next]_Sm!tableVars => Sm!Inv'
<1> SUFFICES ASSUME Sm!Inv, [Sm!Next]_Sm!tableVars PROVE Sm!Inv'
  OBVIOUS
<1>1. CASE UNCHANGED Sm!tableVars
  BY <1>1 DEF Sm!Inv, Sm!tableVars, Sm!Seen, Sm!Cell, Sm!Legal
<1>2. ASSUME NEW r \in 1..2, NEW v \in TableValues \union TableKeys,
             \/ v \in TableKeys /\ Sm!SetData(r, 1, v)
             \/ v \in TableValues /\ Sm!SetData(r, 2, v)
      PROVE  Sm!Inv'
  <2>1. v \in Sm!Cells /\ 1 \in 1..2 /\ 2 \in 1..2
    BY DEF Sm!Cells
  <2> QED
    BY <1>2, <2>1, TableSetDataKeeps
<1> QED
  BY <1>1, <1>2, TableSubmitKeeps, TableSelectKeeps, TableRevertKeeps DEF Sm!Next

LEMMA TableAccounted == Sm!Inv => Sm!EditsAccounted
  BY DEF Sm!Inv, Sm!EditsAccounted

-----------------------------------------------------------------------------
(* Tabs and stacks.                                                         *)

\* Tabs or a stack of any pages. Its kind is v1, the owners of the pages are
\* in v2, the container is v3.
Pg == INSTANCE PagedWidgets WITH
    kind <- v1, owner <- v2, box <- v3, bar <- v4, queued <- v5

PagesBoxes == [pages : Seq(Pages), current : Nat, force : BOOLEAN, told : Nat]

LEMMA PagesUpdates ==
  ASSUME NEW w \in PagesBoxes, NEW i \in Nat, NEW emit \in BOOLEAN
  PROVE  /\ Pg!UpdateCurrentIndex(w, i, emit) \in PagesBoxes
         /\ Pg!UpdateCurrentIndex(w, i, emit).pages = w.pages
         /\ Pg!UpdateCurrentIndex(w, i, emit).force = w.force
         /\ Pg!UpdateCurrentIndex(w, i, emit).current =
              IF i > Len(w.pages) THEN w.current ELSE i
         /\ Pg!UpdateCurrentIndex(w, i, emit).told =
              IF emit /\ i <= Len(w.pages) /\ i # w.current THEN i ELSE w.told
<1> DEFINE t == IF emit THEN i ELSE w.told
           moved == [w EXCEPT !.current = i, !.told = t]
<1>1. Len(w.pages) \in Nat /\ w.current \in Nat /\ w.told \in Nat /\ t \in Nat
  BY DEF PagesBoxes
<1>2. Pg!UpdateCurrentIndex(w, i, emit) = IF i > Len(w.pages) \/ w.current = i THEN w ELSE moved
  BY DEF Pg!UpdateCurrentIndex
<1>3. /\ moved \in PagesBoxes /\ moved.pages = w.pages /\ moved.force = w.force
      /\ moved.current = i /\ moved.told = t
  <2> HIDE DEF t
  <2> QED
    BY <1>1 DEF PagesBoxes
<1> HIDE DEF moved
<1>4. CASE i > Len(w.pages) \/ w.current = i
  <2>1. Pg!UpdateCurrentIndex(w, i, emit) = w /\ ~(i <= Len(w.pages) /\ i # w.current)
    BY <1>1, <1>2, <1>4
  <2> QED
    BY <1>1, <1>4, <2>1
<1>5. CASE ~(i > Len(w.pages) \/ w.current = i)
  <2>1. Pg!UpdateCurrentIndex(w, i, emit) = moved /\ i <= Len(w.pages) /\ i # w.current
    BY <1>1, <1>2, <1>5
  <2> QED
    BY <1>3, <1>5, <2>1
<1> QED
  BY <1>4, <1>5

(* The index moves to a page that is there, and the listeners are told.    *)
LEMMA PagesMoves ==
  ASSUME NEW w \in PagesBoxes, NEW i \in Nat, w.told = w.current, i <= Len(w.pages),
         i = 0 <=> w.pages = <<>>
  PROVE  Pg!Current(Pg!UpdateCurrentIndex(w, i, TRUE))
<1>1. Len(w.pages) \in Nat /\ w.current \in Nat
  BY DEF PagesBoxes
<1> DEFINE v == Pg!UpdateCurrentIndex(w, i, TRUE)
<1>2. /\ v.pages = w.pages /\ v.current = i
      /\ v.told = IF i # w.current THEN i ELSE w.told
  <2>1. TRUE \in BOOLEAN /\ ~(i > Len(w.pages))
    BY <1>1
  <2> QED
    BY <1>1, <2>1, PagesUpdates
<1> QED
  BY <1>1, <1>2 DEF Pg!Current

LEMMA PagesLessOfTwo ==
  ASSUME NEW a \in Nat, NEW b \in Nat
  PROVE  /\ Pg!Min({a, b}) = IF a <= b THEN a ELSE b
         /\ Pg!Max({a, b}) = IF a <= b THEN b ELSE a
<1> DEFINE less == IF a <= b THEN a ELSE b
           more == IF a <= b THEN b ELSE a
<1>1. less \in {a, b} /\ \A y \in {a, b} : less <= y
  OBVIOUS
<1>2. more \in {a, b} /\ \A y \in {a, b} : more >= y
  OBVIOUS
<1>3. ASSUME NEW x \in {a, b}, \A y \in {a, b} : x <= y PROVE x = less
  BY <1>3
<1>4. ASSUME NEW x \in {a, b}, \A y \in {a, b} : x >= y PROVE x = more
  BY <1>4
<1> HIDE DEF less, more
<1>5. (CHOOSE x \in {a, b} : \A y \in {a, b} : x <= y) = less
  BY <1>1, <1>3
<1>6. (CHOOSE x \in {a, b} : \A y \in {a, b} : x >= y) = more
  BY <1>2, <1>4
<1> QED
  BY <1>5, <1>6 DEF Pg!Min, Pg!Max, less, more

LEMMA PagesShortened ==
  ASSUME NEW s \in Seq(Pages), NEW i \in 1 .. Len(s)
  PROVE  Pg!RemoveAt(s, i) \in Seq(Pages) /\ Len(Pg!RemoveAt(s, i)) = Len(s) - 1
<1>1. Len(s) \in Nat /\ i \in Nat /\ i - 1 \in 0 .. Len(s)
  OBVIOUS
<1>2. SubSeq(s, 1, i - 1) \in Seq(Pages) /\ Len(SubSeq(s, 1, i - 1)) = i - 1
  BY <1>1
<1>3. SubSeq(s, i + 1, Len(s)) \in Seq(Pages) /\ Len(SubSeq(s, i + 1, Len(s))) = Len(s) - i
  BY <1>1
<1> DEFINE a == SubSeq(s, 1, i - 1)
           b == SubSeq(s, i + 1, Len(s))
<1>4. Pg!RemoveAt(s, i) = a \o b /\ a \in Seq(Pages) /\ b \in Seq(Pages)
      /\ Len(a) = i - 1 /\ Len(b) = Len(s) - i
  BY <1>2, <1>3 DEF Pg!RemoveAt
<1> HIDE DEF a, b
<1>5. a \o b \in Seq(Pages) /\ Len(a \o b) = Len(a) + Len(b)
  BY <1>4, ConcatProperties
<1> QED
  BY <1>1, <1>4, <1>5

(* The first page becomes current, the others follow.                      *)
LEMMA PagesAdds ==
  ASSUME NEW w \in PagesBoxes, Pg!Current(w), NEW p \in Pages
  PROVE  /\ Pg!Added(w, p) \in PagesBoxes /\ Pg!Current(Pg!Added(w, p))
         /\ Pg!Added(w, p).pages = Append(w.pages, p)
         /\ \/ Pg!Added(w, p).force
            \/ Pg!Added(w, p).force = w.force /\ Pg!Added(w, p).current = w.current /\ w.current # 0
<1> DEFINE more == [w EXCEPT !.pages = Append(@, p)]
           first == Pg!UpdateCurrentIndex(more, 1, FALSE)
           forced == [first EXCEPT !.force = TRUE, !.told = 1]
<1>1. /\ w.pages \in Seq(Pages) /\ Len(w.pages) \in Nat /\ w.current \in Nat
      /\ Append(w.pages, p) \in Seq(Pages) /\ Len(Append(w.pages, p)) = Len(w.pages) + 1
      /\ Append(w.pages, p) # <<>>
  BY DEF PagesBoxes
<1>2. /\ more \in PagesBoxes /\ more.pages = Append(w.pages, p) /\ more.current = w.current
      /\ more.told = w.told /\ more.force = w.force
  BY <1>1 DEF PagesBoxes
<1> HIDE DEF more
<1>3. CASE w.current # 0
  <2>1. Pg!Added(w, p) = more
    BY <1>3 DEF Pg!Added, more
  <2> QED
    BY <1>1, <1>2, <1>3, <2>1 DEF Pg!Current
<1>4. CASE w.current = 0
  <2>1. Pg!Added(w, p) = forced
    BY <1>4 DEF Pg!Added, more
  <2>2. first \in PagesBoxes /\ first.pages = more.pages /\ first.current = 1
    <3>1. 1 \in Nat /\ ~(1 > Len(more.pages)) /\ FALSE \in BOOLEAN
      BY <1>1, <1>2
    <3> QED
      BY <1>2, <3>1, PagesUpdates
  <2> HIDE DEF first
  <2>3. /\ forced \in PagesBoxes /\ forced.pages = more.pages /\ forced.current = 1 /\ forced.told = 1
        /\ forced.force
    BY <2>2 DEF PagesBoxes
  <2> HIDE DEF forced
  <2> QED
    BY <1>1, <1>2, <2>1, <2>3 DEF Pg!Current
<1> QED
  BY <1>3, <1>4

(* A page is taken out: the index moves with the page it points at.        *)
LEMMA PagesRemoves ==
  ASSUME NEW w \in PagesBoxes, Pg!Current(w), NEW i \in 1 .. Len(w.pages)
  PROVE  /\ Pg!Without(w, i) \in PagesBoxes /\ Pg!Current(Pg!Without(w, i))
         /\ Pg!Without(w, i).force \/ Pg!Without(w, i).current = 0
<1> DEFINE v == [w EXCEPT !.pages = Pg!RemoveAt(@, i)]
           next == CASE v.current > i -> v.current - 1
                     [] v.current = i -> Pg!Min({i, Len(v.pages)})
                     [] OTHER -> v.current
           at == Pg!Max({next, 1})
           none == Pg!UpdateCurrentIndex(v, 0, TRUE)
           some == Pg!UpdateCurrentIndex(v, at, TRUE)
<1>1. /\ w.pages \in Seq(Pages) /\ Len(w.pages) \in Nat /\ w.current \in Nat /\ i \in Nat
      /\ Pg!RemoveAt(w.pages, i) \in Seq(Pages) /\ Len(Pg!RemoveAt(w.pages, i)) = Len(w.pages) - 1
  BY PagesShortened DEF PagesBoxes
<1>2. /\ v \in PagesBoxes /\ v.pages = Pg!RemoveAt(w.pages, i) /\ v.current = w.current /\ v.told = w.told
      /\ Len(v.pages) \in Nat /\ Len(v.pages) = Len(w.pages) - 1
  BY <1>1 DEF PagesBoxes
<1>3. Pg!Without(w, i) = IF v.pages = <<>> THEN [none EXCEPT !.force = FALSE] ELSE [some EXCEPT !.force = TRUE]
  BY DEF Pg!Without, Pg!Normalized
<1> HIDE DEF v, none, some
<1>4. CASE v.pages = <<>>
  <2>1. none \in PagesBoxes /\ Pg!Current(none) /\ none.current = 0
    <3>1. v.told = v.current /\ 0 \in Nat /\ 0 <= Len(v.pages) /\ TRUE \in BOOLEAN
      BY <1>2 DEF Pg!Current
    <3>2. Pg!Current(none)
      BY <1>2, <1>4, <3>1, PagesMoves DEF none
    <3>3. none \in PagesBoxes /\ none.current = 0
      <4>1. ~(0 > Len(v.pages))
        BY <1>2
      <4> QED
        BY <1>2, <3>1, <4>1, PagesUpdates DEF none
    <3> QED
      BY <3>2, <3>3
  <2>2. LET n == [none EXCEPT !.force = FALSE] IN n \in PagesBoxes /\ Pg!Current(n) /\ n.current = 0
    BY <2>1 DEF PagesBoxes, Pg!Current
  <2> QED
    BY <1>3, <1>4, <2>2
<1>5. CASE v.pages # <<>>
  <2>1. Len(v.pages) > 0
    BY <1>2, <1>5 DEF PagesBoxes
  <2>2. Pg!Min({i, Len(v.pages)}) = IF i <= Len(v.pages) THEN i ELSE Len(v.pages)
    BY <1>1, <1>2, PagesLessOfTwo
  <2>3. next \in Nat /\ next <= Len(v.pages)
    BY <1>1, <1>2, <2>1, <2>2 DEF Pg!Current
  <2> HIDE DEF next
  <2>4. at = IF next <= 1 THEN 1 ELSE next
    BY <2>3, PagesLessOfTwo
  <2>5. at \in Nat /\ at # 0 /\ at <= Len(v.pages)
    BY <1>2, <2>1, <2>3, <2>4
  <2> HIDE DEF at
  <2>6. some \in PagesBoxes /\ Pg!Current(some)
    <3>1. v.told = v.current /\ TRUE \in BOOLEAN
      BY <1>2 DEF Pg!Current
    <3>2. Pg!Current(some)
      BY <1>2, <1>5, <2>5, <3>1, PagesMoves DEF some
    <3> QED
      BY <1>2, <2>5, <3>1, <3>2, PagesUpdates DEF some
  <2>7. LET n == [some EXCEPT !.force = TRUE] IN n \in PagesBoxes /\ Pg!Current(n) /\ n.force
    BY <2>6 DEF PagesBoxes, Pg!Current
  <2> QED
    BY <1>3, <1>5, <2>7
<1> QED
  BY <1>4, <1>5

-----------------------------------------------------------------------------
(* What a step has to show: that the bar agrees with an index that is not  *)
(* forced on it, if its page lives.                                        *)
LEMMA PagesBoxSteps ==
  ASSUME v3' \in PagesBoxes, Pg!Current(v3'), v1' \in {"tabs", "stack"}, v4' \in Nat,
         v1' = "tabs" /\ ~v3'.force /\ v3'.current \in Pg!Live' => v4' = v3'.current
  PROVE  Pg!Inv'
BY DEF Pg!Inv, Pg!TypeOK, Pg!CurrentIsKnown, Pg!Current, PagesBoxes

(* No page comes to life again.                                            *)
LEMMA PagesLiveIndexes ==
  ASSUME Pg!Inv
  PROVE  /\ Pg!Live \subseteq 1 .. Len(v3.pages) /\ Pg!Live \subseteq Nat /\ 0 \notin Pg!Live
         /\ v3 \in PagesBoxes /\ Pg!Current(v3) /\ v1 \in {"tabs", "stack"} /\ v4 \in Nat
         /\ v3.pages \in Seq(Pages) /\ Len(v3.pages) \in Nat
         /\ v3.current \in Nat /\ v3.force \in BOOLEAN
         /\ v1 = "tabs" /\ ~v3.force /\ v3.current \in Pg!Live => v4 = v3.current
BY DEF Pg!Inv, Pg!TypeOK, Pg!CurrentIsKnown, Pg!Current, PagesBoxes, Pg!Live

LEMMA PagesAddKeeps ==
  ASSUME Pg!Inv, NEW p \in Pages, Pg!Add(p)
  PROVE  Pg!Inv'
<1>1. /\ v2' = [v2 EXCEPT ![p] = "this"] /\ v2[p] # "gone" /\ v3' = Pg!Added(v3, p)
      /\ v1' = v1 /\ v4' = v4
  BY DEF Pg!Add
<1>2. /\ v3' \in PagesBoxes /\ Pg!Current(v3') /\ v3'.pages = Append(v3.pages, p)
      /\ \/ v3'.force
         \/ v3'.force = v3.force /\ v3'.current = v3.current /\ v3.current # 0
  BY <1>1, PagesLiveIndexes, PagesAdds
<1>3. ASSUME v1 = "tabs", ~v3'.force, v3'.current \in Pg!Live' PROVE v4' = v3'.current
  <2>1. v3'.current = v3.current /\ ~v3.force /\ v3.current \in 1 .. Len(v3.pages)
    BY <1>2, <1>3, PagesLiveIndexes DEF Pg!Current
  <2>2. v3'.pages[v3.current] = v3.pages[v3.current] /\ v2'[v3.pages[v3.current]] # "gone"
    BY <1>2, <1>3, <2>1, PagesLiveIndexes DEF Pg!Live
  <2>3. v2[v3.pages[v3.current]] # "gone"
    BY <1>1, <2>2
  <2> QED
    BY <1>1, <1>3, <2>1, <2>3, PagesLiveIndexes DEF Pg!Live
<1> QED
  BY <1>1, <1>2, <1>3, PagesBoxSteps, PagesLiveIndexes

LEMMA PagesRenderKeeps ==
  ASSUME Pg!Inv, NEW click, Pg!RenderTabBar(click)
  PROVE  Pg!Inv'
<1>1. PICK sel \in Pg!Selectable : /\ v1 = "tabs" /\ v3' = Pg!RenderedBar(sel) /\ v4' = sel
                                /\ UNCHANGED <<v1, v2>>
  BY DEF Pg!RenderTabBar
<1>2. sel \in Pg!Live \/ (sel = 0 /\ Pg!Live = {})
  BY DEF Pg!Selectable
<1> DEFINE most == Pg!Max({v3.current, 1})
           index == IF sel # 0 THEN sel ELSE most
<1>3. most = IF v3.current <= 1 THEN 1 ELSE v3.current
  BY PagesLiveIndexes, PagesLessOfTwo
<1>4. index \in Nat /\ index # 0 /\ sel \in Nat /\ (sel # 0 => index = sel /\ sel <= Len(v3.pages))
  BY <1>2, <1>3, PagesLiveIndexes
<1>5. \/ v3.pages = <<>> /\ v3' = v3
      \/ v3.pages # <<>> /\ v3.force /\ v3' = [v3 EXCEPT !.force = index # v3.current]
      \/ v3.pages # <<>> /\ ~v3.force /\ v3' = Pg!UpdateCurrentIndex(v3, index, TRUE)
  BY <1>1, PagesLiveIndexes DEF Pg!RenderedBar
<1> HIDE DEF most, index
<1>6. v3'.pages = v3.pages => Pg!Live' = Pg!Live
  BY <1>1 DEF Pg!Live
<1>7. CASE v3.pages = <<>>
  <2>1. v3' = v3 /\ Pg!Live' = Pg!Live /\ Pg!Live = {}
    BY <1>5, <1>6, <1>7, PagesLiveIndexes
  <2> QED
    BY <1>1, <1>4, <2>1, PagesBoxSteps, PagesLiveIndexes
<1>8. CASE v3.pages # <<>> /\ v3.force
  <2> DEFINE differs == index # v3.current
  <2>1. v3' = [v3 EXCEPT !.force = differs] /\ differs \in BOOLEAN
    BY <1>5, <1>8
  <2>2. v3' \in PagesBoxes /\ v3'.pages = v3.pages /\ v3'.current = v3.current /\ v3'.told = v3.told
        /\ v3'.force = differs
    BY <2>1, PagesLiveIndexes DEF PagesBoxes
  <2>3. Pg!Live' = Pg!Live /\ Pg!Current(v3')
    BY <1>6, <2>2, PagesLiveIndexes DEF Pg!Current
  <2>4. ASSUME ~v3'.force, v3'.current \in Pg!Live' PROVE v4' = v3'.current
    <3>1. index = v3.current
      BY <2>2, <2>4
    <3>2. sel # 0
      BY <1>2, <2>3, <2>4, PagesLiveIndexes
    <3> QED
      BY <1>1, <1>4, <2>2, <3>1, <3>2
  <2> QED
    BY <1>1, <1>4, <2>2, <2>3, <2>4, PagesBoxSteps, PagesLiveIndexes
<1>9. CASE v3.pages # <<>> /\ ~v3.force
  <2>1. v3' = Pg!UpdateCurrentIndex(v3, index, TRUE)
    BY <1>5, <1>9
  <2>2. /\ v3' \in PagesBoxes /\ v3'.pages = v3.pages
        /\ v3'.current = IF index > Len(v3.pages) THEN v3.current ELSE index
        /\ v3'.told = IF index <= Len(v3.pages) /\ index # v3.current THEN index ELSE v3.told
    BY <1>4, <2>1, PagesLiveIndexes, PagesUpdates
  <2>3. Pg!Current(v3') /\ Pg!Live' = Pg!Live
    BY <1>4, <1>6, <1>9, <2>2, PagesLiveIndexes DEF Pg!Current
  <2>4. v3'.current \in Pg!Live' => v4' = v3'.current
    BY <1>1, <1>2, <1>4, <2>2, <2>3, PagesLiveIndexes
  <2> QED
    BY <1>1, <1>4, <2>2, <2>3, <2>4, PagesBoxSteps, PagesLiveIndexes
<1> QED
  BY <1>7, <1>8, <1>9, PagesLiveIndexes

LEMMA PagesInit == Pg!Init => Pg!Inv
<1> SUFFICES ASSUME Pg!Init PROVE Pg!Inv
  OBVIOUS
<1>1. <<>> \in Seq(Pages) /\ Len(<<>>) = 0
  OBVIOUS
<1> QED
  BY <1>1 DEF Pg!Init, Pg!Inv, Pg!TypeOK, Pg!CurrentIsKnown, Pg!Live

LEMMA PagesNext ==
  ASSUME Pg!Inv, [Pg!Next]_Pg!pagedVars
  PROVE  Pg!Inv'
<1>1. CASE UNCHANGED Pg!pagedVars
  BY <1>1 DEF Pg!pagedVars, Pg!Inv, Pg!TypeOK, Pg!CurrentIsKnown, Pg!Live
<1>2. ASSUME NEW i \in 1 .. Len(v3.pages), Pg!RemoveEntry(i) PROVE Pg!Inv'
  <2>1. v3' = Pg!Without(v3, i) /\ v4' \in Nat /\ v1' = v1
    BY <1>2, PagesLiveIndexes DEF Pg!RemoveEntry
  <2>2. v3' \in PagesBoxes /\ Pg!Current(v3') /\ (v3'.force \/ v3'.current = 0)
    BY <2>1, PagesLiveIndexes, PagesRemoves
  <2>3. 0 \notin Pg!Live'
    BY DEF Pg!Live
  <2> QED
    BY <2>1, <2>2, <2>3, PagesBoxSteps, PagesLiveIndexes
<1>3. ASSUME NEW i \in Nat, Pg!RemoveTab(i), i # 0 PROVE Pg!Inv'
  BY <1>2, <1>3, PagesLiveIndexes DEF Pg!RemoveTab
<1>4. ASSUME NEW p \in Pages, Pg!RemoveWidget(p) PROVE Pg!Inv'
  BY <1>2, <1>4, PagesLiveIndexes DEF Pg!RemoveWidget, Pg!IndexOf
<1>5. CASE Pg!Clear
  <2> DEFINE v == [v3 EXCEPT !.pages = <<>>]
  <2>1. /\ v \in PagesBoxes /\ v.pages = <<>> /\ Len(v.pages) = 0 /\ v.told = v.current
    <3>1. <<>> \in Seq(Pages) /\ Len(<<>>) = 0
      OBVIOUS
    <3> QED
      BY <3>1, PagesLiveIndexes DEF PagesBoxes, Pg!Current
  <2>2. v3' = Pg!UpdateCurrentIndex(v, 0, TRUE) /\ v4' = 0 /\ v1' = v1
    BY <1>5 DEF Pg!Clear
  <2> HIDE DEF v
  <2>3. v3' \in PagesBoxes /\ Pg!Current(v3') /\ v3'.current = 0
    <3>1. 0 \in Nat /\ 0 <= Len(v.pages) /\ ~(0 > Len(v.pages)) /\ TRUE \in BOOLEAN
      BY <2>1
    <3>2. Pg!Current(v3')
      BY <2>1, <2>2, <3>1, PagesMoves
    <3> DEFINE u == Pg!UpdateCurrentIndex(v, 0, TRUE)
    <3>3. /\ u \in PagesBoxes
          /\ u.current = IF 0 > Len(v.pages) THEN v.current ELSE 0
      BY <2>1, <3>1, PagesUpdates
    <3> HIDE DEF u
    <3>4. v3' = u
      BY <2>2 DEF u
    <3> QED
      BY <3>1, <3>2, <3>3, <3>4
  <2>4. 0 \notin Pg!Live'
    BY DEF Pg!Live
  <2> QED
    BY <2>2, <2>3, <2>4, PagesBoxSteps, PagesLiveIndexes
<1>6. ASSUME NEW i \in Nat, i # 0, Pg!SetCurrentIndex(i) PROVE Pg!Inv'
  <2> DEFINE v == Pg!UpdateCurrentIndex(v3, i, TRUE)
             tabs == v1 = "tabs"
  <2>1. i <= Len(v3.pages) /\ v3' = [v EXCEPT !.force = tabs] /\ v1' = v1 /\ v4' = v4
    BY <1>6 DEF Pg!SetCurrentIndex
  <2>2. v \in PagesBoxes /\ Pg!Current(v)
    <3>1. v3.told = v3.current /\ v3.pages # <<>> /\ TRUE \in BOOLEAN
      BY <1>6, <2>1, PagesLiveIndexes DEF Pg!Current
    <3>2. Pg!Current(v)
      BY <1>6, <2>1, <3>1, PagesLiveIndexes, PagesMoves
    <3> QED
      BY <1>6, <3>1, <3>2, PagesLiveIndexes, PagesUpdates
  <2> HIDE DEF v
  <2>3. v3' \in PagesBoxes /\ Pg!Current(v3') /\ v3'.force = tabs
    BY <2>1, <2>2 DEF PagesBoxes, Pg!Current
  <2> QED
    BY <2>1, <2>3, PagesBoxSteps, PagesLiveIndexes
<1>7. ASSUME NEW p \in Pages, Pg!SetCurrentWidget(p) PROVE Pg!Inv'
  <2>1. PICK i \in Pg!IndexOf(p) : Pg!SetCurrentIndex(i)
    BY <1>7 DEF Pg!SetCurrentWidget
  <2>2. i \in Nat /\ i # 0
    BY PagesLiveIndexes DEF Pg!IndexOf
  <2> QED
    BY <1>6, <2>1, <2>2
<1>8. ASSUME NEW p \in Pages, Pg!PageLeaves(p) PROVE Pg!Inv'
  <2>1. PICK o \in {"gone", "other"} : v2' = [v2 EXCEPT ![p] = o]
    BY <1>8 DEF Pg!PageLeaves
  <2>2. v2[p] # "gone" /\ UNCHANGED <<v1, v3, v4>>
    BY <1>8 DEF Pg!PageLeaves
  <2>3. Pg!Live' \subseteq Pg!Live
    BY <2>1, <2>2 DEF Pg!Live
  <2> QED
    BY <2>2, <2>3, PagesBoxSteps, PagesLiveIndexes
<1>9. \A i \in 1 .. MaxTabs : i \in Nat /\ i # 0
  OBVIOUS
<1> QED
  BY <1>1, <1>3, <1>4, <1>5, <1>6, <1>7, <1>8, <1>9, PagesAddKeeps, PagesRenderKeeps DEF Pg!Next

-----------------------------------------------------------------------------
(* Dialogs.                                                                 *)

\* Any windows and message boxes. The flags of the dialogs are in v3 to v6.
Po == INSTANCE Popups WITH
    Windows <- PopupWindows, Boxes <- PopupBoxes,
    mode <- v1, button <- v2, open <- v3, requested <- v4, due <- v5,
    popup <- v6, frame <- v7

(* The flags of a dialog that is as it should be: its listeners wait while *)
(* it is open, and a box asks to be shown while it is open.                *)
PopupsSound(d, f) ==
  /\ f \in [open : BOOLEAN, requested : BOOLEAN, due : BOOLEAN, popup : Po!Dialogs \union {None}]
  /\ f.due = f.open
  /\ d \in PopupBoxes /\ f.requested => f.open

(* What the handlers make of the flags.                                    *)
LEMMA PopupsDialogue ==
  ASSUME NEW d \in Po!Dialogs, NEW f, PopupsSound(d, f), NEW isPopup \in BOOLEAN
  PROVE  /\ PopupsSound(d, Po!Opened(f, isPopup)) /\ Po!Opened(f, isPopup).open
         /\ isPopup => Po!Opened(f, isPopup).requested
         /\ Po!Opened(f, isPopup).popup = f.popup
BY DEF PopupsSound, Po!Opened

LEMMA PopupsClosing ==
  ASSUME NEW w \in PopupWindows, NEW f, PopupsSound(w, f), NEW again \in BOOLEAN
  PROVE  /\ PopupsSound(w, Po!Closed(w, f, again)) /\ Po!Closed(w, f, again).popup = f.popup
         /\ ~again => ~Po!Closed(w, f, again).open
         /\ Po!Closed(w, f, again).open /\ v1[w] # "Normal" => Po!Closed(w, f, again).requested
<1>1. w \notin PopupBoxes /\ w \in Po!Dialogs
  BY PopupsAssumption DEF Po!Dialogs
<1> DEFINE told == [f EXCEPT !.open = FALSE, !.due = FALSE]
           pops == v1[w] # "Normal"
<1>2. PopupsSound(w, told) /\ told.popup = f.popup /\ ~told.open /\ pops \in BOOLEAN
  BY <1>1 DEF PopupsSound
<1>3. \/ ~f.open /\ Po!Closed(w, f, again) = f
      \/ again /\ Po!Closed(w, f, again) = Po!Opened(told, pops)
      \/ ~again /\ Po!Closed(w, f, again) = told
  BY DEF Po!Closed
<1>4. /\ PopupsSound(w, Po!Opened(told, pops)) /\ Po!Opened(told, pops).popup = told.popup
      /\ pops => Po!Opened(told, pops).requested
  <2> HIDE DEF told, pops
  <2> QED
    BY <1>1, <1>2, PopupsDialogue
<1> HIDE DEF told
<1> QED
  BY <1>2, <1>3, <1>4

LEMMA PopupsFinishing ==
  ASSUME NEW b \in PopupBoxes, NEW f, PopupsSound(b, f), NEW again \in BOOLEAN
  PROVE  /\ PopupsSound(b, Po!Finished(f, again)) /\ Po!Finished(f, again).popup = f.popup
         /\ Po!Finished(f, again).open => Po!Finished(f, again).requested
<1>1. b \in Po!Dialogs
  BY DEF Po!Dialogs
<1> DEFINE told == [f EXCEPT !.open = FALSE, !.requested = FALSE, !.due = FALSE]
           off == [f EXCEPT !.requested = FALSE]
<1>2. PopupsSound(b, told) /\ told.popup = f.popup /\ ~told.open
  BY DEF PopupsSound
<1>3. PopupsSound(b, off) /\ off.popup = f.popup /\ off.open = f.open
  BY DEF PopupsSound
<1>4. \/ ~f.open /\ Po!Finished(f, again) = off
      \/ again /\ Po!Finished(f, again) = Po!Opened(told, TRUE)
      \/ Po!Finished(f, again) = told
  BY DEF Po!Finished
<1> HIDE DEF told, off
<1>5. /\ PopupsSound(b, Po!Opened(told, TRUE)) /\ Po!Opened(told, TRUE).popup = told.popup
      /\ Po!Opened(told, TRUE).requested
  BY <1>1, <1>2, PopupsDialogue
<1> QED
  BY <1>2, <1>3, <1>4, <1>5

LEMMA PopupsAsking ==
  ASSUME NEW d \in Po!Dialogs, NEW f, PopupsSound(d, f)
  PROVE  /\ PopupsSound(d, Po!Requested(d, f)) /\ ~Po!Requested(d, f).requested
         /\ Po!Requested(d, f).open = f.open
BY DEF PopupsSound, Po!Requested

(* A step of one dialog: its flags are sound again, and if it was drawn it *)
(* is closed, asks to be shown, or is the popup that ImGui shows.          *)
LEMMA PopupsDialogSteps ==
  ASSUME Po!Inv, NEW d \in Po!Dialogs, NEW f, PopupsSound(d, f), Po!Become(d, f),
         \/ v7' = None
         \/ v7' = d /\ (f.open => f.requested \/ f.popup = d \/ (d \in PopupWindows /\ v1[d] = "Normal"))
  PROVE  Po!Inv'
<1>1. Po!TypeOK /\ v5 = v3 /\ \A b \in PopupBoxes : b \in v4 => b \in v3
  BY DEF Po!Inv, Po!DialogsConsistent, Po!ClosingIsReported, Po!OpenIsShown
<1>2. /\ v3' = Po!Set(v3, d, f.open) /\ v4' = Po!Set(v4, d, f.requested)
      /\ v5' = Po!Set(v5, d, f.due) /\ v6' = f.popup /\ v1' = v1
      /\ f.due = f.open /\ (d \in PopupBoxes /\ f.requested => f.open)
  BY DEF Po!Become, PopupsSound
<1>3. Po!TypeOK'
  <2>1. f.popup \in Po!Dialogs \union {None} /\ v1 \in [PopupWindows -> Po!Modes]
    BY <1>1 DEF PopupsSound, Po!TypeOK
  <2>2. v3' \subseteq Po!Dialogs /\ v4' \subseteq Po!Dialogs /\ v5' \subseteq Po!Dialogs
    BY <1>1, <1>2 DEF Po!TypeOK, Po!Set
  <2> QED
    BY <1>2, <2>1, <2>2 DEF Po!TypeOK
<1>4. Po!ClosingIsReported'
  BY <1>1, <1>2 DEF Po!ClosingIsReported
<1>5. \A b \in PopupBoxes : b \in v4' => b \in v3'
  BY <1>1, <1>2 DEF Po!Set
<1>6. ASSUME NEW e \in Po!Dialogs, v7' = e, e \in v3' \ v4', e \in PopupWindows => v1'[e] # "Normal"
      PROVE  v6' = e
  BY <1>2, <1>6, PopupsAssumption DEF Po!Set, Po!Dialogs
<1> QED
  BY <1>3, <1>4, <1>5, <1>6 DEF Po!Inv, Po!DialogsConsistent, Po!OpenIsShown

LEMMA PopupsFlagsSound ==
  ASSUME Po!Inv, NEW d \in Po!Dialogs
  PROVE  PopupsSound(d, Po!Flags(d)) /\ (d \in v3 <=> Po!Flags(d).open) /\ Po!Flags(d).popup = v6
<1>1. v5 = v3 /\ v6 \in Po!Dialogs \union {None} /\ \A b \in PopupBoxes : b \in v4 => b \in v3
  BY DEF Po!Inv, Po!TypeOK, Po!DialogsConsistent, Po!ClosingIsReported, Po!OpenIsShown
<1>2. /\ Po!Flags(d) \in [open : BOOLEAN, requested : BOOLEAN, due : BOOLEAN,
                        popup : Po!Dialogs \union {None}]
      /\ Po!Flags(d).open = (d \in v3) /\ Po!Flags(d).due = (d \in v5)
      /\ Po!Flags(d).requested = (d \in v4) /\ Po!Flags(d).popup = v6
  BY <1>1 DEF Po!Flags
<1> QED
  BY <1>1, <1>2 DEF PopupsSound

LEMMA PopupsInit == Po!Init => Po!Inv
BY PopupsAssumption DEF Po!Init, Po!Inv, Po!TypeOK, Po!Modes, Po!DialogsConsistent, Po!ClosingIsReported,
   Po!OpenIsShown,
   Po!Dialogs

(* A frame of a window that is a popup, and of a box.                      *)
LEMMA PopupsRenderPopupKeeps ==
  ASSUME Po!Inv, NEW w \in PopupWindows, NEW does \in BOOLEAN, Po!RenderPopup(w, does)
  PROVE  Po!Inv'
<1> USE DEF Po!Dialogs
<1> PICK again \in BOOLEAN :
        LET asked == Po!Requested(w, Po!Flags(w))
            modal == v1[w] = "Modal"
            ends  == asked.popup = w /\ does
            after == IF ends THEN [asked EXCEPT !.popup = None] ELSE asked
            first == IF after.popup = w THEN after ELSE Po!ClosedByImGui(w, after, again)
            last  == IF modal /\ v2[w] /\ after.popup # w THEN Po!Closed(w, first, FALSE) ELSE first
        IN  /\ w \in v3 /\ v1[w] # "Normal" /\ v7' = w /\ Po!Become(w, last)
  BY DEF Po!RenderPopup
<1> DEFINE asked == Po!Requested(w, Po!Flags(w))
           modal == v1[w] = "Modal"
           ends  == asked.popup = w /\ does
           after == IF ends THEN [asked EXCEPT !.popup = None] ELSE asked
           first == IF after.popup = w THEN after ELSE Po!ClosedByImGui(w, after, again)
           last  == IF modal /\ v2[w] /\ after.popup # w THEN Po!Closed(w, first, FALSE) ELSE first
<1>1. v1[w] # "Normal" /\ v7' = w /\ Po!Become(w, last)
  OBVIOUS
<1>2. PopupsSound(w, asked) /\ ~asked.requested
  BY PopupsFlagsSound, PopupsAsking
<1> HIDE DEF asked
<1>3. PopupsSound(w, after)
  BY <1>2 DEF PopupsSound
<1> HIDE DEF after
<1>4. (first = after /\ after.popup = w) \/ (first = Po!Closed(w, after, again) /\ after.popup # w)
  BY DEF Po!ClosedByImGui
<1>5. PopupsSound(w, first) /\ (first.open => first.requested \/ (after.popup = w /\ first.popup = w))
  BY <1>1, <1>3, <1>4, PopupsClosing
<1>6. last = first \/ last = Po!Closed(w, first, FALSE)
  OBVIOUS
<1> HIDE DEF first, last
<1>7. PopupsSound(w, last) /\ (last.open => last.requested \/ last.popup = w)
  BY <1>5, <1>6, PopupsClosing
<1> QED
  BY <1>1, <1>7, PopupsDialogSteps

LEMMA PopupsRenderBoxKeeps ==
  ASSUME Po!Inv, NEW b \in PopupBoxes, NEW does, Po!RenderBox(b, does)
  PROVE  Po!Inv'
<1> USE DEF Po!Dialogs
<1> PICK again \in BOOLEAN :
        LET asked == Po!Requested(b, Po!Flags(b))
            after == IF asked.popup = b /\ does # "none" THEN [asked EXCEPT !.popup = None] ELSE asked
        IN  /\ b \in v3 /\ v7' = b
            /\ Po!Become(b, IF after.popup = b THEN after ELSE Po!Finished(after, again))
  BY DEF Po!RenderBox
<1> DEFINE asked == Po!Requested(b, Po!Flags(b))
           after == IF asked.popup = b /\ does # "none" THEN [asked EXCEPT !.popup = None] ELSE asked
           last == IF after.popup = b THEN after ELSE Po!Finished(after, again)
<1>1. v7' = b /\ Po!Become(b, last)
  OBVIOUS
<1>2. PopupsSound(b, asked) /\ asked.open
  BY PopupsFlagsSound, PopupsAsking
<1> HIDE DEF asked
<1>3. PopupsSound(b, after)
  BY <1>2 DEF PopupsSound
<1> HIDE DEF after
<1>4. PopupsSound(b, last) /\ (last.open => last.requested \/ last.popup = b)
  BY <1>3, PopupsFinishing
<1> HIDE DEF last
<1> QED
  BY <1>1, <1>4, PopupsDialogSteps

LEMMA PopupsNext ==
  ASSUME Po!Inv, [Po!Next]_Po!popupVars
  PROVE  Po!Inv'
<1> USE DEF Po!Dialogs
<1>1. CASE UNCHANGED Po!popupVars
  BY <1>1 DEF Po!popupVars, Po!Inv, Po!TypeOK, Po!DialogsConsistent, Po!ClosingIsReported, Po!OpenIsShown
<1>2. ASSUME NEW w \in PopupWindows, Po!OpenWindow(w) \/ Po!CloseWindow(w) PROVE Po!Inv'
  <2> DEFINE pops == v1[w] # "Normal"
  <2>1. pops \in BOOLEAN /\ PopupsSound(w, Po!Flags(w))
    BY PopupsFlagsSound
  <2>2. PICK f : f \in {Po!Opened(Po!Flags(w), pops), Po!Closed(w, Po!Flags(w), FALSE)} /\ Po!Become(w, f)
             /\ v7' = None
    BY <1>2 DEF Po!OpenWindow, Po!CloseWindow
  <2> HIDE DEF pops
  <2>3. PopupsSound(w, Po!Opened(Po!Flags(w), pops)) /\ PopupsSound(w, Po!Closed(w, Po!Flags(w), FALSE))
    BY <2>1, PopupsDialogue, PopupsClosing
  <2>4. PopupsSound(w, f)
    BY <2>2, <2>3
  <2> QED
    BY <2>2, <2>4, PopupsDialogSteps
<1>3. ASSUME NEW b \in PopupBoxes, Po!OpenBox(b) \/ Po!FinishBox(b) PROVE Po!Inv'
  <2>1. PopupsSound(b, Po!Flags(b))
    BY PopupsFlagsSound
  <2>2. PICK f : /\ \/ f = Po!Opened(Po!Flags(b), TRUE)
                    \/ \E again \in BOOLEAN : f = Po!Finished(Po!Flags(b), again)
                 /\ Po!Become(b, f) /\ v7' = None
    BY <1>3 DEF Po!OpenBox, Po!FinishBox
  <2>3. PopupsSound(b, f)
    BY <2>1, <2>2, PopupsDialogue, PopupsFinishing
  <2> QED
    BY <2>2, <2>3, PopupsDialogSteps
<1>4. ASSUME NEW w \in PopupWindows, NEW m \in {"Normal", "Popup", "Modal"}, Po!SetMode(w, m) PROVE Po!Inv'
  <2>1. /\ v1' = [v1 EXCEPT ![w] = m] /\ v7' = None /\ v3' = v3 /\ v5' = v5
        /\ v4' = Po!Set(v4, w, w \in v4 \/ (w \in v3 /\ m # "Normal"))
    BY <1>4 DEF Po!SetMode
  <2>2. Po!TypeOK'
    <3>1. v1' \in [PopupWindows -> Po!Modes]
      BY <2>1 DEF Po!Inv, Po!TypeOK, Po!Modes
    <3>2. v4' \subseteq Po!Dialogs /\ v6' = v6
      BY <1>4, <2>1 DEF Po!SetMode, Po!Inv, Po!TypeOK, Po!Set
    <3> QED
      BY <2>1, <3>1, <3>2 DEF Po!Inv, Po!TypeOK
  <2>3. Po!OpenIsShown'
    BY <2>1, PopupsAssumption DEF Po!Inv, Po!DialogsConsistent, Po!OpenIsShown, Po!Set
  <2> QED
    BY <2>1, <2>2, <2>3 DEF Po!Inv, Po!DialogsConsistent, Po!ClosingIsReported
<1>5. ASSUME NEW w \in PopupWindows, Po!SetCloseButtonVisible(w) PROVE Po!Inv'
  BY <1>5, PopupsAssumption DEF Po!SetCloseButtonVisible, Po!Inv, Po!TypeOK, Po!DialogsConsistent,
     Po!ClosingIsReported,
     Po!OpenIsShown
<1>6. ASSUME NEW w \in PopupWindows, NEW pressed \in BOOLEAN, Po!RenderNormal(w, pressed) PROVE Po!Inv'
  <2>1. PICK f : f \in {Po!Flags(w), Po!Closed(w, Po!Flags(w), FALSE)} /\ Po!Become(w, f)
    BY <1>6 DEF Po!RenderNormal
  <2>2. v7' = w /\ v1[w] = "Normal"
    BY <1>6 DEF Po!RenderNormal
  <2>3. PopupsSound(w, f)
    BY <2>1, PopupsFlagsSound, PopupsClosing
  <2> QED
    BY <2>1, <2>2, <2>3, PopupsDialogSteps
<1>7. CASE Po!ImGuiCloses
  BY <1>7, PopupsAssumption DEF Po!ImGuiCloses, Po!Inv, Po!TypeOK, Po!DialogsConsistent, Po!ClosingIsReported,
     Po!OpenIsShown
<1> QED
  BY <1>1, <1>2, <1>3, <1>4, <1>5, <1>6, <1>7, PopupsRenderPopupKeeps, PopupsRenderBoxKeeps DEF Po!Next

-----------------------------------------------------------------------------
(* Radio buttons.                                                           *)

\* Any buttons; no slot selects another. Who is alive is in v1, the links in
\* v2, the selected in v3, the click in v4.
Ra == INSTANCE RadioButtons WITH
    SlotsSelect <- FALSE,
    alive <- v1, linked <- v2, selected <- v3, clicks <- v4

(* Adding a node to a list that does not have it.                          *)
LEMMA RadioOneMore ==
  ASSUME NEW S, NEW s \in Seq(S), NEW e \in S
  PROVE  /\ Append(s, e) \in Seq(S) /\ Ra!Range(Append(s, e)) = Ra!Range(s) \union {e}
         /\ Ra!IsInjective(s) /\ e \notin Ra!Range(s) => Ra!IsInjective(Append(s, e))
<1> DEFINE t == Append(s, e)
<1>1. /\ t \in Seq(S) /\ Len(s) \in Nat /\ Len(t) = Len(s) + 1
      /\ DOMAIN s = 1 .. Len(s) /\ DOMAIN t = 1 .. Len(s) + 1
      /\ t[Len(s) + 1] = e /\ \A i \in 1 .. Len(s) : t[i] = s[i]
  OBVIOUS
<1> HIDE DEF t
<1>2. Ra!Range(t) = Ra!Range(s) \union {e}
  <2>1. Len(s) + 1 \in DOMAIN t
    BY <1>1
  <2>2. ASSUME NEW x \in Ra!Range(t) PROVE x \in Ra!Range(s) \union {e}
    <3>1. PICK i \in DOMAIN t : x = t[i]
      BY DEF Ra!Range
    <3>2. CASE i = Len(s) + 1
      BY <1>1, <3>1, <3>2
    <3>3. CASE i # Len(s) + 1
      <4>1. i \in 1 .. Len(s)
        BY <1>1, <3>3
      <4> QED
        BY <1>1, <3>1, <4>1 DEF Ra!Range
    <3> QED
      BY <3>2, <3>3
  <2>3. ASSUME NEW x \in Ra!Range(s) PROVE x \in Ra!Range(t)
    <3>1. PICK i \in DOMAIN s : x = s[i]
      BY DEF Ra!Range
    <3>2. i \in DOMAIN t /\ t[i] = x
      BY <1>1, <3>1
    <3> QED
      BY <3>2 DEF Ra!Range
  <2>4. e \in Ra!Range(t)
    BY <1>1, <2>1 DEF Ra!Range
  <2> QED
    BY <2>2, <2>3, <2>4
<1>3. ASSUME Ra!IsInjective(s), e \notin Ra!Range(s) PROVE Ra!IsInjective(t)
  <2> SUFFICES ASSUME NEW i \in 1 .. Len(s) + 1, NEW j \in 1 .. Len(s) + 1, t[i] = t[j] PROVE i = j
    BY <1>1 DEF Ra!IsInjective
  <2>1. \A k \in 1 .. Len(s) : t[k] # e
    BY <1>1, <1>3 DEF Ra!Range
  <2>2. CASE i = Len(s) + 1 \/ j = Len(s) + 1
    BY <1>1, <2>1, <2>2
  <2>3. CASE i # Len(s) + 1 /\ j # Len(s) + 1
    <3>1. i \in 1 .. Len(s) /\ j \in 1 .. Len(s)
      BY <1>1, <2>3
    <3> QED
      BY <1>1, <1>3, <3>1 DEF Ra!IsInjective
  <2> QED
    BY <2>2, <2>3
<1> QED
  BY <1>1, <1>2, <1>3 DEF t

(* k is the recursion in Those, which has a solution.                       *)
RadioPicks(k, s, some) ==
  /\ Ra!Those(s, some) = k[Len(s)] /\ k[0] = <<>>
  /\ \A n \in 1 .. Len(s) :
       k[n] = IF s[n] \in some THEN Append(k[n - 1], s[n]) ELSE k[n - 1]

LEMMA RadioThoseWellDefined ==
  ASSUME NEW S, NEW s \in Seq(S), NEW some
  PROVE  \E k : RadioPicks(k, s, some)
<1> DEFINE Solves(k, m) ==
      k = [n \in 0 .. m |->
             IF n = 0 THEN <<>>
             ELSE IF s[n] \in some THEN Append(k[n - 1], s[n]) ELSE k[n - 1]]
           N == {m \in Nat : \E k : Solves(k, m)}
<1>1. 0 \in N
  <2>1. Solves([n \in 0 .. 0 |-> <<>>], 0)
    OBVIOUS
  <2> QED
    BY <2>1
<1>2. ASSUME NEW m \in N PROVE m + 1 \in N
  <2>1. PICK k : Solves(k, m)
    BY <1>2
  <2> DEFINE g == [n \in 0 .. m + 1 |->
                     IF n = m + 1
                     THEN IF s[n] \in some THEN Append(k[m], s[n]) ELSE k[m]
                     ELSE k[n]]
  <2>2. \A n \in 0 .. m : g[n] = k[n]
    OBVIOUS
  <2>3. \A n \in 0 .. m : k[n] = IF n = 0 THEN <<>>
             ELSE IF s[n] \in some THEN Append(k[n - 1], s[n]) ELSE k[n - 1]
    BY <2>1
  <2>4. ASSUME NEW n \in 0 .. m + 1
        PROVE  g[n] = IF n = 0 THEN <<>>
             ELSE IF s[n] \in some THEN Append(g[n - 1], s[n]) ELSE g[n - 1]
    <3>1. CASE n = 0
      <4>1. 0 \in 0 .. m
        OBVIOUS
      <4>2. g[0] = k[0] /\ k[0] = <<>>
        BY <2>2, <2>3, <4>1
      <4> QED
        BY <3>1, <4>2
    <3>2. CASE n \in 1 .. m
      <4>1. n \in 0 .. m /\ n - 1 \in 0 .. m /\ n # 0
        BY <3>2
      <4> QED
        BY <4>1, <2>2, <2>3
    <3>3. CASE n = m + 1
      <4>1. m \in 0 .. m /\ n - 1 = m /\ n # 0
        BY <3>3
      <4>2. g[n - 1] = k[m]
        BY <4>1, <2>2
      <4>3. g[n] = IF s[n] \in some THEN Append(k[m], s[n]) ELSE k[m]
        BY <3>3
      <4> QED
        BY <4>1, <4>2, <4>3
    <3> QED
      BY <3>1, <3>2, <3>3
  <2>5. g = [n \in 0 .. m + 1 |-> IF n = 0 THEN <<>>
             ELSE IF s[n] \in some THEN Append(g[n - 1], s[n]) ELSE g[n - 1]]
    <3> HIDE DEF g
    <3>1. g = [n \in 0 .. m + 1 |-> g[n]]
      BY DEF g
    <3> QED
      BY <2>4, <3>1
  <2> HIDE DEF g
  <2>6. \E h : Solves(h, m + 1)
    BY <2>5
  <2>7. m + 1 \in Nat
    OBVIOUS
  <2> QED
    BY <2>6, <2>7
<1>3. N = Nat
  <2>1. N \in SUBSET Nat
    OBVIOUS
  <2> HIDE DEF N
  <2> QED
    BY <1>1, <1>2, <2>1, SetInduction
<1>4. Len(s) \in Nat
  OBVIOUS
<1>5. \E k : Solves(k, Len(s))
  <2>1. Len(s) \in N
    BY <1>3, <1>4
  <2> QED
    BY <2>1
<1> DEFINE solution == CHOOSE k : Solves(k, Len(s))
<1>6. Solves(solution, Len(s))
  BY <1>5
<1>7. Ra!Those(s, some) = solution[Len(s)]
  BY DEF Ra!Those
<1> HIDE DEF solution
<1>8. \A n \in 0 .. Len(s) :
        solution[n] = IF n = 0 THEN <<>>
                      ELSE IF s[n] \in some THEN Append(solution[n - 1], s[n]) ELSE solution[n - 1]
  BY <1>6
<1>9. solution[0] = <<>>
  BY <1>4, <1>8
<1>10. \A n \in 1 .. Len(s) :
         solution[n] = IF s[n] \in some THEN Append(solution[n - 1], s[n]) ELSE solution[n - 1]
  BY <1>4, <1>8
<1> QED
  BY <1>7, <1>9, <1>10 DEF RadioPicks

(* What is in the list that is left.                                       *)
LEMMA RadioThoseIs ==
  ASSUME NEW S, NEW s \in Seq(S), NEW some
  PROVE  /\ Ra!Those(s, some) \in Seq(S) /\ Ra!Range(Ra!Those(s, some)) = Ra!Range(s) \intersect some
         /\ Ra!IsInjective(s) => Ra!IsInjective(Ra!Those(s, some))
<1>1. PICK k : RadioPicks(k, s, some)
  BY RadioThoseWellDefined
<1>2. Len(s) \in Nat /\ DOMAIN s = 1 .. Len(s) /\ \A i \in 1 .. Len(s) : s[i] \in S
  OBVIOUS
<1> DEFINE First(n) == {s[i] : i \in 1 .. n}
           Up(n) == /\ k[n] \in Seq(S) /\ Ra!Range(k[n]) = First(n) \intersect some
                    /\ Ra!IsInjective(s) => Ra!IsInjective(k[n])
           N == {n \in Nat : n <= Len(s) => Up(n)}
<1>3. 0 \in N
  <2>1. k[0] = <<>> /\ First(0) = {} /\ <<>> \in Seq(S)
    BY <1>1 DEF RadioPicks
  <2>2. Ra!Range(<<>>) = {} /\ Ra!IsInjective(<<>>)
    BY DEF Ra!Range, Ra!IsInjective
  <2> QED
    BY <2>1, <2>2
<1>4. ASSUME NEW n \in N PROVE n + 1 \in N
  <2> SUFFICES ASSUME n + 1 <= Len(s) PROVE Up(n + 1)
    OBVIOUS
  <2>1. n \in Nat /\ n + 1 \in 1 .. Len(s) /\ s[n + 1] \in S
    BY <1>2
  <2>2. Up(n)
    BY <1>2, <2>1
  <2>3. First(n + 1) = First(n) \union {s[n + 1]}
    <3>1. 1 .. n + 1 = 1 .. n \union {n + 1}
      BY <2>1
    <3> QED
      BY <3>1
  <2>4. k[n + 1] = IF s[n + 1] \in some THEN Append(k[n], s[n + 1]) ELSE k[n]
    BY <1>1, <2>1 DEF RadioPicks
  <2>5. Ra!IsInjective(s) => s[n + 1] \notin First(n)
    <3>1. \A i \in 1 .. n : i \in 1 .. Len(s) /\ i # n + 1
      BY <1>2, <2>1
    <3> QED
      BY <1>2, <2>1, <3>1 DEF Ra!IsInjective
  <2> HIDE DEF First
  <2>6. CASE s[n + 1] \notin some
    BY <2>2, <2>3, <2>4, <2>6
  <2>7. CASE s[n + 1] \in some
    <3> DEFINE q == k[n]  e == s[n + 1]
    <3>1. q \in Seq(S) /\ e \in S /\ k[n + 1] = Append(q, e)
      BY <2>1, <2>2, <2>4, <2>7
    <3>2. Ra!IsInjective(s) => Ra!IsInjective(q) /\ e \notin Ra!Range(q)
      BY <2>2, <2>5
    <3>3. Ra!Range(q) = First(n) \intersect some
      BY <2>2
    <3> HIDE DEF q, e
    <3>4. /\ Append(q, e) \in Seq(S) /\ Ra!Range(Append(q, e)) = Ra!Range(q) \union {e}
          /\ Ra!IsInjective(s) => Ra!IsInjective(Append(q, e))
      BY <3>1, <3>2, RadioOneMore
    <3>5. Ra!Range(k[n + 1]) = First(n + 1) \intersect some
      BY <2>3, <2>7, <3>1, <3>3, <3>4 DEF e
    <3> QED
      BY <3>1, <3>4, <3>5
  <2> QED
    BY <2>6, <2>7
<1>5. N = Nat
  <2>1. N \in SUBSET Nat
    OBVIOUS
  <2> HIDE DEF N
  <2> QED
    BY <1>3, <1>4, <2>1, SetInduction
<1>6. Up(Len(s))
  <2> HIDE DEF N
  <2>1. Len(s) \in N
    BY <1>2, <1>5
  <2> HIDE DEF Up
  <2>2. Len(s) <= Len(s) => Up(Len(s))
    BY <2>1 DEF N
  <2> QED
    BY <1>2, <2>2
<1>7. Ra!Those(s, some) = k[Len(s)]
  BY <1>1 DEF RadioPicks
<1>8. First(Len(s)) = Ra!Range(s)
  BY <1>2 DEF Ra!Range
<1> QED
  BY <1>6, <1>7, <1>8

LEMMA RadioRangeOfConcat ==
  ASSUME NEW S, NEW s \in Seq(S), NEW t \in Seq(S)
  PROVE  s \o t \in Seq(S) /\ Ra!Range(s \o t) = Ra!Range(s) \union Ra!Range(t)
<1> DEFINE u == s \o t
<1>1. /\ Len(s) \in Nat /\ Len(t) \in Nat /\ Len(u) = Len(s) + Len(t) /\ u \in Seq(S)
      /\ \A i \in 1 .. Len(u) : u[i] = IF i <= Len(s) THEN s[i] ELSE t[i - Len(s)]
  BY ConcatProperties
<1>2. DOMAIN u = 1 .. Len(s) + Len(t) /\ DOMAIN s = 1 .. Len(s) /\ DOMAIN t = 1 .. Len(t)
  BY <1>1
<1> HIDE DEF u
<1>3. ASSUME NEW x \in Ra!Range(u) PROVE x \in Ra!Range(s) \union Ra!Range(t)
  <2>1. PICK i \in DOMAIN u : x = u[i]
    BY DEF Ra!Range
  <2>2. CASE i <= Len(s)
    <3>1. i \in DOMAIN s /\ x = s[i]
      BY <1>1, <1>2, <2>1, <2>2
    <3> QED
      BY <3>1 DEF Ra!Range
  <2>3. CASE ~(i <= Len(s))
    <3>1. i - Len(s) \in DOMAIN t /\ x = t[i - Len(s)]
      BY <1>1, <1>2, <2>1, <2>3
    <3> QED
      BY <3>1 DEF Ra!Range
  <2> QED
    BY <2>2, <2>3
<1>4. ASSUME NEW x \in Ra!Range(s) PROVE x \in Ra!Range(u)
  <2>1. PICK i \in DOMAIN s : x = s[i]
    BY DEF Ra!Range
  <2>2. i \in DOMAIN u /\ u[i] = x
    BY <1>1, <1>2, <2>1
  <2> QED
    BY <2>2 DEF Ra!Range
<1>5. ASSUME NEW x \in Ra!Range(t) PROVE x \in Ra!Range(u)
  <2>1. PICK i \in DOMAIN t : x = t[i]
    BY DEF Ra!Range
  <2>2. i \in 1 .. Len(t) /\ i + Len(s) \in DOMAIN u /\ ~(i + Len(s) <= Len(s)) /\ (i + Len(s)) - Len(s) = i
    BY <1>1, <1>2, <2>1
  <2>3. u[i + Len(s)] = x
    BY <1>1, <1>2, <2>1, <2>2
  <2> QED
    BY <2>2, <2>3 DEF Ra!Range
<1> QED
  BY <1>1, <1>3, <1>4, <1>5 DEF u

LEMMA RadioHeadOrTail ==
  ASSUME NEW S, NEW s \in Seq(S), s # <<>>
  PROVE  /\ Head(s) \in S /\ Tail(s) \in Seq(S)
         /\ Ra!Range(s) = {Head(s)} \union Ra!Range(Tail(s))
<1>1. /\ Len(s) \in Nat \ {0} /\ DOMAIN s = 1 .. Len(s) /\ Head(s) = s[1] /\ Tail(s) \in Seq(S)
      /\ DOMAIN Tail(s) = 1 .. Len(s) - 1
      /\ \A i \in 1 .. Len(s) - 1 : Tail(s)[i] = s[i + 1]
  OBVIOUS
<1> DEFINE t == Tail(s)
<1>2. t \in Seq(S) /\ DOMAIN t = 1 .. Len(s) - 1 /\ \A i \in 1 .. Len(s) - 1 : t[i] = s[i + 1]
  BY <1>1
<1> HIDE DEF t
<1>3. ASSUME NEW x \in Ra!Range(s) PROVE x \in {Head(s)} \union Ra!Range(t)
  <2>1. PICK i \in DOMAIN s : x = s[i]
    BY DEF Ra!Range
  <2>2. CASE i = 1
    BY <1>1, <2>1, <2>2
  <2>3. CASE i # 1
    <3>1. i - 1 \in DOMAIN t /\ t[i - 1] = x
      BY <1>1, <1>2, <2>1, <2>3
    <3> QED
      BY <3>1 DEF Ra!Range
  <2> QED
    BY <2>2, <2>3
<1>4. ASSUME NEW x \in Ra!Range(t) PROVE x \in Ra!Range(s)
  <2>1. PICK i \in DOMAIN t : x = t[i]
    BY DEF Ra!Range
  <2>2. i + 1 \in DOMAIN s /\ s[i + 1] = x
    BY <1>1, <1>2, <2>1
  <2> QED
    BY <2>2 DEF Ra!Range
<1>5. Head(s) \in Ra!Range(s) /\ Head(s) \in S
  <2>1. 1 \in DOMAIN s
    BY <1>1
  <2> QED
    BY <1>1, <2>1 DEF Ra!Range
<1> QED
  BY <1>1, <1>3, <1>4, <1>5 DEF t

LEMMA RadioNothingInEmpty ==
  ASSUME NEW S
  PROVE <<>> \in Seq(S) /\ Ra!Range(<<>>) = {}
BY DEF Ra!Range

(* The living buttons that a button is linked to.                          *)
RadioNear(x) == Ra!Range(v2[x]) \intersect v1

LEMMA RadioPeersAreNear ==
  ASSUME Ra!TypeOK, NEW b \in Buttons
  PROVE  Ra!LinkedPeers(b) \in Seq(Buttons) /\ Ra!Range(Ra!LinkedPeers(b)) = RadioNear(b)
<1>1. v2[b] \in Seq(Buttons)
  BY DEF Ra!TypeOK
<1>2. /\ Ra!Those(v2[b], v1) \in Seq(Buttons)
      /\ Ra!Range(Ra!Those(v2[b], v1)) = Ra!Range(v2[b]) \intersect v1
  BY <1>1, RadioThoseIs
<1> QED
  BY <1>2 DEF Ra!LinkedPeers, RadioNear

LEMMA RadioNearIsGroup ==
         Ra!LinksAreGroups <=>
           \A x, y \in v1 : y \in RadioNear(x) =>
              /\ x # y /\ x \in RadioNear(y)
              /\ \A z \in v1 \ {x} : z \in RadioNear(y) => z \in RadioNear(x)
BY DEF Ra!LinksAreGroups, RadioNear

(* link() gathers the two groups.                                          *)
RadioBoth(a, b) == {a, b} \union RadioNear(a) \union RadioNear(b)

LEMMA RadioGroupIsBoth ==
  ASSUME Ra!TypeOK, NEW a \in v1, NEW b \in v1
  PROVE  Ra!Group(a, b) \in Seq(Buttons) /\ Ra!Range(Ra!Group(a, b)) = RadioBoth(a, b)
<1>0. a \in Buttons /\ b \in Buttons
  BY DEF Ra!TypeOK
<1> DEFINE pa == Ra!LinkedPeers(a)   pb == Ra!LinkedPeers(b)
           one == <<a>>
           mine == one \o pa
           both == IF b \in Ra!Range(mine) THEN mine ELSE Append(mine, b)
           rest == Ra!Those(pb, Buttons \ Ra!Range(both))
<1>1. /\ pa \in Seq(Buttons) /\ Ra!Range(pa) = RadioNear(a)
      /\ pb \in Seq(Buttons) /\ Ra!Range(pb) = RadioNear(b)
  BY <1>0, RadioPeersAreNear
<1>2. Ra!Group(a, b) = both \o rest
  BY DEF Ra!Group
<1>3. one \in Seq(Buttons) /\ Ra!Range(one) = {a}
  <2>1. one \in Seq(Buttons) /\ DOMAIN one = {1} /\ one[1] = a
    BY <1>0
  <2> QED
    BY <2>1 DEF Ra!Range
<1> HIDE DEF pa, pb, one
<1>4. mine \in Seq(Buttons) /\ Ra!Range(mine) = {a} \union RadioNear(a)
  BY <1>1, <1>3, RadioRangeOfConcat
<1> HIDE DEF mine
<1>5. Append(mine, b) \in Seq(Buttons) /\ Ra!Range(Append(mine, b)) = Ra!Range(mine) \union {b}
  BY <1>0, <1>4, RadioOneMore
<1>6. both \in Seq(Buttons) /\ Ra!Range(both) = {a, b} \union RadioNear(a)
  <2>1. CASE b \in Ra!Range(mine)
    BY <1>4, <2>1
  <2>2. CASE b \notin Ra!Range(mine)
    BY <1>4, <1>5, <2>2
  <2> QED
    BY <2>1, <2>2
<1> HIDE DEF both
<1>7. rest \in Seq(Buttons) /\ Ra!Range(rest) = RadioNear(b) \intersect (Buttons \ Ra!Range(both))
  BY <1>1, RadioThoseIs
<1> HIDE DEF rest
<1>8. both \o rest \in Seq(Buttons) /\ Ra!Range(both \o rest) = Ra!Range(both) \union Ra!Range(rest)
  BY <1>6, <1>7, RadioRangeOfConcat
<1>9. RadioNear(b) \subseteq Buttons
  BY DEF RadioNear, Ra!TypeOK
<1> QED
  BY <1>2, <1>6, <1>7, <1>8, <1>9 DEF RadioBoth

LEMMA RadioIntroducedIs ==
  ASSUME Ra!TypeOK, NEW p \in Buttons, NEW group \in Seq(Buttons)
  PROVE  /\ Ra!Introduced(p, group) \in Seq(Buttons)
         /\ Ra!Range(Ra!Introduced(p, group)) =
              Ra!Range(v2[p]) \union (Ra!Range(group) \ ({p} \union RadioNear(p)))
<1> DEFINE new == Ra!Those(group, Buttons \ ({p} \cup Ra!Range(Ra!LinkedPeers(p))))
<1>1. v2[p] \in Seq(Buttons)
  BY DEF Ra!TypeOK
<1>2. /\ new \in Seq(Buttons)
      /\ Ra!Range(new) = Ra!Range(group) \intersect (Buttons \ ({p} \cup Ra!Range(Ra!LinkedPeers(p))))
  BY RadioThoseIs
<1>3. Ra!Range(Ra!LinkedPeers(p)) = RadioNear(p)
  BY RadioPeersAreNear
<1>4. Ra!Introduced(p, group) = v2[p] \o new
  BY DEF Ra!Introduced
<1>5. Ra!Range(group) \subseteq Buttons
  <2>1. \A i \in DOMAIN group : group[i] \in Buttons
    OBVIOUS
  <2> QED
    BY <2>1 DEF Ra!Range
<1> HIDE DEF new
<1>6. v2[p] \o new \in Seq(Buttons) /\ Ra!Range(v2[p] \o new) = Ra!Range(v2[p]) \union Ra!Range(new)
  BY <1>1, <1>2, RadioRangeOfConcat
<1> QED
  BY <1>2, <1>3, <1>4, <1>5, <1>6

LEMMA RadioMergedIs ==
  ASSUME Ra!TypeOK, NEW group \in Seq(Buttons)
  PROVE  /\ Ra!Merged(group) \subseteq v3
         /\ \A x, y \in Ra!Merged(group) \intersect Ra!Range(group) : x = y
<1> DEFINE chosen == Ra!Those(group, v3)
<1>1. chosen \in Seq(Buttons) /\ Ra!Range(chosen) = Ra!Range(group) \intersect v3
  BY RadioThoseIs
<1>2. Ra!Merged(group) = IF chosen = <<>> THEN v3 ELSE v3 \ Ra!Range(Tail(chosen))
  BY DEF Ra!Merged
<1> HIDE DEF chosen
<1>3. CASE chosen = <<>>
  <2>1. Ra!Range(chosen) = {}
    BY <1>3, RadioNothingInEmpty
  <2> QED
    BY <1>1, <1>2, <1>3, <2>1
<1>4. CASE chosen # <<>>
  <2>1. Ra!Range(chosen) = {Head(chosen)} \union Ra!Range(Tail(chosen))
    BY <1>1, <1>4, RadioHeadOrTail
  <2> QED
    BY <1>1, <1>2, <1>4, <2>1
<1> QED
  BY <1>3, <1>4

(* After link() the two groups are one, and no other changed.              *)
LEMMA RadioLinkJoins ==
  ASSUME Ra!Inv, NEW a \in Buttons, NEW b \in Buttons, Ra!Link(a, b)
  PROVE  Ra!Inv'
<1> DEFINE group == Ra!Group(a, b)   G == RadioBoth(a, b)
           After(p) == IF p \in G THEN G \ {p} ELSE RadioNear(p)
<1>1. /\ a # b /\ a \in v1 /\ b \in v1 /\ v4 = <<>>
      /\ v2' = [p \in Buttons |-> IF p \in Ra!Range(group) THEN Ra!Introduced(p, group) ELSE v2[p]]
      /\ v3' = Ra!Merged(group) /\ v1' = v1 /\ v4' = v4
  BY DEF Ra!Link
<1>2. /\ Ra!TypeOK
      /\ \A x, y \in v1 : y \in RadioNear(x) =>
            /\ x # y /\ x \in RadioNear(y)
            /\ \A z \in v1 \ {x} : z \in RadioNear(y) => z \in RadioNear(x)
  BY RadioNearIsGroup DEF Ra!Inv
<1>3. group \in Seq(Buttons) /\ Ra!Range(group) = G
  BY <1>1, <1>2, RadioGroupIsBoth
<1>4. \A x : RadioNear(x) \subseteq v1
  BY DEF RadioNear
<1>5. G \subseteq v1 /\ v1 \subseteq Buttons
  BY <1>1, <1>2, <1>4 DEF RadioBoth, Ra!TypeOK
<1> HIDE DEF group
<1>6. \A p \in v1 \ G : RadioNear(p) \intersect G = {}
  <2> SUFFICES ASSUME NEW p \in v1, p \notin G, NEW q \in G, q \in RadioNear(p) PROVE FALSE
    OBVIOUS
  <2>1. q \in v1 /\ p \in RadioNear(q) /\ p # q
    BY <1>2, <1>5
  <2>2. p # a /\ p # b /\ p \notin RadioNear(a) /\ p \notin RadioNear(b)
    BY DEF RadioBoth
  <2>3. q = a \/ q = b \/ q \in RadioNear(a) \/ q \in RadioNear(b)
    BY DEF RadioBoth
  <2> QED
    BY <1>1, <1>2, <2>1, <2>2, <2>3
<1>7. \A p \in G : RadioNear(p) \subseteq G \ {p}
  <2> SUFFICES ASSUME NEW p \in G, NEW q \in RadioNear(p) PROVE q \in G \ {p}
    OBVIOUS
  <2>1. p \in v1 /\ q \in v1 /\ p # q
    BY <1>2, <1>4, <1>5
  <2>2. p = a \/ p = b \/ p \in RadioNear(a) \/ p \in RadioNear(b)
    BY DEF RadioBoth
  <2>3. q = a \/ q = b \/ q \in RadioNear(a) \/ q \in RadioNear(b)
    BY <1>1, <1>2, <2>1, <2>2
  <2> QED
    BY <2>1, <2>3 DEF RadioBoth
<1>8. /\ \A p \in Buttons : v2'[p] \in Seq(Buttons)
      /\ \A p \in v1 : RadioNear(p)' = After(p)
  <2>1. ASSUME NEW p \in Buttons, p \in G
        PROVE  v2'[p] \in Seq(Buttons)
               /\ Ra!Range(v2'[p]) = Ra!Range(v2[p]) \union (G \ ({p} \union RadioNear(p)))
    <3>1. v2'[p] = Ra!Introduced(p, group)
      BY <1>1, <1>3, <2>1
    <3> QED
      BY <1>2, <1>3, <3>1, RadioIntroducedIs
  <2>2. ASSUME NEW p \in Buttons, p \notin G PROVE v2'[p] \in Seq(Buttons) /\ v2'[p] = v2[p]
    BY <1>1, <1>2, <1>3, <2>2 DEF Ra!TypeOK
  <2>3. ASSUME NEW p \in v1 PROVE RadioNear(p)' = After(p)
    <3>1. RadioNear(p)' = Ra!Range(v2'[p]) \intersect v1
      BY <1>1 DEF RadioNear
    <3>2. CASE p \in G
      <4>1. RadioNear(p)' = RadioNear(p) \union (G \ ({p} \union RadioNear(p)))
        BY <1>5, <2>1, <3>1, <3>2 DEF RadioNear
      <4> QED
        BY <1>7, <3>2, <4>1
    <3>3. CASE p \notin G
      BY <1>5, <2>2, <3>1, <3>3 DEF RadioNear
    <3> QED
      BY <3>2, <3>3
  <2> QED
    BY <2>1, <2>2, <2>3
<1>9. Ra!TypeOK'
  <2>1. Ra!Merged(group) \subseteq v3
    BY <1>2, <1>3, RadioMergedIs
  <2> QED
    BY <1>1, <1>2, <1>8, <2>1 DEF Ra!TypeOK
<1>10. \A x, y \in v1 : y \in After(x) =>
            /\ x # y /\ x \in After(y)
            /\ \A z \in v1 \ {x} : z \in After(y) => z \in After(x)
  <2> SUFFICES ASSUME NEW x \in v1, NEW y \in v1, y \in After(x)
               PROVE  /\ x # y /\ x \in After(y)
                      /\ \A z \in v1 \ {x} : z \in After(y) => z \in After(x)
    OBVIOUS
  <2> HIDE DEF G
  <2>1. CASE x \in G
    BY <2>1
  <2>2. CASE x \notin G
    BY <1>2, <1>6, <2>2
  <2> QED
    BY <2>1, <2>2
<1>11. Ra!LinksAreGroups'
  <2> SUFFICES ASSUME NEW x \in v1, NEW y \in v1, y \in Ra!Range(v2'[x])
               PROVE  /\ x # y /\ x \in Ra!Range(v2'[y])
                      /\ \A z \in v1 \ {x} : z \in Ra!Range(v2'[y]) => z \in Ra!Range(v2'[x])
    BY <1>1 DEF Ra!LinksAreGroups
  <2>1. \A p \in v1 : After(p) = Ra!Range(v2'[p]) \intersect v1
    BY <1>1, <1>8 DEF RadioNear
  <2> HIDE DEF After
  <2> QED
    BY <1>10, <2>1
<1>12. \A x, y \in v3' : x # y => y \notin Ra!Range(v2'[x])
  <2> SUFFICES ASSUME NEW x \in v3', NEW y \in v3', x # y, y \in Ra!Range(v2'[x]) PROVE FALSE
    OBVIOUS
  <2>1. v3' \subseteq v3 /\ \A u, v \in v3' \intersect G : u = v
    BY <1>1, <1>2, <1>3, RadioMergedIs
  <2>2. x \in v1 /\ y \in v1 /\ x \in v3 /\ y \in v3
    BY <1>2, <2>1 DEF Ra!TypeOK
  <2>3. y \in After(x)
    <3>1. y \in RadioNear(x)'
      BY <1>1, <2>2 DEF RadioNear
    <3> QED
      BY <1>8, <2>2, <3>1
  <2>4. CASE x \in G
    BY <2>1, <2>3, <2>4
  <2>5. CASE x \notin G
    <3>1. y \in RadioNear(x)
      BY <2>3, <2>5
    <3> QED
      BY <2>2, <3>1 DEF Ra!Inv, Ra!ClickClears, RadioNear
  <2> QED
    BY <2>4, <2>5
<1> QED
  BY <1>1, <1>9, <1>11, <1>12 DEF Ra!Inv, Ra!ClickClears

LEMMA RadioInit == Ra!Init => Ra!Inv
<1> SUFFICES ASSUME Ra!Init PROVE Ra!Inv
  OBVIOUS
<1>1. <<>> \in Seq(Buttons) /\ Ra!Range(<<>>) = {}
  BY RadioNothingInEmpty
<1> QED
  BY <1>1 DEF Ra!Init, Ra!Inv, Ra!TypeOK, Ra!LinksAreGroups, Ra!ClickClears

LEMMA RadioSelectKeeps ==
  ASSUME Ra!Inv, NEW b \in Buttons, NEW on \in BOOLEAN, Ra!SetSelected(b, on)
  PROVE  Ra!Inv'
<1>1. /\ b \in v1 /\ v4 = <<>> /\ v3' = Ra!Silently(b, on)
      /\ v1' = v1 /\ v2' = v2 /\ v4' = v4
  BY DEF Ra!SetSelected
<1>2. Ra!TypeOK /\ Ra!LinksAreGroups
      /\ \A x, y \in v3 : x # y => y \notin Ra!Range(v2[x])
  BY DEF Ra!Inv, Ra!ClickClears
<1>3. Ra!Range(Ra!LinkedPeers(b)) = RadioNear(b)
  BY <1>2, RadioPeersAreNear
<1>4. v3' = IF on THEN (v3 \ RadioNear(b)) \union {b} ELSE v3 \ {b}
  BY <1>1, <1>3 DEF Ra!Silently
<1>5. Ra!TypeOK' /\ Ra!LinksAreGroups'
  BY <1>1, <1>2, <1>4 DEF Ra!TypeOK, Ra!LinksAreGroups
<1>6. \A x, y \in v3' : x # y => y \notin Ra!Range(v2[x])
  <2> SUFFICES ASSUME NEW x \in v3', NEW y \in v3', x # y, y \in Ra!Range(v2[x]) PROVE FALSE
    OBVIOUS
  <2>1. x \in v1 /\ y \in v1
    BY <1>1, <1>5 DEF Ra!TypeOK
  <2>2. x \in Ra!Range(v2[y])
    BY <1>2, <2>1 DEF Ra!LinksAreGroups
  <2>3. x \in RadioNear(y) /\ y \in RadioNear(x)
    BY <2>1, <2>2 DEF RadioNear
  <2> QED
    BY <1>2, <1>4, <2>3
<1> QED
  BY <1>1, <1>5, <1>6 DEF Ra!Inv, Ra!ClickClears

LEMMA RadioClickKeeps ==
  ASSUME Ra!Inv, NEW b \in Buttons, Ra!Click(b)
  PROVE  Ra!Inv'
<1> DEFINE c == [button |-> b, peers |-> Ra!LinkedPeers(b)]
<1>1. /\ b \in v1 /\ v4' = <<c>> /\ v1' = v1 /\ v2' = v2 /\ v3' = v3
  BY DEF Ra!Click
<1>2. Ra!TypeOK /\ Ra!LinksAreGroups
      /\ \A x, y \in v3 : x # y => y \notin Ra!Range(v2[x])
  BY DEF Ra!Inv, Ra!ClickClears
<1>3. Ra!LinkedPeers(b) \in Seq(Buttons) /\ Ra!Range(Ra!LinkedPeers(b)) = RadioNear(b)
  BY <1>2, RadioPeersAreNear
<1>4. c \in Ra!Clicks /\ c.button = b /\ c.peers = Ra!LinkedPeers(b)
  BY <1>3 DEF Ra!Clicks
<1> HIDE DEF c
<1>5. v4'[1] = c /\ v4' # <<>>
  BY <1>1
<1>6. Ra!TypeOK' /\ Ra!LinksAreGroups'
  BY <1>1, <1>2, <1>4 DEF Ra!TypeOK, Ra!LinksAreGroups
<1>7. v3 \intersect Ra!Range(v2[b]) \subseteq RadioNear(b)
  BY <1>2 DEF RadioNear, Ra!TypeOK
<1> QED
  BY <1>1, <1>2, <1>3, <1>4, <1>5, <1>6, <1>7 DEF Ra!Inv, Ra!ClickClears

LEMMA RadioVisitKeeps ==
  ASSUME Ra!Inv, Ra!VisitPeer
  PROVE  Ra!Inv'
<1> DEFINE c == v4[1]   p == Head(c.peers)   d == [c EXCEPT !.peers = Tail(@)]
<1>1. /\ v4 # <<>> /\ c.peers # <<>> /\ v4' = <<d>>
      /\ v1' = v1 /\ v2' = v2
  BY DEF Ra!VisitPeer
<1>2. v3' = v3 \ {p}
  BY DEF Ra!VisitPeer, Ra!Cleared
<1>3. Ra!TypeOK /\ Ra!LinksAreGroups /\ Ra!ClickClears
  BY DEF Ra!Inv
<1>4. c \in Ra!Clicks
  <2>1. PICK x \in Ra!Clicks : v4 = <<x>>
    BY <1>1, <1>3 DEF Ra!TypeOK
  <2> QED
    BY <2>1
<1>5. c.peers \in Seq(Buttons) /\ c.button \in Buttons
  BY <1>4 DEF Ra!Clicks
<1>6. Tail(c.peers) \in Seq(Buttons) /\ Ra!Range(c.peers) = {p} \union Ra!Range(Tail(c.peers))
  BY <1>1, <1>5, RadioHeadOrTail
<1>7. d \in Ra!Clicks /\ d.button = c.button /\ d.peers = Tail(c.peers)
  BY <1>4, <1>5, <1>6 DEF Ra!Clicks
<1>8. /\ \A x, y \in v3 : x # y => y \notin Ra!Range(v2[x])
      /\ c.button \in v1
      /\ v3 \cap Ra!Range(v2[c.button]) \subseteq Ra!Range(c.peers)
  BY <1>1, <1>3 DEF Ra!ClickClears
<1> HIDE DEF c, p, d
<1>9. v4' # <<>> /\ v4'[1] = d
  BY <1>1
<1>10. Ra!TypeOK' /\ Ra!LinksAreGroups'
  BY <1>1, <1>2, <1>3, <1>7 DEF Ra!TypeOK, Ra!LinksAreGroups
<1>11. v3' \cap Ra!Range(v2'[v4'[1].button]) \subseteq Ra!Range(v4'[1].peers)
  BY <1>1, <1>2, <1>6, <1>7, <1>8, <1>9
<1>12. (\A x, y \in v3 : x # y => y \notin Ra!Range(v2[x]))'
  BY <1>1, <1>2, <1>8
<1>13. v4'[1].button \in v1'
  BY <1>1, <1>7, <1>8, <1>9
<1> QED
  BY <1>10, <1>11, <1>12, <1>13 DEF Ra!Inv, Ra!ClickClears

LEMMA RadioFinishKeeps ==
  ASSUME Ra!Inv, Ra!FinishClick
  PROVE  Ra!Inv'
<1> DEFINE b == v4[1].button
<1>1. /\ v4 # <<>> /\ v4[1].peers = <<>> /\ v4' = <<>>
      /\ v3' = v3 \union {b} /\ v1' = v1 /\ v2' = v2
  BY DEF Ra!FinishClick
<1>2. Ra!TypeOK /\ Ra!LinksAreGroups /\ Ra!ClickClears
  BY DEF Ra!Inv
<1>3. /\ b \in v1 /\ v3 \cap Ra!Range(v2[b]) = {}
      /\ \A x, y \in v3 : x # y => y \notin Ra!Range(v2[x])
  BY <1>1, <1>2, RadioNothingInEmpty DEF Ra!ClickClears
<1> HIDE DEF b
<1>4. Ra!TypeOK' /\ Ra!LinksAreGroups'
  BY <1>1, <1>2, <1>3 DEF Ra!TypeOK, Ra!LinksAreGroups
<1>5. \A x \in v3 : b \in Ra!Range(v2[x]) => x \in Ra!Range(v2[b])
  BY <1>2, <1>3 DEF Ra!TypeOK, Ra!LinksAreGroups
<1> QED
  BY <1>1, <1>3, <1>4, <1>5 DEF Ra!Inv, Ra!ClickClears

LEMMA RadioDieKeeps ==
  ASSUME Ra!Inv, NEW b \in Buttons, Ra!Die(b)
  PROVE  Ra!Inv'
<1>1. /\ v1' = v1 \ {b} /\ v3' = v3 \ {b} /\ v4 = <<>>
      /\ v2' = v2 /\ v4' = v4
  BY DEF Ra!Die
<1> QED
  BY <1>1 DEF Ra!Inv, Ra!TypeOK, Ra!LinksAreGroups, Ra!ClickClears

LEMMA RadioNext == Ra!Inv /\ [Ra!Next]_Ra!radioVars => Ra!Inv'
<1> SUFFICES ASSUME Ra!Inv, [Ra!Next]_Ra!radioVars PROVE Ra!Inv'
  OBVIOUS
<1>1. CASE UNCHANGED Ra!radioVars
  BY <1>1 DEF Ra!Inv, Ra!radioVars, Ra!TypeOK, Ra!LinksAreGroups, Ra!ClickClears
<1> QED
  BY <1>1, RadioLinkJoins, RadioSelectKeeps, RadioClickKeeps, RadioVisitKeeps, RadioFinishKeeps, RadioDieKeeps
     DEF Ra!Next

LEMMA RadioExcludes == Ra!Inv => Ra!GroupsExclude
BY DEF Ra!Inv, Ra!ClickClears, Ra!GroupsExclude, Ra!OneSelected

-----------------------------------------------------------------------------
(* Spin boxes and text fields.                                              *)

\* int of any width, and any capacities: the smallest int is -IntSize. The
\* spin box is v1, the field v2, what the listeners have heard v3.
Ti == INSTANCE TextInputs WITH
    spin <- v1, field <- v2, heard <- v3, text <- v4, size <- v5, lost <- v6

(* A text cut to a buffer of z bytes leaves room for its final zero.      *)
LEMMA InputsTruncation ==
  ASSUME NEW n \in Nat, NEW z \in Nat, z > 0, NEW y, y = IF n <= z - 1 THEN n ELSE z - 1
  PROVE  y \in Nat /\ y < z /\ (n < z => n - y = 0)
OBVIOUS

(* The less and the greater of two numbers.                                *)
LEMMA InputsLessOfTwo ==
  ASSUME NEW a \in Int, NEW b \in Int
  PROVE  /\ Ti!Min({a, b}) = IF a <= b THEN a ELSE b
         /\ Ti!Max({a, b}) = IF a <= b THEN b ELSE a
<1> DEFINE less == IF a <= b THEN a ELSE b
           more == IF a <= b THEN b ELSE a
<1>1. less \in {a, b} /\ \A y \in {a, b} : less <= y
  OBVIOUS
<1>2. more \in {a, b} /\ \A y \in {a, b} : more >= y
  OBVIOUS
<1>3. ASSUME NEW x \in {a, b}, \A y \in {a, b} : x <= y PROVE x = less
  BY <1>3
<1>4. ASSUME NEW x \in {a, b}, \A y \in {a, b} : x >= y PROVE x = more
  BY <1>4
<1> HIDE DEF less, more
<1>5. (CHOOSE x \in {a, b} : \A y \in {a, b} : x <= y) = less
  BY <1>1, <1>3
<1>6. (CHOOSE x \in {a, b} : \A y \in {a, b} : x >= y) = more
  BY <1>2, <1>4
<1> QED
  BY <1>5, <1>6 DEF Ti!Min, Ti!Max, less, more

InputsSpins == [value : Int, min : Int, max : Int, step : Int, buffer : Int \union {NaN}]

LEMMA InputsClamps ==
  ASSUME NEW s \in InputsSpins, NEW v \in Int
  PROVE  Ti!Clamp(v, s) = IF s.max < v \/ s.max < s.min THEN s.max ELSE IF v < s.min THEN s.min ELSE v
<1> DEFINE low == IF v <= s.min THEN s.min ELSE v
<1>1. s.min \in Int /\ s.max \in Int /\ low \in Int
  BY DEF InputsSpins
<1>2. Ti!Max({v, s.min}) = low
  BY <1>1, InputsLessOfTwo
<1>3. Ti!Min({low, s.max}) = IF low <= s.max THEN low ELSE s.max
  <2> HIDE DEF low
  <2> QED
    BY <1>1, InputsLessOfTwo
<1> QED
  BY <1>1, <1>2, <1>3 DEF Ti!Clamp

(* A value in the range; a buffer that shows it, or what is no int.        *)
InputsSettled(s) == s \in InputsSpins /\ s.min <= s.value /\ s.value <= s.max /\ s.step > 0

InputsShown(s) == s.buffer \in {s.value, NaN} \/ s.buffer \notin Ti!Ints

LEMMA InputsHolds ==
  ASSUME NEW s \in InputsSpins, s.min <= s.max, s.step > 0, NEW v \in Int
  PROVE  /\ InputsSettled(Ti!Holding(s, Ti!Clamp(v, s)))
         /\ Ti!Holding(s, Ti!Clamp(v, s)).buffer = Ti!Holding(s, Ti!Clamp(v, s)).value
         /\ Ti!Clamp(v, s) \in Int /\ Ti!Holding(s, Ti!Clamp(v, s)).value = Ti!Clamp(v, s)
<1> DEFINE c == Ti!Clamp(v, s)
<1>1. s.min \in Int /\ s.max \in Int
  BY DEF InputsSpins
<1>2. c \in Int /\ s.min <= c /\ c <= s.max
  BY <1>1, InputsClamps
<1> HIDE DEF c
<1>3. InputsSettled(Ti!Holding(s, c)) /\ Ti!Holding(s, c).buffer = c /\ Ti!Holding(s, c).value = c
  BY <1>2 DEF InputsSettled, Ti!Holding, InputsSpins
<1> QED
  BY <1>2, <1>3 DEF c

(* A text is committed, and what is not a number is replaced at the end.   *)
LEMMA InputsCommits ==
  ASSUME NEW s, InputsSettled(s), NEW t \in Int \union {NaN}, NEW normalize \in BOOLEAN
  PROVE  InputsSettled(Ti!Commit(s, t, normalize)) /\ InputsShown(Ti!Commit(s, t, normalize))
<1> DEFINE n == Ti!Sanitized(s, t)
           last == IF normalize THEN s.value ELSE n
<1>1. /\ n \in Int \union {NaN}
      /\ s \in InputsSpins /\ s.min <= s.max /\ s.step > 0 /\ s.min \in Int /\ s.value \in Int
  BY InputsAssumption DEF Ti!Sanitized, InputsSettled, InputsSpins
<1>2. last \in Int \union {NaN}
  BY <1>1
<1> HIDE DEF n
<1>3. CASE n = NaN \/ n \notin Ti!Ints
  <2>1. Ti!Commit(s, t, normalize) = [s EXCEPT !.buffer = last]
    BY <1>3 DEF Ti!Commit, n
  <2>2. last \in {s.value, NaN} \/ last \notin Ti!Ints
    BY <1>3
  <2> HIDE DEF last
  <2>3. InputsSettled([s EXCEPT !.buffer = last]) /\ [s EXCEPT !.buffer = last].buffer = last
        /\ [s EXCEPT !.buffer = last].value = s.value
    BY <1>1, <1>2 DEF InputsSettled, InputsSpins
  <2> QED
    BY <2>1, <2>2, <2>3 DEF InputsShown
<1>4. CASE ~(n = NaN \/ n \notin Ti!Ints)
  <2>1. Ti!Commit(s, t, normalize) = Ti!Holding(s, Ti!Clamp(n, s)) /\ n \in Int
    BY <1>1, <1>4 DEF Ti!Commit, n
  <2> QED
    BY <1>1, <2>1, InputsHolds DEF InputsShown
<1> QED
  BY <1>3, <1>4

(* What a step of the spin box has to show, and one of the text.           *)
LEMMA InputsSpinSteps ==
  ASSUME Ti!Inv, UNCHANGED <<v4, v5, v6>>, InputsSettled(v1'), v3' \in {Idle, v1'.value},
         v2' \in Int \union {NaN, Idle}, v2' = Idle => InputsShown(v1')
  PROVE  Ti!Inv'
<1>1. Ti!TypeOK'
  BY DEF Ti!Inv, Ti!TypeOK, InputsSettled, InputsSpins
<1>2. Ti!SpinBoxConsistent'
  BY DEF Ti!SpinBoxConsistent, InputsSettled, InputsShown, Ti!Ints, Ti!IntMin, Ti!IntMax
<1>3. Ti!TextFits' /\ v1'.step > 0
  BY DEF Ti!Inv, Ti!TextFits, InputsSettled
<1> QED
  BY <1>1, <1>2, <1>3 DEF Ti!Inv

(* The listeners: a setter tells them nothing, the user's change tells all. *)
LEMMA InputsHeard ==
  ASSUME Ti!Inv, NEW s, Ti!Quietly(s) \/ Ti!Becomes(s)
  PROVE  v1' = s /\ v3' \in {Idle, v1'.value} /\ UNCHANGED <<v4, v5, v6>>
BY DEF Ti!Inv, Ti!SpinBoxConsistent, Ti!Quietly, Ti!Becomes

LEMMA InputsCommitSteps ==
  ASSUME Ti!Inv, NEW t \in Int \union {NaN}, NEW normalize \in BOOLEAN,
         Ti!Becomes(Ti!Commit(v1, t, normalize)), v2' \in Int \union {NaN, Idle}
  PROVE  Ti!Inv'
<1>1. InputsSettled(v1)
  BY DEF Ti!Inv, Ti!TypeOK, Ti!SpinBoxConsistent, InputsSettled, InputsSpins
<1>2. v1' = Ti!Commit(v1, t, normalize) /\ v3' \in {Idle, v1'.value} /\ UNCHANGED <<v4, v5, v6>>
  BY InputsHeard
<1>3. InputsSettled(v1') /\ InputsShown(v1')
  BY <1>1, <1>2, InputsCommits
<1> QED
  BY <1>2, <1>3, InputsSpinSteps

LEMMA InputsInit == Ti!Init => Ti!Inv
<1> SUFFICES ASSUME Ti!Init PROVE Ti!Inv
  OBVIOUS
<1>1. Ti!IntMax \in Int /\ Ti!IntMax > 0
  BY InputsAssumption DEF Ti!IntMax
<1> QED
  BY <1>1, InputsAssumption DEF Ti!Init, Ti!Inv, Ti!TypeOK, Ti!SpinBoxConsistent, Ti!TextFits

LEMMA InputsNext ==
  ASSUME Ti!Inv, [Ti!Next]_Ti!inputVars
  PROVE  Ti!Inv'
<1>1. /\ InputsSettled(v1) /\ v3 \in {Idle, v1.value} /\ v1 \in InputsSpins /\ v1.min <= v1.max /\ v1.step > 0
      /\ v1.value \in Int /\ v2 \in Int \union {NaN, Idle} /\ v1.buffer \in Int \union {NaN}
      /\ (v2 = Idle => InputsShown(v1))
  BY DEF Ti!Inv, Ti!TypeOK, Ti!SpinBoxConsistent, InputsSettled, InputsShown, InputsSpins
<1>2. Ti!IntMin \in Int /\ Ti!IntMax \in Int /\ Ti!IntMax > 0 /\ Ti!Ints \subseteq Int
  BY InputsAssumption DEF Ti!IntMin, Ti!IntMax, Ti!Ints
<1>3. CASE UNCHANGED Ti!inputVars
  BY <1>1, <1>3, InputsSpinSteps DEF Ti!inputVars, InputsSettled, InputsShown
<1>4. ASSUME NEW v \in Ti!Ints, Ti!SetValue(v) PROVE Ti!Inv'
  <2>1. v1' = Ti!Holding(v1, Ti!Clamp(v, v1)) /\ v3' \in {Idle, v1'.value}
        /\ UNCHANGED <<v2, v4, v5, v6>> /\ v \in Int
    BY <1>2, <1>4, InputsHeard DEF Ti!SetValue
  <2>2. InputsSettled(v1') /\ InputsShown(v1')
    BY <1>1, <2>1, InputsHolds DEF InputsShown
  <2> QED
    BY <1>1, <2>1, <2>2, InputsSpinSteps
<1>5. ASSUME NEW a \in {Ti!IntMin, -1, 0, Ti!IntMax}, NEW b \in {Ti!IntMin, -1, 0, Ti!IntMax}, Ti!SetRange(a, b)
             PROVE Ti!Inv'
  <2> DEFINE s == [v1 EXCEPT !.min = Ti!Min({a, b}), !.max = Ti!Max({a, b})]
             less == Ti!Min({a, b})
             more == Ti!Max({a, b})
  <2>1. v1' = Ti!Holding(s, Ti!Clamp(v1.value, s)) /\ v3' \in {Idle, v1'.value} /\ UNCHANGED <<v2, v4, v5, v6>>
    BY <1>5, InputsHeard DEF Ti!SetRange
  <2>2. a \in Int /\ b \in Int
    BY <1>2
  <2>3. less \in Int /\ more \in Int /\ less <= more
    BY <2>2, InputsLessOfTwo
  <2>4. s \in InputsSpins /\ s.min <= s.max /\ s.step > 0
    <3>1. s = [v1 EXCEPT !.min = less, !.max = more]
      OBVIOUS
    <3> HIDE DEF less, more, s
    <3> QED
      BY <1>1, <2>3, <3>1 DEF InputsSpins
  <2> HIDE DEF s
  <2>5. InputsSettled(v1') /\ InputsShown(v1')
    BY <1>1, <2>1, <2>4, InputsHolds DEF InputsShown
  <2> QED
    BY <1>1, <2>1, <2>5, InputsSpinSteps
<1>6. ASSUME NEW n \in {-1, 1, Ti!IntMax}, Ti!SetStep(n) PROVE Ti!Inv'
  <2>1. n \in Int
    BY <1>2
  <2>2. InputsSettled(v1') /\ v1'.value = v1.value /\ v1'.buffer = v1.buffer
    BY <1>1, <1>6, <2>1 DEF Ti!SetStep, InputsSettled, InputsSpins
  <2>3. v3' \in {Idle, v1'.value} /\ UNCHANGED <<v2, v4, v5, v6>>
    BY <1>1, <1>6, <2>2 DEF Ti!SetStep
  <2> QED
    BY <1>1, <2>2, <2>3, InputsSpinSteps DEF InputsShown
<1>7. ASSUME NEW d \in {-1, 1}, Ti!PressButton(d) PROVE Ti!Inv'
  <2> DEFINE v == v1.value + d * v1.step
  <2>1. v \in Int
    BY <1>1 DEF InputsSpins
  <2>2. v1' = Ti!Holding(v1, Ti!Clamp(v, v1)) /\ v3' \in {Idle, v1'.value} /\ UNCHANGED <<v2, v4, v5, v6>>
    BY <1>7, InputsHeard DEF Ti!PressButton, Ti!Stepped
  <2> HIDE DEF v
  <2>3. InputsSettled(v1') /\ InputsShown(v1')
    BY <1>1, <2>1, <2>2, InputsHolds DEF InputsShown
  <2> QED
    BY <1>1, <2>2, <2>3, InputsSpinSteps
<1>8. CASE Ti!Activate
  BY <1>1, <1>8, InputsSpinSteps, InputsAssumption DEF Ti!Activate
<1>9. ASSUME NEW t \in Ti!Typed, Ti!Type(t) PROVE Ti!Inv'
  <2>1. t \in Int \union {NaN}
    BY InputsAssumption DEF Ti!Typed
  <2> QED
    BY <1>9, <2>1, InputsCommitSteps, InputsAssumption DEF Ti!Type
<1>10. CASE Ti!ActiveFrame
  BY <1>1, <1>10, InputsCommitSteps DEF Ti!ActiveFrame
<1>11. CASE Ti!PressEnter
  BY <1>1, <1>11, InputsCommitSteps DEF Ti!PressEnter
<1>12. CASE Ti!Deactivate
  BY <1>1, <1>12, InputsCommitSteps DEF Ti!Deactivate
<1>13. ASSUME NEW n \in 0 .. MaxText, Ti!SetText(n) \/ Ti!RenderText(n) PROVE Ti!Inv'
  <2>1. UNCHANGED <<v1, v2, v3>>
    BY <1>13 DEF Ti!SetText, Ti!RenderText
  <2>2. v4 \in Nat /\ v5 \in Nat /\ v4 < v5 /\ v6 = 0 /\ n \in Nat
    BY DEF Ti!Inv, Ti!TypeOK, Ti!TextFits
  <2>3. v4' \in Nat /\ v5' \in Nat /\ v4' < v5' /\ v6' = 0
    <3>1. CASE Ti!SetText(n)
      <4>1. n + InitialCapacity \in Int
        BY <2>2, InputsAssumption
      <4> DEFINE least == n + InitialCapacity
      <4>3. v5 \in Int /\ least \in Int /\ v5' = Ti!Max({v5, least})
        BY <2>2, <3>1, <4>1 DEF Ti!SetText
      <4> HIDE DEF least
      <4>4. Ti!Max({v5, least}) = IF v5 <= least THEN least ELSE v5
        BY <4>3, InputsLessOfTwo
      <4>2. v5' = IF v5 <= n + InitialCapacity THEN n + InitialCapacity ELSE v5
        BY <4>3, <4>4 DEF least
      <4> QED
        BY <2>2, <3>1, <4>2, InputsAssumption DEF Ti!SetText
    <3>2. CASE Ti!RenderText(n)
      <4>1. v5' = (IF v4 + Margin >= v5 THEN v5 + InitialCapacity ELSE v5)
            /\ v4' = Ti!Min({n, v5' - 1}) /\ v6' = IF n <= v4 + Margin THEN n - v4' ELSE 0
        BY <3>2 DEF Ti!RenderText, Ti!Grown
      <4>2. v5' \in Nat /\ v5' > 0 /\ v4 + Margin < v5'
        BY <2>2, <4>1, InputsAssumption
      <4> DEFINE room == v5' - 1
      <4>4. n \in Int /\ room \in Int /\ v4' = Ti!Min({n, room})
        BY <2>2, <4>1, <4>2
      <4> HIDE DEF room
      <4>5. Ti!Min({n, room}) = IF n <= room THEN n ELSE room
        BY <4>4, InputsLessOfTwo
      <4>3. v4' = IF n <= v5' - 1 THEN n ELSE v5' - 1
        BY <4>4, <4>5 DEF room
      <4>9. v5' \in Nat /\ v5' > 0 /\ n \in Nat
        BY <2>2, <4>2
      <4>6. v4' \in Nat /\ v4' < v5' /\ (n < v5' => n - v4' = 0)
        BY <4>9, <4>3, InputsTruncation
      <4>7. v6' = IF n <= v4 + Margin THEN n - v4' ELSE 0
        BY <4>1
      <4>8. v6' = 0
        <5>1. CASE n <= v4 + Margin
          <6>1. n < v5'
            BY <2>2, <4>2, <4>9, <5>1, InputsAssumption
          <6> QED
            BY <4>6, <4>7, <5>1, <6>1
        <5> QED
          BY <5>1, <4>7
      <4> QED
        BY <4>2, <4>6, <4>8
    <3> QED
      BY <1>13, <3>1, <3>2
  <2> QED
    BY <2>1, <2>3 DEF Ti!Inv, Ti!TypeOK, Ti!SpinBoxConsistent, Ti!TextFits
<1> QED
  BY <1>3, <1>4, <1>5, <1>6, <1>7, <1>8, <1>9, <1>10, <1>11, <1>12, <1>13 DEF Ti!Next

(* The buttons move the value by the step or to the end of the range.      *)
LEMMA InputsAreConsistent == Ti!Inv => Ti!InputsConsistent
<1> SUFFICES ASSUME Ti!Inv, NEW d \in {-1, 1}
             PROVE  LET sum == v1.value + d * v1.step
                    IN  Ti!Stepped(v1, d) = IF sum > v1.max THEN v1.max
                                           ELSE IF sum < v1.min THEN v1.min ELSE sum
  BY DEF Ti!InputsConsistent, Ti!StepsAreExact, Ti!Inv
<1>1. v1 \in InputsSpins /\ v1.min <= v1.max /\ v1.min \in Int /\ v1.max \in Int
      /\ v1.value + d * v1.step \in Int
  BY DEF Ti!Inv, Ti!TypeOK, Ti!SpinBoxConsistent, InputsSpins
<1> QED
  BY <1>1, InputsClamps DEF Ti!Stepped

-----------------------------------------------------------------------------
Fi == INSTANCE Files WITH
    Paths <- {"p", "q"}, Bytes <- {1, 2}, FullDisk <- FALSE,
    Redirects <- FALSE, MaxBytes <- 3,
    disk <- v1, program <- v2, temp <- v3, path <- v4, handle <- v5,
    cursor <- v6, answer <- v7, alive <- v8

In == INSTANCE IniParser WITH
    Sections <- {"s", "t"}, Keys <- {"k"}, Values <- {"a ;b", "a\nb"},
    Written <- IniFiles, MaxKeys <- 2,
    data <- v1, order <- v2, path <- v3, error <- v4, file <- v5

Cl == INSTANCE CommandLine WITH
    Declared <- DeclaredOptions, Arguments <- WrittenArguments,
    HasVersion <- TRUE, MaxArgs <- 3, MaxParses <- 2,
    given <- v1, options <- v2, pending <- v3, status <- v4, parses <- v5

\* A view and a mapper linked to it, the mapper connected to the model first: many rows, then many columns.
Tr == INSTANCE TableViews WITH
    Linked <- TRUE, MapperFirst <- TRUE, Widgets <- {"w1"}, Resets <- FALSE,
    Editable <- {<<1, 1>>}, MaxRows <- 2, MaxCols <- 1, MaxSel <- 2,
    rows <- v1, cols <- v2, data <- v3, view <- v4, mapper <- v5, edits <- v6

Tc == INSTANCE TableViews WITH
    Linked <- TRUE, MapperFirst <- TRUE, Widgets <- {"w1"}, Resets <- FALSE,
    Editable <- {<<1, 1>>}, MaxRows <- 1, MaxCols <- 2, MaxSel <- 2,
    rows <- v1, cols <- v2, data <- v3, view <- v4, mapper <- v5, edits <- v6

\* Two operations, while one OID of the agent's comes and goes.
Sn == INSTANCE Snmp WITH
    StopInSlot <- FALSE,
    Mib <- <<<<1>>, <<1, 1>>, <<1, 1, 2>>, <<1, 2>>, <<2, 1>>>>,
    Churn <- {<<1, 1, 2>>}, Root <- <<1>>, Values <- SnmpValues, MaxOps <- 2,
    MaxChurn <- 2, MaxTraps <- 0, MaxUsers <- 0,
    session <- v1, ops <- v2, agent <- v3, posts <- v4, answers <- v5,
    trap <- v6

Tp == INSTANCE Snmp WITH
    StopInSlot <- FALSE,
    Mib <- <<>>, Churn <- {}, Root <- <<>>, Values <- {}, MaxOps <- 0,
    MaxChurn <- 0, MaxTraps <- 2, MaxUsers <- 2,
    trap <- v1,
    session <- v2, ops <- v3, agent <- v4, posts <- v5, answers <- v6

Ge == INSTANCE WidgetGeometry WITH
    MaxSize <- 7, Widgets <- {"w1", "w2"},
    Hint <- [w \in {"w1", "w2"} |-> IF w = "w1" THEN 1 ELSE 3], Spacing <- 1,
    MaxItems <- 3,
    subject <- v1, split <- v2, panes <- v3, items <- v4, dead <- v5,
    offered <- v6

Wt == INSTANCE WidgetTree WITH
    Window <- "window", Outer <- "outer", Inner <- "inner", Leaves <- {"a"},
    Foreign <- FALSE, LayoutDies <- FALSE, None <- "none",
    parent <- v1, marked <- v2, gone <- v3, items <- v4, layout <- v5,
    hidden <- v6, phase <- v7, closing <- v8

\* The profiler: two threads whose rings wrap around and fill up; two clients that come and go; the samples of the system.
Pt == INSTANCE Profiler WITH
    Threads <- {"t1", "t2"}, Clients <- {}, Capacity <- 3, ChunkSize <- 2,
    MaxEvents <- 3, MaxSamples <- 0, MaxTraffic <- 0,
    ring <- v1, accepted <- v2, events <- v3, registry <- v4, drain <- v5,
    chunk <- v6, file <- v7, posted <- v8, sent <- v9, clients <- v10,
    list <- v11, joined <- v12, dev <- v13, monitor <- v14

Ps == INSTANCE Profiler WITH
    Threads <- {"t1"}, Clients <- {"c1", "c2"}, Capacity <- 2, ChunkSize <- 1,
    MaxEvents <- 2, MaxSamples <- 0, MaxTraffic <- 0,
    ring <- v1, accepted <- v2, events <- v3, registry <- v4, drain <- v5,
    chunk <- v6, file <- v7, posted <- v8, sent <- v9, clients <- v10,
    list <- v11, joined <- v12, dev <- v13, monitor <- v14

Py == INSTANCE Profiler WITH
    Threads <- {}, Clients <- {"c1"}, Capacity <- 2, ChunkSize <- 1,
    MaxEvents <- 1, MaxSamples <- 2, MaxTraffic <- 1,
    ring <- v1, accepted <- v2, events <- v3, registry <- v4, drain <- v5,
    chunk <- v6, file <- v7, posted <- v8, sent <- v9, clients <- v10,
    list <- v11, joined <- v12, dev <- v13, monitor <- v14

Me == INSTANCE MemoryTracker WITH
    Threads <- {"t1", "t2"}, Pointers <- {"p1", "p2"}, Sizes <- {1, 2},
    MaxEnables <- 2,
    heap <- v1, job <- v2, enabled <- v3, tracker <- v4, noticed <- v5,
    enables <- v6

-----------------------------------------------------------------------------
\* The variables that a component has no use for.
Unused14 == v14 = 0
Unused13 == v13 = 0 /\ Unused14
Unused12 == v12 = 0 /\ Unused13
Unused11 == v11 = 0 /\ Unused12
Unused10 == v10 = 0 /\ Unused11
Unused9 == v9 = 0 /\ Unused10
Unused8 == v8 = 0 /\ Unused9
Unused7 == v7 = 0 /\ Unused8
Unused6 == v6 = 0 /\ Unused7
Unused5 == v5 = 0 /\ Unused6
Unused4 == v4 = 0 /\ Unused5
Unused3 == v3 = 0 /\ Unused4
Unused2 == v2 = 0 /\ Unused3
Rest14 == <<v14>>
Rest13 == <<v13, v14>>
Rest12 == <<v12, v13, v14>>
Rest11 == <<v11, v12, v13, v14>>
Rest10 == <<v10, v11, v12, v13, v14>>
Rest9 == <<v9, v10, v11, v12, v13, v14>>
Rest8 == <<v8, v9, v10, v11, v12, v13, v14>>
Rest7 == <<v7, v8, v9, v10, v11, v12, v13, v14>>
Rest6 == <<v6, v7, v8, v9, v10, v11, v12, v13, v14>>
Rest5 == <<v5, v6, v7, v8, v9, v10, v11, v12, v13, v14>>
Rest4 == <<v4, v5, v6, v7, v8, v9, v10, v11, v12, v13, v14>>
Rest3 == <<v3, v4, v5, v6, v7, v8, v9, v10, v11, v12, v13, v14>>
Rest2 == <<v2, v3, v4, v5, v6, v7, v8, v9, v10, v11, v12, v13, v14>>

Init ==
    /\ part \in Checked
    /\ \/ part = "file" /\ Fi!Init /\ Unused9
       \/ part = "ini" /\ In!Init /\ Unused6
       \/ part = "cli" /\ Cl!Init /\ Unused6
       \/ part = "database" /\ Db!Init /\ Unused6
       \/ part = "tablemodel" /\ Sm!Init /\ Unused6
       \/ part = "rows" /\ Tr!Init /\ Unused7
       \/ part = "columns" /\ Tc!Init /\ Unused7
       \/ part = "snmp" /\ Sn!SessionInit /\ Unused6
       \/ part = "traps" /\ Tp!TrapInit /\ Unused2
       \/ part = "pages" /\ Pg!Init /\ Unused6
       \/ part = "popups" /\ Po!Init /\ Unused8
       \/ part = "radio" /\ Ra!Init /\ Unused5
       \/ part = "inputs" /\ Ti!Init /\ Unused7
       \/ part = "geometry" /\ Ge!Init /\ Unused7
       \/ part = "tree" /\ Wt!Init /\ Unused9
       \/ part = "trace" /\ Pt!Init
       \/ part = "serve" /\ Ps!Init
       \/ part = "sample" /\ Py!Init
       \/ part = "memory" /\ Me!Init /\ Unused7

Next ==
    /\ UNCHANGED part
    /\ \/ part = "file" /\ Fi!Next /\ UNCHANGED Rest9
       \/ part = "ini" /\ In!Next /\ UNCHANGED Rest6
       \/ part = "cli" /\ Cl!Next /\ UNCHANGED Rest6
       \/ part = "database" /\ Db!Next /\ UNCHANGED Rest6
       \/ part = "tablemodel" /\ Sm!Next /\ UNCHANGED Rest6
       \/ part = "rows" /\ Tr!Next /\ UNCHANGED Rest7
       \/ part = "columns" /\ Tc!Next /\ UNCHANGED Rest7
       \/ part = "snmp" /\ Sn!SessionNext /\ UNCHANGED Rest6
       \/ part = "traps" /\ Tp!TrapNext /\ UNCHANGED Rest2
       \/ part = "pages" /\ Pg!Next /\ UNCHANGED Rest6
       \/ part = "popups" /\ Po!Next /\ UNCHANGED Rest8
       \/ part = "radio" /\ Ra!Next /\ UNCHANGED Rest5
       \/ part = "inputs" /\ Ti!Next /\ UNCHANGED Rest7
       \/ part = "geometry" /\ Ge!Next /\ UNCHANGED Rest7
       \/ part = "tree" /\ Wt!Next /\ UNCHANGED Rest9
       \/ part = "trace" /\ Pt!Next
       \/ part = "serve" /\ Ps!Next
       \/ part = "sample" /\ Py!Next
       \/ part = "memory" /\ Me!Next /\ UNCHANGED Rest7

Spec == Init /\ [][Next]_vars

-----------------------------------------------------------------------------
\* What is written to files and settings is what is read, and a command line
\* means what it says (File, TempFile, IniParser, CommandLineParser).
SettingsFaithful ==
    /\ part = "file" => Fi!FilesFaithful
    /\ part = "ini" => In!SettingsKept
    /\ part = "cli" => Cl!CommandLineFaithful

\* A database that is to be watched is watched through every loss and
\* reconnection, a failed query says so, and an edit of a table is in the
\* database, pending, or was taken back (MySqlDatabase, SqliteDatabase,
\* SqlQuery, SqlTableModel).
DataAccounted ==
    /\ part = "database" => Db!ConnectionWatched /\ Db!FailuresReported
    /\ part = "tablemodel" => Sm!EditsAccounted

\* Selections, current indexes and edits of the views are inside the table,
\* and a mapped widget shows its cell (TableView, DataWidgetMapper).
ViewsConsistent ==
    /\ part = "rows" => Tr!ViewsAreConsistent
    /\ part = "columns" => Tc!ViewsAreConsistent

\* When rows, columns or pages come and go, every index goes on pointing at
\* what it pointed at (TableView, DataWidgetMapper, Tabs, StackedWidget).
IndexesStayInPlace ==
    [][ /\ part = "rows" => Tr!IndexesFollow
        /\ part = "columns" => Tc!IndexesFollow
        /\ part = "pages" => Pg!OthersStayCurrent ]_vars

\* Every SNMP operation is answered once, though its session moves or is marked
\* meanwhile; a walk finds what was there all along; a receiver of traps
\* listens where it is watched (SnmpV3Session, SnmpTrapReceiver).
SnmpAnswered ==
    /\ part = "snmp" => Sn!OperationsAnswered /\ Sn!WalksAreComplete
    /\ part = "traps" => Tp!ReceiverWatched

\* The current page is known to all, a dialog is finished once, one button of a
\* group is selected at most, a spin box holds a value of its range and tells its
\* listeners what the user changes, and the buffer of a text field holds its text
\* (Tabs, StackedWidget, Window, MessageBox, RadioButton, SpinBox, LineEdit,
\* TextEdit).
ControlsConsistent ==
    /\ part = "pages" => Pg!CurrentIsKnown
    /\ part = "popups" => Po!DialogsConsistent
    /\ part = "radio" => Ra!GroupsExclude
    /\ part = "inputs" => Ti!InputsConsistent

\* The space of a frame is shared out without overlap (Splitter, Layout,
\* ScrollArea, LineEdit).
SpaceIsShared == part = "geometry" => Ge!SpaceIsShared

\* A frame draws every visible widget once, and none that is gone
\* (ApplicationNode, Window, Widget, Layout).
FramesDraw == part = "tree" => Wt!FramesDraw

\* A traced event arrives once and in order, in the file and at every client,
\* and the memory tracker knows every live allocation it saw (TraceBuffer,
\* ProfilerNode, ProfilerServer, MemoryTracker).
ProfilerExact ==
    /\ part = "trace" => Pt!TracesComplete
    /\ part = "serve" => Ps!TracesComplete
    /\ part = "sample" => Py!TracesComplete
    /\ part = "memory" => Me!TrackerExact

-----------------------------------------------------------------------------
(* What the proofs above say of this specification.                        *)

(* A component keeps its invariant in every behaviour.                     *)
DataInv ==
    /\ part = "database" => Db!Inv
    /\ part = "tablemodel" => Sm!Inv

ControlsInv ==
    /\ part = "pages" => Pg!Inv
    /\ part = "popups" => Po!Inv
    /\ part = "radio" => Ra!Inv
    /\ part = "inputs" => Ti!Inv

LEMMA DataInvHolds == Spec => []DataInv
<1>1. Init => DataInv
  <2>1. Init /\ part = "database" => Db!Init
    BY DEF Init
  <2>2. Init /\ part = "tablemodel" => Sm!Init
    BY DEF Init
  <2> QED
    BY <2>1, <2>2, DatabaseInit, TableInit DEF DataInv
<1>2. DataInv /\ [Next]_vars => DataInv'
  <2> SUFFICES ASSUME DataInv, [Next]_vars PROVE DataInv'
    OBVIOUS
  <2>1. ASSUME part' = "database" PROVE Db!Inv'
    <3>1. part = "database" /\ [Db!Next]_Db!dbVars
      BY <2>1 DEF Next, vars, Db!dbVars
    <3> QED
      BY <3>1, DatabaseNext DEF DataInv
  <2>2. ASSUME part' = "tablemodel" PROVE Sm!Inv'
    <3>1. part = "tablemodel" /\ [Sm!Next]_Sm!tableVars
      BY <2>2 DEF Next, vars, Sm!tableVars
    <3> QED
      BY <3>1, TableNext DEF DataInv
  <2> QED
    BY <2>1, <2>2 DEF DataInv
<1> QED
  BY <1>1, <1>2, PTL DEF Spec

(* A database that is to be watched is watched, a failed query says so, and*)
(* no edit of a table is lost or written twice, in every behaviour         *)
(* (MySqlDatabase, SqliteDatabase, SqlQuery, SqlTableModel).               *)
THEOREM DataAccountedCorrect == Spec => []DataAccounted
<1>1. DataInv => DataAccounted
  BY DatabaseIsWatched, TableAccounted DEF DataInv, DataAccounted
<1> QED
  BY <1>1, DataInvHolds, PTL

LEMMA ControlsInvHolds == Spec => []ControlsInv
<1>1. Init => ControlsInv
  <2>1. Init /\ part = "pages" => Pg!Init
    BY DEF Init
  <2>2. Init /\ part = "popups" => Po!Init
    BY DEF Init
  <2>3. Init /\ part = "radio" => Ra!Init
    BY DEF Init
  <2>4. Init /\ part = "inputs" => Ti!Init
    BY DEF Init
  <2> QED
    BY <2>1, <2>2, <2>3, <2>4, PagesInit, PopupsInit, RadioInit, InputsInit DEF ControlsInv
<1>2. ControlsInv /\ [Next]_vars => ControlsInv'
  <2> SUFFICES ASSUME ControlsInv, [Next]_vars PROVE ControlsInv'
    OBVIOUS
  <2>1. ASSUME part' = "pages" PROVE Pg!Inv'
    <3>1. part = "pages" /\ [Pg!Next]_Pg!pagedVars
      BY <2>1 DEF Next, vars, Pg!pagedVars
    <3> QED
      BY <3>1, PagesNext DEF ControlsInv
  <2>2. ASSUME part' = "popups" PROVE Po!Inv'
    <3>1. part = "popups" /\ [Po!Next]_Po!popupVars
      BY <2>2 DEF Next, vars, Po!popupVars
    <3> QED
      BY <3>1, PopupsNext DEF ControlsInv
  <2>3. ASSUME part' = "radio" PROVE Ra!Inv'
    <3>1. part = "radio" /\ [Ra!Next]_Ra!radioVars
      BY <2>3 DEF Next, vars, Ra!radioVars
    <3> QED
      BY <3>1, RadioNext DEF ControlsInv
  <2>4. ASSUME part' = "inputs" PROVE Ti!Inv'
    <3>1. part = "inputs" /\ [Ti!Next]_Ti!inputVars
      BY <2>4 DEF Next, vars, Ti!inputVars
    <3> QED
      BY <3>1, InputsNext DEF ControlsInv
  <2> QED
    BY <2>1, <2>2, <2>3, <2>4 DEF ControlsInv
<1> QED
  BY <1>1, <1>2, PTL DEF Spec

(* The current page is known to all, a dialog is finished once, a group of *)
(* radio buttons has one that is selected at most, a spin box holds a value*)
(* of its range and a text fits its buffer, in every behaviour (Tabs,      *)
(* StackedWidget, Window, MessageBox, RadioButton, SpinBox, LineEdit).     *)
THEOREM ControlsConsistentCorrect == Spec => []ControlsConsistent
<1>1. ControlsInv => ControlsConsistent
  BY RadioExcludes, InputsAreConsistent
     DEF ControlsInv, ControlsConsistent, Pg!Inv, Po!Inv
<1> QED
  BY <1>1, ControlsInvHolds, PTL
=============================================================================
