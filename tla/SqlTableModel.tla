---------------------------- MODULE SqlTableModel ----------------------------
(***************************************************************************)
(* lib/Database/SqlTableModel: a cache of a table, the edits not yet       *)
(* submitted, and submit(), which writes one UPDATE per edited row and     *)
(* stops at the first that fails.                                          *)
(*                                                                         *)
(* A row is its columns, column 1 the primary key.  The edits are a hash   *)
(* table: submit() meets the rows in any order.  UniqueKeys = FALSE lets   *)
(* the table hold a key twice.  Nobody else writes to the table.           *)
(***************************************************************************)
EXTENDS Naturals, Functions

CONSTANTS Keys,           \* values of the key column
          Values,         \* values an application may store
          UniqueKeys,
          MaxFailures     \* statements the database may reject

VARIABLES db,         \* the table itself
          rows,       \* m_rows
          pending,    \* m_pendingEdits: row -> column -> value
          told,       \* what the views have been told of: dataChanged, modelReset
          failures
tableVars == <<db, rows, pending, told, failures>>

NoEdits == [r \in {} |-> [c \in {} |-> 0]]
Cell(r, c) == IF r \in DOMAIN pending /\ c \in DOMAIN pending[r] THEN pending[r][c] ELSE rows[r][c]
\* What data() answers.
Seen == [r \in DOMAIN rows |-> [c \in 1..2 |-> Cell(r, c)]]

Init == \E v \in Values, w \in Values, ks \in {s \in [1..2 -> Keys] : ~UniqueKeys \/ s[1] # s[2]} :
            /\ db = <<<<ks[1], v>>, <<ks[2], w>>>>
            /\ rows = <<>> /\ pending = NoEdits /\ told = <<>> /\ failures = 0

----------------------------------------------------------------------------
\* variantToSqlLiteral(), and the database reading it back.  A colour becomes
\* NULL, a double keeps six digits.
VariantToSqlLiteral(v) == IF v = "color" THEN "null" ELSE IF v = "double" THEN "rounded" ELSE v

\* UPDATE ... WHERE key = ...: every row with the key, if the result is legal.
Updated(table, key, edit) ==
    [i \in DOMAIN table |-> IF table[i][1] # key THEN table[i]
                            ELSE [c \in 1..2 |-> IF c \in DOMAIN edit THEN VariantToSqlLiteral(edit[c]) ELSE table[i][c]]]
Legal(table) == ~UniqueKeys \/ \A i, j \in DOMAIN table : table[i][1] = table[j][1] => i = j

Applied(row, edit) == [c \in 1..2 |-> IF c \in DOMAIN edit THEN edit[c] ELSE row[c]]

\* One turn of submit()'s loop: s is where it has got to, f says whether the
\* database rejects this statement.
SubmitRow_ClearsOnFailure(s, r, f) ==
    LET table == Updated(s.db, s.rows[r][1], pending[r])
    IN  IF ~s.success THEN [s EXCEPT !.failed = @ \cup {r}]
        ELSE IF f \/ ~Legal(table) THEN [s EXCEPT !.success = FALSE]
        ELSE [s EXCEPT !.db = table, !.rows = [@ EXCEPT ![r] = Applied(s.rows[r], pending[r])]]

SubmitRow(s, r, f) ==
    LET table == Updated(s.db, s.rows[r][1], pending[r])
    IN  IF ~s.success THEN [s EXCEPT !.failed = @ \cup {r}]
        ELSE IF f \/ ~Legal(table) THEN [s EXCEPT !.failed = @ \cup {r}, !.success = FALSE]
        ELSE [s EXCEPT !.db = table, !.rows = [@ EXCEPT ![r] = Applied(s.rows[r], pending[r])]]

\* The loop over n rows: `order' is the hash table's, `reject' the row the
\* database rejects.
Submitted(n, order, reject) ==
    LET after[k \in 0..n] ==
            IF k = 0 THEN [db |-> db, rows |-> rows, failed |-> {}, success |-> TRUE]
            ELSE SubmitRow(after[k - 1], order[k], order[k] = reject)
    IN  after[n]

Submit ==
    /\ pending # NoEdits
    /\ \E n \in 0..2 : \E order \in Bijection(1..n, DOMAIN pending), reject \in {0} \cup DOMAIN pending :
          LET end == Submitted(n, order, reject)
          IN  /\ reject = 0 \/ failures < MaxFailures
              /\ failures' = IF reject = 0 THEN failures ELSE failures + 1
              /\ db' = end.db /\ rows' = end.rows
              /\ pending' = [r \in end.failed |-> pending[r]]
    /\ UNCHANGED told

\* select() replaces the cache and drops the edits; it changes nothing if the
\* query fails.
Select ==
    /\ rows' = db /\ pending' = NoEdits /\ told' = db
    /\ UNCHANGED <<db, failures>>

\* revert() tells the views of every cell that changes back.
Revert ==
    /\ pending # NoEdits
    /\ pending' = NoEdits
    /\ told' = [r \in DOMAIN told |-> [c \in 1..2 |-> IF r \in DOMAIN pending /\ c \in DOMAIN pending[r]
                                                      THEN rows[r][c] ELSE told[r][c]]]
    /\ UNCHANGED <<db, rows, failures>>

\* setData(): a value equal to what is seen is no edit.
SetData(r, c, v) ==
    /\ r \in DOMAIN rows /\ Cell(r, c) # v
    /\ LET before == IF r \in DOMAIN pending THEN pending[r] ELSE [x \in {} |-> 0]
           edit == [x \in DOMAIN before \cup {c} |-> IF x = c THEN v ELSE before[x]]
       IN  pending' = [x \in DOMAIN pending \cup {r} |-> IF x = r THEN edit ELSE pending[x]]
    /\ told' = [told EXCEPT ![r][c] = v]
    /\ UNCHANGED <<db, rows, failures>>

Next == \/ Submit \/ Select \/ Revert
        \/ \E r \in 1..2, v \in Values \cup Keys :
              \/ v \in Keys /\ SetData(r, 1, v)
              \/ v \in Values /\ SetData(r, 2, v)
Spec == Init /\ [][Next]_tableVars

----------------------------------------------------------------------------
(* Properties                                                              *)

\* Whichever of the statements fail, and in whichever order they are tried:
\* what is cached is what the table holds, so that the edits still pending are
\* exactly what the database lacks, no edit is lost or written twice, and a
\* retry addresses the rows by the keys they have now; and what the views
\* have been told is what data() answers (SqlTableModel::submit, revert, setData).
EditsAccounted ==
    rows # <<>> => rows = db /\ told = Seen

-----------------------------------------------------------------------------
(* What EditsAccounted rests on.                                           *)

Cells == Keys \cup Values
Table == [1..2 -> [1..2 -> Cells]]
Edits == UNION {[rs -> UNION {[cs -> Cells] : cs \in SUBSET (1..2)}] : rs \in SUBSET (1..2)}

Inv ==
    /\ db \in Table /\ Legal(db)
    /\ \/ rows = <<>> /\ told = <<>> /\ pending = NoEdits
       \/ rows = db /\ told = Seen /\ pending \in Edits
=============================================================================
