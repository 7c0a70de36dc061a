------------------------------ MODULE Database ------------------------------
(***************************************************************************)
(* lib/Database: the connection of a MySqlDatabase with its ping timer,    *)
(* automatic reconnection and migration between threads; the handle of a   *)
(* SqliteDatabase; and one SqlQuery on each of them.                       *)
(*                                                                         *)
(* The server behind a MySQL handle comes and goes; a handle opened while  *)
(* it was up is dead once it has been down.  All calls come from the owner *)
(* of the database; the ping timer of a moved database is configured by a  *)
(* closure posted to the new owner.                                        *)
(***************************************************************************)
EXTENDS Naturals, Sequences

CONSTANTS MaxRows,      \* rows of a result
          MaxOutages    \* times the server goes down

VARIABLES my,       \* the MySqlDatabase
          lite,     \* the SqliteDatabase
          query,    \* the SqlQuery of each of the two
          server,   \* the MySQL server
          posted    \* closures posted by onMovedToThread()
dbVars == <<my, lite, query, server, posted>>

Flags == {"PingTimeout", "AutoReconnect"}
NewQuery == [rows |-> 0, err |-> "NoError", driverErr |-> "NoError", failed |-> FALSE]

Init ==
    /\ my = [handle |-> FALSE, name |-> FALSE, flags |-> {}, timer |-> FALSE, restart |-> FALSE,
             alive |-> FALSE, err |-> "NoError", told |-> FALSE]
    /\ lite = [handle |-> FALSE, name |-> FALSE, err |-> "NoError"]
    /\ query = [d \in {"my", "lite"} |-> NewQuery]
    /\ server = [up |-> TRUE, outages |-> 0]
    /\ posted = 0

----------------------------------------------------------------------------
(* Handlers of MySqlDatabase, as functions from its members to its members *)

\* `alive' is the connection behind the handle, `told' the last value
\* connectionChanged was emitted with.  Its slots do not call open() or close():
\* open() would go on with a handle that it has not opened.
CloseHandle(m, emitSignal) ==
    [m EXCEPT !.handle = FALSE, !.alive = FALSE, !.told = IF m.handle /\ emitSignal THEN FALSE ELSE @]

ConfigurePingTimer(m) == [m EXCEPT !.timer = m.handle /\ "PingTimeout" \in m.flags]

\* open() when no handle is left: mysql_real_connect() succeeds when the server is up.
Connect(m) ==
    LET closed == CloseHandle(m, FALSE)
    IN  IF m.name /\ server.up
        THEN ConfigurePingTimer([closed EXCEPT !.handle = TRUE, !.alive = TRUE, !.err = "NoError", !.told = TRUE])
        ELSE [closed EXCEPT !.err = "OpenFailed"]

OpenMySql_NoTimer(m) ==
    IF m.handle /\ m.alive
    THEN ConfigurePingTimer([m EXCEPT !.err = "NoError"])
    ELSE [Connect(IF m.handle THEN CloseHandle([m EXCEPT !.err = "OpenFailed"], TRUE) ELSE m)
            EXCEPT !.timer = m.timer]

OpenMySql(m) ==
    IF m.handle /\ m.alive
    THEN ConfigurePingTimer([m EXCEPT !.err = "NoError"])
    ELSE Connect(IF m.handle THEN CloseHandle([m EXCEPT !.err = "OpenFailed"], TRUE) ELSE m)

CloseMySql(m) == CloseHandle([m EXCEPT !.timer = FALSE], TRUE)

HandleConnectionLost(m) ==
    LET lost == CloseHandle([m EXCEPT !.timer = FALSE], m.handle)
    IN  IF "AutoReconnect" \in m.flags THEN OpenMySql(lost) ELSE lost

PingMySql(m) ==
    CASE ~m.handle -> [m EXCEPT !.err = "InvalidOperation"]
      [] m.handle /\ m.alive -> [m EXCEPT !.err = "NoError"]
      [] OTHER -> HandleConnectionLost([m EXCEPT !.err = "OpenFailed"])

OnPingTimeout(m) ==
    IF "PingTimeout" \notin m.flags \/ ~m.handle THEN ConfigurePingTimer(m) ELSE PingMySql(m)

----------------------------------------------------------------------------
(* The calls an application makes                                          *)

Open == my' = OpenMySql(my) /\ UNCHANGED <<lite, query, server, posted>>
Close == my.handle /\ my' = CloseMySql(my) /\ UNCHANGED <<lite, query, server, posted>>
Ping == my' = PingMySql(my) /\ UNCHANGED <<lite, query, server, posted>>

\* setHostName() ... setConnectionOptions(): an open connection is closed first.
SetConnectionOptions ==
    /\ \E name \in BOOLEAN :
          my' = [(IF my.handle THEN CloseMySql(my) ELSE my) EXCEPT !.name = name, !.err = "NoError"]
    /\ UNCHANGED <<lite, query, server, posted>>

\* setPingInterval() and setFeatureFlags() leave the timer to configurePingTimer().
SetFeatureFlags ==
    /\ \E flags \in SUBSET Flags : my' = ConfigurePingTimer([my EXCEPT !.flags = flags])
    /\ UNCHANGED <<lite, query, server, posted>>

PingTimeoutFires ==
    /\ my.timer /\ my' = OnPingTimeout(my)
    /\ UNCHANGED <<lite, query, server, posted>>

\* Node::moveToThread(): the timer stops with the old owner, and is configured
\* again by the new one once it runs the posted closure (the application does
\* not move it again before).
OnAboutToMoveToThread(m) == [m EXCEPT !.restart = m.timer, !.timer = FALSE]
OnMovedToThread(m) == IF m.restart THEN 1 ELSE 0

MoveToThread ==
    /\ posted = 0
    /\ LET m == OnAboutToMoveToThread(my) IN my' = m /\ posted' = OnMovedToThread(m)
    /\ UNCHANGED <<lite, query, server>>

RunPosted ==
    /\ posted > 0 /\ posted' = posted - 1
    /\ my' = ConfigurePingTimer(my)
    /\ UNCHANGED <<lite, query, server>>

----------------------------------------------------------------------------
(* SqliteDatabase                                                          *)

SetDatabaseName ==
    /\ \E name \in BOOLEAN : lite' = [handle |-> FALSE, name |-> name, err |-> "NoError"]
    /\ UNCHANGED <<my, query, server, posted>>

OpenSqlite ==
    /\ \E ok \in BOOLEAN :
          lite' = IF lite.handle THEN lite
                  ELSE IF lite.name /\ ok THEN [lite EXCEPT !.handle = TRUE, !.err = "NoError"]
                  ELSE [lite EXCEPT !.err = "OpenFailed"]
    /\ UNCHANGED <<my, query, server, posted>>

\* sqlite3_close_v2(): a statement that is still open goes on with the file.
CloseSqlite ==
    /\ lite' = [lite EXCEPT !.handle = FALSE]
    /\ UNCHANGED <<my, query, server, posted>>

----------------------------------------------------------------------------
(* Queries                                                                 *)

\* SqlQuery::setError() and clearError() tell the database too.
SetError(d, e, m) ==
    /\ IF d = "my" THEN my' = [m EXCEPT !.err = e] /\ UNCHANGED lite
       ELSE lite' = [lite EXCEPT !.err = e] /\ UNCHANGED my

QueryFails_DriverOnly(d, e, m) ==
    /\ SetError(d, e, m)
    /\ query' = [query EXCEPT ![d] = [rows |-> 0, err |-> "NoError", driverErr |-> e, failed |-> TRUE]]

QueryFails(d, e, m) ==
    /\ SetError(d, e, m)
    /\ query' = [query EXCEPT ![d] = [rows |-> 0, err |-> e, driverErr |-> e, failed |-> TRUE]]

\* MySqlQueryDriver::exec(): a query on a dead connection ends in
\* handleConnectionLost(), which may have opened a new one when exec() returns.
ExecMySql(rows) ==
    CASE ~my.handle -> QueryFails("my", "InvalidOperation", my)
      [] my.handle /\ ~my.alive -> QueryFails("my", "QueryFailed", HandleConnectionLost(my))
      [] OTHER -> /\ SetError("my", "NoError", my)
                  /\ query' = [query EXCEPT !["my"] = [NewQuery EXCEPT !.rows = rows]]

ExecSqlite(rows) ==
    IF ~lite.handle THEN QueryFails("lite", "InvalidOperation", my)
    ELSE /\ SetError("lite", "NoError", my)
         /\ query' = [query EXCEPT !["lite"] = [NewQuery EXCEPT !.rows = rows]]

\* A statement the database rejects.
ExecRejected(d) ==
    /\ IF d = "my" THEN my.handle /\ my.alive ELSE lite.handle
    /\ QueryFails(d, "QueryFailed", my) /\ UNCHANGED <<server, posted>>

Exec(d) ==
    /\ \E rows \in 0..MaxRows : IF d = "my" THEN ExecMySql(rows) ELSE ExecSqlite(rows)
    /\ UNCHANGED <<server, posted>>

\* mysql_store_result() has fetched every row: next() needs no connection.
\* SqlQuery::next() leaves the error of the query as it is.
NextRow(d) ==
    /\ LET q == query[d]
           rows == IF q.rows > 0 THEN q.rows - 1 ELSE 0
       IN  query' = [query EXCEPT ![d] = [q EXCEPT !.rows = rows, !.driverErr = "NoError"]]
    /\ UNCHANGED <<my, lite, server, posted>>

\* sqlite3_step() fails half-way.
NextFails ==
    /\ query["lite"].rows > 0
    /\ QueryFails("lite", "QueryFailed", my) /\ UNCHANGED <<server, posted>>

Finish(d) ==
    /\ query' = [query EXCEPT ![d].rows = 0]
    /\ UNCHANGED <<my, lite, server, posted>>

\* SqlQuery::lastError()
LastError(d) == IF query[d].err = "NoError" THEN query[d].driverErr ELSE query[d].err

----------------------------------------------------------------------------
ServerDown ==
    /\ server.up /\ server.outages < MaxOutages
    /\ server' = [up |-> FALSE, outages |-> server.outages + 1]
    /\ my' = [my EXCEPT !.alive = FALSE]
    /\ UNCHANGED <<lite, query, posted>>

ServerUp ==
    /\ ~server.up /\ server' = [server EXCEPT !.up = TRUE]
    /\ UNCHANGED <<my, lite, query, posted>>

Next == \/ Open \/ Close \/ Ping \/ SetConnectionOptions \/ SetFeatureFlags \/ PingTimeoutFires
        \/ MoveToThread \/ RunPosted \/ SetDatabaseName \/ OpenSqlite \/ CloseSqlite
        \/ \E d \in {"my", "lite"} : Exec(d) \/ ExecRejected(d) \/ NextRow(d) \/ Finish(d)
        \/ NextFails \/ ServerDown \/ ServerUp
Spec == Init /\ [][Next]_dbVars

----------------------------------------------------------------------------
(* Properties                                                              *)

\* A connection the application wants watched is watched: through losses,
\* reconnections, migrations and changes of the flags the ping timer runs
\* whenever the database is open with PingTimeout, or is about to be
\* configured by its new owner; and listeners of connectionChanged were last
\* told whether there is a connection (MySqlDatabase::open, closeHandle,
\* handleConnectionLost, configurePingTimer).
ConnectionWatched ==
    /\ my.handle /\ "PingTimeout" \in my.flags => my.timer \/ posted > 0
    /\ my.told = my.handle

\* A query that failed says so until the next exec(), whatever the driver, the
\* connection and its reconnection have done since (SqlQuery::exec, next,
\* lastError).
FailuresReported == \A d \in {"my", "lite"} : query[d].failed <=> LastError(d) # "NoError"

----------------------------------------------------------------------------
(* What the properties rest on.                                            *)

Errors == {"NoError", "OpenFailed", "InvalidOperation", "QueryFailed"}

MySqlType(m) ==
    m \in [handle : BOOLEAN, name : BOOLEAN, flags : SUBSET Flags, timer : BOOLEAN,
          restart : BOOLEAN, alive : BOOLEAN, err : Errors, told : BOOLEAN]

DbTypeOK ==
    /\ MySqlType(my)
    /\ lite \in [handle : BOOLEAN, name : BOOLEAN, err : Errors]
    /\ query \in [{"my", "lite"} -> [rows : Nat, err : Errors, driverErr : Errors, failed : BOOLEAN]]
    /\ posted \in Nat

\* The ping timer of the connection runs, or wait says that it is going to be
\* configured; the listeners know whether there is a connection.
Watched(m, wait) ==
    /\ m.handle /\ "PingTimeout" \in m.flags => m.timer \/ wait
    /\ m.told = m.handle

\* The error of the query itself says whether it failed: next() clears the
\* one of the driver.
QueryErrs(q) == /\ q.failed <=> q.err # "NoError"
                /\ q.driverErr # "NoError" => q.failed

Inv == DbTypeOK /\ Watched(my, posted > 0) /\ \A d \in {"my", "lite"} : QueryErrs(query[d])
=============================================================================
