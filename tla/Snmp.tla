-------------------------------- MODULE Snmp --------------------------------
(***************************************************************************)
(* lib/Snmp: SnmpV3Session, whose get(), set() and walk() each run on a    *)
(* detached thread and post their answer to the loop of the session.       *)
(*                                                                         *)
(* net-snmp and the agent are external: a request is answered, refused or  *)
(* times out.  An OID is a sequence of numbers; a value has a type and     *)
(* bytes.  The session lives on one of two loops, between which it may     *)
(* migrate at any time; it may be marked and destroyed at any time.        *)
(*                                                                         *)
(* SnmpTrapReceiver, at the end, is a machine of its own with the variable *)
(* trap: a net-snmp session whose descriptor the receiver's loop watches.  *)
(* snmp_sess_read() calls the callback, which emits trapReceived, before   *)
(* it returns.  StopInSlot = TRUE lets a slot of trapReceived call stop(). *)
(***************************************************************************)
EXTENDS Naturals, Sequences, SequencesExt, FiniteSets

CONSTANTS StopInSlot,
          Mib,       \* the agent's OIDs, in order
          Churn,     \* the OIDs that come and go
          Root,      \* where walks start
          Values,    \* the values applications set
          MaxOps, MaxChurn, MaxTraps, MaxUsers   \* bounds

VARIABLES session,   \* SnmpV3Session
          ops,       \* the detached threads
          agent,     \* what the agent holds
          posts,     \* closures posted to loops: <<operation, loop>>
          answers,   \* the signals emitted: <<operation, signal, on the owner's thread>>
          trap       \* SnmpTrapReceiver
snmpVars == <<session, ops, agent, posts, answers>>

Loops == {"l1", "l2"}

----------------------------------------------------------------------------
(* OIDs and values                                                         *)

IsPrefixOf(p, o) == Len(p) <= Len(o) /\ SubSeq(o, 1, Len(p)) = p
Less(a, b) == \/ \E i \in 1..Len(b) : /\ i <= Len(a) /\ a[i] < b[i] /\ SubSeq(a, 1, i - 1) = SubSeq(b, 1, i - 1)
              \/ Len(a) < Len(b) /\ IsPrefixOf(a, b)

\* toNetSnmpString() and netSnmpTypeChar(): bytes of an Opaque become hex
\* digits, a byte below 16 only one; everything else is passed as it is.
Digits(b) == IF b < 16 THEN <<b>> ELSE <<b \div 16, b % 16>>
ToNetSnmpString(v) ==
    IF v.type = "Opaque" THEN [char |-> "x", str |-> FlattenSeq([i \in DOMAIN v.bytes |-> Digits(v.bytes[i])])]
    ELSE [char |-> IF v.type = "Integer32" THEN "i" ELSE "s", str |-> v.bytes]

\* snmp_add_var(), external: two digits make a byte, and an odd number of them
\* is refused; a hex string is sent as an octet string.
Encodable(e) == e.char = "x" => Len(e.str) % 2 = 0
SnmpAddVar(e) ==
    IF e.char = "x"
    THEN [type |-> "OctetString", bytes |-> [i \in 1..(Len(e.str) \div 2) |-> 16 * e.str[2 * i - 1] + e.str[2 * i]]]
    ELSE [type |-> IF e.char = "i" THEN "Integer32" ELSE "OctetString", bytes |-> e.str]

\* parseVarBinds(): the types it knows, Null for the others.
ParseVarBinds(v) == IF v.type \in {"Integer32", "OctetString", "Opaque"} THEN v ELSE [type |-> "Null", bytes |-> <<>>]

\* GETNEXT
Following(oid) == {i \in DOMAIN Mib : Mib[i] \in agent.oids /\ Less(oid, Mib[i])}

----------------------------------------------------------------------------
SessionInit ==
    /\ session = [st |-> "alive", loop |-> "l1", freedUse |-> FALSE]
    /\ ops = <<>>
    /\ agent = [oids |-> Range(Mib), value |-> [type |-> "Null", bytes |-> <<>>], churn |-> 0]
    /\ posts = <<>> /\ answers = <<>>

----------------------------------------------------------------------------
(* SnmpV3Session.  The three calls copy the configuration and start a      *)
(* thread; v is the value of a set(), want what a walk() must find.        *)

Spawn(kind, v) ==
    /\ session.st # "deleted" /\ Len(ops) < MaxOps
    /\ ops' = Append(ops, [kind |-> kind, st |-> "opening", value |-> v, cursor |-> Root, found |-> <<>>,
                           want |-> {o \in agent.oids : IsPrefixOf(Root, o) /\ Less(Root, o)}, answer |-> ""])
    /\ UNCHANGED <<session, agent, posts, answers>>

Null == [type |-> "Null", bytes |-> <<>>]
Get == Spawn("get", Null)
Set == \E v \in Values : Spawn("set", v)
Walk == Spawn("walk", Null)

Answers(k, a) == ops' = [ops EXCEPT ![k].st = "answered", ![k].answer = a]

\* openSession(): a key that cannot be derived, snmp_open() failing.
OpenSession(k) ==
    /\ ops[k].st = "opening"
    /\ \/ ops' = [ops EXCEPT ![k].st = "working"]
       \/ Answers(k, "errorOccurred")
    /\ UNCHANGED <<session, agent, posts, answers>>

\* snmp_synch_response(): an answer, an error of the agent, a timeout.
GetExchange(k) ==
    /\ ops[k].st = "working" /\ ops[k].kind = "get"
    /\ \/ /\ ops' = [ops EXCEPT ![k].st = "answered", ![k].answer = "getResult", ![k].value = ParseVarBinds(agent.value)]
       \/ Answers(k, "errorOccurred")
    /\ UNCHANGED <<session, agent, posts, answers>>

SetExchange(k) ==
    /\ ops[k].st = "working" /\ ops[k].kind = "set"
    /\ LET e == ToNetSnmpString(ops[k].value)
       IN  \/ /\ Encodable(e) /\ agent' = [agent EXCEPT !.value = SnmpAddVar(e)] /\ Answers(k, "setResult")
           \/ /\ UNCHANGED agent /\ Answers(k, "errorOccurred")
    /\ UNCHANGED <<session, posts, answers>>

\* One GETNEXT of a walk.
WalkTurn(op) ==
    LET next == Mib[Min(Following(op.cursor))]
    IN  [op EXCEPT !.found = Append(@, next), !.cursor = next]

WalkExchange(k) ==
    /\ ops[k].st = "working" /\ ops[k].kind = "walk"
    /\ LET following == Following(ops[k].cursor)
       IN  \/ IF following = {} \/ ~IsPrefixOf(Root, Mib[Min(following)])
              THEN Answers(k, "walkResult")
              ELSE ops' = [ops EXCEPT ![k] = WalkTurn(ops[k])]
           \/ Answers(k, "errorOccurred")
    /\ UNCHANGED <<session, agent, posts, answers>>

\* The thread finds the session alive, then asks it for its loop.
FindSession(k) ==
    /\ ops[k].st = "answered"
    /\ ops' = [ops EXCEPT ![k].st = IF session.st = "alive" THEN "found" ELSE "done"]
    /\ UNCHANGED <<session, agent, posts, answers>>

\* Nothing holds the session between the two: one destroyed meanwhile is used
\* after its end, here with the outcome that nothing is posted.
PostAnswer_GoesOnAfterError(k) ==
    /\ ops[k].st = "found"
    /\ ops' = [ops EXCEPT ![k].st = IF ops[k].answer = "errorOccurred" THEN "working" ELSE "done"]
    /\ posts' = IF session.st = "deleted" THEN posts ELSE Append(posts, <<k, session.loop>>)
    /\ UNCHANGED <<session, agent, answers>>

PostAnswer(k) ==
    /\ ops[k].st = "found"
    /\ ops' = [ops EXCEPT ![k].st = "done"]
    /\ IF session.st = "deleted"
       THEN session' = [session EXCEPT !.freedUse = TRUE] /\ UNCHANGED posts
       ELSE posts' = Append(posts, <<k, session.loop>>) /\ UNCHANGED session
    /\ UNCHANGED <<agent, answers>>

\* A loop runs the oldest of its closures, which emits unless the session is
\* gone or marked; that the session has moved to the other loop it does not ask.
RunPosted(l) ==
    /\ \E i \in DOMAIN posts :
          /\ posts[i][2] = l /\ \A j \in 1..(i - 1) : posts[j][2] # l
          /\ posts' = RemoveAt(posts, i)
          /\ answers' = IF session.st # "alive" THEN answers
                        ELSE LET k == posts[i][1] IN Append(answers, <<k, ops[k].answer, l = session.loop>>)
    /\ UNCHANGED <<session, ops, agent>>

DeleteLater ==
    /\ session.st = "alive"
    /\ session' = [session EXCEPT !.st = "marked"]
    /\ UNCHANGED <<ops, agent, posts, answers>>

\* The owner deletes a marked session, or the application the object itself.
Destroy ==
    /\ session.st # "deleted"
    /\ session' = [session EXCEPT !.st = "deleted"]
    /\ UNCHANGED <<ops, agent, posts, answers>>

MoveSession ==
    /\ session.st = "alive"
    /\ \E l \in Loops \ {session.loop} : session' = [session EXCEPT !.loop = l]
    /\ UNCHANGED <<ops, agent, posts, answers>>

\* Rows of the agent's tables come and go while it is walked.
AgentChanges ==
    /\ agent.churn < MaxChurn
    /\ \E o \in Churn :
          /\ agent' = [agent EXCEPT !.oids = IF o \in @ THEN @ \ {o} ELSE @ \cup {o}, !.churn = @ + 1]
          /\ ops' = [k \in DOMAIN ops |-> [ops[k] EXCEPT !.want = @ \ {o}]]
    /\ UNCHANGED <<session, posts, answers>>

SessionNext ==
    \/ Get \/ Set \/ Walk \/ (\E l \in Loops : RunPosted(l)) \/ DeleteLater \/ Destroy \/ MoveSession \/ AgentChanges
    \/ \E k \in DOMAIN ops : \/ OpenSession(k) \/ GetExchange(k) \/ SetExchange(k) \/ WalkExchange(k)
                             \/ FindSession(k) \/ PostAnswer(k)

----------------------------------------------------------------------------
(* Properties of sessions                                                  *)

\* Every operation is answered at most once, with a signal of its own kind, and
\* exactly once if the session lives on, wherever it has moved to meanwhile;
\* and the bytes of a value that was set are the bytes the agent was given
\* (SnmpV3Session::get, set, walk and the closures they post).
OperationsAnswered ==
    /\ \A k \in DOMAIN ops :
          LET mine == SelectSeq(answers, LAMBDA a : a[1] = k)
          IN  /\ Len(mine) <= 1
              /\ Len(mine) = 1 => mine[1][2] \in {ops[k].kind \o "Result", "errorOccurred"}
              /\ ops[k].st = "done" /\ session.st = "alive" /\ (\A i \in DOMAIN posts : posts[i][1] # k)
                    => Len(mine) = 1
    /\ agent.value # Null => \E v \in Values : v.bytes = agent.value.bytes

\* What the header promises and the code does not keep: "Emitted on the owner
\* thread", also of a session that migrates while an answer is on its way; and
\* no use of a session destroyed between the check and the post.
AnsweredOnItsThread == \A i \in DOMAIN answers : answers[i][3]
NoUseAfterEnd == ~session.freedUse

\* A walk returns OIDs under its root in increasing order, and every one that
\* was there from its beginning to its end, whatever else the agent gained and
\* lost meanwhile (SnmpV3Session::walk).
WalksAreComplete ==
    \A k \in DOMAIN ops : ops[k].kind = "walk" =>
       LET found == ops[k].found
       IN  /\ \A i \in DOMAIN found : IsPrefixOf(Root, found[i]) /\ (i > 1 => Less(found[i - 1], found[i]))
           /\ ops[k].answer = "walkResult" => ops[k].want \subseteq Range(found)

----------------------------------------------------------------------------
(* SnmpTrapReceiver                                                        *)

TrapInit == trap = [listening |-> FALSE, watch |-> {}, loop |-> "l1", sess |-> FALSE, inRead |-> FALSE,
                    users |-> 0, usm |-> 0, traps |-> 0, emitted |-> 0, freedUse |-> FALSE]

AddV3User ==
    /\ trap.users < MaxUsers
    /\ trap' = [trap EXCEPT !.users = @ + 1]

\* start(): the users, numbered, are entered in net-snmp's global list (`usm'
\* is how many of them are) until the keys of one cannot be derived; then the
\* transport or the session may fail.  Nothing takes the users out again.
Start ==
    /\ ~trap.listening
    /\ \/ \E entered \in 0..trap.users : trap' = [trap EXCEPT !.usm = Max({@, entered})]
       \/ trap' = [trap EXCEPT !.usm = trap.users, !.listening = TRUE, !.sess = TRUE, !.watch = @ \cup {trap.loop}]

Stopped(t) == IF t.listening THEN [t EXCEPT !.listening = FALSE, !.sess = FALSE, !.watch = @ \ {t.loop}] ELSE t

Stop ==
    /\ trap.listening /\ ~trap.inRead
    /\ trap' = Stopped(trap)

\* onAboutToMoveToThread() and onMovedToThread(): the watch follows.
Rewatch_KeepsOld(t, l) == [t EXCEPT !.loop = l, !.watch = IF t.sess THEN @ \cup {l} ELSE @]
Rewatch(t, l) == [t EXCEPT !.loop = l, !.watch = (@ \ {t.loop}) \cup (IF t.sess THEN {l} ELSE {})]

MoveReceiver ==
    /\ ~trap.inRead
    /\ \E l \in Loops \ {trap.loop} : trap' = Rewatch(trap, l)

TrapArrives ==
    /\ trap.listening /\ trap.traps < MaxTraps
    /\ trap' = [trap EXCEPT !.traps = @ + 1]

\* onSocketReady(): snmp_sess_read() is entered, and calls trapPduCallback(),
\* which emits trapReceived; then it goes on with the session it was given.
OnSocketReady ==
    /\ trap.loop \in trap.watch /\ trap.emitted < trap.traps /\ ~trap.inRead
    /\ LET t == [trap EXCEPT !.inRead = TRUE, !.emitted = @ + 1]
       IN  trap' \in {t} \cup (IF StopInSlot THEN {Stopped(t)} ELSE {})

ReadReturns ==
    /\ trap.inRead
    /\ trap' = [trap EXCEPT !.inRead = FALSE, !.freedUse = @ \/ ~trap.sess]

TrapNext == AddV3User \/ Start \/ Stop \/ MoveReceiver \/ TrapArrives \/ OnSocketReady \/ ReadReturns

\* The receiver listens exactly where its descriptor is watched, on its own
\* loop and on no other, and its session outlives the read that uses it
\* (SnmpTrapReceiver::start, stop, onMovedToThread, onSocketReady).
ReceiverWatched ==
    /\ trap.watch = (IF trap.listening THEN {trap.loop} ELSE {})
    /\ ~trap.freedUse
=============================================================================
