---------------------------- MODULE MCCoreNetwork ----------------------------
(***************************************************************************)
(* The components of Core, Network, WebSocket and HttpServer, checked one  *)
(* by one in a single run: part says which of them a behaviour is about,   *)
(* and that one has the variables v1, v2, ... for its own. Its constants   *)
(* are given here, with the bounds, but for those that a theorem here      *)
(* leaves open: the .cfg gives them.                                       *)
(***************************************************************************)
EXTENDS Integers, Sequences, TLAPS

CONSTANTS Checked,     \* the components that are checked
          None,        \* the value of what is absent
          Addresses, Holders, MaxNodes,          \* see NodePointers
          Threads, Storages, MaxIds, MaxValues,  \* see ThreadStorage
          Main, DriverOwners, MaxTasks,          \* see Application
          MaxChildren,                           \* see Process
          MaxConnections, MaxQueue, MaxPosts, MaxGen,     \* see StreamSocket
          MaxClients, MaxListens,                \* see SocketServer
          UdpCallers, MaxDatagrams, MaxBinds, MaxSends,   \* see UdpSocket
          TreeAddresses, MaxListed,              \* see NodeTree
          Timers, TimerLoops, TimerStrands, MaxTimerGen, MaxTimerPosts   \* see Timer

\* What is absent is no callback of a descriptor's registration.
ASSUME NoneAssumption == None \notin [fd : {1, 2}, reg : Nat]

\* None is no address either, and bounds are numbers.
ASSUME HandlesAssumption ==
    /\ None \notin Addresses
    /\ MaxNodes \in Nat /\ MaxIds \in Nat /\ MaxValues \in Nat

\* A bound as well.
ASSUME ProcessAssumption == MaxChildren \in Nat

\* Nobody is not a caller.
ASSUME UdpAssumption == 0 \notin UdpCallers

\* None is no address of a node of the tree.
ASSUME TreeAssumption == None \notin TreeAddresses

VARIABLES part,      \* the component that this behaviour is about
          v1, v2, v3, v4, v5, v6, v7, v8, v9, v10, v11, v12, v13

vars == <<part, v1, v2, v3, v4, v5, v6, v7, v8, v9, v10, v11, v12, v13>>

\* Requests without a body, with a length, in chunks, and broken ones.
HttpRequests ==
    {<<"line", "end0">>, <<"line", "header", "endL", "b", "b">>,
     <<"line", "endC", "size1", "b", "crlf", "size0">>,
     <<"badline">>, <<"line", "badheader", "end0">>, <<"line", "endC", "badsize">>}

-----------------------------------------------------------------------------
(* Node pointers and per-thread storage, for any constants. What is proved *)
(* here in detail comes first, where the provers have little to look at.   *)

\* A few places for nodes, used again and again.
Np == INSTANCE NodePointers WITH
    object <- v1, block <- v2, registry <- v3, shards <- v4, pointer <- v5,
    built <- v6

Ts == INSTANCE ThreadStorage WITH
    id <- v1, made <- v2, nextId <- v3, slots <- v4, ended <- v5,
    values <- v6, deleted <- v7, home <- v8

(* No pointer is alive before there are nodes.                             *)
LEMMA PointerInit == Np!Init => Np!Inv
<1> SUFFICES ASSUME Np!Init PROVE Np!Inv
  OBVIOUS
<1> USE HandlesAssumption DEF Np!Init, Np!Null
<1>1. Np!TypeOK
  BY DEF Np!TypeOK, Np!Stages
<1>2. Np!Occupied /\ Np!Registered /\ Np!DeadAreSignalled /\ Np!InShards
  BY DEF Np!Occupied, Np!Registered, Np!DeadAreSignalled, Np!InShards
<1>3. Np!LeadsToItsNode
  BY DEF Np!LeadsToItsNode, Np!Bool, Np!IsAlive
<1> QED
  BY <1>1, <1>2, <1>3 DEF Np!Inv

(* A step of the node at a: the others stay as they are.                   *)
LEMMA StageMoves ==
  ASSUME Np!TypeOK, NEW a \in Addresses, NEW x \in Np!Stages,
         v1' = [v1 EXCEPT ![a].stage = x]
  PROVE  /\ v1' \in [Addresses -> [node : 0..MaxNodes, stage : Np!Stages]]
         /\ \A b \in Addresses :
              /\ v1'[b].node = v1[b].node
              /\ v1'[b].stage = IF b = a THEN x ELSE v1[b].stage
<1>1. v1 \in [Addresses -> [node : 0..MaxNodes, stage : Np!Stages]]
  BY DEF Np!TypeOK
<1>2. v1[a] \in [node : 0..MaxNodes, stage : Np!Stages]
  BY <1>1
<1>3. [v1[a] EXCEPT !.stage = x] = [node |-> v1[a].node, stage |-> x]
  BY <1>2
<1>4. v1' = [v1 EXCEPT ![a] = [v1[a] EXCEPT !.stage = x]]
  OBVIOUS
<1> QED
  BY <1>1, <1>2, <1>3, <1>4

(* The same of a node's block.                                             *)
LEMMA BlockMoves ==
  ASSUME Np!TypeOK, NEW n \in 1..MaxNodes, NEW x \in BOOLEAN
  PROVE  /\ v2' = [v2 EXCEPT ![n].alive = x] =>
              /\ v2' \in [1..MaxNodes -> [alive : BOOLEAN, marked : BOOLEAN]]
              /\ \A m \in 1..MaxNodes : v2'[m].alive = IF m = n THEN x ELSE v2[m].alive
         /\ v2' = [v2 EXCEPT ![n].marked = x] =>
              /\ v2' \in [1..MaxNodes -> [alive : BOOLEAN, marked : BOOLEAN]]
              /\ \A m \in 1..MaxNodes : v2'[m].alive = v2[m].alive
<1>1. v2 \in [1..MaxNodes -> [alive : BOOLEAN, marked : BOOLEAN]]
  BY DEF Np!TypeOK
<1>2. v2[n] \in [alive : BOOLEAN, marked : BOOLEAN]
  BY <1>1
<1>3. ASSUME v2' = [v2 EXCEPT ![n].alive = x]
      PROVE  /\ v2' \in [1..MaxNodes -> [alive : BOOLEAN, marked : BOOLEAN]]
             /\ \A m \in 1..MaxNodes : v2'[m].alive = IF m = n THEN x ELSE v2[m].alive
  <2>1. [v2[n] EXCEPT !.alive = x] = [alive |-> x, marked |-> v2[n].marked]
    BY <1>2
  <2>2. v2' = [v2 EXCEPT ![n] = [v2[n] EXCEPT !.alive = x]]
    BY <1>3
  <2> QED
    BY <1>1, <1>2, <2>1, <2>2
<1>4. ASSUME v2' = [v2 EXCEPT ![n].marked = x]
      PROVE  /\ v2' \in [1..MaxNodes -> [alive : BOOLEAN, marked : BOOLEAN]]
             /\ \A m \in 1..MaxNodes : v2'[m].alive = v2[m].alive
  <2>1. [v2[n] EXCEPT !.marked = x] = [alive |-> v2[n].alive, marked |-> x]
    BY <1>2
  <2>2. v2' = [v2 EXCEPT ![n] = [v2[n] EXCEPT !.marked = x]]
    BY <1>4
  <2> QED
    BY <1>1, <1>2, <2>1, <2>2
<1> QED
  BY <1>3, <1>4

(* Pointers that stay lead to their nodes, if no block comes to life and   *)
(* the nodes that can be followed stay.                                    *)
LEMMA LeadsKept ==
  ASSUME Np!TypeOK, Np!LeadsToItsNode, None \notin Addresses, v5' = v5,
         \A n \in 1..MaxNodes : v2'[n].alive => v2[n].alive,
         \A b \in Addresses :
            /\ v1[b].node # 0 /\ v2'[v1[b].node].alive
            /\ v1[b].stage \notin {"free", "dead", "unregistered"}
            => /\ v1'[b].node = v1[b].node
               /\ v1'[b].stage \notin {"free", "dead", "unregistered"}
  PROVE  Np!LeadsToItsNode'
<1> SUFFICES ASSUME NEW h \in Holders, Np!Bool(v5[h])'
             PROVE  /\ v1'[v5[h].addr].node = v5[h].node
                    /\ v1'[v5[h].addr].stage \notin {"free", "dead", "unregistered"}
  BY DEF Np!LeadsToItsNode
<1>1. v5[h].addr \in Addresses /\ v5[h].node \in 1..MaxNodes /\ v2'[v5[h].node].alive
  BY HandlesAssumption DEF Np!TypeOK, Np!Bool, Np!IsAlive
<1>2. v2[v5[h].node].alive
  BY <1>1
<1>3. /\ v1[v5[h].addr].node = v5[h].node
      /\ v1[v5[h].addr].stage \notin {"free", "dead", "unregistered"}
  BY <1>1, <1>2, HandlesAssumption DEF Np!LeadsToItsNode, Np!Bool, Np!IsAlive
<1> QED
  BY <1>1, <1>3, HandlesAssumption

(* Every step of a node's life, and every step of a pointer, keeps what    *)
(* makes pointers safe.                                                    *)
LEMMA PointerNext == Np!Inv /\ [Np!Next]_Np!pointerVars => Np!Inv'
<1> SUFFICES ASSUME Np!Inv, [Np!Next]_Np!pointerVars PROVE Np!Inv'
  OBVIOUS
<1> USE HandlesAssumption
<1> DEFINE Places == Np!Occupied' /\ Np!Registered' /\ Np!DeadAreSignalled' /\ Np!InShards'
<1>0. /\ v1 \in [Addresses -> [node : 0..MaxNodes, stage : Np!Stages]]
      /\ v2 \in [1..MaxNodes -> [alive : BOOLEAN, marked : BOOLEAN]]
      /\ v3 \in [Addresses -> 0..MaxNodes]
      /\ v4 \subseteq Addresses
      /\ v5 \in [Holders -> [addr : Addresses \cup {None}, node : 0..MaxNodes]]
      /\ v6 \in 0..MaxNodes
  BY DEF Np!Inv, Np!TypeOK
<1>1. ASSUME NEW a \in Addresses, Np!Construct(a) PROVE Np!Inv'
  <2>0. v6 + 1 \in 0..MaxNodes /\ v6 + 1 # 0
    BY <1>0, <1>1 DEF Np!Construct
  <2>1. /\ v1' \in [Addresses -> [node : 0..MaxNodes, stage : Np!Stages]]
        /\ \A b \in Addresses :
             /\ v1'[b].node = IF b = a THEN v6 + 1 ELSE v1[b].node
             /\ v1'[b].stage = IF b = a THEN "building" ELSE v1[b].stage
    <3>1. [node |-> v6 + 1, stage |-> "building"] \in [node : 0..MaxNodes, stage : Np!Stages]
      BY <2>0 DEF Np!Stages
    <3> QED
      BY <1>0, <1>1, <3>1 DEF Np!Construct
  <2>3. Np!TypeOK'
    BY <1>0, <1>1, <2>0, <2>1 DEF Np!Construct, Np!TypeOK
  <2>4. Places
    <3>1. Np!Occupied'
      BY <1>0, <1>1, <2>0, <2>1 DEF Np!Construct, Np!Inv, Np!Occupied
    <3>2. Np!Registered'
      BY <1>0, <1>1, <2>0, <2>1 DEF Np!Construct, Np!Inv, Np!Registered, Np!Occupied
    <3>3. Np!DeadAreSignalled'
      BY <1>0, <1>1, <2>0, <2>1 DEF Np!Construct, Np!Inv, Np!DeadAreSignalled, Np!Occupied
    <3>4. Np!InShards'
      BY <1>0, <1>1, <2>0, <2>1 DEF Np!Construct, Np!Inv, Np!InShards
    <3> QED
      BY <3>1, <3>2, <3>3, <3>4
  <2>5. Np!LeadsToItsNode'
    BY <1>0, <1>1, <2>0, <2>1, LeadsKept DEF Np!Construct, Np!Inv, Np!Occupied
  <2> QED
    BY <2>3, <2>4, <2>5 DEF Np!Inv
<1>2. ASSUME NEW a \in Addresses, Np!Constructed(a) PROVE Np!Inv'
  <2>1. /\ v1' \in [Addresses -> [node : 0..MaxNodes, stage : Np!Stages]]
        /\ \A b \in Addresses :
             /\ v1'[b].node = v1[b].node
             /\ v1'[b].stage = IF b = a THEN "live" ELSE v1[b].stage
    <3>1. "live" \in Np!Stages
      BY DEF Np!Stages
    <3> QED
      BY <1>2, <3>1, StageMoves DEF Np!Constructed, Np!Inv
  <2>3. Np!TypeOK'
    BY <1>0, <1>2, <2>1 DEF Np!Constructed, Np!TypeOK
  <2>4. Places
    <3>1. Np!Occupied'
      BY <1>0, <1>2, <2>1 DEF Np!Constructed, Np!Inv, Np!Occupied
    <3>2. Np!Registered'
      BY <1>0, <1>2, <2>1 DEF Np!Constructed, Np!Inv, Np!Registered, Np!Occupied
    <3>3. Np!DeadAreSignalled'
      BY <1>0, <1>2, <2>1 DEF Np!Constructed, Np!Inv, Np!DeadAreSignalled, Np!Occupied
    <3>4. Np!InShards'
      BY <1>0, <1>2, <2>1 DEF Np!Constructed, Np!Inv, Np!InShards
    <3> QED
      BY <3>1, <3>2, <3>3, <3>4
  <2>5. Np!LeadsToItsNode'
    BY <1>0, <1>2, <2>1, LeadsKept DEF Np!Constructed, Np!Inv, Np!Occupied
  <2> QED
    BY <2>3, <2>4, <2>5 DEF Np!Inv
<1>3. ASSUME NEW a \in Addresses, Np!DeleteLater(a) PROVE Np!Inv'
  <2>1. v1[a].node \in 1..MaxNodes
    BY <1>0, <1>3 DEF Np!DeleteLater, Np!Inv, Np!Occupied
  <2>2. /\ v2' \in [1..MaxNodes -> [alive : BOOLEAN, marked : BOOLEAN]]
        /\ \A n \in 1..MaxNodes : v2'[n].alive = v2[n].alive
    BY <1>3, <2>1, BlockMoves DEF Np!DeleteLater, Np!Inv
  <2>3. Np!TypeOK'
    BY <1>0, <1>3, <2>1, <2>2 DEF Np!DeleteLater, Np!TypeOK
  <2>4. Places
    <3>1. Np!Occupied'
      BY <1>0, <1>3, <2>1, <2>2 DEF Np!DeleteLater, Np!Inv, Np!Occupied
    <3>2. Np!Registered'
      BY <1>0, <1>3, <2>1, <2>2 DEF Np!DeleteLater, Np!Inv, Np!Registered, Np!Occupied
    <3>3. Np!DeadAreSignalled'
      BY <1>0, <1>3, <2>1, <2>2 DEF Np!DeleteLater, Np!Inv, Np!DeadAreSignalled, Np!Occupied
    <3>4. Np!InShards'
      BY <1>0, <1>3, <2>1, <2>2 DEF Np!DeleteLater, Np!Inv, Np!InShards
    <3> QED
      BY <3>1, <3>2, <3>3, <3>4
  <2>5. Np!LeadsToItsNode'
    BY <1>0, <1>3, <2>1, <2>2, LeadsKept DEF Np!DeleteLater, Np!Inv, Np!Occupied
  <2> QED
    BY <2>3, <2>4, <2>5 DEF Np!Inv
<1>4. ASSUME NEW a \in Addresses, Np!DestroyDerived(a) PROVE Np!Inv'
  <2>1. /\ v1' \in [Addresses -> [node : 0..MaxNodes, stage : Np!Stages]]
        /\ \A b \in Addresses :
             /\ v1'[b].node = v1[b].node
             /\ v1'[b].stage = IF b = a THEN "derivedGone" ELSE v1[b].stage
    <3>1. "derivedGone" \in Np!Stages
      BY DEF Np!Stages
    <3> QED
      BY <1>4, <3>1, StageMoves DEF Np!DestroyDerived, Np!Inv
  <2>3. Np!TypeOK'
    BY <1>0, <1>4, <2>1 DEF Np!DestroyDerived, Np!TypeOK
  <2>4. Places
    <3>1. Np!Occupied'
      BY <1>0, <1>4, <2>1 DEF Np!DestroyDerived, Np!Inv, Np!Occupied
    <3>2. Np!Registered'
      BY <1>0, <1>4, <2>1 DEF Np!DestroyDerived, Np!Inv, Np!Registered, Np!Occupied
    <3>3. Np!DeadAreSignalled'
      BY <1>0, <1>4, <2>1 DEF Np!DestroyDerived, Np!Inv, Np!DeadAreSignalled, Np!Occupied
    <3>4. Np!InShards'
      BY <1>0, <1>4, <2>1 DEF Np!DestroyDerived, Np!Inv, Np!InShards
    <3> QED
      BY <3>1, <3>2, <3>3, <3>4
  <2>5. Np!LeadsToItsNode'
    BY <1>0, <1>4, <2>1, LeadsKept DEF Np!DestroyDerived, Np!Inv, Np!Occupied
  <2> QED
    BY <2>3, <2>4, <2>5 DEF Np!Inv
<1>5. ASSUME NEW a \in Addresses, Np!SignalHolders(a) PROVE Np!Inv'
  <2>1. /\ v1' \in [Addresses -> [node : 0..MaxNodes, stage : Np!Stages]]
        /\ \A b \in Addresses :
             /\ v1'[b].node = v1[b].node
             /\ v1'[b].stage = IF b = a THEN "dead" ELSE v1[b].stage
    <3>1. "dead" \in Np!Stages
      BY DEF Np!Stages
    <3> QED
      BY <1>5, <3>1, StageMoves DEF Np!SignalHolders, Np!Inv
  <2>2. /\ v2' \in [1..MaxNodes -> [alive : BOOLEAN, marked : BOOLEAN]]
        /\ v1[a].node \in 1..MaxNodes
        /\ \A n \in 1..MaxNodes : v2'[n].alive = IF n = v1[a].node THEN FALSE ELSE v2[n].alive
    <3>1. v1[a].node \in 1..MaxNodes
      BY <1>0, <1>5 DEF Np!SignalHolders, Np!Inv, Np!Occupied
    <3> QED
      BY <1>5, <3>1, BlockMoves DEF Np!SignalHolders, Np!Inv
  <2>3. Np!TypeOK'
    BY <1>0, <1>5, <2>1, <2>2 DEF Np!SignalHolders, Np!TypeOK
  <2>4. Places
    <3>1. Np!Occupied'
      BY <1>0, <1>5, <2>1, <2>2 DEF Np!SignalHolders, Np!Inv, Np!Occupied
    <3>2. Np!Registered'
      BY <1>0, <1>5, <2>1, <2>2 DEF Np!SignalHolders, Np!Inv, Np!Registered, Np!Occupied
    <3>3. Np!DeadAreSignalled'
      BY <1>0, <1>5, <2>1, <2>2 DEF Np!SignalHolders, Np!Inv, Np!DeadAreSignalled, Np!Occupied
    <3>4. Np!InShards'
      BY <1>0, <1>5, <2>1, <2>2 DEF Np!SignalHolders, Np!Inv, Np!InShards
    <3> QED
      BY <3>1, <3>2, <3>3, <3>4
  <2>5. Np!LeadsToItsNode'
    BY <1>0, <1>5, <2>1, <2>2, LeadsKept DEF Np!SignalHolders, Np!Inv, Np!Occupied
  <2> QED
    BY <2>3, <2>4, <2>5 DEF Np!Inv
<1>6. ASSUME NEW a \in Addresses, Np!Unregister(a) PROVE Np!Inv'
  <2>1. /\ v1' \in [Addresses -> [node : 0..MaxNodes, stage : Np!Stages]]
        /\ \A b \in Addresses :
             /\ v1'[b].node = v1[b].node
             /\ v1'[b].stage = IF b = a THEN "unregistered" ELSE v1[b].stage
    <3>1. "unregistered" \in Np!Stages
      BY DEF Np!Stages
    <3> QED
      BY <1>6, <3>1, StageMoves DEF Np!Unregister, Np!Inv
  <2>3. Np!TypeOK'
    BY <1>0, <1>6, <2>1 DEF Np!Unregister, Np!TypeOK
  <2>4. Places
    <3>1. Np!Occupied'
      BY <1>0, <1>6, <2>1 DEF Np!Unregister, Np!Inv, Np!Occupied
    <3>2. Np!Registered'
      BY <1>0, <1>6, <2>1 DEF Np!Unregister, Np!Inv, Np!Registered, Np!Occupied
    <3>3. Np!DeadAreSignalled'
      BY <1>0, <1>6, <2>1 DEF Np!Unregister, Np!Inv, Np!DeadAreSignalled, Np!Occupied
    <3>4. Np!InShards'
      BY <1>0, <1>6, <2>1 DEF Np!Unregister, Np!Inv, Np!InShards
    <3> QED
      BY <3>1, <3>2, <3>3, <3>4
  <2>5. Np!LeadsToItsNode'
    BY <1>0, <1>6, <2>1, LeadsKept DEF Np!Unregister, Np!Inv, Np!Occupied
  <2> QED
    BY <2>3, <2>4, <2>5 DEF Np!Inv
<1>7. ASSUME NEW a \in Addresses, Np!Free(a) PROVE Np!Inv'
  <2>1. /\ v1' \in [Addresses -> [node : 0..MaxNodes, stage : Np!Stages]]
        /\ \A b \in Addresses :
             /\ v1'[b].node = IF b = a THEN 0 ELSE v1[b].node
             /\ v1'[b].stage = IF b = a THEN "free" ELSE v1[b].stage
    <3>1. [node |-> 0, stage |-> "free"] \in [node : 0..MaxNodes, stage : Np!Stages]
      BY DEF Np!Stages
    <3> QED
      BY <1>0, <1>7, <3>1 DEF Np!Free
  <2>3. Np!TypeOK'
    BY <1>0, <1>7, <2>1 DEF Np!Free, Np!TypeOK
  <2>4. Places
    <3>1. Np!Occupied'
      BY <1>0, <1>7, <2>1 DEF Np!Free, Np!Inv, Np!Occupied
    <3>2. Np!Registered'
      BY <1>0, <1>7, <2>1 DEF Np!Free, Np!Inv, Np!Registered, Np!Occupied
    <3>3. Np!DeadAreSignalled'
      BY <1>0, <1>7, <2>1 DEF Np!Free, Np!Inv, Np!DeadAreSignalled, Np!Occupied
    <3>4. Np!InShards'
      BY <1>0, <1>7, <2>1 DEF Np!Free, Np!Inv, Np!InShards
    <3> QED
      BY <3>1, <3>2, <3>3, <3>4
  <2>5. Np!LeadsToItsNode'
    BY <1>0, <1>7, <2>1, LeadsKept DEF Np!Free, Np!Inv, Np!Occupied
  <2> QED
    BY <2>3, <2>4, <2>5 DEF Np!Inv
(* A new pointer asks the registry, which may still know a node whose      *)
(* block says that it is dead.                                             *)
<1>8. ASSUME NEW h \in Holders, NEW a \in Addresses, Np!Make(h, a) PROVE Np!Inv'
  <2>1. /\ v5' \in [Holders -> [addr : Addresses \cup {None}, node : 0..MaxNodes]]
        /\ \A g \in Holders : v5'[g] = IF g = h THEN [addr |-> a, node |-> v3[a]] ELSE v5[g]
    BY <1>0, <1>8 DEF Np!Make
  <2>3. Np!TypeOK'
    BY <1>0, <1>8, <2>1 DEF Np!Make, Np!TypeOK
  <2>4. Places
    BY <1>8 DEF Np!Make, Np!Inv, Np!Occupied, Np!Registered, Np!DeadAreSignalled, Np!InShards
  <2>5. Np!LeadsToItsNode'
    BY <1>0, <1>8, <2>1 DEF Np!Make, Np!Inv, Np!LeadsToItsNode, Np!Bool, Np!IsAlive, Np!Occupied, Np!Registered, Np!DeadAreSignalled
  <2> QED
    BY <2>3, <2>4, <2>5 DEF Np!Inv
<1>9. ASSUME NEW h \in Holders, Np!Reset(h) PROVE Np!Inv'
  <2>1. /\ v5' \in [Holders -> [addr : Addresses \cup {None}, node : 0..MaxNodes]]
        /\ \A g \in Holders : v5'[g] = IF g = h THEN [addr |-> None, node |-> 0] ELSE v5[g]
    BY <1>0, <1>9 DEF Np!Reset, Np!Null
  <2>3. Np!TypeOK'
    BY <1>0, <1>9, <2>1 DEF Np!Reset, Np!Null, Np!TypeOK
  <2>4. Places
    BY <1>9 DEF Np!Reset, Np!Null, Np!Inv, Np!Occupied, Np!Registered, Np!DeadAreSignalled, Np!InShards
  <2>5. Np!LeadsToItsNode'
    BY <1>0, <1>9, <2>1 DEF Np!Reset, Np!Null, Np!Inv, Np!LeadsToItsNode, Np!Bool, Np!IsAlive
  <2> QED
    BY <2>3, <2>4, <2>5 DEF Np!Inv
<1>10. ASSUME NEW h \in Holders, NEW k \in Holders, Np!Share(h, k) PROVE Np!Inv'
  <2>1. /\ v5' \in [Holders -> [addr : Addresses \cup {None}, node : 0..MaxNodes]]
        /\ \A g \in Holders : v5'[g] = IF g = h THEN v5[k] ELSE v5[g]
    BY <1>0, <1>10 DEF Np!Share
  <2>3. Np!TypeOK'
    BY <1>0, <1>10, <2>1 DEF Np!Share, Np!TypeOK
  <2>4. Places
    BY <1>10 DEF Np!Share, Np!Inv, Np!Occupied, Np!Registered, Np!DeadAreSignalled, Np!InShards
  <2>5. Np!LeadsToItsNode'
    BY <1>0, <1>10, <2>1 DEF Np!Share, Np!Inv, Np!LeadsToItsNode, Np!Bool, Np!IsAlive
  <2> QED
    BY <2>3, <2>4, <2>5 DEF Np!Inv
<1>11. CASE UNCHANGED Np!pointerVars
  BY <1>11 DEF Np!pointerVars, Np!Inv, Np!TypeOK, Np!Occupied, Np!Registered,
     Np!DeadAreSignalled, Np!InShards, Np!LeadsToItsNode, Np!Bool, Np!IsAlive
<1> QED
  BY <1>1, <1>2, <1>3, <1>4, <1>5, <1>6, <1>7, <1>8, <1>9, <1>10, <1>11 DEF Np!Next

(* A pointer that is alive leads to its node.                              *)
LEMMA PointerSafe == Np!Inv => Np!PointersAreSafe
  BY DEF Np!Inv, Np!TypeOK, Np!Occupied, Np!Registered, Np!InShards,
     Np!PointersAreSafe, Np!RegistriesAgree

(* No thread has a value before there are storages.                        *)
LEMMA StorageInit == Ts!Init => Ts!Inv
<1> SUFFICES ASSUME Ts!Init PROVE Ts!Inv
  OBVIOUS
<1> USE HandlesAssumption DEF Ts!Init, Ts!Ids, Ts!Values
<1>1. Ts!TypeOK
  BY DEF Ts!TypeOK
<1>2. Ts!KnownById /\ Ts!InItsSlot /\ Ts!Counted /\ Ts!EndedAreEmpty
  BY DEF Ts!KnownById, Ts!InItsSlot, Ts!Counted, Ts!EndedAreEmpty
<1> QED
  BY <1>1, <1>2 DEF Ts!Inv

(* A thread that empties some of its slots deletes what was in them, once. *)
LEMMA Deletes ==
  ASSUME Ts!Inv, NEW t \in Threads, NEW is, is \subseteq Ts!Ids,
         v7' = Ts!Deleting(t, is)
  PROVE  /\ v7' \in [Ts!Values -> Nat]
         /\ \A v \in Ts!Values :
              /\ v > v6 => v7'[v] = 0
              /\ v <= v6 => v7'[v] = IF Ts!InSlot(v) /\ ~(v8[v][1] = t /\ v8[v][2] \in is)
                                      THEN 0 ELSE 1
<1> USE HandlesAssumption DEF Ts!Ids, Ts!Values
<1>1. v7' \in [Ts!Values -> Nat]
  BY DEF Ts!Inv, Ts!TypeOK, Ts!Deleting
<1>2. ASSUME NEW v \in Ts!Values, v > v6 PROVE v7'[v] = 0
  <2>1. \A i \in is : v4[t][i] # v
    BY <1>2 DEF Ts!Inv, Ts!TypeOK, Ts!InItsSlot
  <2>2. v7[v] = 0
    BY <1>2 DEF Ts!Inv, Ts!Counted
  <2>3. v7'[v] = v7[v] + IF \E i \in is : v4[t][i] = v THEN 1 ELSE 0
    BY DEF Ts!Deleting
  <2> QED
    BY <2>1, <2>2, <2>3
<1>3. ASSUME NEW v \in Ts!Values, v <= v6
      PROVE  v7'[v] = IF Ts!InSlot(v) /\ ~(v8[v][1] = t /\ v8[v][2] \in is) THEN 0 ELSE 1
  <2>1. v8[v] \in Threads \X Ts!Ids /\ v7[v] = IF Ts!InSlot(v) THEN 0 ELSE 1
    BY <1>3 DEF Ts!Inv, Ts!Counted
  <2>2. (\E i \in is : v4[t][i] = v) <=> Ts!InSlot(v) /\ v8[v][1] = t /\ v8[v][2] \in is
    <3>1. ASSUME NEW i \in is, v4[t][i] = v PROVE v8[v] = <<t, i>>
      <4>1. v # 0
        BY HandlesAssumption DEF Ts!Values
      <4>2. v8[v4[t][i]] = <<t, i>>
        BY <3>1, <4>1 DEF Ts!Inv, Ts!InItsSlot
      <4> QED
        BY <3>1, <4>2
    <3> QED
      BY <2>1, <3>1 DEF Ts!InSlot
  <2>3. v7'[v] = v7[v] + IF \E i \in is : v4[t][i] = v THEN 1 ELSE 0
    BY DEF Ts!Deleting
  <2> QED
    BY <2>1, <2>2, <2>3
<1> QED
  BY <1>1, <1>2, <1>3

(* Storages come and go, threads set values and end: values stay where     *)
(* they belong and are deleted when they leave.                            *)
LEMMA StorageNext == Ts!Inv /\ [Ts!Next]_Ts!storageVars => Ts!Inv'
<1> SUFFICES ASSUME Ts!Inv, [Ts!Next]_Ts!storageVars PROVE Ts!Inv'
  OBVIOUS
<1> USE HandlesAssumption DEF Ts!Ids, Ts!Values
<1>1. ASSUME NEW s \in Storages, Ts!Construct(s) PROVE Ts!Inv'
  <2>1. Ts!TypeOK'
    BY <1>1 DEF Ts!Construct, Ts!NewId, Ts!Inv, Ts!TypeOK
  <2>2. Ts!KnownById'
    BY <1>1 DEF Ts!Construct, Ts!NewId, Ts!Inv, Ts!TypeOK, Ts!KnownById
  <2>3. Ts!InItsSlot' /\ Ts!Counted' /\ Ts!EndedAreEmpty'
    BY <1>1 DEF Ts!Construct, Ts!Inv, Ts!InItsSlot, Ts!Counted, Ts!InSlot, Ts!EndedAreEmpty
  <2> QED
    BY <2>1, <2>2, <2>3 DEF Ts!Inv
<1>2. ASSUME NEW t \in Threads, NEW s \in Storages, Ts!Destroy(t, s) PROVE Ts!Inv'
  <2> DEFINE i == v1[s]
  <2>1. i \in Ts!Ids /\ t \notin v5
    BY <1>2 DEF Ts!Destroy, Ts!Inv, Ts!TypeOK
  <2>2. /\ v7' \in [Ts!Values -> Nat]
        /\ \A v \in Ts!Values :
             /\ v > v6 => v7'[v] = 0
             /\ v <= v6 => v7'[v] = IF Ts!InSlot(v) /\ ~(v8[v][1] = t /\ v8[v][2] \in {i})
                                      THEN 0 ELSE 1
    <3>1. {i} \subseteq Ts!Ids /\ v7' = Ts!Deleting(t, {i})
      BY <1>2, <2>1 DEF Ts!Destroy
    <3> QED
      BY <3>1, Deletes
  <2>3. \A u \in Threads, j \in Ts!Ids : v4'[u][j] = IF u = t /\ j = i THEN 0 ELSE v4[u][j]
    BY <1>2, <2>1 DEF Ts!Destroy, Ts!Inv, Ts!TypeOK
  <2>4. Ts!TypeOK'
    <3>1. v4' \in [Threads -> [Ts!Ids -> 0..MaxValues]]
      <4>1. v4'[t] \in [Ts!Ids -> 0..MaxValues]
        BY <1>2, <2>1 DEF Ts!Destroy, Ts!Inv, Ts!TypeOK
      <4> QED
        BY <1>2, <4>1 DEF Ts!Destroy, Ts!Inv, Ts!TypeOK
    <3>2. v1' \in [Storages -> 0..MaxIds]
      BY <1>2 DEF Ts!Destroy, Ts!Inv, Ts!TypeOK
    <3> QED
      BY <1>2, <2>2, <3>1, <3>2 DEF Ts!Destroy, Ts!Inv, Ts!TypeOK
  <2>5. Ts!KnownById'
    BY <1>2 DEF Ts!Destroy, Ts!Inv, Ts!TypeOK, Ts!KnownById
  <2>6. Ts!InItsSlot'
    <3> SUFFICES ASSUME NEW u \in Threads, NEW j \in Ts!Ids, v4'[u][j] # 0
                 PROVE  v4'[u][j] \in 1..v6 /\ v8[v4'[u][j]] = <<u, j>>
      BY <1>2 DEF Ts!Destroy, Ts!InItsSlot
    <3>1. v4'[u][j] = v4[u][j]
      BY <2>3
    <3> QED
      BY <3>1 DEF Ts!Inv, Ts!InItsSlot
  <2>7. Ts!Counted'
    <3> SUFFICES ASSUME NEW v \in Ts!Values
                 PROVE  /\ v <= v6 => /\ v8[v] \in Threads \X Ts!Ids
                                      /\ v7'[v] = IF Ts!InSlot(v)' THEN 0 ELSE 1
                        /\ v > v6 => v7'[v] = 0
      BY <1>2 DEF Ts!Destroy, Ts!Counted
    <3>1. CASE v <= v6
      <4>1. v8[v] \in Threads \X Ts!Ids
        BY <3>1 DEF Ts!Inv, Ts!Counted
      <4>2. Ts!InSlot(v)' <=> Ts!InSlot(v) /\ ~(v8[v][1] = t /\ v8[v][2] = i)
        BY <1>2, <2>3, <4>1 DEF Ts!Destroy, Ts!InSlot
      <4> QED
        BY <2>2, <3>1, <4>1, <4>2 DEF Ts!Inv, Ts!TypeOK
    <3>2. CASE v > v6
      BY <2>2, <3>2 DEF Ts!Inv, Ts!TypeOK
    <3> QED
      BY <3>1, <3>2 DEF Ts!Inv, Ts!TypeOK
  <2>8. Ts!EndedAreEmpty'
    BY <1>2, <2>3 DEF Ts!Destroy, Ts!Inv, Ts!TypeOK, Ts!EndedAreEmpty
  <2> QED
    BY <2>4, <2>5, <2>6, <2>7, <2>8 DEF Ts!Inv
<1>3. ASSUME NEW t \in Threads, NEW s \in Storages, Ts!SetLocalData(t, s) PROVE Ts!Inv'
  <2> DEFINE i == v1[s]
             n == v6 + 1
  <2>1. i \in Ts!Ids /\ t \notin v5 /\ n \in Ts!Values /\ v6' = n /\ v6 \in Nat
    BY <1>3 DEF Ts!SetLocalData, Ts!Inv, Ts!TypeOK
  <2>2. /\ v7' \in [Ts!Values -> Nat]
        /\ \A v \in Ts!Values :
             /\ v > v6 => v7'[v] = 0
             /\ v <= v6 => v7'[v] = IF Ts!InSlot(v) /\ ~(v8[v][1] = t /\ v8[v][2] \in {i})
                                      THEN 0 ELSE 1
    <3>1. {i} \subseteq Ts!Ids /\ v7' = Ts!Deleting(t, {i})
      BY <1>3, <2>1 DEF Ts!SetLocalData
    <3> QED
      BY <3>1, Deletes
  <2>3. \A u \in Threads, j \in Ts!Ids : v4'[u][j] = IF u = t /\ j = i THEN n ELSE v4[u][j]
    BY <1>3, <2>1 DEF Ts!SetLocalData, Ts!Set, Ts!Inv, Ts!TypeOK
  <2>4. v8'[n] = <<t, i>> /\ \A v \in Ts!Values : v # n => v8'[v] = v8[v]
    BY <1>3, <2>1 DEF Ts!SetLocalData, Ts!Inv, Ts!TypeOK, Ts!KnownById
  <2>5. Ts!TypeOK'
    <3>1. v8' \in [Ts!Values -> (Threads \X Ts!Ids) \cup {<<>>}]
      BY <1>3, <2>1 DEF Ts!SetLocalData, Ts!Inv, Ts!TypeOK, Ts!KnownById
    <3>2. v4' \in [Threads -> [Ts!Ids -> 0..MaxValues]]
      <4>1. v4'[t] \in [Ts!Ids -> 0..MaxValues]
        BY <1>3, <2>1 DEF Ts!SetLocalData, Ts!Set, Ts!Inv, Ts!TypeOK
      <4> QED
        BY <1>3, <4>1 DEF Ts!SetLocalData, Ts!Set, Ts!Inv, Ts!TypeOK
    <3> QED
      <4>1. v6' \in 0..MaxValues /\ v7' \in [Ts!Values -> Nat]
        BY <2>1, <2>2
      <4> QED
        BY <1>3, <3>1, <3>2, <4>1 DEF Ts!SetLocalData, Ts!Inv, Ts!TypeOK
  <2>6. Ts!KnownById'
    BY <1>3 DEF Ts!SetLocalData, Ts!Inv, Ts!KnownById
  <2>7. Ts!InItsSlot'
    <3> SUFFICES ASSUME NEW u \in Threads, NEW j \in Ts!Ids, v4'[u][j] # 0
                 PROVE  v4'[u][j] \in 1..n /\ v8'[v4'[u][j]] = <<u, j>>
      BY <2>1 DEF Ts!InItsSlot
    <3>1. CASE u = t /\ j = i
      BY <2>1, <2>3, <2>4, <3>1
    <3>2. CASE ~(u = t /\ j = i)
      <4>1. v4'[u][j] = v4[u][j] /\ v4[u][j] \in 1..v6 /\ v8[v4[u][j]] = <<u, j>>
        BY <2>3, <3>2 DEF Ts!Inv, Ts!InItsSlot
      <4> QED
        BY <2>1, <2>4, <4>1
    <3> QED
      BY <3>1, <3>2
  <2>8. Ts!Counted'
    <3> SUFFICES ASSUME NEW v \in Ts!Values
                 PROVE  /\ v <= n => /\ v8'[v] \in Threads \X Ts!Ids
                                     /\ v7'[v] = IF Ts!InSlot(v)' THEN 0 ELSE 1
                        /\ v > n => v7'[v] = 0
      BY <2>1 DEF Ts!Counted
    <3>1. CASE v <= v6
      <4>1. v8'[v] = v8[v] /\ v8[v] \in Threads \X Ts!Ids
        BY <2>1, <2>4, <3>1 DEF Ts!Inv, Ts!Counted
      <4>2. Ts!InSlot(v)' <=> Ts!InSlot(v) /\ ~(v8[v][1] = t /\ v8[v][2] = i)
        BY <2>1, <2>3, <3>1, <4>1 DEF Ts!InSlot
      <4> QED
        BY <2>1, <2>2, <3>1, <4>1, <4>2
    <3>2. CASE v = n
      <4>1. v8'[v] = <<t, i>> /\ <<t, i>> \in Threads \X Ts!Ids /\ v > v6
        BY <2>1, <2>4, <3>2
      <4>2. Ts!InSlot(v)'
        BY <2>1, <2>3, <3>2, <4>1 DEF Ts!InSlot
      <4>3. v7'[v] = 0
        BY <2>2, <4>1
      <4> QED
        BY <2>1, <3>2, <4>1, <4>2, <4>3
    <3>3. CASE v > n
      <4>1. v7'[v] = 0
        BY <2>1, <2>2, <3>3
      <4> QED
        BY <2>1, <3>3, <4>1
    <3> QED
      BY <2>1, <3>1, <3>2, <3>3
  <2>9. Ts!EndedAreEmpty'
    <3> SUFFICES ASSUME NEW u \in v5, NEW j \in Ts!Ids PROVE v4'[u][j] = 0
      BY <1>3 DEF Ts!SetLocalData, Ts!EndedAreEmpty
    <3>1. u \in Threads /\ u # t /\ v4[u][j] = 0
      BY <2>1 DEF Ts!Inv, Ts!TypeOK, Ts!EndedAreEmpty
    <3> QED
      BY <2>3, <3>1
  <2> QED
    BY <2>5, <2>6, <2>7, <2>8, <2>9 DEF Ts!Inv
<1>4. ASSUME NEW t \in Threads, Ts!EndThread(t) PROVE Ts!Inv'
  <2>1. /\ v7' \in [Ts!Values -> Nat]
        /\ \A v \in Ts!Values :
             /\ v > v6 => v7'[v] = 0
             /\ v <= v6 => v7'[v] = IF Ts!InSlot(v) /\ ~(v8[v][1] = t /\ v8[v][2] \in Ts!Ids)
                                      THEN 0 ELSE 1
    BY <1>4, Deletes DEF Ts!EndThread
  <2>2. \A u \in Threads, j \in Ts!Ids : v4'[u][j] = IF u = t THEN 0 ELSE v4[u][j]
    BY <1>4 DEF Ts!EndThread, Ts!Inv, Ts!TypeOK
  <2>3. Ts!TypeOK'
    BY <1>4, <2>1 DEF Ts!EndThread, Ts!Inv, Ts!TypeOK
  <2>4. Ts!KnownById'
    BY <1>4 DEF Ts!EndThread, Ts!Inv, Ts!KnownById
  <2>5. Ts!InItsSlot'
    <3> SUFFICES ASSUME NEW u \in Threads, NEW j \in Ts!Ids, v4'[u][j] # 0
                 PROVE  v4'[u][j] \in 1..v6 /\ v8[v4'[u][j]] = <<u, j>>
      BY <1>4 DEF Ts!EndThread, Ts!InItsSlot
    <3>1. v4'[u][j] = v4[u][j]
      BY <2>2
    <3> QED
      BY <3>1 DEF Ts!Inv, Ts!InItsSlot
  <2>6. Ts!Counted'
    <3> SUFFICES ASSUME NEW v \in Ts!Values
                 PROVE  /\ v <= v6 => /\ v8[v] \in Threads \X Ts!Ids
                                      /\ v7'[v] = IF Ts!InSlot(v)' THEN 0 ELSE 1
                        /\ v > v6 => v7'[v] = 0
      BY <1>4 DEF Ts!EndThread, Ts!Counted
    <3>1. CASE v <= v6
      <4>1. v8[v] \in Threads \X Ts!Ids
        BY <3>1 DEF Ts!Inv, Ts!Counted
      <4>2. Ts!InSlot(v)' <=> Ts!InSlot(v) /\ v8[v][1] # t
        BY <1>4, <2>2, <4>1 DEF Ts!EndThread, Ts!InSlot
      <4> QED
        BY <2>1, <3>1, <4>1, <4>2
    <3>2. CASE v > v6
      BY <2>1, <3>2 DEF Ts!Inv, Ts!TypeOK
    <3> QED
      BY <3>1, <3>2 DEF Ts!Inv, Ts!TypeOK
  <2>7. Ts!EndedAreEmpty'
    BY <1>4, <2>2 DEF Ts!EndThread, Ts!Inv, Ts!TypeOK, Ts!EndedAreEmpty
  <2> QED
    BY <2>3, <2>4, <2>5, <2>6, <2>7 DEF Ts!Inv
<1>5. CASE UNCHANGED Ts!storageVars
  BY <1>5 DEF Ts!storageVars, Ts!Inv, Ts!TypeOK, Ts!KnownById, Ts!InItsSlot, Ts!Counted,
     Ts!InSlot, Ts!EndedAreEmpty
<1> QED
  BY <1>1, <1>2, <1>3, <1>4, <1>5 DEF Ts!Next

(* A value is in one slot, or was deleted.                                 *)
LEMMA StorageSafe == Ts!Inv => Ts!StorageIsPerThread
<1> SUFFICES ASSUME Ts!Inv PROVE Ts!StorageIsPerThread
  OBVIOUS
<1> USE HandlesAssumption DEF Ts!Ids, Ts!Values
<1>1. Ts!ValuesAreTheThreadsOwn
  BY DEF Ts!ValuesAreTheThreadsOwn, Ts!LocalData, Ts!Inv, Ts!TypeOK, Ts!KnownById, Ts!InItsSlot
<1>2. ASSUME NEW v \in 1..v6
      PROVE  /\ v7[v] + Ts!Cardinality({c \in Threads \X Ts!Ids : v4[c[1]][c[2]] = v}) = 1
             /\ v8[v][1] \in v5 => v7[v] = 1
  <2> DEFINE cells == {c \in Threads \X Ts!Ids : v4[c[1]][c[2]] = v}
  <2>1. v \in Ts!Values /\ v <= v6 /\ v # 0
    BY DEF Ts!Inv, Ts!TypeOK
  <2>2. v8[v] \in Threads \X Ts!Ids /\ v7[v] = IF Ts!InSlot(v) THEN 0 ELSE 1
    BY <2>1 DEF Ts!Inv, Ts!Counted
  <2>3. ASSUME NEW c \in cells PROVE c = v8[v]
    BY <2>1, <2>3 DEF Ts!Inv, Ts!InItsSlot
  <2>4. CASE Ts!InSlot(v)
    <3>1. cells = {v8[v]}
      BY <2>2, <2>3, <2>4 DEF Ts!InSlot
    <3>2. Ts!Cardinality(cells) = 1
      BY <3>1, Ts!FS_Singleton
    <3>3. v8[v][1] \notin v5
      BY <2>1, <2>2, <2>4 DEF Ts!InSlot, Ts!Inv, Ts!EndedAreEmpty
    <3> QED
      BY <2>2, <2>4, <3>2, <3>3
  <2>5. CASE ~Ts!InSlot(v)
    <3>1. cells = {}
      BY <2>2, <2>3, <2>5 DEF Ts!InSlot
    <3>2. Ts!Cardinality(cells) = 0
      BY <3>1, Ts!FS_EmptySet
    <3> QED
      BY <2>2, <2>5, <3>2
  <2> QED
    BY <2>4, <2>5
<1> QED
  BY <1>1, <1>2 DEF Ts!StorageIsPerThread, Ts!DeletedOnce

-----------------------------------------------------------------------------
(* The application's teardown, for any threads and drivers.                *)

Ap == INSTANCE Application WITH
    loopState <- v1, m_stop <- v2, owed <- v3, m_runLoopDriverOwner <- v4,
    life <- v5, teardown <- v6, poolTasks <- v7, workerTasks <- v8,
    used <- v9, started <- v10

\* None is none of the lists of what to take down.
ASSUME TeardownAssumption == None \notin Ap!ToTakeDown

(* The Application has everything when it is made.                         *)
LEMMA ApplicationInit == Ap!Init => Ap!Inv
  BY DEF Ap!Init, Ap!Inv, Ap!TypeOK, Ap!Up, Ap!Parts, Ap!TasksHaveTheirPool, Ap!TeardownAndQuitOrdered

(* What there is at each stage of the destructor.                          *)
LEMMA PartsLeft ==
  ASSUME Ap!TypeOK
  PROVE  /\ Ap!Up => v5 = Ap!Parts
         /\ "taskPool" \in v5 => v5 = Ap!Parts
         /\ "threadPool" \in v5 => {"threadPool", "logger", "loops"} \subseteq v5
<1>1. CASE Ap!Up
  BY <1>1 DEF Ap!TypeOK, Ap!Parts
<1>2. CASE ~Ap!Up
  <2>0. v6 \in Ap!ToTakeDown /\ v5 = {v6[i] : i \in DOMAIN v6}
    BY <1>2 DEF Ap!TypeOK, Ap!Up
  <2>1. CASE v6 = <<"taskPool", "threadPool", "logger", "loops">>
    <3>1. v5 = Ap!Parts
      BY <2>0, <2>1 DEF Ap!Parts
    <3> QED
      BY <3>1 DEF Ap!Parts
  <2>2. CASE v6 = <<"threadPool", "logger", "loops">>
    <3>1. v5 = {"threadPool", "logger", "loops"}
      BY <2>0, <2>2
    <3> QED
      BY <1>2, <3>1
  <2>3. CASE v6 \in {<<"logger", "loops">>, <<"loops">>, <<>>}
    <3>1. v5 \subseteq {"logger", "loops"}
      BY <2>0, <2>3
    <3> QED
      BY <1>2, <3>1
  <2> QED
    BY <2>0, <2>1, <2>2, <2>3 DEF Ap!ToTakeDown
<1> QED
  BY <1>1, <1>2

(* The destructor takes down the first of what is left.                    *)
LEMMA TakeDownLeaves ==
  ASSUME Ap!TypeOK, Ap!TakeDown
  PROVE  /\ v6 \in Ap!ToTakeDown /\ v6' \in Ap!ToTakeDown
         /\ v5' = {v6'[i] : i \in DOMAIN v6'}
         /\ v5' = v5 \ {Head(v6)}
<1>0. v6 \in Ap!ToTakeDown /\ v6 # <<>> /\ v6' = Tail(v6) /\ v5' = v5 \ {Head(v6)}
      /\ v5 = {v6[i] : i \in DOMAIN v6}
  BY DEF Ap!TakeDown, Ap!TypeOK, Ap!Up
<1>1. CASE v6 = <<"taskPool", "threadPool", "logger", "loops">>
  <2>1. v6' = <<"threadPool", "logger", "loops">> /\ Head(v6) = "taskPool"
    BY <1>0, <1>1
  <2>2. v5 = {"taskPool", "threadPool", "logger", "loops"}
    BY <1>0, <1>1
  <2>3. {v6'[i] : i \in DOMAIN v6'} = {"threadPool", "logger", "loops"}
    BY <2>1
  <2> QED
    BY <1>0, <2>1, <2>2, <2>3 DEF Ap!ToTakeDown
<1>2. CASE v6 = <<"threadPool", "logger", "loops">>
  <2>1. v6' = <<"logger", "loops">> /\ Head(v6) = "threadPool"
    BY <1>0, <1>2
  <2>2. v5 = {"threadPool", "logger", "loops"}
    BY <1>0, <1>2
  <2>3. {v6'[i] : i \in DOMAIN v6'} = {"logger", "loops"}
    BY <2>1
  <2> QED
    BY <1>0, <2>1, <2>2, <2>3 DEF Ap!ToTakeDown
<1>3. CASE v6 = <<"logger", "loops">>
  <2>1. v6' = <<"loops">> /\ Head(v6) = "logger"
    BY <1>0, <1>3
  <2>2. v5 = {"logger", "loops"}
    BY <1>0, <1>3
  <2>3. {v6'[i] : i \in DOMAIN v6'} = {"loops"}
    BY <2>1
  <2> QED
    BY <1>0, <2>1, <2>2, <2>3 DEF Ap!ToTakeDown
<1>4. CASE v6 = <<"loops">>
  <2>1. v6' = <<>> /\ Head(v6) = "loops"
    BY <1>0, <1>4
  <2>2. v5 = {"loops"}
    BY <1>0, <1>4
  <2>3. {v6'[i] : i \in DOMAIN v6'} = {}
    BY <2>1
  <2> QED
    BY <1>0, <2>1, <2>2, <2>3 DEF Ap!ToTakeDown
<1> QED
  BY <1>0, <1>1, <1>2, <1>3, <1>4 DEF Ap!ToTakeDown

(* Tasks run while their pool stands, and the destructor waits for them;   *)
(* stop requests are only consumed by the loop that leaves run().          *)
LEMMA ApplicationNext == Ap!Inv /\ [Ap!Next]_Ap!vars => Ap!Inv'
<1> SUFFICES ASSUME Ap!Inv, [Ap!Next]_Ap!vars PROVE Ap!Inv'
  OBVIOUS
<1> USE DEF Ap!loopVars, Ap!partVars, Ap!vars
<1>0. Ap!TypeOK /\ Ap!TasksHaveTheirPool /\ v9 \subseteq v5 /\ v3 \subseteq v2
  BY DEF Ap!Inv, Ap!TeardownAndQuitOrdered
(* Loops and quit() have nothing to do with the parts.                     *)
<1>1. ASSUME UNCHANGED Ap!partVars, v3' \subseteq v2' PROVE Ap!Inv'
  BY <1>0, <1>1 DEF Ap!Inv, Ap!TypeOK, Ap!Up, Ap!TasksHaveTheirPool, Ap!TeardownAndQuitOrdered
<1>2. ASSUME NEW t \in Threads, Ap!GetOrCreateEventLoop(t) \/ Ap!Run(t) \/ Ap!LeaveRun(t)
      PROVE  Ap!Inv'
  <2>1. UNCHANGED Ap!partVars /\ v3' \subseteq v2'
    BY <1>0, <1>2 DEF Ap!GetOrCreateEventLoop, Ap!Run, Ap!EnterRun, Ap!LeaveRun
  <2> QED
    BY <1>1, <2>1
<1>3. ASSUME Ap!DriverReturns \/ Ap!Quit PROVE Ap!Inv'
  <2>1. UNCHANGED Ap!partVars /\ v3' \subseteq v2'
    BY <1>0, <1>3 DEF Ap!DriverReturns, Ap!Quit
  <2> QED
    BY <1>1, <2>1
<1>4. ASSUME NEW o \in DriverOwners, Ap!SetRunLoopDriver(o) \/ Ap!ClearRunLoopDriver(o)
      PROVE  Ap!Inv'
  <2>1. UNCHANGED Ap!partVars /\ v3' \subseteq v2'
    BY <1>0, <1>4 DEF Ap!SetRunLoopDriver, Ap!ClearRunLoopDriver
  <2> QED
    BY <1>1, <2>1
<1>5. ASSUME NEW pool \in {"taskPool", "threadPool"}, Ap!GiveTask(pool) PROVE Ap!Inv'
  <2>1. UNCHANGED <<v5, v6, v9, v2, v3>> /\ v7' \in Nat /\ v8' \in Nat /\ v5 = Ap!Parts
    BY <1>0, <1>5, PartsLeft DEF Ap!GiveTask, Ap!TypeOK
  <2> QED
    BY <1>0, <2>1 DEF Ap!Inv, Ap!TypeOK, Ap!Up, Ap!Parts, Ap!TasksHaveTheirPool, Ap!TeardownAndQuitOrdered
<1>6. ASSUME Ap!PoolTaskRuns PROVE Ap!Inv'
  <2>1. UNCHANGED <<v5, v6, v2, v3>> /\ v7' \in Nat /\ v8' \in Nat
    BY <1>0, <1>6 DEF Ap!PoolTaskRuns, Ap!TypeOK
  <2>2. v5 = Ap!Parts /\ v9' \subseteq Ap!Parts
    BY <1>0, <1>6, PartsLeft DEF Ap!PoolTaskRuns, Ap!TasksHaveTheirPool, Ap!Parts
  <2> QED
    BY <1>0, <2>1, <2>2 DEF Ap!Inv, Ap!TypeOK, Ap!Up, Ap!Parts, Ap!TasksHaveTheirPool, Ap!TeardownAndQuitOrdered
<1>7. ASSUME Ap!WorkerTaskRuns PROVE Ap!Inv'
  <2>1. UNCHANGED <<v5, v6, v7, v2, v3>> /\ v8' \in Nat
    BY <1>0, <1>7 DEF Ap!WorkerTaskRuns, Ap!TypeOK
  <2>2. "threadPool" \in v5 /\ v9' \subseteq v5
    BY <1>0, <1>7, PartsLeft DEF Ap!WorkerTaskRuns, Ap!TasksHaveTheirPool
  <2> QED
    BY <1>0, <2>1, <2>2 DEF Ap!Inv, Ap!TypeOK, Ap!Up, Ap!TasksHaveTheirPool, Ap!TeardownAndQuitOrdered
<1>8. ASSUME Ap!Destroy PROVE Ap!Inv'
  <2>1. UNCHANGED <<v5, v7, v8, v9, v2, v3>> /\ v5 = Ap!Parts
        /\ v6' = <<"taskPool", "threadPool", "logger", "loops">>
    BY <1>0, <1>8, PartsLeft DEF Ap!Destroy, Ap!DestructionOrder
  <2>2. v6' \in Ap!ToTakeDown /\ v5 = {v6'[i] : i \in DOMAIN v6'}
    BY <2>1 DEF Ap!ToTakeDown, Ap!Parts
  <2> QED
    BY <1>0, <2>1, <2>2, TeardownAssumption
    DEF Ap!Inv, Ap!TypeOK, Ap!Up, Ap!TasksHaveTheirPool, Ap!TeardownAndQuitOrdered
<1>9. ASSUME Ap!TakeDown PROVE Ap!Inv'
  <2>1. /\ v6' \in Ap!ToTakeDown /\ v5' = {v6'[i] : i \in DOMAIN v6'} /\ v5' = v5 \ {Head(v6)}
    BY <1>0, <1>9, TakeDownLeaves
  <2>2. UNCHANGED <<v7, v2, v3>> /\ v9' = {} /\ (Head(v6) = "taskPool" => v7 = 0)
        /\ v8' = IF Head(v6) = "threadPool" THEN 0 ELSE v8
    BY <1>9 DEF Ap!TakeDown
  <2>3. Ap!TypeOK'
    BY <1>0, <2>1, <2>2, TeardownAssumption DEF Ap!TypeOK, Ap!Up
  <2>4. Ap!TasksHaveTheirPool'
    BY <1>0, <2>1, <2>2 DEF Ap!TasksHaveTheirPool, Ap!TypeOK
  <2> QED
    BY <1>0, <2>2, <2>3, <2>4 DEF Ap!Inv, Ap!TeardownAndQuitOrdered
<1>10. CASE UNCHANGED Ap!vars
  BY <1>0, <1>1, <1>10
<1> QED
  BY <1>2, <1>3, <1>4, <1>5, <1>6, <1>7, <1>8, <1>9, <1>10 DEF Ap!Next

-----------------------------------------------------------------------------
(* A process, for any number of children. Its members are in v1, what the  *)
(* system knows of its children in v2, the output pipes in v3, the posted  *)
(* closures in v4, the stage of handleChildExit() and its child in v5 and  *)
(* v6, the owner in v7, the output read in v8, the children reported in v9 *)
(* and the waits in v10.                                                   *)
Pr == INSTANCE Process WITH
    OverlappingStarts <- FALSE, MoveWithCalls <- FALSE, MaxOutput <- 1,
    MaxQueue <- 1, MaxCalls <- 1,
    p <- v1, kid <- v2, pipe <- v3, calls <- v4, stage <- v5, dying <- v6,
    home <- v7, heard <- v8, finished <- v9, wait <- v10

(* A record of members, and what is left when one of them is set.          *)
Row(m) ==
  [state |-> m.state, pid |-> m.pid, fd |-> m.fd, watched |-> m.watched, io |-> m.io,
   wantOut |-> m.wantOut, queue |-> m.queue, polling |-> m.polling, merged |-> m.merged]

LEMMA SetState ==
  ASSUME NEW m, m = Row(m), NEW x
  PROVE  LET n == [m EXCEPT !.state = x] IN
         /\ n = Row(n) /\ n.state = x
         /\ n.pid = m.pid /\ n.fd = m.fd /\ n.watched = m.watched /\ n.io = m.io
         /\ n.wantOut = m.wantOut /\ n.queue = m.queue /\ n.polling = m.polling
              /\ n.merged = m.merged
  BY DEF Row

LEMMA SetPid ==
  ASSUME NEW m, m = Row(m), NEW x
  PROVE  LET n == [m EXCEPT !.pid = x] IN
         /\ n = Row(n) /\ n.pid = x
         /\ n.state = m.state /\ n.fd = m.fd /\ n.watched = m.watched /\ n.io = m.io
         /\ n.wantOut = m.wantOut /\ n.queue = m.queue /\ n.polling = m.polling
              /\ n.merged = m.merged
  BY DEF Row

LEMMA SetFd ==
  ASSUME NEW m, m = Row(m), NEW x
  PROVE  LET n == [m EXCEPT !.fd = x] IN
         /\ n = Row(n) /\ n.fd = x
         /\ n.state = m.state /\ n.pid = m.pid /\ n.watched = m.watched /\ n.io = m.io
         /\ n.wantOut = m.wantOut /\ n.queue = m.queue /\ n.polling = m.polling
              /\ n.merged = m.merged
  BY DEF Row

LEMMA SetWatched ==
  ASSUME NEW m, m = Row(m), NEW x
  PROVE  LET n == [m EXCEPT !.watched = x] IN
         /\ n = Row(n) /\ n.watched = x
         /\ n.state = m.state /\ n.pid = m.pid /\ n.fd = m.fd /\ n.io = m.io
         /\ n.wantOut = m.wantOut /\ n.queue = m.queue /\ n.polling = m.polling
              /\ n.merged = m.merged
  BY DEF Row

LEMMA SetIo ==
  ASSUME NEW m, m = Row(m), NEW x
  PROVE  LET n == [m EXCEPT !.io = x] IN
         /\ n = Row(n) /\ n.io = x
         /\ n.state = m.state /\ n.pid = m.pid /\ n.fd = m.fd /\ n.watched = m.watched
         /\ n.wantOut = m.wantOut /\ n.queue = m.queue /\ n.polling = m.polling
              /\ n.merged = m.merged
  BY DEF Row

LEMMA SetWantOut ==
  ASSUME NEW m, m = Row(m), NEW x
  PROVE  LET n == [m EXCEPT !.wantOut = x] IN
         /\ n = Row(n) /\ n.wantOut = x
         /\ n.state = m.state /\ n.pid = m.pid /\ n.fd = m.fd /\ n.watched = m.watched
         /\ n.io = m.io /\ n.queue = m.queue /\ n.polling = m.polling /\ n.merged = m.merged
  BY DEF Row

LEMMA SetQueue ==
  ASSUME NEW m, m = Row(m), NEW x
  PROVE  LET n == [m EXCEPT !.queue = x] IN
         /\ n = Row(n) /\ n.queue = x
         /\ n.state = m.state /\ n.pid = m.pid /\ n.fd = m.fd /\ n.watched = m.watched
         /\ n.io = m.io /\ n.wantOut = m.wantOut /\ n.polling = m.polling /\ n.merged = m.merged
  BY DEF Row

LEMMA SetPolling ==
  ASSUME NEW m, m = Row(m), NEW x
  PROVE  LET n == [m EXCEPT !.polling = x] IN
         /\ n = Row(n) /\ n.polling = x
         /\ n.state = m.state /\ n.pid = m.pid /\ n.fd = m.fd /\ n.watched = m.watched
         /\ n.io = m.io /\ n.wantOut = m.wantOut /\ n.queue = m.queue /\ n.merged = m.merged
  BY DEF Row

(* The members that the pipes do not depend on.                            *)
SameChild(m, n) == n.state = m.state /\ n.pid = m.pid /\ n.polling = m.polling

LEMMA MembersAreRows == \A m \in Pr!Members : m = Row(m)
  BY DEF Pr!Members, Row

LEMMA FieldsMakeMembers ==
  ASSUME NEW n, n = Row(n), n.state \in {"NotRunning", "Running"}, n.pid \in 0 .. MaxChildren,
         n.fd \in [Pr!Channels -> 0 .. MaxChildren], n.watched \subseteq Pr!Channels,
         n.io \subseteq Pr!Channels \X (0 .. MaxChildren), n.wantOut \in BOOLEAN,
         n.queue \in Nat,
         n.polling \in BOOLEAN, n.merged \in BOOLEAN
  PROVE  n \in Pr!Members
  BY DEF Pr!Members, Row

LEMMA MemberFields ==
  ASSUME NEW n \in Pr!Members
  PROVE  /\ n.state \in {"NotRunning", "Running"} /\ n.pid \in 0 .. MaxChildren
         /\ n.fd \in [Pr!Channels -> 0 .. MaxChildren] /\ n.watched \subseteq Pr!Channels
         /\ n.io \subseteq Pr!Channels \X (0 .. MaxChildren) /\ n.wantOut \in BOOLEAN
              /\ n.queue \in Nat
         /\ n.polling \in BOOLEAN /\ n.merged \in BOOLEAN
  BY DEF Pr!Members

LEMMA ReadSets ==
  ASSUME NEW m \in Pr!Members, NEW c \in Pr!Outputs
  PROVE  LET n == Pr!ClosePipeRead(m, c) IN
         /\ n \in Pr!Members /\ SameChild(m, n) /\ n.queue = m.queue /\ n.wantOut = m.wantOut
         /\ n.io = m.io \ {<<c, m.fd[c]>>} /\ n.watched = m.watched \ {c}
         /\ \A d \in Pr!Channels : n.fd[d] = IF d = c THEN Pr!Closed ELSE m.fd[d]
<1> DEFINE a == [m EXCEPT !.io = m.io \ {<<c, m.fd[c]>>}]
           b == [a EXCEPT !.watched = a.watched \ {c}]
           n == [b EXCEPT !.fd = [b.fd EXCEPT ![c] = Pr!Closed]]
<1>1. n = Pr!ClosePipeRead(m, c)
  BY DEF Pr!ClosePipeRead
<1> HIDE DEF a, b, n
<1>2. /\ n = Row(n) /\ SameChild(m, n) /\ n.queue = m.queue /\ n.wantOut = m.wantOut
      /\ n.merged = m.merged
      /\ n.fd = [m.fd EXCEPT ![c] = Pr!Closed]
      /\ n.io = m.io \ {<<c, m.fd[c]>>} /\ n.watched = m.watched \ {c}
  <2>1. a = Row(a) /\ SameChild(m, a) /\ a.queue = m.queue /\ a.wantOut = m.wantOut
        /\ a.fd = m.fd
        /\ a.io = m.io \ {<<c, m.fd[c]>>} /\ a.watched = m.watched /\ a.merged = m.merged
    BY MembersAreRows, SetIo DEF a, SameChild
  <2>2. b = Row(b) /\ SameChild(m, b) /\ b.queue = m.queue /\ b.wantOut = m.wantOut
        /\ b.fd = m.fd
        /\ b.io = m.io \ {<<c, m.fd[c]>>} /\ b.watched = m.watched \ {c} /\ b.merged = m.merged
    BY <2>1, SetWatched DEF b, SameChild
  <2> QED
    BY <2>2, SetFd DEF n, SameChild
<1>3. c \in Pr!Channels /\ Pr!Closed \in 0 .. MaxChildren
  BY ProcessAssumption DEF Pr!Channels, Pr!Outputs, Pr!Closed
<1>4. n \in Pr!Members
  BY <1>2, <1>3, MemberFields, FieldsMakeMembers DEF SameChild
<1>5. \A d \in Pr!Channels : n.fd[d] = IF d = c THEN Pr!Closed ELSE m.fd[d]
  BY <1>2, <1>3, MemberFields
<1> QED
  BY <1>1, <1>2, <1>4, <1>5

LEMMA WriteSets ==
  ASSUME NEW m \in Pr!Members
  PROVE  LET n == Pr!ClosePipeWrite(m) IN
         /\ n \in Pr!Members /\ SameChild(m, n) /\ n.queue = 0
         /\ n.io = m.io \ {<<"in", m.fd["in"]>>} /\ n.watched = m.watched \ {"in"}
         /\ \A d \in Pr!Channels : n.fd[d] = IF d = "in" THEN Pr!Closed ELSE m.fd[d]
<1> DEFINE a == [m EXCEPT !.io = m.io \ {<<"in", m.fd["in"]>>}]
           b == [a EXCEPT !.watched = a.watched \ {"in"}]
           e == [b EXCEPT !.queue = 0]
           n == [e EXCEPT !.fd = [e.fd EXCEPT !["in"] = Pr!Closed]]
<1>1. n = Pr!ClosePipeWrite(m)
  BY DEF Pr!ClosePipeWrite
<1> HIDE DEF a, b, e, n
<1>2. /\ n = Row(n) /\ SameChild(m, n) /\ n.queue = 0 /\ n.wantOut = m.wantOut
      /\ n.merged = m.merged
      /\ n.fd = [m.fd EXCEPT !["in"] = Pr!Closed]
      /\ n.io = m.io \ {<<"in", m.fd["in"]>>} /\ n.watched = m.watched \ {"in"}
  <2>1. a = Row(a) /\ SameChild(m, a) /\ a.wantOut = m.wantOut /\ a.fd = m.fd
        /\ a.io = m.io \ {<<"in", m.fd["in"]>>} /\ a.watched = m.watched /\ a.merged = m.merged
    BY MembersAreRows, SetIo DEF a, SameChild
  <2>2. b = Row(b) /\ SameChild(m, b) /\ b.wantOut = m.wantOut /\ b.fd = m.fd
        /\ b.io = m.io \ {<<"in", m.fd["in"]>>} /\ b.watched = m.watched \ {"in"}
             /\ b.merged = m.merged
    BY <2>1, SetWatched DEF b, SameChild
  <2>3. e = Row(e) /\ SameChild(m, e) /\ e.wantOut = m.wantOut /\ e.fd = m.fd /\ e.queue = 0
        /\ e.io = m.io \ {<<"in", m.fd["in"]>>} /\ e.watched = m.watched \ {"in"}
             /\ e.merged = m.merged
    BY <2>2, SetQueue DEF e, SameChild
  <2> QED
    BY <2>3, SetFd DEF n, SameChild
<1>3. "in" \in Pr!Channels /\ Pr!Closed \in 0 .. MaxChildren
  BY ProcessAssumption DEF Pr!Channels, Pr!Outputs, Pr!Closed
<1>4. n \in Pr!Members
  BY <1>2, <1>3, MemberFields, FieldsMakeMembers DEF SameChild
<1>5. \A d \in Pr!Channels : n.fd[d] = IF d = "in" THEN Pr!Closed ELSE m.fd[d]
  BY <1>2, <1>3, MemberFields
<1> QED
  BY <1>1, <1>2, <1>4, <1>5

(* Of watched pipes one is closed: the others are watched still.           *)
LEMMA ReadCloses ==
  ASSUME NEW m \in Pr!Members, NEW c \in Pr!Outputs, Pr!Watched(m)
  PROVE  Pr!Watched(Pr!ClosePipeRead(m, c))
<1> DEFINE n == Pr!ClosePipeRead(m, c)
<1>1. /\ SameChild(m, n) /\ n.queue = m.queue
      /\ n.io = m.io \ {<<c, m.fd[c]>>} /\ n.watched = m.watched \ {c}
      /\ \A d \in Pr!Channels : n.fd[d] = IF d = c THEN Pr!Closed ELSE m.fd[d]
  BY ReadSets
<1> HIDE DEF n
<1>2. c \in Pr!Channels /\ c # "in"
  BY DEF Pr!Channels, Pr!Outputs
<1>3. Pr!Open(n) = Pr!Open(m) \ {c}
  BY <1>1, <1>2 DEF Pr!Open
<1>4. n.io = {<<d, n.fd[d]>> : d \in Pr!Open(n)}
  BY <1>1, <1>2, <1>3 DEF Pr!Watched, Pr!Open
<1>5. n.watched = Pr!Open(n)
  BY <1>1, <1>3 DEF Pr!Watched
<1>6. \A d \in Pr!Open(n) : n.fd[d] = n.pid
  BY <1>1, <1>3 DEF Pr!Watched, Pr!Open, SameChild
<1>7. n.queue > 0 => "in" \in Pr!Open(n)
  BY <1>1, <1>2, <1>3 DEF Pr!Watched
<1> QED
  BY <1>4, <1>5, <1>6, <1>7 DEF Pr!Watched, n

LEMMA WriteCloses ==
  ASSUME NEW m \in Pr!Members, Pr!Watched(m)
  PROVE  Pr!Wired(Pr!ClosePipeWrite(m))
<1> DEFINE n == Pr!ClosePipeWrite(m)
<1>1. /\ SameChild(m, n) /\ n.queue = 0
      /\ n.io = m.io \ {<<"in", m.fd["in"]>>} /\ n.watched = m.watched \ {"in"}
      /\ \A d \in Pr!Channels : n.fd[d] = IF d = "in" THEN Pr!Closed ELSE m.fd[d]
  BY WriteSets
<1> HIDE DEF n
<1>2. "in" \in Pr!Channels
  BY DEF Pr!Channels
<1>3. Pr!Open(n) = Pr!Open(m) \ {"in"}
  BY <1>1, <1>2 DEF Pr!Open
<1>4. n.io = {<<d, n.fd[d]>> : d \in Pr!Open(n)}
  BY <1>1, <1>2, <1>3 DEF Pr!Watched, Pr!Open
<1>5. n.watched = Pr!Open(n)
  BY <1>1, <1>3 DEF Pr!Watched
<1>6. \A d \in Pr!Open(n) : n.fd[d] = n.pid
  BY <1>1, <1>3 DEF Pr!Watched, Pr!Open, SameChild
<1> QED
  BY <1>1, <1>4, <1>5, <1>6 DEF Pr!Watched, Pr!Wired, n

LEMMA Refreshes ==
  ASSUME NEW m \in Pr!Members, Pr!Watched(m)
  PROVE  LET n == Pr!RefreshStdinWatch(m) IN
         n \in Pr!Members /\ Pr!Wired(n) /\ SameChild(m, n) /\ n.fd = m.fd
<1>0. "in" \in Pr!Channels
  BY DEF Pr!Channels, Pr!Outputs
<1>1. CASE m.fd["in"] = Pr!Closed
  <2> DEFINE n == [m EXCEPT !.watched = m.watched \ {"in"}]
  <2>1. n = Row(n) /\ SameChild(m, n) /\ n.wantOut = m.wantOut /\ n.fd = m.fd
        /\ n.queue = m.queue
        /\ n.io = m.io /\ n.watched = m.watched \ {"in"} /\ n.merged = m.merged
    BY MembersAreRows, SetWatched DEF SameChild
  <2> HIDE DEF n
  <2>2. "in" \notin m.watched /\ Pr!Open(n) = Pr!Open(m)
    BY <1>1, <2>1 DEF Pr!Watched, Pr!Open
  <2>3. n.watched = m.watched
    BY <2>1, <2>2
  <2>4. n \in Pr!Members
    BY <2>1, <2>3, MemberFields, FieldsMakeMembers DEF SameChild
  <2>5. Pr!Wired(n)
    BY <1>1, <2>1, <2>2, <2>3 DEF Pr!Wired, Pr!Watched, Pr!Open, SameChild
  <2> QED
    BY <1>1, <2>1, <2>4, <2>5 DEF Pr!RefreshStdinWatch, n
<1>2. CASE m.fd["in"] # Pr!Closed
  <2> DEFINE a == [m EXCEPT !.watched = m.watched \union {"in"}]
             b == [a EXCEPT !.io = a.io \union {<<"in", a.fd["in"]>>}]
             n == [b EXCEPT !.wantOut = m.queue > 0]
  <2> HIDE DEF a, b, n
  <2>1. n = Row(n) /\ SameChild(m, n) /\ n.wantOut = (m.queue > 0) /\ n.fd = m.fd
        /\ n.queue = m.queue
        /\ n.io = m.io \union {<<"in", m.fd["in"]>>} /\ n.watched = m.watched \union {"in"}
        /\ n.merged = m.merged
    <3>1. a = Row(a) /\ SameChild(m, a) /\ a.fd = m.fd /\ a.queue = m.queue
          /\ a.io = m.io /\ a.watched = m.watched \union {"in"} /\ a.merged = m.merged
      BY MembersAreRows, SetWatched DEF a, SameChild
    <3>2. b = Row(b) /\ SameChild(m, b) /\ b.fd = m.fd /\ b.queue = m.queue
          /\ b.io = m.io \union {<<"in", m.fd["in"]>>} /\ b.watched = m.watched \union {"in"}
          /\ b.merged = m.merged
      BY <3>1, SetIo DEF b, SameChild
    <3> QED
      BY <3>2, SetWantOut DEF n, SameChild
  <2>2. Pr!RefreshStdinWatch(m) = n
    <3>1. a.fd = m.fd /\ a.io = m.io /\ b.fd = m.fd
      BY MembersAreRows, SetWatched, SetIo DEF a, b
    <3> QED
      BY <1>2, <3>1 DEF Pr!RefreshStdinWatch, a, b, n
  <2>3. "in" \in Pr!Open(m)
    BY <1>0, <1>2 DEF Pr!Open
  <2>4. n.watched = m.watched /\ n.io = m.io
    BY <2>1, <2>3 DEF Pr!Watched
  <2>5. n \in Pr!Members
    <3>1. n.wantOut \in BOOLEAN
      BY <2>1
    <3> QED
      BY <2>1, <2>4, <3>1, MemberFields, FieldsMakeMembers DEF SameChild
  <2>6. Pr!Open(n) = Pr!Open(m)
    BY <2>1 DEF Pr!Open
  <2>7. Pr!Wired(n)
    <3>1. Pr!Watched(n)
      BY <2>1, <2>3, <2>4, <2>6 DEF Pr!Watched, SameChild
    <3>2. n.queue > 0 => n.wantOut
      BY <2>1
    <3> QED
      BY <3>1, <3>2 DEF Pr!Wired
  <2> QED
    BY <2>1, <2>2, <2>5, <2>7
<1> QED
  BY <1>1, <1>2

(* The queue may change while stdin is open.                               *)
LEMMA QueueChanges ==
  ASSUME NEW m \in Pr!Members, Pr!Watched(m), m.fd["in"] # Pr!Closed, NEW q \in Nat
  PROVE  LET n == [m EXCEPT !.queue = q] IN
         n \in Pr!Members /\ Pr!Watched(n) /\ SameChild(m, n) /\ n.fd = m.fd /\ n.queue = q
<1> DEFINE n == [m EXCEPT !.queue = q]
<1>1. n = Row(n) /\ SameChild(m, n) /\ n.wantOut = m.wantOut /\ n.fd = m.fd /\ n.queue = q
        /\ n.io = m.io /\ n.watched = m.watched /\ n.merged = m.merged
  BY MembersAreRows, SetQueue DEF SameChild
<1> HIDE DEF n
<1>2. n \in Pr!Members
  BY <1>1, MemberFields, FieldsMakeMembers DEF SameChild
<1>3. Pr!Open(n) = Pr!Open(m) /\ "in" \in Pr!Open(m)
  BY <1>1 DEF Pr!Open, Pr!Channels
<1>4. Pr!Watched(n)
  BY <1>1, <1>3 DEF Pr!Watched, SameChild
<1> QED
  BY <1>1, <1>2, <1>4 DEF n

LEMMA Flushes ==
  ASSUME NEW m \in Pr!Members, Pr!Watched(m), NEW n \in Pr!Flushed(m)
  PROVE  /\ n \in Pr!Members /\ Pr!Watched(n) /\ SameChild(m, n)
         /\ \A d \in Pr!Outputs : n.fd[d] = m.fd[d]
         /\ n.fd["in"] \in {m.fd["in"], Pr!Closed}
<1>1. CASE n = m
  BY <1>1 DEF SameChild
<1>2. CASE n = Pr!ClosePipeWrite(m)
  BY <1>2, WriteSets, WriteCloses DEF Pr!Outputs, Pr!Channels, Pr!Wired
<1>3. CASE m.fd["in"] # Pr!Closed /\ \E q \in 0 .. m.queue : n = [m EXCEPT !.queue = q]
  <2>1. PICK q \in 0 .. m.queue : n = [m EXCEPT !.queue = q]
    BY <1>3
  <2>2. q \in Nat
    BY MemberFields
  <2> QED
    BY <1>3, <2>1, <2>2, QueueChanges
<1> QED
  BY <1>1, <1>2, <1>3 DEF Pr!Flushed

(* Nothing is watched any more, and everything is closed.                 *)
LEMMA CleansUp ==
  ASSUME NEW m \in Pr!Members, m.io = {}, m.watched = {}
  PROVE  LET n == Pr!CleanupProcessResources(m) IN
         /\ n \in Pr!Members /\ Pr!Wired(n) /\ n.pid = m.pid
         /\ \A d \in Pr!Channels : n.fd[d] = Pr!Closed
<1> DEFINE a == Pr!ClosePipeWrite(m)
           b == Pr!ClosePipeRead(a, "out")
           n == Pr!ClosePipeRead(b, "err")
<1> HIDE DEF a, b, n
<1>0. Pr!Channels = {"out", "err", "in"} /\ "out" \in Pr!Outputs /\ "err" \in Pr!Outputs
  BY DEF Pr!Channels, Pr!Outputs
<1>1. /\ a \in Pr!Members /\ a.io = {} /\ a.watched = {} /\ SameChild(m, a) /\ a.queue = 0
      /\ a.fd["in"] = Pr!Closed
  BY <1>0, WriteSets DEF a
<1>2. /\ b \in Pr!Members /\ b.io = {} /\ b.watched = {} /\ SameChild(a, b) /\ b.queue = 0
      /\ b.fd["in"] = Pr!Closed /\ b.fd["out"] = Pr!Closed
  BY <1>0, <1>1, ReadSets DEF b
<1>3. /\ n \in Pr!Members /\ n.io = {} /\ n.watched = {} /\ SameChild(b, n) /\ n.queue = 0
      /\ n.fd["in"] = Pr!Closed /\ n.fd["out"] = Pr!Closed /\ n.fd["err"] = Pr!Closed
  BY <1>0, <1>2, ReadSets DEF n
<1>4. n = Pr!CleanupProcessResources(m)
  BY DEF a, b, n, Pr!CleanupProcessResources
<1>5. Pr!Open(n) = {}
  BY <1>0, <1>3 DEF Pr!Open
<1>6. Pr!Wired(n)
  BY <1>3, <1>5 DEF Pr!Wired, Pr!Watched
<1> QED
  BY <1>0, <1>1, <1>2, <1>3, <1>4, <1>6 DEF SameChild

(* What is not watched is watched again, or for the first time.            *)
LEMMA Registers ==
  ASSUME NEW m \in Pr!Members, m.watched = {}, m.io = {},
         \A c \in Pr!Open(m) : m.fd[c] = m.pid,
         m.queue > 0 => "in" \in Pr!Open(m)
  PROVE  LET n == Pr!RegisterIOWatches(m) IN
         n \in Pr!Members /\ Pr!Wired(n) /\ SameChild(m, n) /\ n.fd = m.fd
<1> DEFINE new == {c \in Pr!Outputs : m.fd[c] # Pr!Closed}
           fresh == new \ m.watched
           b == [m EXCEPT !.watched = m.watched \union fresh]
           a == [b EXCEPT !.io = b.io \union {<<c, m.fd[c]>> : c \in fresh}]
<1> HIDE DEF a, b
<1>0. "in" \in Pr!Channels /\ "in" \notin Pr!Outputs /\ Pr!Channels = Pr!Outputs \union {"in"}
  BY DEF Pr!Channels, Pr!Outputs
<1>1. a = Row(a) /\ SameChild(m, a) /\ a.wantOut = m.wantOut /\ a.fd = m.fd /\ a.queue = m.queue
      /\ a.io = {<<c, m.fd[c]>> : c \in new} /\ a.watched = new /\ a.merged = m.merged
  <2>1. b = Row(b) /\ SameChild(m, b) /\ b.wantOut = m.wantOut /\ b.fd = m.fd
        /\ b.queue = m.queue
        /\ b.io = {} /\ b.watched = new /\ b.merged = m.merged
    BY MembersAreRows, SetWatched DEF b, SameChild
  <2>2. fresh = new
    OBVIOUS
  <2> QED
    BY <2>1, <2>2, SetIo DEF a, SameChild
<1>2. a = Pr!RegisterOutputs(m)
  <2>1. b.io = m.io
    BY MembersAreRows, SetWatched DEF b
  <2> QED
    BY <2>1 DEF Pr!RegisterOutputs, a, b
<1>3. Pr!Open(a) = Pr!Open(m)
      /\ Pr!Open(m) = new \union (IF m.fd["in"] = Pr!Closed THEN {} ELSE {"in"})
  BY <1>0, <1>1 DEF Pr!Open
<1>4. a \in Pr!Members
  <2>1. a.watched \subseteq Pr!Channels
    BY <1>0, <1>1
  <2>2. a.io \subseteq Pr!Channels \X (0 .. MaxChildren)
    BY <1>0, <1>1, MemberFields
  <2> QED
    BY <1>1, <2>1, <2>2, MemberFields, FieldsMakeMembers DEF SameChild
<1>5. CASE m.fd["in"] = Pr!Closed
  <2>1. Pr!Watched(a)
    BY <1>1, <1>3, <1>5 DEF Pr!Watched, SameChild
  <2> QED
    BY <1>1, <1>2, <1>4, <2>1, Refreshes DEF SameChild, Pr!RegisterIOWatches
<1>6. CASE m.fd["in"] # Pr!Closed
  <2> DEFINE r == [a EXCEPT !.watched = a.watched \union {"in"}]
             s == [r EXCEPT !.io = r.io \union {<<"in", r.fd["in"]>>}]
             n == [s EXCEPT !.wantOut = a.queue > 0]
  <2> HIDE DEF r, s, n
  <2>1. n = Row(n) /\ SameChild(m, n) /\ n.wantOut = (m.queue > 0) /\ n.fd = m.fd
        /\ n.queue = m.queue
        /\ n.io = {<<c, m.fd[c]>> : c \in new} \union {<<"in", m.fd["in"]>>}
        /\ n.watched = new \union {"in"} /\ n.merged = m.merged
    <3>1. r = Row(r) /\ SameChild(m, r) /\ r.fd = m.fd /\ r.queue = m.queue
          /\ r.io = {<<c, m.fd[c]>> : c \in new} /\ r.watched = new \union {"in"}
               /\ r.merged = m.merged
      BY <1>1, SetWatched DEF r, SameChild
    <3>2. s = Row(s) /\ SameChild(m, s) /\ s.fd = m.fd /\ s.queue = m.queue
          /\ s.io = {<<c, m.fd[c]>> : c \in new} \union {<<"in", m.fd["in"]>>}
          /\ s.watched = new \union {"in"} /\ s.merged = m.merged
      BY <3>1, SetIo DEF s, SameChild
    <3> QED
      BY <1>1, <3>2, SetWantOut DEF n, SameChild
  <2>2. n = Pr!RegisterIOWatches(m)
    <3>1. a.fd["in"] # Pr!Closed /\ r.io = a.io /\ r.fd = a.fd
      BY <1>1, <1>6, SetWatched DEF r
    <3> QED
      BY <1>2, <3>1 DEF Pr!RefreshStdinWatch, Pr!RegisterIOWatches, r, s, n
  <2>3. Pr!Open(n) = new \union {"in"} /\ Pr!Open(n) = Pr!Open(m)
    BY <1>3, <1>6, <2>1 DEF Pr!Open
  <2>4. n.io = {<<c, n.fd[c]>> : c \in Pr!Open(n)}
    BY <2>1, <2>3
  <2>5. n.watched = Pr!Open(n) /\ \A c \in Pr!Open(n) : n.fd[c] = n.pid
    BY <2>1, <2>3 DEF SameChild
  <2>6. Pr!Wired(n)
    <3>1. Pr!Watched(n)
      BY <2>1, <2>3, <2>4, <2>5 DEF Pr!Watched
    <3>2. n.queue > 0 => n.wantOut
      BY <2>1
    <3> QED
      BY <3>1, <3>2 DEF Pr!Wired
  <2>7. n \in Pr!Members
    <3>1. n.wantOut \in BOOLEAN
      BY <2>1
    <3>2. n.watched \subseteq Pr!Channels
      BY <1>0, <2>1
    <3>3. n.io \subseteq Pr!Channels \X (0 .. MaxChildren)
      BY <1>0, <2>1, MemberFields
    <3> QED
      BY <2>1, <3>1, <3>2, <3>3, MemberFields, FieldsMakeMembers DEF SameChild
  <2> QED
    BY <2>1, <2>2, <2>6, <2>7
<1> QED
  BY <1>5, <1>6

(* No watch is left.                                                       *)
LEMMA Unregisters ==
  ASSUME NEW m \in Pr!Members, Pr!Watched(m)
  PROVE  LET n == Pr!UnregisterIOWatches(m) IN
         n \in Pr!Members /\ SameChild(m, n) /\ n.fd = m.fd /\ n.queue = m.queue
         /\ n.io = {} /\ n.watched = {}
<1> DEFINE b == [m EXCEPT !.io = m.io \ {<<c, m.fd[c]>> : c \in m.watched}]
           n == [b EXCEPT !.watched = {}]
<1>0. n = Pr!UnregisterIOWatches(m)
  BY DEF Pr!UnregisterIOWatches
<1> HIDE DEF b, n
<1>1. m.io \ {<<c, m.fd[c]>> : c \in m.watched} = {}
  BY DEF Pr!Watched
<1>2. b = Row(b) /\ SameChild(m, b) /\ b.wantOut = m.wantOut /\ b.fd = m.fd /\ b.queue = m.queue
      /\ b.io = {} /\ b.merged = m.merged
  BY <1>1, MembersAreRows, SetIo DEF b, SameChild
<1>3. n = Row(n) /\ SameChild(m, n) /\ n.wantOut = m.wantOut /\ n.fd = m.fd /\ n.queue = m.queue
      /\ n.io = {} /\ n.watched = {} /\ n.merged = m.merged
  BY <1>2, SetWatched DEF n, SameChild
<1>4. n \in Pr!Members
  BY <1>3, MemberFields, FieldsMakeMembers DEF SameChild
<1> QED
  BY <1>0, <1>3, <1>4

-----------------------------------------------------------------------------
(* The closures that are posted.                                           *)
CallQueues == [Pr!Loops -> Seq(Pr!Ops \union {"wait"})]

LEMMA Pops ==
  ASSUME NEW q \in CallQueues, Pr!StartsOnce(q), NEW l \in Pr!Loops, q[l] # <<>>
  PROVE  LET r == [q EXCEPT ![l] = Tail(@)] IN
         /\ r \in CallQueues /\ Pr!StartsOnce(r) /\ Head(q[l]) \in Pr!Ops \union {"wait"}
         /\ Pr!Starting(r) => Pr!Starting(q) /\ Head(q[l]) # "start"
<1> DEFINE r == [q EXCEPT ![l] = Tail(@)]
<1>1. /\ q[l] \in Seq(Pr!Ops \union {"wait"}) /\ Len(q[l]) \in Nat /\ Len(q[l]) >= 1
      /\ DOMAIN q[l] = 1 .. Len(q[l])
  BY DEF CallQueues
<1>2. /\ Tail(q[l]) \in Seq(Pr!Ops \union {"wait"}) /\ DOMAIN Tail(q[l]) = 1 .. Len(q[l]) - 1
      /\ \A i \in 1 .. Len(q[l]) - 1 : Tail(q[l])[i] = q[l][i + 1]
      /\ Head(q[l]) = q[l][1]
  BY <1>1
<1>3. r \in CallQueues /\ r[l] = Tail(q[l]) /\ \A m \in Pr!Loops \ {l} : r[m] = q[m]
  BY <1>2 DEF CallQueues
<1>4. Head(q[l]) \in Pr!Ops \union {"wait"}
  BY <1>1, <1>2
<1> HIDE DEF r
<1>5. \A m \in Pr!Loops : \A i \in DOMAIN r[m] :
        LET k == IF m = l THEN i + 1 ELSE i IN k \in DOMAIN q[m] /\ q[m][k] = r[m][i]
  <2> SUFFICES ASSUME NEW m \in Pr!Loops, NEW i \in DOMAIN r[m]
               PROVE  LET k == IF m = l THEN i + 1 ELSE i IN k \in DOMAIN q[m]
                      /\ q[m][k] = r[m][i]
    OBVIOUS
  <2>1. CASE m = l
    <3>1. i \in 1 .. Len(q[l]) - 1 /\ r[m][i] = q[l][i + 1]
      BY <1>2, <1>3, <2>1
    <3> QED
      BY <1>1, <2>1, <3>1
  <2>2. CASE m # l
    BY <1>3, <2>2
  <2> QED
    BY <2>1, <2>2
<1>6. Pr!StartsOnce(r)
  <2> SUFFICES ASSUME NEW a \in Pr!Loops, NEW b \in Pr!Loops, NEW i \in DOMAIN r[a],
                      NEW j \in DOMAIN r[b],
                      r[a][i] = "start", r[b][j] = "start"
               PROVE  a = b /\ i = j
    BY DEF Pr!StartsOnce
  <2> DEFINE i2 == IF a = l THEN i + 1 ELSE i
             j2 == IF b = l THEN j + 1 ELSE j
  <2>1. /\ i2 \in DOMAIN q[a] /\ q[a][i2] = "start"
        /\ j2 \in DOMAIN q[b] /\ q[b][j2] = "start"
    BY <1>5
  <2>2. a = b /\ i2 = j2
    BY <2>1 DEF Pr!StartsOnce
  <2>3. ASSUME a = l PROVE i \in Int /\ j \in Int
    <3>1. DOMAIN r[l] = 1 .. Len(q[l]) - 1 /\ b = l
      BY <1>2, <1>3, <2>2, <2>3
    <3> QED
      BY <1>1, <2>3, <3>1
  <2> QED
    BY <2>2, <2>3
<1>7. Pr!Starting(r) => Pr!Starting(q) /\ Head(q[l]) # "start"
  <2> SUFFICES ASSUME NEW m \in Pr!Loops, NEW i \in DOMAIN r[m], r[m][i] = "start"
               PROVE  Pr!Starting(q) /\ Head(q[l]) # "start"
    BY DEF Pr!Starting
  <2> DEFINE k == IF m = l THEN i + 1 ELSE i
  <2>1. k \in DOMAIN q[m] /\ q[m][k] = "start"
    BY <1>5
  <2>2. Pr!Starting(q)
    BY <2>1 DEF Pr!Starting
  <2>3. ASSUME q[l][1] = "start" PROVE FALSE
    <3>1. 1 \in DOMAIN q[l]
      BY <1>1
    <3>2. m = l /\ k = 1
      BY <2>1, <2>3, <3>1 DEF Pr!StartsOnce
    <3>3. i \in 1 .. Len(q[l]) - 1
      BY <1>2, <1>3, <3>2
    <3> QED
      BY <1>1, <3>2, <3>3
  <2> QED
    BY <1>2, <2>2, <2>3
<1> QED
  BY <1>3, <1>4, <1>6, <1>7 DEF r

LEMMA Pushes ==
  ASSUME NEW q \in CallQueues, Pr!StartsOnce(q), NEW l \in Pr!Loops,
         NEW op \in Pr!Ops \union {"wait"},
         op # "start" \/ ~Pr!Starting(q)
  PROVE  LET r == [q EXCEPT ![l] = Append(@, op)] IN
         /\ r \in CallQueues /\ Pr!StartsOnce(r)
         /\ Pr!Starting(r) => Pr!Starting(q) \/ op = "start"
<1> DEFINE r == [q EXCEPT ![l] = Append(@, op)]
<1>1. q[l] \in Seq(Pr!Ops \union {"wait"}) /\ Len(q[l]) \in Nat /\ DOMAIN q[l] = 1 .. Len(q[l])
  BY DEF CallQueues
<1>2. /\ r \in CallQueues /\ \A m \in Pr!Loops \ {l} : r[m] = q[m]
      /\ r[l] = Append(q[l], op) /\ DOMAIN r[l] = 1 .. Len(q[l]) + 1
      /\ \A i \in 1 .. Len(q[l]) : r[l][i] = q[l][i]
      /\ r[l][Len(q[l]) + 1] = op
  BY <1>1 DEF CallQueues
<1> HIDE DEF r
<1>3. \A m \in Pr!Loops : \A i \in DOMAIN r[m] :
        \/ i \in DOMAIN q[m] /\ q[m][i] = r[m][i]
        \/ m = l /\ i = Len(q[l]) + 1 /\ r[m][i] = op
  BY <1>1, <1>2
<1>4. Pr!StartsOnce(r)
  BY <1>3 DEF Pr!StartsOnce, Pr!Starting
<1>5. Pr!Starting(r) => Pr!Starting(q) \/ op = "start"
  BY <1>3 DEF Pr!Starting
<1> QED
  BY <1>2, <1>4, <1>5 DEF r


-----------------------------------------------------------------------------
(* What the members, the children and the pipes may do in a step that      *)
(* starts no child and takes no exit: pipes are closed or drained, a       *)
(* child that runs may end.                                                *)
ChildStates == {"unborn", "running", "zombie", "reaped"}

LEMMA ProcessFacts ==
  ASSUME Pr!Inv
  PROVE  /\ Len(v9) \in Nat /\ DOMAIN v9 = 1 .. Len(v9)
         /\ Pr!Exiting => v6 \in Pr!Kids
         /\ v1.pid # 0 => v1.pid \in Pr!Kids
         /\ Pr!Youngest \in Nat
         /\ MaxChildren \in Nat
<1>1. Len(v9) \in Nat /\ DOMAIN v9 = 1 .. Len(v9)
  BY DEF Pr!Inv, Pr!TypeOK
<1>2. v1.pid \in 0 .. MaxChildren /\ v6 \in 0 .. MaxChildren
  BY MemberFields DEF Pr!Inv, Pr!TypeOK
<1>3. Pr!Exiting => v6 = Len(v9) + 1
  BY DEF Pr!Inv, Pr!InOrder
<1> QED
  BY <1>1, <1>2, <1>3, ProcessAssumption DEF Pr!Kids, Pr!Youngest

LEMMA Quiet ==
  ASSUME Pr!Inv, v1' \in Pr!Members, Pr!Wired(v1'), SameChild(v1, v1'),
         \A c \in Pr!Channels : v1'.fd[c] \in {v1.fd[c], Pr!Closed},
         v2' \in [Pr!Kids -> ChildStates],
         \A k \in Pr!Kids : v2'[k] = v2[k] \/ (v2[k] = "running" /\ v2'[k] = "zombie"),
         v3' \in [Pr!Outputs -> [Pr!Kids -> Nat]], v8' \in [Pr!Outputs -> [Pr!Kids -> Nat]],
         \A c \in Pr!Outputs, k \in Pr!Kids :
            v3'[c][k] > 0 => v3[c][k] > 0 /\ (v1.fd[c] = k => v1'.fd[c] = k),
         v4' \in CallQueues, Pr!OneStart', v7' \in Pr!Loops,
         UNCHANGED <<v5, v6, v9, v10>>
  PROVE  Pr!Inv'
<1>1. Pr!TypeOK'
  BY DEF Pr!Inv, Pr!TypeOK, ChildStates, CallQueues
<1>2. Pr!Born' = Pr!Born /\ v1'.pid = v1.pid /\ v1'.state = v1.state /\ v1'.polling = v1.polling
  BY DEF Pr!Born, SameChild
<1>3. \A k \in Pr!Kids : (v2'[k] = "reaped") <=> (v2[k] = "reaped")
  OBVIOUS
<1>4. Pr!InOrder'
  <2>1. Pr!Youngest' = Pr!Youngest /\ Pr!Exiting' = Pr!Exiting
    BY <1>2 DEF Pr!Youngest, Pr!Exiting
  <2>2. \A k \in Pr!Kids : k <= Len(v9) => v2'[k] = "reaped"
    BY <1>3 DEF Pr!Inv, Pr!InOrder
  <2>3. v5 = "destroyed" => \A k \in Pr!Born : v2'[k] = "reaped"
    BY <1>3 DEF Pr!Inv, Pr!InOrder, Pr!Born
  <2> QED
    BY <1>2, <2>1, <2>2, <2>3 DEF Pr!Inv, Pr!InOrder
<1>5. Pr!ExitInOrder'
  <2>1. Pr!Exiting' => v2'[v6'] = "reaped"
    BY <1>3, ProcessFacts DEF Pr!Inv, Pr!ExitInOrder, Pr!Exiting
  <2>2. v5' \in {"none", "finished"} /\ v1'.pid # 0 => v2'[v1'.pid] \in {"running", "zombie"}
    <3>1. v1.pid # 0 => v1.pid \in Pr!Kids
      BY MemberFields DEF Pr!Inv, Pr!TypeOK, Pr!Kids
    <3> QED
      BY <1>2, <3>1 DEF Pr!Inv, Pr!ExitInOrder
  <2>3. {"in", "out", "err"} \subseteq Pr!Channels
    BY DEF Pr!Channels, Pr!Outputs
  <2> QED
    BY <1>2, <2>1, <2>2, <2>3 DEF Pr!Inv, Pr!ExitInOrder
<1>6. Pr!Readable'
  BY DEF Pr!Inv, Pr!Readable
<1>7. Pr!WaitsForBorn'
  BY <1>2 DEF Pr!Inv, Pr!WaitsForBorn, Pr!Exiting
<1>8. Pr!Wired(v1)'
  BY DEF Pr!Wired, Pr!Watched, Pr!Open
<1> QED
  BY <1>1, <1>4, <1>5, <1>6, <1>7, <1>8 DEF Pr!Inv

(* The closures posted stay as they are, or one that is not a start is     *)
(* added or taken.                                                         *)
LEMMA NoStart ==
  ASSUME Pr!OneStart, v5' = v5, v1'.state = v1.state, Pr!StartsOnce(v4'),
         Pr!Starting(v4') => Pr!Starting(v4)
  PROVE  Pr!OneStart'
<1>1. Pr!StartPending' <=> Pr!Starting(v4')
  BY DEF Pr!StartPending, Pr!Starting
<1>2. Pr!StartsOnce(v4)'
  BY DEF Pr!StartsOnce
<1> QED
  BY <1>1, <1>2 DEF Pr!OneStart, Pr!StartPending

(* The signal, a write and a close, from whichever call.                   *)
LEMMA TerminateQuiet ==
  ASSUME Pr!Inv, Pr!TerminateImpl, v4' \in CallQueues, Pr!OneStart', v7' \in Pr!Loops,
         UNCHANGED <<v5, v6, v10>>
  PROVE  Pr!Inv'
<1>1. v1' \in Pr!Members /\ Pr!Wired(v1') /\ SameChild(v1, v1') /\ UNCHANGED <<v1, v3, v8, v9>>
  BY DEF Pr!TerminateImpl, Pr!Inv, Pr!TypeOK, SameChild
<1>2. /\ v2' \in [Pr!Kids -> ChildStates]
      /\ \A k \in Pr!Kids : v2'[k] = v2[k] \/ (v2[k] = "running" /\ v2'[k] = "zombie")
  <2>1. v2 \in [Pr!Kids -> ChildStates]
    BY DEF Pr!Inv, Pr!TypeOK, ChildStates
  <2>2. v1.pid # 0 => v1.pid \in Pr!Kids
    BY ProcessFacts
  <2>3. CASE UNCHANGED v2
    BY <2>1, <2>3
  <2>4. CASE v1.pid > 0 /\ v2[v1.pid] = "running" /\ v2' = [v2 EXCEPT ![v1.pid] = "zombie"]
    BY <2>1, <2>2, <2>4 DEF ChildStates
  <2> QED
    BY <2>3, <2>4 DEF Pr!TerminateImpl
<1>3. v3' \in [Pr!Outputs -> [Pr!Kids -> Nat]] /\ v8' \in [Pr!Outputs -> [Pr!Kids -> Nat]]
  BY <1>1 DEF Pr!Inv, Pr!TypeOK
<1>4. \A c \in Pr!Channels : v1'.fd[c] \in {v1.fd[c], Pr!Closed}
  BY <1>1
<1>5. \A c \in Pr!Outputs, k \in Pr!Kids :
        v3'[c][k] > 0 => v3[c][k] > 0 /\ (v1.fd[c] = k => v1'.fd[c] = k)
  BY <1>1
<1> QED
  BY <1>1, <1>2, <1>3, <1>4, <1>5, Quiet

(* A step that changes stdin, the watches or a member without a pipe.      *)
LEMMA InputQuiet ==
  ASSUME Pr!Inv, v1' \in Pr!Members, Pr!Wired(v1'), SameChild(v1, v1'),
         \A c \in Pr!Outputs : v1'.fd[c] = v1.fd[c],
         v1'.fd["in"] \in {v1.fd["in"], Pr!Closed},
         v4' \in CallQueues, Pr!OneStart', v7' \in Pr!Loops,
         UNCHANGED <<v2, v3, v8, v5, v6, v9, v10>>
  PROVE  Pr!Inv'
<1>1. /\ v2' \in [Pr!Kids -> ChildStates] /\ v3' \in [Pr!Outputs -> [Pr!Kids -> Nat]]
      /\ v8' \in [Pr!Outputs -> [Pr!Kids -> Nat]]
  BY DEF Pr!Inv, Pr!TypeOK, ChildStates
<1>2. \A c \in Pr!Channels : v1'.fd[c] \in {v1.fd[c], Pr!Closed}
  BY DEF Pr!Channels
<1>3. \A c \in Pr!Outputs, k \in Pr!Kids :
        v3'[c][k] > 0 => v3[c][k] > 0 /\ (v1.fd[c] = k => v1'.fd[c] = k)
  OBVIOUS
<1>4. \A k \in Pr!Kids : v2'[k] = v2[k] \/ (v2[k] = "running" /\ v2'[k] = "zombie")
  OBVIOUS
<1> QED
  BY <1>1, <1>2, <1>3, <1>4, Quiet

LEMMA WriteQuiet ==
  ASSUME Pr!Inv, Pr!WriteImpl, v4' \in CallQueues, Pr!OneStart', v7' \in Pr!Loops,
         UNCHANGED <<v5, v6, v10>>
  PROVE  Pr!Inv'
<1>1. v1 \in Pr!Members /\ Pr!Wired(v1) /\ Pr!Watched(v1)
  BY DEF Pr!Inv, Pr!TypeOK, Pr!Wired
<1>2. UNCHANGED <<v2, v3, v8, v9>>
  BY DEF Pr!WriteImpl
<1>3. CASE v1' = v1
  BY <1>1, <1>2, <1>3, InputQuiet DEF SameChild
<1>4. CASE v1.fd["in"] # Pr!Closed
           /\ \E m \in Pr!Flushed([v1 EXCEPT !.queue = @ + 1]) : v1' = Pr!RefreshStdinWatch(m)
  <2> DEFINE a == [v1 EXCEPT !.queue = @ + 1]
  <2>1. v1.queue + 1 \in Nat
    BY <1>1, MemberFields
  <2>2. a \in Pr!Members /\ Pr!Watched(a) /\ SameChild(v1, a) /\ a.fd = v1.fd
    BY <1>1, <1>4, <2>1, QueueChanges
  <2> HIDE DEF a
  <2>3. PICK m \in Pr!Flushed(a) : v1' = Pr!RefreshStdinWatch(m)
    BY <1>4 DEF a
  <2>4. /\ m \in Pr!Members /\ Pr!Watched(m) /\ SameChild(a, m)
        /\ \A d \in Pr!Outputs : m.fd[d] = a.fd[d]
        /\ m.fd["in"] \in {a.fd["in"], Pr!Closed}
    BY <2>2, Flushes
  <2>5. v1' \in Pr!Members /\ Pr!Wired(v1') /\ SameChild(m, v1') /\ v1'.fd = m.fd
    BY <2>3, <2>4, Refreshes
  <2>6. SameChild(v1, v1')
    BY <2>2, <2>4, <2>5 DEF SameChild
  <2>7. (\A c \in Pr!Outputs : v1'.fd[c] = v1.fd[c]) /\ v1'.fd["in"] \in {v1.fd["in"],
        Pr!Closed}
    BY <2>2, <2>4, <2>5
  <2> QED
    BY <1>2, <2>5, <2>6, <2>7, InputQuiet
<1> QED
  BY <1>3, <1>4 DEF Pr!WriteImpl

LEMMA CloseQuiet ==
  ASSUME Pr!Inv, Pr!CloseWriteChannel, v4' \in CallQueues, Pr!OneStart', v7' \in Pr!Loops,
         UNCHANGED <<v5, v6, v10>>
  PROVE  Pr!Inv'
<1>1. v1 \in Pr!Members /\ Pr!Watched(v1) /\ v1' = Pr!ClosePipeWrite(v1) /\ UNCHANGED <<v2, v3,
      v8, v9>>
  BY DEF Pr!Inv, Pr!TypeOK, Pr!Wired, Pr!CloseWriteChannel
<1>2. /\ v1' \in Pr!Members /\ Pr!Wired(v1') /\ SameChild(v1, v1')
      /\ \A d \in Pr!Channels : v1'.fd[d] = IF d = "in" THEN Pr!Closed ELSE v1.fd[d]
  BY <1>1, WriteSets, WriteCloses
<1>3. (\A c \in Pr!Outputs : v1'.fd[c] = v1.fd[c]) /\ v1'.fd["in"] \in {v1.fd["in"], Pr!Closed}
  BY <1>2 DEF Pr!Channels, Pr!Outputs
<1> QED
  BY <1>1, <1>2, <1>3, InputQuiet

(* Before a start nothing is open, and every pipe is read.                 *)
LEMMA IdleProcess ==
  ASSUME Pr!Inv, v1.pid = 0
  PROVE  /\ v1.io = {} /\ v1.watched = {} /\ v1.queue = 0
         /\ \A c \in Pr!Channels : v1.fd[c] = Pr!Closed
         /\ v5 # "destroyed" => \A c \in Pr!Outputs, k \in Pr!Kids : v3[c][k] = 0
<1>1. Pr!Open(v1) = {}
  BY DEF Pr!Inv, Pr!Wired, Pr!Watched, Pr!Open, Pr!Closed
<1>2. v1.queue \in Nat
  BY MemberFields DEF Pr!Inv, Pr!TypeOK
<1>3. v1.io = {} /\ v1.watched = {} /\ v1.queue = 0
  BY <1>1, <1>2 DEF Pr!Inv, Pr!Wired, Pr!Watched
<1>4. \A c \in Pr!Channels : v1.fd[c] = Pr!Closed
  BY <1>1 DEF Pr!Open
<1>5. ASSUME v5 # "destroyed", NEW c \in Pr!Outputs, NEW k \in Pr!Kids PROVE v3[c][k] = 0
  <2>1. v1.fd[c] # k
    BY <1>4, ProcessFacts DEF Pr!Channels, Pr!Closed, Pr!Kids
  <2>2. ~(v3[c][k] > 0) /\ v3[c][k] \in Nat
    BY <1>5, <2>1 DEF Pr!Inv, Pr!Readable, Pr!TypeOK
  <2> QED
    BY <2>2
<1> QED
  BY <1>3, <1>4, <1>5

RunningMembers(m, k) ==
  m \in Pr!Members /\ Pr!Wired(m) /\ m.state = "Running" /\ m.pid = k /\ m.polling = TRUE

(* fork() has succeeded: the members of the parent.                        *)
LEMMA Forks ==
  ASSUME NEW m \in Pr!Members, NEW k \in Pr!Kids, NEW fd \in [Pr!Channels -> {Pr!Closed, k}],
         m.io = {}, m.watched = {}, NEW forked,
         forked = [m EXCEPT !.state = "Running", !.pid = k, !.polling = TRUE, !.queue = 0,
         !.fd = fd]
  PROVE  RunningMembers(Pr!RegisterIOWatches(forked), k)
<1> DEFINE a1 == [m EXCEPT !.state = "Running"]
           a2 == [a1 EXCEPT !.pid = k]
           a3 == [a2 EXCEPT !.polling = TRUE]
           a4 == [a3 EXCEPT !.queue = 0]
           a == [a4 EXCEPT !.fd = fd]
<1>0. a = forked
  OBVIOUS
<1> HIDE DEF a1, a2, a3, a4, a
<1>1. /\ a1 = Row(a1) /\ a1.state = "Running" /\ a1.fd = m.fd /\ a1.watched = {} /\ a1.io = {}
      /\ a1.wantOut = m.wantOut /\ a1.merged = m.merged
  BY MembersAreRows, SetState DEF a1
<1>2. /\ a2 = Row(a2) /\ a2.state = "Running" /\ a2.pid = k /\ a2.watched = {} /\ a2.io = {}
      /\ a2.wantOut = m.wantOut /\ a2.merged = m.merged
  BY <1>1, SetPid DEF a2
<1>3. /\ a3 = Row(a3) /\ a3.state = "Running" /\ a3.pid = k /\ a3.watched = {} /\ a3.io = {}
      /\ a3.wantOut = m.wantOut /\ a3.merged = m.merged /\ a3.polling = TRUE
  BY <1>2, SetPolling DEF a3
<1>4. /\ a4 = Row(a4) /\ a4.state = "Running" /\ a4.pid = k /\ a4.watched = {} /\ a4.io = {}
      /\ a4.wantOut = m.wantOut /\ a4.merged = m.merged /\ a4.polling = TRUE /\ a4.queue = 0
  BY <1>3, SetQueue DEF a4
<1>5. /\ a = Row(a) /\ a.state = "Running" /\ a.pid = k /\ a.watched = {} /\ a.io = {}
      /\ a.wantOut = m.wantOut /\ a.merged = m.merged /\ a.polling = TRUE /\ a.queue = 0
           /\ a.fd = fd
  BY <1>4, SetFd DEF a
<1>6. a \in Pr!Members
  <2>1. k \in 0 .. MaxChildren /\ fd \in [Pr!Channels -> 0 .. MaxChildren]
    BY ProcessAssumption DEF Pr!Kids, Pr!Closed
  <2>2. m.wantOut \in BOOLEAN /\ m.merged \in BOOLEAN
    BY MemberFields
  <2>3. /\ a = Row(a) /\ a.state \in {"NotRunning", "Running"} /\ a.pid \in 0 .. MaxChildren
        /\ a.fd \in [Pr!Channels -> 0 .. MaxChildren]
    BY <1>5, <2>1
  <2>4. a.watched \subseteq Pr!Channels /\ a.io \subseteq Pr!Channels \X (0 .. MaxChildren)
        /\ a.queue \in Nat
    BY <1>5
  <2>5. a.wantOut \in BOOLEAN /\ a.merged \in BOOLEAN
    BY <1>5, <2>2
  <2>6. a.polling \in BOOLEAN
    BY <1>5
  <2> QED
    BY <2>3, <2>4, <2>5, <2>6, FieldsMakeMembers
<1>7. \A c \in Pr!Open(a) : a.fd[c] = a.pid
  BY <1>5 DEF Pr!Open
<1>8. ~(a.queue > 0)
  BY <1>5
<1> QED
  BY <1>0, <1>5, <1>6, <1>7, <1>8, Registers DEF SameChild, RunningMembers

LEMMA StartKeeps ==
  ASSUME Pr!Inv, Pr!StartImpl, v1.state = "NotRunning", v5 \in {"none", "finished"},
         v4' \in CallQueues, ~Pr!Starting(v4'), Pr!StartsOnce(v4'),
         UNCHANGED <<v5, v6, v7, v10>>
  PROVE  Pr!Inv'
<1>1. v1 \in Pr!Members /\ v1.pid = 0 /\ UNCHANGED <<v3, v8, v9>>
  BY DEF Pr!Inv, Pr!TypeOK, Pr!InOrder, Pr!StartImpl
<1>2. Pr!OneStart'
  <2>1. ~Pr!StartPending' /\ Pr!StartsOnce(v4)'
    BY DEF Pr!StartPending, Pr!Starting, Pr!StartsOnce
  <2> QED
    BY <2>1 DEF Pr!OneStart
<1>3. CASE Pr!StartFails
  <2>1. v1' = v1
    <3>1. v1 = Row(v1)
      BY <1>1, MembersAreRows
    <3> QED
      BY <1>3, <3>1 DEF Pr!StartFails, Row
  <2>2. UNCHANGED v2
    BY <1>3 DEF Pr!StartFails
  <2> QED
    BY <1>1, <1>2, <2>1, <2>2, InputQuiet DEF SameChild, Pr!Inv, Pr!TypeOK
<1>4. CASE Pr!StartSucceeds
  <2>1. PICK k \in Pr!Kids :
          /\ v2[k] = "unborn" /\ Pr!Born = 1 .. k - 1
          /\ v2' = [v2 EXCEPT ![k] = "running"]
          /\ v1' = Pr!RegisterIOWatches(
                    [v1 EXCEPT !.state = "Running", !.pid = k, !.polling = TRUE, !.queue = 0,
                              !.fd = [c \in Pr!Channels |-> IF c = "err"
                                /\ v1.merged THEN Pr!Closed ELSE k]])
    BY <1>4 DEF Pr!StartSucceeds
  <2>2. PICK fd \in [Pr!Channels -> {Pr!Closed, k}] :
          fd = [c \in Pr!Channels |-> IF c = "err" /\ v1.merged THEN Pr!Closed ELSE k]
    OBVIOUS
  <2>3. /\ v1' \in Pr!Members /\ Pr!Wired(v1') /\ v1'.state = "Running" /\ v1'.pid = k
        /\ v1'.polling = TRUE
    <3>1. PICK forked :
            forked = [v1 EXCEPT !.state = "Running", !.pid = k, !.polling = TRUE, !.queue = 0,
            !.fd = fd]
      OBVIOUS
    <3>2. v1' = Pr!RegisterIOWatches(forked)
      BY <2>1, <2>2, <3>1
    <3>3. v1.io = {} /\ v1.watched = {}
      BY <1>1, IdleProcess
    <3>4. RunningMembers(v1', k)
      BY <1>1, <3>1, <3>2, <3>3, Forks
    <3> QED
      BY <3>4 DEF RunningMembers
  <2>4. k - 1 = Pr!Youngest
    <3>1. k \in Nat /\ k >= 1 /\ Pr!Youngest \in Nat
      BY ProcessFacts DEF Pr!Kids
    <3>2. 1 .. k - 1 = 1 .. Pr!Youngest
      BY <2>1 DEF Pr!Inv, Pr!InOrder
    <3>3. k - 1 \in 1 .. k - 1 \/ k - 1 = 0
      BY <3>1
    <3>4. Pr!Youngest \in 1 .. Pr!Youngest \/ Pr!Youngest = 0
      BY <3>1
    <3> QED
      BY <3>1, <3>2, <3>3, <3>4
  <2>5. k = (IF v5 = "finished" THEN v6 ELSE Len(v9)) + 1
    BY <1>1, <2>4, ProcessFacts DEF Pr!Inv, Pr!InOrder, Pr!Youngest, Pr!Exiting, Pr!Kids
  <2>6. /\ v2' \in [Pr!Kids -> ChildStates] /\ v2'[k] = "running"
        /\ \A j \in Pr!Kids \ {k} : v2'[j] = v2[j]
    BY <2>1 DEF Pr!Inv, Pr!TypeOK, ChildStates
  <2>7. Pr!Born' = 1 .. k
    <3>1. Pr!Born' = Pr!Born \union {k}
      BY <2>1, <2>6 DEF Pr!Born
    <3> QED
      BY <2>1, <3>1 DEF Pr!Kids
  <2>8. k # Pr!Closed /\ k > Len(v9) /\ (v5 = "finished" => k # v6 /\ v6 \in Pr!Kids)
    BY <2>5, ProcessFacts DEF Pr!Kids, Pr!Closed, Pr!Inv, Pr!InOrder, Pr!Exiting
  <2>9. Pr!TypeOK'
    BY <1>1, <2>3, <2>6 DEF Pr!Inv, Pr!TypeOK, CallQueues, ChildStates
  <2>10. Pr!InOrder'
    <3>1. Pr!Youngest' = k /\ Pr!Exiting' = Pr!Exiting
      BY <2>3, <2>8 DEF Pr!Youngest, Pr!Exiting, Pr!Closed
    <3>2. \A j \in Pr!Kids : j <= Len(v9') => v2'[j] = "reaped"
      BY <1>1, <2>6, <2>8, ProcessFacts DEF Pr!Inv, Pr!InOrder, Pr!Kids
    <3> QED
      BY <1>1, <2>3, <2>5, <2>7, <2>8, <3>1, <3>2 DEF Pr!Inv, Pr!InOrder, Pr!Closed
  <2>11. Pr!ExitInOrder'
    BY <2>3, <2>6, <2>8 DEF Pr!Inv, Pr!ExitInOrder, Pr!Exiting
  <2>12. Pr!Readable'
    BY <1>1, IdleProcess DEF Pr!Readable
  <2>13. Pr!WaitsForBorn'
    <3>1. Pr!Born \subseteq Pr!Born'
      BY <2>1, <2>6 DEF Pr!Born
    <3> QED
      BY <1>1, <3>1 DEF Pr!Inv, Pr!WaitsForBorn, Pr!Exiting
  <2>14. Pr!Wired(v1)'
    BY <2>3 DEF Pr!Wired, Pr!Watched, Pr!Open
  <2> QED
    BY <1>2, <2>9, <2>10, <2>11, <2>12, <2>13, <2>14 DEF Pr!Inv
<1> QED
  BY <1>3, <1>4 DEF Pr!StartImpl

(* Only a start changes the state that the process is in.                  *)
LEMMA StateKept ==
  ASSUME v1 \in Pr!Members, Pr!Watched(v1), Pr!TerminateImpl \/ Pr!WriteImpl
         \/ Pr!CloseWriteChannel
  PROVE  v1'.state = v1.state
<1>1. CASE v1' = v1
  BY <1>1
<1>2. CASE v1' = Pr!ClosePipeWrite(v1)
  BY <1>2, WriteSets DEF SameChild
<1>3. CASE v1.fd["in"] # Pr!Closed
           /\ \E m \in Pr!Flushed([v1 EXCEPT !.queue = @ + 1]) : v1' = Pr!RefreshStdinWatch(m)
  <2> DEFINE a == [v1 EXCEPT !.queue = @ + 1]
  <2>1. v1.queue + 1 \in Nat
    BY MemberFields
  <2>2. a \in Pr!Members /\ Pr!Watched(a) /\ SameChild(v1, a)
    BY <1>3, <2>1, QueueChanges
  <2> HIDE DEF a
  <2>3. PICK m \in Pr!Flushed(a) : v1' = Pr!RefreshStdinWatch(m)
    BY <1>3 DEF a
  <2>4. m \in Pr!Members /\ Pr!Watched(m) /\ SameChild(a, m)
    BY <2>2, Flushes
  <2>5. SameChild(m, v1')
    BY <2>3, <2>4, Refreshes
  <2> QED
    BY <2>2, <2>4, <2>5 DEF SameChild
<1> QED
  BY <1>1, <1>2, <1>3 DEF Pr!TerminateImpl, Pr!WriteImpl, Pr!CloseWriteChannel

(* The four calls.                                                         *)
LEMMA Applies ==
  ASSUME Pr!Inv, NEW op \in Pr!Ops, Pr!Apply(op), v4' \in CallQueues, Pr!StartsOnce(v4'),
         Pr!Starting(v4') => Pr!Starting(v4) /\ op # "start",
         op = "start" => v1.state = "NotRunning" /\ v5 \in {"none", "finished"},
         UNCHANGED <<v5, v6, v7, v10>>
  PROVE  Pr!Inv'
<1>1. CASE op = "start"
  BY <1>1, StartKeeps DEF Pr!Apply
<1>2. CASE op # "start"
  <2>1. v7' \in Pr!Loops
    BY DEF Pr!Inv, Pr!TypeOK
  <2>2. v1'.state = v1.state
    <3>1. v1 \in Pr!Members /\ Pr!Watched(v1)
      BY DEF Pr!Inv, Pr!TypeOK, Pr!Wired
    <3> QED
      BY <3>1, <1>2, StateKept DEF Pr!Apply
  <2>3. Pr!OneStart'
    BY <2>2, NoStart DEF Pr!Inv
  <2> QED
    BY <1>2, <2>1, <2>3, TerminateQuiet, WriteQuiet, CloseQuiet DEF Pr!Apply
<1> QED
  BY <1>1, <1>2

LEMMA CallKeeps ==
  ASSUME Pr!Inv, NEW op \in Pr!Ops, Pr!Call(op), UNCHANGED v10
  PROVE  Pr!Inv'
<1>1. v4' \in CallQueues /\ Pr!StartsOnce(v4') /\ (Pr!Starting(v4') <=> Pr!StartPending)
  BY DEF Pr!Call, Pr!Inv, Pr!TypeOK, CallQueues, Pr!OneStart, Pr!StartPending
<1>2. ASSUME op = "start" PROVE v1.state = "NotRunning" /\ v5 \in {"none", "finished"}
             /\ ~Pr!StartPending
  <2>1. v1.state = "NotRunning" /\ v5 # "destroyed" /\ ~Pr!StartPending
    BY <1>2, ProcessAssumption DEF Pr!Call
  <2>2. v1.pid = 0
    BY <2>1 DEF Pr!Inv, Pr!InOrder
  <2>3. v5 \notin {"out", "err", "state"}
    BY <2>2, ProcessFacts DEF Pr!Inv, Pr!ExitInOrder, Pr!Exiting, Pr!Kids
  <2> QED
    BY <2>1, <2>3 DEF Pr!Inv, Pr!TypeOK, Pr!Stages
<1> QED
  BY <1>1, <1>2, Applies DEF Pr!Call, Pr!StartPending

LEMMA PostCallKeeps ==
  ASSUME Pr!Inv, NEW op \in Pr!Ops, Pr!PostCall(op), UNCHANGED v10
  PROVE  Pr!Inv'
<1>1. v4 \in CallQueues /\ Pr!StartsOnce(v4) /\ v7 \in Pr!Loops
  BY DEF Pr!Inv, Pr!TypeOK, CallQueues, Pr!OneStart
<1>2. v4' = [v4 EXCEPT ![v7] = Append(@, op)]
  BY DEF Pr!PostCall
<1>3. ASSUME op = "start" PROVE v1.state = "NotRunning" /\ v5 = "none" /\ ~Pr!StartPending
  BY <1>3, ProcessAssumption DEF Pr!PostCall
<1>4. v4' \in CallQueues /\ Pr!StartsOnce(v4') /\ (Pr!Starting(v4') => Pr!Starting(v4)
      \/ op = "start")
  BY <1>1, <1>2, <1>3, Pushes DEF Pr!StartPending
<1>5. Pr!OneStart'
  <2>1. Pr!StartPending' => Pr!Starting(v4')
    BY DEF Pr!StartPending, Pr!Starting
  <2>2. Pr!StartPending' => v5 = "none" /\ v1.state = "NotRunning"
    BY <1>3, <1>4, <2>1 DEF Pr!Inv, Pr!OneStart, Pr!StartPending
  <2>3. Pr!StartsOnce(v4)'
    BY <1>4 DEF Pr!StartsOnce
  <2> QED
    BY <2>2, <2>3 DEF Pr!OneStart, Pr!PostCall
<1> QED
  BY <1>1, <1>4, <1>5, InputQuiet DEF Pr!PostCall, SameChild, Pr!Inv, Pr!TypeOK

LEMMA RunCallKeeps ==
  ASSUME Pr!Inv, NEW l \in Pr!Loops, Pr!RunCall(l), UNCHANGED v10
  PROVE  Pr!Inv'
<1> DEFINE op == Head(v4[l])
           popped == [v4 EXCEPT ![l] = Tail(@)]
<1>1. v4 \in CallQueues /\ Pr!StartsOnce(v4) /\ v7 \in Pr!Loops /\ v4[l] # <<>> /\ op # "wait"
      /\ UNCHANGED <<v5, v6, v7>> /\ v5 = "none"
  BY DEF Pr!Inv, Pr!TypeOK, CallQueues, Pr!OneStart, Pr!RunCall, Pr!OwnerFree
<1>2. /\ popped \in CallQueues /\ Pr!StartsOnce(popped) /\ op \in Pr!Ops
      /\ Pr!Starting(popped) => Pr!Starting(v4) /\ op # "start"
      /\ op = "start" => Pr!Starting(v4)
  <2>1. /\ popped \in CallQueues /\ Pr!StartsOnce(popped) /\ op \in Pr!Ops \union {"wait"}
        /\ Pr!Starting(popped) => Pr!Starting(v4) /\ op # "start"
    BY <1>1, Pops
  <2>2. op = "start" => Pr!Starting(v4)
    <3>1. v4[l] \in Seq(Pr!Ops \union {"wait"}) /\ v4[l] # <<>>
      BY <1>1 DEF CallQueues
    <3>2. 1 \in DOMAIN v4[l] /\ Head(v4[l]) = v4[l][1]
      BY <3>1
    <3> QED
      BY <3>2 DEF Pr!Starting
  <2> QED
    BY <1>1, <2>1, <2>2
<1> HIDE DEF popped, op
<1>3. CASE op = "close" /\ l # v7
  <2>1. v4' = [popped EXCEPT ![v7] = Append(@, op)] /\ UNCHANGED <<v1, v2, v3, v8, v9>>
    BY <1>3 DEF Pr!RunCall, op, popped
  <2>2. v4' \in CallQueues /\ Pr!StartsOnce(v4') /\ (Pr!Starting(v4') => Pr!Starting(popped)
        \/ op = "start")
    BY <1>1, <1>2, <1>3, <2>1, Pushes
  <2>3. Pr!OneStart'
    BY <1>1, <1>2, <1>3, <2>1, <2>2, NoStart DEF Pr!Inv
  <2> QED
    BY <1>1, <2>1, <2>2, <2>3, InputQuiet DEF SameChild, Pr!Inv, Pr!TypeOK
<1>4. CASE ~(op = "close" /\ l # v7)
  <2>1. Pr!Apply(op) /\ v4' = popped
    BY <1>4 DEF Pr!RunCall, op, popped
  <2>2. op = "start" => v1.state = "NotRunning"
    BY <1>2 DEF Pr!Inv, Pr!OneStart, Pr!StartPending
  <2> QED
    BY <1>1, <1>2, <2>1, <2>2, Applies
<1> QED
  BY <1>3, <1>4

LEMMA SetMerged ==
  ASSUME NEW m, m = Row(m), NEW x
  PROVE  LET n == [m EXCEPT !.merged = x] IN
         /\ n = Row(n) /\ n.merged = x
         /\ n.state = m.state /\ n.pid = m.pid /\ n.fd = m.fd /\ n.watched = m.watched
         /\ n.io = m.io /\ n.wantOut = m.wantOut /\ n.queue = m.queue /\ n.polling = m.polling
  BY DEF Row

(* The posted closures are left alone.                                     *)
LEMMA SameCalls ==
  ASSUME Pr!Inv, UNCHANGED <<v4, v5>>, v1'.state = v1.state
  PROVE  v4' \in CallQueues /\ Pr!OneStart'
<1>1. v4' \in CallQueues /\ Pr!StartsOnce(v4')
  BY DEF Pr!Inv, Pr!TypeOK, CallQueues, Pr!OneStart
<1> QED
  BY <1>1, NoStart DEF Pr!Inv

LEMMA SetMergedKeeps ==
  ASSUME Pr!Inv, Pr!SetMergedChannels, UNCHANGED <<v4, v5, v6, v7, v10>>
  PROVE  Pr!Inv'
<1>1. v1 \in Pr!Members /\ Pr!Wired(v1) /\ v7' \in Pr!Loops /\ UNCHANGED <<v2, v3, v8, v9>>
  BY DEF Pr!Inv, Pr!TypeOK, Pr!SetMergedChannels
<1>2. v1' \in Pr!Members /\ Pr!Wired(v1') /\ SameChild(v1, v1') /\ v1'.fd = v1.fd
  <2>1. CASE v1' = v1
    BY <1>1, <2>1 DEF SameChild
  <2>2. CASE v1' = [v1 EXCEPT !.merged = ~@]
    <3> DEFINE n == [v1 EXCEPT !.merged = ~v1.merged]
    <3>1. v1' = n
      BY <2>2
    <3>2. /\ n = Row(n) /\ n.merged = ~v1.merged
          /\ n.state = v1.state /\ n.pid = v1.pid /\ n.fd = v1.fd /\ n.watched = v1.watched
          /\ n.io = v1.io /\ n.wantOut = v1.wantOut /\ n.queue = v1.queue
               /\ n.polling = v1.polling
      BY <1>1, MembersAreRows, SetMerged
    <3> HIDE DEF n
    <3>3. n.merged \in BOOLEAN
      BY <3>2
    <3>4. n \in Pr!Members
      BY <1>1, <3>2, <3>3, MemberFields, FieldsMakeMembers
    <3>5. Pr!Wired(n)
      BY <1>1, <3>2 DEF Pr!Wired, Pr!Watched, Pr!Open
    <3> QED
      BY <3>1, <3>2, <3>4, <3>5 DEF SameChild
  <2> QED
    BY <2>1, <2>2 DEF Pr!SetMergedChannels
<1>3. v4' \in CallQueues /\ Pr!OneStart'
  BY <1>2, SameCalls DEF SameChild
<1>4. v1'.fd["in"] \in {v1.fd["in"], Pr!Closed} /\ \A c \in Pr!Outputs : v1'.fd[c] = v1.fd[c]
  BY <1>2
<1> QED
  BY <1>1, <1>2, <1>3, <1>4, InputQuiet

LEMMA MoveKeeps ==
  ASSUME Pr!Inv, Pr!Move, UNCHANGED v10
  PROVE  Pr!Inv'
<1>1. v1 \in Pr!Members /\ Pr!Watched(v1) /\ UNCHANGED <<v2, v3, v4, v5, v6, v8, v9>>
      /\ v1' = Pr!RegisterIOWatches(Pr!UnregisterIOWatches(v1))
  BY DEF Pr!Inv, Pr!TypeOK, Pr!Wired, Pr!Move
<1>2. v7' \in Pr!Loops
  BY DEF Pr!Inv, Pr!TypeOK, Pr!Move, Pr!Loops
<1> DEFINE m == Pr!UnregisterIOWatches(v1)
<1>3. m \in Pr!Members /\ SameChild(v1, m) /\ m.fd = v1.fd /\ m.queue = v1.queue /\ m.io = {}
      /\ m.watched = {}
  BY <1>1, Unregisters
<1> HIDE DEF m
<1>4. (\A c \in Pr!Open(m) : m.fd[c] = m.pid) /\ (m.queue > 0 => "in" \in Pr!Open(m))
  BY <1>1, <1>3 DEF Pr!Watched, Pr!Open, SameChild
<1>5. v1' \in Pr!Members /\ Pr!Wired(v1') /\ SameChild(m, v1') /\ v1'.fd = m.fd
  BY <1>1, <1>3, <1>4, Registers DEF m
<1>6. SameChild(v1, v1') /\ v1'.fd = v1.fd
  BY <1>3, <1>5 DEF SameChild
<1>7. v4' \in CallQueues /\ Pr!OneStart'
  BY <1>1, <1>6, SameCalls DEF SameChild
<1>8. v1'.fd["in"] \in {v1.fd["in"], Pr!Closed} /\ \A c \in Pr!Outputs : v1'.fd[c] = v1.fd[c]
  BY <1>6
<1> QED
  BY <1>1, <1>2, <1>5, <1>6, <1>7, <1>8, InputQuiet

LEMMA StdinKeeps ==
  ASSUME Pr!Inv, Pr!HandleStdinEvents, UNCHANGED v10
  PROVE  Pr!Inv'
<1> DEFINE k == v1.fd["in"]
<1>1. v1 \in Pr!Members /\ Pr!Watched(v1) /\ UNCHANGED <<v2, v3, v4, v5, v6, v8, v9>>
      /\ v7' \in Pr!Loops
  BY DEF Pr!Inv, Pr!TypeOK, Pr!Wired, Pr!HandleStdinEvents
<1>2. PICK m \in (IF v1.wantOut THEN Pr!Flushed(v1) ELSE {v1}) :
        v1' = Pr!RefreshStdinWatch(IF v2[k] = "running" THEN m ELSE Pr!ClosePipeWrite(m))
  BY DEF Pr!HandleStdinEvents
<1>3. /\ m \in Pr!Members /\ Pr!Watched(m) /\ SameChild(v1, m)
      /\ \A d \in Pr!Outputs : m.fd[d] = v1.fd[d]
      /\ m.fd["in"] \in {v1.fd["in"], Pr!Closed}
  <2>1. CASE m = v1
    BY <1>1, <2>1 DEF SameChild
  <2>2. CASE m \in Pr!Flushed(v1)
    BY <1>1, <2>2, Flushes
  <2> QED
    BY <1>2, <2>1, <2>2
<1>4. PICK n : n = IF v2[k] = "running" THEN m ELSE Pr!ClosePipeWrite(m)
  OBVIOUS
<1>5. /\ n \in Pr!Members /\ Pr!Watched(n) /\ SameChild(m, n)
      /\ \A d \in Pr!Outputs : n.fd[d] = m.fd[d]
      /\ n.fd["in"] \in {m.fd["in"], Pr!Closed}
  <2>1. CASE n = m
    BY <1>3, <2>1 DEF SameChild
  <2>2. CASE n = Pr!ClosePipeWrite(m)
    BY <1>3, <2>2, WriteSets, WriteCloses DEF Pr!Wired, Pr!Channels, Pr!Outputs
  <2> QED
    BY <1>4, <2>1, <2>2
<1>6. v1' \in Pr!Members /\ Pr!Wired(v1') /\ SameChild(n, v1') /\ v1'.fd = n.fd
  BY <1>2, <1>4, <1>5, Refreshes
<1>7. SameChild(v1, v1')
  BY <1>3, <1>5, <1>6 DEF SameChild
<1>8. v1'.fd["in"] \in {v1.fd["in"], Pr!Closed} /\ \A c \in Pr!Outputs : v1'.fd[c] = v1.fd[c]
  BY <1>3, <1>5, <1>6
<1>9. v4' \in CallQueues /\ Pr!OneStart'
  BY <1>1, <1>7, SameCalls DEF SameChild
<1> QED
  BY <1>1, <1>6, <1>7, <1>8, <1>9, InputQuiet

(* Everything in the pipe is read.                                         *)
LEMMA Drains ==
  ASSUME Pr!Inv, NEW c \in Pr!Outputs, NEW k \in Pr!Kids, Pr!Drain(c, k)
  PROVE  /\ v3' \in [Pr!Outputs -> [Pr!Kids -> Nat]] /\ v8' \in [Pr!Outputs -> [Pr!Kids -> Nat]]
         /\ \A d \in Pr!Outputs, j \in Pr!Kids : v3'[d][j] = IF d = c
              /\ j = k THEN 0 ELSE v3[d][j]
<1>1. v3 \in [Pr!Outputs -> [Pr!Kids -> Nat]] /\ v8 \in [Pr!Outputs -> [Pr!Kids -> Nat]]
  BY DEF Pr!Inv, Pr!TypeOK
<1>2. v3[c] \in [Pr!Kids -> Nat] /\ v8[c] \in [Pr!Kids -> Nat] /\ v3[c][k] \in Nat
      /\ v8[c][k] \in Nat
  BY <1>1
<1>3. v3' = [v3 EXCEPT ![c] = [v3[c] EXCEPT ![k] = 0]]
  BY DEF Pr!Drain
<1>4. v8' = [v8 EXCEPT ![c] = [v8[c] EXCEPT ![k] = v8[c][k] + v3[c][k]]]
  BY DEF Pr!Drain
<1>5. [v3[c] EXCEPT ![k] = 0] \in [Pr!Kids -> Nat]
  BY <1>2
<1>6. [v8[c] EXCEPT ![k] = v8[c][k] + v3[c][k]] \in [Pr!Kids -> Nat]
  BY <1>2
<1> QED
  BY <1>1, <1>2, <1>3, <1>4, <1>5, <1>6

LEMMA OutputKeeps ==
  ASSUME Pr!Inv, NEW c \in Pr!Outputs, Pr!HandleOutputEvents(c), UNCHANGED v10
  PROVE  Pr!Inv'
<1> DEFINE k == v1.fd[c]
<1>1. /\ v1 \in Pr!Members /\ Pr!Watched(v1) /\ Pr!Wired(v1) /\ Pr!Drain(c, k)
      /\ UNCHANGED <<v2, v4, v5, v6, v7, v9>> /\ v7' \in Pr!Loops
      /\ v1' = v1 \/ v1' = Pr!ClosePipeRead(v1, c)
  BY DEF Pr!Inv, Pr!TypeOK, Pr!Wired, Pr!HandleOutputEvents
<1>2. k \in Pr!Kids
  BY <1>1, MemberFields, ProcessAssumption DEF Pr!HandleOutputEvents, Pr!Kids, Pr!Channels,
     Pr!Closed
<1>3. /\ v3' \in [Pr!Outputs -> [Pr!Kids -> Nat]] /\ v8' \in [Pr!Outputs -> [Pr!Kids -> Nat]]
      /\ \A d \in Pr!Outputs, j \in Pr!Kids : v3'[d][j] = IF d = c /\ j = k THEN 0 ELSE v3[d][j]
  BY <1>1, <1>2, Drains
<1>4. /\ v1' \in Pr!Members /\ Pr!Wired(v1') /\ SameChild(v1, v1')
      /\ \A d \in Pr!Channels : v1'.fd[d] = v1.fd[d] \/ (d = c /\ v1'.fd[d] = Pr!Closed)
  <2>1. CASE v1' = v1
    BY <1>1, <2>1 DEF SameChild
  <2>2. CASE v1' = Pr!ClosePipeRead(v1, c)
    <3>1. /\ v1' \in Pr!Members /\ Pr!Watched(v1') /\ SameChild(v1, v1') /\ v1'.queue = v1.queue
          /\ v1'.wantOut = v1.wantOut
          /\ \A d \in Pr!Channels : v1'.fd[d] = IF d = c THEN Pr!Closed ELSE v1.fd[d]
      BY <1>1, <2>2, ReadSets, ReadCloses
    <3> QED
      BY <1>1, <3>1 DEF Pr!Wired
  <2> QED
    BY <1>1, <2>1, <2>2
<1>5. \A d \in Pr!Outputs, j \in Pr!Kids :
        v3'[d][j] > 0 => v3[d][j] > 0 /\ (v1.fd[d] = j => v1'.fd[d] = j)
  BY <1>3, <1>4 DEF Pr!Channels
<1>6. /\ v2' \in [Pr!Kids -> ChildStates]
      /\ \A j \in Pr!Kids : v2'[j] = v2[j] \/ (v2[j] = "running" /\ v2'[j] = "zombie")
  BY <1>1 DEF Pr!Inv, Pr!TypeOK, ChildStates
<1>7. v4' \in CallQueues /\ Pr!OneStart'
  BY <1>1, <1>4, SameCalls DEF SameChild
<1>8. \A d \in Pr!Channels : v1'.fd[d] \in {v1.fd[d], Pr!Closed}
  BY <1>4
<1> QED
  BY <1>1, <1>3, <1>4, <1>5, <1>6, <1>7, <1>8, Quiet

LEMMA ChildExitsKeeps ==
  ASSUME Pr!Inv, NEW k \in Pr!Kids, Pr!ChildExits(k), UNCHANGED v10
  PROVE  Pr!Inv'
<1>1. /\ v1' \in Pr!Members /\ Pr!Wired(v1') /\ SameChild(v1, v1') /\ v7' \in Pr!Loops
      /\ v3' \in [Pr!Outputs -> [Pr!Kids -> Nat]] /\ v8' \in [Pr!Outputs -> [Pr!Kids -> Nat]]
      /\ UNCHANGED <<v1, v3, v4, v5, v6, v7, v8, v9>>
  BY DEF Pr!Inv, Pr!TypeOK, Pr!ChildExits, SameChild
<1>2. /\ v2' \in [Pr!Kids -> ChildStates]
      /\ \A j \in Pr!Kids : v2'[j] = v2[j] \/ (v2[j] = "running" /\ v2'[j] = "zombie")
  BY DEF Pr!Inv, Pr!TypeOK, ChildStates, Pr!ChildExits
<1>3. v4' \in CallQueues /\ Pr!OneStart'
  BY <1>1, SameCalls
<1>4. \A d \in Pr!Channels : v1'.fd[d] \in {v1.fd[d], Pr!Closed}
  BY <1>1
<1>5. \A d \in Pr!Outputs, j \in Pr!Kids :
        v3'[d][j] > 0 => v3[d][j] > 0 /\ (v1.fd[d] = j => v1'.fd[d] = j)
  BY <1>1
<1> QED
  BY <1>1, <1>2, <1>3, <1>4, <1>5, Quiet

LEMMA ChildWritesKeeps ==
  ASSUME Pr!Inv, NEW c \in Pr!Outputs, NEW k \in Pr!Kids, Pr!ChildWrites(c, k), UNCHANGED v10
  PROVE  Pr!Inv'
<1>1. /\ v2[k] = "running" /\ v1.fd[c] = k
      /\ UNCHANGED <<v1, v2, v4, v5, v6, v7, v8, v9>>
  BY DEF Pr!ChildWrites
<1>2. /\ v3' \in [Pr!Outputs -> [Pr!Kids -> Nat]]
      /\ \A d \in Pr!Outputs, j \in Pr!Kids : v3'[d][j] = IF d = c
           /\ j = k THEN v3[d][j] + 1 ELSE v3[d][j]
  <2>1. v3 \in [Pr!Outputs -> [Pr!Kids -> Nat]] /\ v3[c] \in [Pr!Kids -> Nat]
        /\ v3[c][k] \in Nat
    BY DEF Pr!Inv, Pr!TypeOK
  <2>2. v3' = [v3 EXCEPT ![c] = [v3[c] EXCEPT ![k] = v3[c][k] + 1]]
    BY DEF Pr!ChildWrites
  <2>3. [v3[c] EXCEPT ![k] = v3[c][k] + 1] \in [Pr!Kids -> Nat]
    BY <2>1
  <2> QED
    BY <2>1, <2>2, <2>3
<1>3. Pr!TypeOK'
  BY <1>1, <1>2 DEF Pr!Inv, Pr!TypeOK
<1>4. Pr!Readable'
  <2>1. k > Len(v9)
    BY <1>1, ProcessFacts DEF Pr!Inv, Pr!InOrder, Pr!Kids
  <2> QED
    BY <1>1, <1>2, <2>1 DEF Pr!Inv, Pr!Readable
<1>5. Pr!Wired(v1)' /\ Pr!InOrder' /\ Pr!ExitInOrder' /\ Pr!OneStart' /\ Pr!WaitsForBorn'
  BY <1>1 DEF Pr!Inv, Pr!Wired, Pr!Watched, Pr!Open, Pr!InOrder, Pr!ExitInOrder, Pr!OneStart,
     Pr!StartPending, Pr!Starting,
     Pr!StartsOnce, Pr!WaitsForBorn, Pr!Born, Pr!Youngest, Pr!Exiting
<1> QED
  BY <1>3, <1>4, <1>5 DEF Pr!Inv

(* waitpid() has taken the child: it is the youngest.                      *)
LEMMA ReapKeeps ==
  ASSUME Pr!Inv, Pr!Reap, UNCHANGED v10
  PROVE  Pr!Inv'
<1>1. /\ v1 \in Pr!Members /\ Pr!Watched(v1) /\ v1.pid > 0 /\ v2[v1.pid] = "zombie"
      /\ v5 = "none"
      /\ UNCHANGED <<v3, v4, v7, v8, v9>> /\ v6' = v1.pid /\ v5' = "out"
      /\ v2' = [v2 EXCEPT ![v1.pid] = "reaped"] /\ v1.pid \in Pr!Kids /\ v1.pid # 0
  BY ProcessFacts DEF Pr!Inv, Pr!TypeOK, Pr!Wired, Pr!Reap
<1>2. v1.pid = Len(v9) + 1 /\ v1.state # "NotRunning"
  BY <1>1 DEF Pr!Inv, Pr!InOrder
<1>3. /\ v1' \in Pr!Members /\ Pr!Wired(v1') /\ v1'.state = v1.state /\ v1'.pid = v1.pid
      /\ v1'.fd["in"] = Pr!Closed
      /\ \A d \in Pr!Outputs : v1'.fd[d] = v1.fd[d]
  <2> DEFINE m == [v1 EXCEPT !.polling = FALSE]
  <2>1. /\ m = Row(m) /\ m.polling = FALSE /\ m.state = v1.state /\ m.pid = v1.pid
        /\ m.fd = v1.fd
        /\ m.watched = v1.watched /\ m.io = v1.io /\ m.wantOut = v1.wantOut
             /\ m.queue = v1.queue
        /\ m.merged = v1.merged
    BY <1>1, MembersAreRows, SetPolling
  <2>2. v1' = Pr!ClosePipeWrite(m)
    BY DEF Pr!Reap
  <2> HIDE DEF m
  <2>3. m.polling \in BOOLEAN
    BY <2>1
  <2>4. m \in Pr!Members
    BY <1>1, <2>1, <2>3, MemberFields, FieldsMakeMembers
  <2>5. Pr!Watched(m)
    BY <1>1, <2>1 DEF Pr!Watched, Pr!Open
  <2>6. "in" \in Pr!Channels /\ \A d \in Pr!Outputs : d \in Pr!Channels /\ d # "in"
    BY DEF Pr!Channels, Pr!Outputs
  <2> QED
    BY <2>1, <2>2, <2>4, <2>5, <2>6, WriteSets, WriteCloses DEF SameChild
<1>4. /\ v2' \in [Pr!Kids -> ChildStates] /\ v2'[v1.pid] = "reaped"
      /\ \A j \in Pr!Kids \ {v1.pid} : v2'[j] = v2[j]
  BY <1>1 DEF Pr!Inv, Pr!TypeOK, ChildStates
<1>5. Pr!Born' = Pr!Born
  BY <1>1, <1>4 DEF Pr!Born
<1>6. Pr!TypeOK'
  BY <1>1, <1>3, <1>4, ProcessFacts DEF Pr!Inv, Pr!TypeOK, ChildStates, Pr!Stages, Pr!Kids
<1>7. Pr!InOrder'
  <2>1. Pr!Youngest' = Pr!Youngest /\ Pr!Exiting'
    BY <1>1, <1>3 DEF Pr!Youngest, Pr!Exiting
  <2>2. \A j \in Pr!Kids : j <= Len(v9) => v2'[j] = "reaped"
    BY <1>4 DEF Pr!Inv, Pr!InOrder
  <2> QED
    BY <1>1, <1>2, <1>3, <1>5, <2>1, <2>2 DEF Pr!Inv, Pr!InOrder
<1>8. Pr!ExitInOrder'
  BY <1>1, <1>3, <1>4 DEF Pr!ExitInOrder
<1>9. Pr!OneStart'
  <2>1. ~Pr!StartPending
    BY <1>2 DEF Pr!Inv, Pr!OneStart
  <2> QED
    BY <1>1, <2>1 DEF Pr!Inv, Pr!OneStart, Pr!StartPending, Pr!Starting, Pr!StartsOnce
<1>10. Pr!Readable'
  BY <1>1, <1>3 DEF Pr!Inv, Pr!Readable
<1>11. Pr!WaitsForBorn'
  <2>1. Pr!Born = 1 .. v1.pid
    BY <1>1 DEF Pr!Inv, Pr!InOrder, Pr!Youngest
  <2> QED
    BY <1>1, <1>5, <2>1, ProcessFacts DEF Pr!Inv, Pr!WaitsForBorn, Pr!Exiting, Pr!Kids,
       Pr!TypeOK
<1>12. Pr!Wired(v1)'
  BY <1>3 DEF Pr!Wired, Pr!Watched, Pr!Open
<1> QED
  BY <1>6, <1>7, <1>8, <1>9, <1>10, <1>11, <1>12 DEF Pr!Inv

LEMMA ExitDrainKeeps ==
  ASSUME Pr!Inv, NEW c \in Pr!Outputs, Pr!ExitDrain(c), UNCHANGED v10
  PROVE  Pr!Inv'
<1> DEFINE k == v1.fd[c]
<1>1. /\ v1 \in Pr!Members /\ Pr!Watched(v1) /\ Pr!Wired(v1) /\ v5 = c /\ Pr!Exiting
      /\ Pr!Exiting'
      /\ v5' = (IF c = "out" THEN "err" ELSE "state")
      /\ UNCHANGED <<v2, v4, v6, v7, v9>>
      /\ v1.pid = v6 /\ v1.fd["in"] = Pr!Closed /\ (c = "err" => v1.fd["out"] = Pr!Closed)
  BY DEF Pr!Inv, Pr!TypeOK, Pr!Wired, Pr!ExitDrain, Pr!Exiting, Pr!ExitInOrder, Pr!Outputs
<1>2. /\ v1' \in Pr!Members /\ Pr!Wired(v1') /\ SameChild(v1, v1')
      /\ \A d \in Pr!Channels : v1'.fd[d] = IF d = c THEN Pr!Closed ELSE v1.fd[d]
      /\ v3' \in [Pr!Outputs -> [Pr!Kids -> Nat]] /\ v8' \in [Pr!Outputs -> [Pr!Kids -> Nat]]
      /\ \A d \in Pr!Outputs, j \in Pr!Kids :
           v3'[d][j] > 0 => v3[d][j] > 0 /\ ~(d = c /\ v1.fd[d] = j)
  <2>1. CASE v1.fd[c] = Pr!Closed
    <3>1. UNCHANGED <<v1, v3, v8>>
      BY <2>1 DEF Pr!ExitDrain, Pr!DrainThenClose
    <3> QED
      BY <1>1, <2>1, <3>1 DEF SameChild, Pr!Inv, Pr!TypeOK, Pr!Closed, Pr!Kids
  <2>2. CASE v1.fd[c] # Pr!Closed
    <3>1. Pr!Drain(c, k) /\ v1' = Pr!ClosePipeRead(v1, c)
      BY <2>2 DEF Pr!ExitDrain, Pr!DrainThenClose
    <3>2. k \in Pr!Kids
      BY <1>1, <2>2, MemberFields, ProcessAssumption DEF Pr!Kids, Pr!Channels, Pr!Closed
    <3>3. /\ v3' \in [Pr!Outputs -> [Pr!Kids -> Nat]]
          /\ v8' \in [Pr!Outputs -> [Pr!Kids -> Nat]]
          /\ \A d \in Pr!Outputs, j \in Pr!Kids : v3'[d][j] = IF d = c
               /\ j = k THEN 0 ELSE v3[d][j]
      BY <3>1, <3>2, Drains
    <3>4. /\ v1' \in Pr!Members /\ Pr!Watched(v1') /\ SameChild(v1, v1') /\ v1'.queue = v1.queue
          /\ v1'.wantOut = v1.wantOut
          /\ \A d \in Pr!Channels : v1'.fd[d] = IF d = c THEN Pr!Closed ELSE v1.fd[d]
      BY <1>1, <3>1, ReadSets, ReadCloses
    <3> QED
      BY <1>1, <3>3, <3>4 DEF Pr!Wired
  <2> QED
    BY <2>1, <2>2
<1>3. v1'.pid = v1.pid /\ v1'.state = v1.state
  BY <1>2 DEF SameChild
<1>4. {"in", "out", "err"} \subseteq Pr!Channels
  BY DEF Pr!Channels, Pr!Outputs
<1>5. Pr!TypeOK'
  BY <1>1, <1>2 DEF Pr!Inv, Pr!TypeOK, Pr!Stages
<1>6. Pr!InOrder'
  BY <1>1, <1>3 DEF Pr!Inv, Pr!InOrder, Pr!Youngest, Pr!Born, Pr!Exiting
<1>7. Pr!ExitInOrder'
  BY <1>1, <1>2, <1>3, <1>4 DEF Pr!Inv, Pr!ExitInOrder, Pr!Outputs
<1>8. Pr!OneStart'
  <2>1. ~Pr!StartPending
    BY <1>1 DEF Pr!Inv, Pr!OneStart, Pr!Exiting
  <2> QED
    BY <1>1, <2>1 DEF Pr!Inv, Pr!OneStart, Pr!StartPending, Pr!Starting, Pr!StartsOnce
<1>9. Pr!Readable'
  BY <1>1, <1>2 DEF Pr!Inv, Pr!Readable, Pr!Exiting, Pr!Channels
<1>10. Pr!WaitsForBorn'
  BY <1>1 DEF Pr!Inv, Pr!WaitsForBorn, Pr!Born
<1>11. Pr!Wired(v1)'
  BY <1>2 DEF Pr!Wired, Pr!Watched, Pr!Open
<1> QED
  BY <1>5, <1>6, <1>7, <1>8, <1>9, <1>10, <1>11 DEF Pr!Inv

LEMMA ExitStateKeeps ==
  ASSUME Pr!Inv, Pr!ExitState, UNCHANGED v10
  PROVE  Pr!Inv'
<1>1. /\ v1 \in Pr!Members /\ Pr!Wired(v1) /\ v5 = "state" /\ Pr!Exiting /\ v5' = "finished"
      /\ UNCHANGED <<v2, v3, v4, v6, v7, v8, v9>>
      /\ v1.pid = v6 /\ v6 \in Pr!Kids
  BY ProcessFacts DEF Pr!Inv, Pr!TypeOK, Pr!ExitState, Pr!Exiting, Pr!ExitInOrder
<1>2. \A d \in Pr!Channels : v1.fd[d] = Pr!Closed
  BY <1>1 DEF Pr!Inv, Pr!ExitInOrder, Pr!Channels, Pr!Outputs
<1>3. /\ v1' \in Pr!Members /\ v1'.pid = 0 /\ v1'.state = "NotRunning" /\ v1'.fd = v1.fd
      /\ Pr!Wired(v1')
  <2> DEFINE a == [v1 EXCEPT !.pid = 0]
             n == [a EXCEPT !.state = "NotRunning"]
  <2>1. v1' = n
    BY DEF Pr!ExitState
  <2> HIDE DEF a, n
  <2>2. /\ a = Row(a) /\ a.pid = 0 /\ a.state = v1.state /\ a.fd = v1.fd
        /\ a.watched = v1.watched
        /\ a.io = v1.io /\ a.wantOut = v1.wantOut /\ a.queue = v1.queue
             /\ a.polling = v1.polling
        /\ a.merged = v1.merged
    BY <1>1, MembersAreRows, SetPid DEF a
  <2>3. /\ n = Row(n) /\ n.pid = 0 /\ n.state = "NotRunning" /\ n.fd = v1.fd
        /\ n.watched = v1.watched
        /\ n.io = v1.io /\ n.wantOut = v1.wantOut /\ n.queue = v1.queue
             /\ n.polling = v1.polling
        /\ n.merged = v1.merged
    BY <2>2, SetState DEF n
  <2>4. n \in Pr!Members
    BY <1>1, <2>3, MemberFields, FieldsMakeMembers, ProcessAssumption
  <2>5. Pr!Open(n) = {} /\ Pr!Open(v1) = {}
    BY <1>2, <2>3 DEF Pr!Open
  <2>6. Pr!Wired(n)
    BY <1>1, <2>3, <2>5 DEF Pr!Wired, Pr!Watched
  <2> QED
    BY <2>1, <2>3, <2>4, <2>6
<1>4. Pr!TypeOK'
  BY <1>1, <1>3 DEF Pr!Inv, Pr!TypeOK, Pr!Stages
<1>5. Pr!InOrder'
  <2>0. v6 # 0
    BY <1>1, ProcessFacts DEF Pr!Kids
  <2>1. Pr!Youngest = v6 /\ Pr!Youngest' = v6
    BY <1>1, <1>3, <2>0 DEF Pr!Youngest
  <2>2. Pr!Born' = Pr!Born /\ Pr!Exiting'
    BY <1>1 DEF Pr!Born, Pr!Exiting
  <2> QED
    BY <1>1, <1>3, <2>1, <2>2 DEF Pr!Inv, Pr!InOrder
<1>6. Pr!ExitInOrder'
  BY <1>1, <1>3 DEF Pr!Inv, Pr!ExitInOrder
<1>7. Pr!OneStart'
  <2>1. ~Pr!StartPending
    BY <1>1 DEF Pr!Inv, Pr!OneStart
  <2> QED
    BY <1>1, <2>1 DEF Pr!Inv, Pr!OneStart, Pr!StartPending, Pr!Starting, Pr!StartsOnce
<1>8. Pr!Readable'
  BY <1>1, <1>3 DEF Pr!Inv, Pr!Readable
<1>9. Pr!WaitsForBorn'
  BY <1>1 DEF Pr!Inv, Pr!WaitsForBorn, Pr!Born
<1>10. Pr!Wired(v1)'
  BY <1>3 DEF Pr!Wired, Pr!Watched, Pr!Open
<1> QED
  BY <1>4, <1>5, <1>6, <1>7, <1>8, <1>9, <1>10 DEF Pr!Inv

-----------------------------------------------------------------------------
(* The record of waitForFinished().                                        *)
WaitRecords == [by : {"none", "owner", "caller"}, kid : 0 .. MaxChildren, told : SUBSET Pr!Kids]

LEMMA SetBy ==
  ASSUME NEW w \in WaitRecords, NEW x \in {"none", "owner", "caller"}
  PROVE  LET n == [w EXCEPT !.by = x] IN
         n \in WaitRecords /\ n.by = x /\ n.kid = w.kid /\ n.told = w.told
  BY DEF WaitRecords

LEMMA SetKid ==
  ASSUME NEW w \in WaitRecords, NEW x \in 0 .. MaxChildren
  PROVE  LET n == [w EXCEPT !.kid = x] IN
         n \in WaitRecords /\ n.kid = x /\ n.by = w.by /\ n.told = w.told
  BY DEF WaitRecords

(* What is known of the wait.                                              *)
LEMMA Waiting ==
  ASSUME Pr!Inv
  PROVE  /\ v10 \in WaitRecords /\ v10.kid \in 0 .. MaxChildren /\ v10.told \subseteq Pr!Kids
         /\ v10.by \in {"none", "owner", "caller"}
         /\ v4 \in CallQueues /\ Pr!StartsOnce(v4) /\ v7 \in Pr!Loops
         /\ v10.kid # 0 => v10.kid \in Pr!Born
         /\ v10.by = "caller" /\ Pr!Exiting => v10.kid <= v6
         /\ \A k \in v10.told : k <= Len(v9)
<1>1. v10 \in WaitRecords /\ v4 \in CallQueues /\ v7 \in Pr!Loops
  BY DEF Pr!Inv, Pr!TypeOK, WaitRecords, CallQueues
<1>2. v10.kid \in 0 .. MaxChildren /\ v10.told \subseteq Pr!Kids /\ v10.by \in {"none", "owner",
      "caller"}
  BY <1>1 DEF WaitRecords
<1> QED
  BY <1>1, <1>2 DEF Pr!Inv, Pr!OneStart, Pr!WaitsForBorn

LEMMA ExitFinishedKeeps ==
  ASSUME Pr!Inv, Pr!ExitFinished, Pr!AfterExit
  PROVE  Pr!Inv'
<1>1. /\ v5 = "finished" /\ v5' = "none" /\ Pr!Exiting /\ v6 \in Pr!Kids /\ v6' = 0
      /\ UNCHANGED <<v1, v2, v3, v4, v7, v8>> /\ v9' = Append(v9, v6)
      /\ v6 = Len(v9) + 1 /\ v2[v6] = "reaped" /\ ~Pr!Exiting'
      /\ Len(v9) \in Nat /\ v9 \in Seq(Pr!Kids)
  BY ProcessFacts DEF Pr!Inv, Pr!TypeOK, Pr!ExitFinished, Pr!Exiting, Pr!ExitInOrder, Pr!InOrder
<1>2. /\ v9' \in Seq(Pr!Kids) /\ Len(v9') = v6 /\ DOMAIN v9' = 1 .. v6
      /\ \A i \in 1 .. v6 : v9'[i] = i
  <2>1. \A i \in 1 .. Len(v9) : v9[i] = i
    BY ProcessFacts DEF Pr!Inv, Pr!InOrder
  <2> QED
    BY <1>1, <2>1
<1>3. v10' \in WaitRecords
      /\ v10'.kid \in {v10.kid, 0}
      /\ \A k \in v10'.told : k \in v10.told \/ (k = v10.kid /\ v10.by = "caller" /\ k # 0)
  <2>1. v10 \in WaitRecords /\ v10.kid \in 0 .. MaxChildren
    BY Waiting
  <2>2. CASE v10.by = "caller"
    <3>1. v10' = Pr!Answered(v10)
      BY <2>2 DEF Pr!AfterExit
    <3>2. v10.kid \in {0} \union Pr!Kids /\ v10.told \subseteq Pr!Kids
      BY Waiting, ProcessFacts DEF Pr!Kids
    <3> QED
      BY <2>2, <3>1, <3>2, ProcessAssumption DEF Pr!Answered, WaitRecords
  <2>3. CASE v10.by = "owner"
    <3>1. v10' = [v10 EXCEPT !.by = "none"]
      BY <2>3 DEF Pr!AfterExit
    <3> QED
      BY <2>1, <3>1, SetBy
  <2>4. CASE v10.by = "none"
    BY <2>1, <2>4 DEF Pr!AfterExit
  <2> QED
    BY <2>2, <2>3, <2>4, Waiting
<1>4. Pr!TypeOK'
  BY <1>1, <1>2, <1>3, ProcessAssumption DEF Pr!Inv, Pr!TypeOK, Pr!Stages, WaitRecords
<1>5. Pr!InOrder'
  <2>1. Pr!Youngest' = Pr!Youngest /\ Pr!Born' = Pr!Born
    BY <1>1, <1>2, ProcessFacts DEF Pr!Youngest, Pr!Born, Pr!Kids
  <2>2. \A k \in Pr!Kids : k <= v6 => v2[k] = "reaped"
    BY <1>1 DEF Pr!Inv, Pr!InOrder, Pr!Kids
  <2>3. v6 <= MaxChildren /\ v6 # 0
    BY <1>1, ProcessFacts DEF Pr!Kids
  <2>4. v1.pid # 0 => v1.pid = v6 + 1
    BY <1>1 DEF Pr!Inv, Pr!InOrder
  <2>5. v1.pid = 0 <=> v1.state = "NotRunning"
    BY <1>1 DEF Pr!Inv, Pr!InOrder
  <2>6. Pr!Born = 1 .. Pr!Youngest
    BY <1>1 DEF Pr!Inv, Pr!InOrder
  <2> QED
    BY <1>1, <1>2, <2>1, <2>2, <2>3, <2>4, <2>5, <2>6 DEF Pr!InOrder
<1>6. Pr!ExitInOrder'
  BY <1>1 DEF Pr!Inv, Pr!ExitInOrder
<1>7. Pr!OneStart'
  <2>1. ~Pr!StartPending
    BY <1>1 DEF Pr!Inv, Pr!OneStart
  <2> QED
    BY <1>1, <2>1 DEF Pr!Inv, Pr!OneStart, Pr!StartPending, Pr!Starting, Pr!StartsOnce
<1>8. Pr!Readable'
  <2> SUFFICES ASSUME NEW c \in Pr!Outputs, NEW k \in Pr!Kids, v3[c][k] > 0
               PROVE  v1.fd[c] = k /\ k > v6
    BY <1>1, <1>2 DEF Pr!Readable
  <2>1. v1.fd[c] = k
    BY <1>1 DEF Pr!Inv, Pr!Readable
  <2>2. k = v1.pid
    BY <2>1, ProcessFacts DEF Pr!Inv, Pr!Wired, Pr!Watched, Pr!Open, Pr!Closed, Pr!Kids,
       Pr!Channels
  <2>3. v1.pid # 0 => v1.pid = v6 + 1
    BY <1>1 DEF Pr!Inv, Pr!InOrder
  <2> QED
    BY <1>1, <2>1, <2>2, <2>3, ProcessFacts DEF Pr!Kids
<1>9. Pr!WaitsForBorn'
  <2>1. Pr!Born' = Pr!Born
    BY <1>1 DEF Pr!Born
  <2>2. \A k \in v10.told : k <= Len(v9) /\ k \in Pr!Kids
    BY DEF Pr!Inv, Pr!WaitsForBorn, Pr!TypeOK
  <2>3. v10.by = "caller" => v10.kid <= v6
    BY <1>1 DEF Pr!Inv, Pr!WaitsForBorn
  <2>4. \A k \in v10'.told : k <= Len(v9')
    BY <1>1, <1>2, <1>3, <2>2, <2>3, ProcessFacts DEF Pr!Kids
  <2>5. v10'.kid # 0 => v10'.kid \in Pr!Born'
    BY <1>3, <2>1 DEF Pr!Inv, Pr!WaitsForBorn
  <2> QED
    BY <1>1, <2>4, <2>5 DEF Pr!WaitsForBorn
<1>10. Pr!Wired(v1)'
  BY <1>1 DEF Pr!Inv, Pr!Wired, Pr!Watched, Pr!Open
<1> QED
  BY <1>4, <1>5, <1>6, <1>7, <1>8, <1>9, <1>10 DEF Pr!Inv

LEMMA DestroyKeeps ==
  ASSUME Pr!Inv, Pr!Destroy, v10' = [v10 EXCEPT !.kid = 0]
  PROVE  Pr!Inv'
<1>1. /\ v1 \in Pr!Members /\ Pr!Watched(v1) /\ v5 = "none" /\ v5' = "destroyed" /\ v6 = 0
      /\ UNCHANGED <<v3, v6, v7, v8, v9>>
      /\ v4' = [l \in Pr!Loops |-> <<>>]
      /\ v2' = [k \in Pr!Kids |-> IF k = v1.pid THEN "reaped" ELSE v2[k]]
  BY DEF Pr!Inv, Pr!TypeOK, Pr!Wired, Pr!Destroy, Pr!OwnerFree, Pr!InOrder, Pr!Exiting
<1>2. v1' \in Pr!Members /\ Pr!Wired(v1') /\ v1'.pid = 0
  <2> DEFINE m == Pr!UnregisterIOWatches(v1)
             a == [m EXCEPT !.polling = FALSE]
             b == [a EXCEPT !.pid = 0]
  <2>1. v1' = Pr!CleanupProcessResources(b)
    BY DEF Pr!Destroy
  <2>2. m \in Pr!Members /\ m.io = {} /\ m.watched = {}
    BY <1>1, Unregisters
  <2> HIDE DEF m, a, b
  <2>3. /\ a = Row(a) /\ a.polling = FALSE /\ a.state = m.state /\ a.fd = m.fd /\ a.watched = {}
        /\ a.io = {} /\ a.wantOut = m.wantOut /\ a.queue = m.queue /\ a.merged = m.merged
    BY <2>2, MembersAreRows, SetPolling DEF a
  <2>4. /\ b = Row(b) /\ b.pid = 0 /\ b.polling = FALSE /\ b.state = m.state /\ b.fd = m.fd
        /\ b.watched = {} /\ b.io = {} /\ b.wantOut = m.wantOut /\ b.queue = m.queue
        /\ b.merged = m.merged
    BY <2>3, SetPid DEF b
  <2>5. b \in Pr!Members
    <3>1. b.polling \in BOOLEAN
      BY <2>4
    <3>4. b.pid \in 0 .. MaxChildren
      BY <2>4, ProcessAssumption
    <3>2. m.wantOut \in BOOLEAN /\ m.merged \in BOOLEAN
      BY <2>2, MemberFields
    <3>3. m.fd \in [Pr!Channels -> 0 .. MaxChildren] /\ m.queue \in Nat
          /\ m.state \in {"NotRunning", "Running"}
      BY <2>2, MemberFields
    <3> QED
      BY <2>4, <3>1, <3>2, <3>3, <3>4, FieldsMakeMembers
  <2> QED
    BY <2>1, <2>4, <2>5, CleansUp
<1>3. /\ v2' \in [Pr!Kids -> ChildStates]
      /\ \A k \in Pr!Kids : v2'[k] = IF k = v1.pid THEN "reaped" ELSE v2[k]
  BY <1>1 DEF Pr!Inv, Pr!TypeOK, ChildStates
<1>4. v4' \in CallQueues /\ ~Pr!StartPending' /\ Pr!StartsOnce(v4')
  BY <1>1 DEF CallQueues, Pr!StartPending, Pr!Starting, Pr!StartsOnce
<1>5. v10' \in WaitRecords /\ v10'.kid = 0 /\ v10'.told = v10.told
  <2>1. 0 \in 0 .. MaxChildren
    BY ProcessAssumption
  <2> QED
    BY <2>1, Waiting, SetKid
<1>6. Pr!TypeOK'
  BY <1>1, <1>2, <1>3, <1>4, <1>5 DEF Pr!Inv, Pr!TypeOK, ChildStates, CallQueues, Pr!Stages,
     WaitRecords
<1>7. Pr!InOrder'
  <2>1. \A k \in Pr!Kids : k <= Len(v9) => v2'[k] = "reaped"
    BY <1>3 DEF Pr!Inv, Pr!InOrder
  <2>2. \A k \in Pr!Born' : v2'[k] = "reaped"
    <3> SUFFICES ASSUME NEW k \in Pr!Kids, v2'[k] # "unborn" PROVE v2'[k] = "reaped"
      BY DEF Pr!Born
    <3>1. CASE k = v1.pid
      BY <1>3, <3>1
    <3>2. CASE k # v1.pid
      <4>1. k \in 1 .. Pr!Youngest
        BY <1>1, <1>3, <3>2 DEF Pr!Inv, Pr!InOrder, Pr!Born
      <4>2. k <= Len(v9)
        BY <1>1, <3>2, <4>1, ProcessFacts DEF Pr!Youngest, Pr!Inv, Pr!InOrder, Pr!Kids
      <4> QED
        BY <2>1, <4>2
    <3> QED
      BY <3>1, <3>2
  <2> QED
    BY <1>1, <1>2, <2>1, <2>2 DEF Pr!Inv, Pr!InOrder, Pr!Exiting
<1>8. Pr!ExitInOrder'
  BY <1>1 DEF Pr!ExitInOrder, Pr!Exiting
<1>9. Pr!OneStart'
  <2>1. Pr!StartsOnce(v4)'
    BY <1>4 DEF Pr!StartsOnce
  <2> QED
    BY <1>4, <2>1 DEF Pr!OneStart
<1>10. Pr!Readable'
  BY <1>1 DEF Pr!Inv, Pr!Readable
<1>11. Pr!WaitsForBorn'
  BY <1>1, <1>5 DEF Pr!Inv, Pr!WaitsForBorn, Pr!Exiting
<1>12. Pr!Wired(v1)'
  BY <1>2 DEF Pr!Wired, Pr!Watched, Pr!Open
<1> QED
  BY <1>6, <1>7, <1>8, <1>9, <1>10, <1>11, <1>12 DEF Pr!Inv

(* The waiting of others: only `wait' and the closures change.             *)
LEMMA OnlyWaits ==
  ASSUME Pr!Inv, UNCHANGED <<v1, v2, v3, v5, v6, v7, v8, v9>>,
         v4' \in CallQueues, Pr!StartsOnce(v4'), Pr!Starting(v4') => Pr!Starting(v4),
         v10' \in WaitRecords,
         v10'.kid # 0 => v10'.kid \in Pr!Born,
         v10'.by = "caller" /\ Pr!Exiting => v10'.kid <= v6,
         \A k \in v10'.told : k <= Len(v9)
  PROVE  Pr!Inv'
<1>1. Pr!TypeOK'
  BY DEF Pr!Inv, Pr!TypeOK, CallQueues, WaitRecords
<1>2. Pr!OneStart'
  BY NoStart DEF Pr!Inv
<1>3. Pr!Wired(v1)' /\ Pr!InOrder' /\ Pr!ExitInOrder' /\ Pr!Readable'
  BY DEF Pr!Inv, Pr!Wired, Pr!Watched, Pr!Open, Pr!InOrder, Pr!ExitInOrder, Pr!Readable,
     Pr!Born, Pr!Youngest, Pr!Exiting
<1>4. Pr!WaitsForBorn'
  BY DEF Pr!WaitsForBorn, Pr!Born, Pr!Exiting
<1> QED
  BY <1>1, <1>2, <1>3, <1>4 DEF Pr!Inv

LEMMA WaitForFinishedKeeps ==
  ASSUME Pr!Inv, Pr!WaitForFinished
  PROVE  Pr!Inv'
<1>1. v10' = [v10 EXCEPT !.by = "owner"] /\ UNCHANGED <<v1, v2, v3, v4, v5, v6, v7, v8, v9>>
  BY DEF Pr!WaitForFinished
<1>2. v10' \in WaitRecords /\ v10'.by = "owner" /\ v10'.kid = v10.kid /\ v10'.told = v10.told
  BY <1>1, Waiting, SetBy
<1> QED
  BY <1>1, <1>2, Waiting, OnlyWaits

LEMMA PostWaitKeeps ==
  ASSUME Pr!Inv, Pr!PostWait
  PROVE  Pr!Inv'
<1>1. /\ v10' = [v10 EXCEPT !.kid = v1.pid] /\ v10.by # "caller"
      /\ v4' = [v4 EXCEPT ![v7] = Append(@, "wait")]
      /\ UNCHANGED <<v1, v2, v3, v5, v6, v7, v8, v9>>
      /\ v1.state # "NotRunning" /\ v5 # "destroyed"
  BY DEF Pr!PostWait
<1>2. v1.pid \in Pr!Kids /\ v1.pid \in Pr!Born /\ v1.pid \in 0 .. MaxChildren
  <2>1. v1.pid # 0
    BY <1>1 DEF Pr!Inv, Pr!InOrder
  <2>2. Pr!Born = 1 .. v1.pid
    BY <1>1, <2>1 DEF Pr!Inv, Pr!InOrder, Pr!Youngest
  <2> QED
    BY <2>1, <2>2, ProcessFacts DEF Pr!Kids
<1>3. v10' \in WaitRecords /\ v10'.by = v10.by /\ v10'.kid = v1.pid /\ v10'.told = v10.told
  BY <1>1, <1>2, Waiting, SetKid
<1>4. v4' \in CallQueues /\ Pr!StartsOnce(v4') /\ (Pr!Starting(v4') => Pr!Starting(v4))
  <2>1. "wait" \in Pr!Ops \union {"wait"} /\ "wait" # "start"
    OBVIOUS
  <2> QED
    BY <1>1, <2>1, Waiting, Pushes
<1> QED
  BY <1>1, <1>2, <1>3, <1>4, Waiting, OnlyWaits

LEMMA CallerGivesUpKeeps ==
  ASSUME Pr!Inv, Pr!CallerGivesUp
  PROVE  Pr!Inv'
<1>1. v10' = [v10 EXCEPT !.kid = 0] /\ UNCHANGED <<v1, v2, v3, v4, v5, v6, v7, v8, v9>>
  BY DEF Pr!CallerGivesUp
<1>2. 0 \in 0 .. MaxChildren
  BY ProcessAssumption
<1>3. v10' \in WaitRecords /\ v10'.by = v10.by /\ v10'.kid = 0 /\ v10'.told = v10.told
  BY <1>1, <1>2, Waiting, SetKid
<1>4. Pr!Exiting => 0 <= v6
  BY ProcessFacts DEF Pr!Kids
<1> QED
  BY <1>1, <1>3, <1>4, Waiting, OnlyWaits

LEMMA WaitTimesOutKeeps ==
  ASSUME Pr!Inv, Pr!WaitTimesOut
  PROVE  Pr!Inv'
<1>1. /\ v5 = "none" /\ UNCHANGED <<v1, v2, v3, v4, v5, v6, v7, v8, v9>>
      /\ v10' = [v10 EXCEPT !.by = "none", !.kid = IF v10.by = "caller" THEN 0 ELSE @]
  BY DEF Pr!WaitTimesOut
<1>2. v10' \in WaitRecords /\ v10'.by = "none" /\ v10'.kid \in {v10.kid, 0}
      /\ v10'.told = v10.told
  <2> DEFINE a == [v10 EXCEPT !.by = "none"]
             x == IF v10.by = "caller" THEN 0 ELSE a.kid
             n == [a EXCEPT !.kid = x]
  <2>1. v10' = n
    BY <1>1
  <2>2. a \in WaitRecords /\ a.by = "none" /\ a.kid = v10.kid /\ a.told = v10.told
    BY Waiting, SetBy
  <2> HIDE DEF a
  <2>3. x \in 0 .. MaxChildren /\ x \in {v10.kid, 0}
    BY <2>2, Waiting, ProcessAssumption
  <2> HIDE DEF x
  <2>4. n \in WaitRecords /\ n.by = "none" /\ n.kid = x /\ n.told = a.told
    BY <2>2, <2>3, SetKid
  <2> HIDE DEF n
  <2> QED
    BY <2>1, <2>2, <2>3, <2>4
<1> QED
  BY <1>1, <1>2, Waiting, OnlyWaits DEF Pr!Exiting

LEMMA RunWaitKeeps ==
  ASSUME Pr!Inv, NEW l \in Pr!Loops, Pr!RunWait(l)
  PROVE  Pr!Inv'
<1> DEFINE popped == [v4 EXCEPT ![l] = Tail(@)]
<1>1. /\ v5 = "none" /\ ~Pr!Exiting /\ v4[l] # <<>>
      /\ UNCHANGED <<v1, v2, v3, v5, v6, v7, v8, v9>>
  BY DEF Pr!RunWait, Pr!OwnerFree, Pr!Exiting
<1>2. popped \in CallQueues /\ Pr!StartsOnce(popped) /\ (Pr!Starting(popped) => Pr!Starting(v4))
  BY <1>1, Waiting, Pops
<1> HIDE DEF popped
<1>3. CASE l # v7
  <2>1. v4' = [popped EXCEPT ![v7] = Append(@, "wait")] /\ UNCHANGED v10
    BY <1>3 DEF Pr!RunWait, popped
  <2>2. "wait" \in Pr!Ops \union {"wait"} /\ "wait" # "start"
    OBVIOUS
  <2>3. v4' \in CallQueues /\ Pr!StartsOnce(v4') /\ (Pr!Starting(v4') => Pr!Starting(popped))
    BY <1>2, <2>1, <2>2, Waiting, Pushes
  <2> QED
    BY <1>1, <1>2, <2>1, <2>3, Waiting, OnlyWaits
<1>4. CASE l = v7
  <2>1. v4' = popped
        /\ v10' = IF v1.state = "NotRunning" THEN Pr!Answered(v10) ELSE [v10 EXCEPT !.by = "caller"]
    BY <1>4 DEF Pr!RunWait, popped
  <2>2. CASE v1.state # "NotRunning"
    <3>1. v10' \in WaitRecords /\ v10'.kid = v10.kid /\ v10'.told = v10.told
      BY <2>1, <2>2, Waiting, SetBy
    <3> QED
      BY <1>1, <1>2, <2>1, <3>1, Waiting, OnlyWaits
  <2>3. CASE v1.state = "NotRunning"
    <3>1. Pr!Born = 1 .. Len(v9)
      BY <1>1, <2>3 DEF Pr!Inv, Pr!InOrder, Pr!Youngest, Pr!Exiting
    <3>2. v10.kid \in Pr!Born \union {0} /\ Pr!Born \subseteq Pr!Kids
      BY Waiting DEF Pr!Born
    <3>3. /\ v10' \in WaitRecords /\ v10'.kid = 0
          /\ v10'.told = v10.told \union ({v10.kid} \ {0})
      BY <2>1, <2>3, <3>2, Waiting, ProcessAssumption DEF Pr!Answered, WaitRecords
    <3>4. \A k \in v10'.told : k <= Len(v9)
      BY <3>1, <3>2, <3>3, Waiting
    <3> QED
      BY <1>1, <1>2, <2>1, <3>3, <3>4, Waiting, OnlyWaits
  <2> QED
    BY <2>2, <2>3
<1> QED
  BY <1>3, <1>4

-----------------------------------------------------------------------------
(* Nothing has been started.                                               *)
LEMMA ProcessInit == Pr!Init => Pr!Inv
<1> SUFFICES ASSUME Pr!Init PROVE Pr!Inv
  OBVIOUS
<1>1. v1 \in Pr!Members /\ Pr!Open(v1) = {} /\ v1.io = {} /\ v1.watched = {} /\ v1.queue = 0
      /\ v1.pid = 0
      /\ v1.state = "NotRunning" /\ \A c \in Pr!Channels : v1.fd[c] = Pr!Closed
  BY ProcessAssumption DEF Pr!Init, Pr!Members, Pr!Open, Pr!Closed
<1>2. /\ v2 \in [Pr!Kids -> {"unborn", "running", "zombie", "reaped"}] /\ Pr!Born = {}
      /\ v3 \in [Pr!Outputs -> [Pr!Kids -> Nat]] /\ v8 \in [Pr!Outputs -> [Pr!Kids -> Nat]]
      /\ \A c \in Pr!Outputs, k \in Pr!Kids : v3[c][k] = 0
  BY DEF Pr!Init, Pr!Born
<1>3. /\ v4 \in [Pr!Loops -> Seq(Pr!Ops \union {"wait"})] /\ \A l \in Pr!Loops : v4[l] = <<>>
      /\ v5 = "none" /\ v6 = 0 /\ v7 \in Pr!Loops
  BY DEF Pr!Init, Pr!Loops
<1>4. v9 \in Seq(Pr!Kids) /\ Len(v9) = 0 /\ DOMAIN v9 = {}
  BY DEF Pr!Init
<1>5. v10.by = "none" /\ v10.kid = 0 /\ v10.told = {}
      /\ v10 \in [by : {"none", "owner", "caller"}, kid : 0 .. MaxChildren,
         told : SUBSET Pr!Kids]
  BY ProcessAssumption DEF Pr!Init
<1>6. Pr!TypeOK
  BY <1>1, <1>2, <1>3, <1>4, <1>5, ProcessAssumption DEF Pr!TypeOK, Pr!Stages
<1>7. Pr!Wired(v1)
  BY <1>1 DEF Pr!Wired, Pr!Watched
<1>8. Pr!InOrder
  <2>1. Pr!Youngest = 0 /\ ~Pr!Exiting
    BY <1>1, <1>3, <1>4 DEF Pr!Youngest, Pr!Exiting
  <2> QED
    BY <1>1, <1>2, <1>3, <1>4, <2>1, ProcessAssumption DEF Pr!InOrder, Pr!Kids
<1>9. Pr!ExitInOrder
  BY <1>1, <1>3 DEF Pr!ExitInOrder, Pr!Exiting
<1>10. Pr!OneStart
  BY <1>3 DEF Pr!OneStart, Pr!StartPending, Pr!Starting, Pr!StartsOnce
<1>11. Pr!Readable
  BY <1>2 DEF Pr!Readable
<1>12. Pr!WaitsForBorn
  BY <1>5 DEF Pr!WaitsForBorn
<1> QED
  BY <1>6, <1>7, <1>8, <1>9, <1>10, <1>11, <1>12 DEF Pr!Inv

LEMMA ProcessNext == Pr!Inv /\ [Pr!Next]_Pr!vars => Pr!Inv'
<1> SUFFICES ASSUME Pr!Inv, [Pr!Next]_Pr!vars PROVE Pr!Inv'
  OBVIOUS
<1>1. ASSUME NEW op \in Pr!Ops, Pr!Call(op) \/ Pr!PostCall(op), UNCHANGED v10 PROVE Pr!Inv'
  BY <1>1, CallKeeps, PostCallKeeps
<1>2. ASSUME NEW l \in Pr!Loops, Pr!RunCall(l), UNCHANGED v10 PROVE Pr!Inv'
  BY <1>2, RunCallKeeps
<1>3. CASE Pr!Move /\ UNCHANGED v10
  BY <1>3, MoveKeeps
<1>4. CASE Pr!SetMergedChannels /\ UNCHANGED <<v4, v5, v6, v7>> /\ UNCHANGED v10
  BY <1>4, SetMergedKeeps
<1>5. CASE Pr!HandleStdinEvents /\ UNCHANGED v10
  BY <1>5, StdinKeeps
<1>6. CASE Pr!Reap /\ UNCHANGED v10
  BY <1>6, ReapKeeps
<1>7. CASE Pr!HandleChildExit /\ UNCHANGED v10
  BY <1>7, ExitStateKeeps, ExitDrainKeeps DEF Pr!HandleChildExit
<1>8. ASSUME NEW c \in Pr!Outputs, Pr!HandleOutputEvents(c), UNCHANGED v10 PROVE Pr!Inv'
  BY <1>8, OutputKeeps
<1>9. ASSUME NEW c \in Pr!Outputs, NEW k \in Pr!Kids, Pr!ChildWrites(c, k), UNCHANGED v10
             PROVE Pr!Inv'
  BY <1>9, ChildWritesKeeps
<1>10. ASSUME NEW k \in Pr!Kids, Pr!ChildExits(k), UNCHANGED v10 PROVE Pr!Inv'
  BY <1>10, ChildExitsKeeps
<1>11. CASE Pr!ExitFinished /\ Pr!AfterExit
  BY <1>11, ExitFinishedKeeps
<1>12. CASE Pr!Destroy /\ v10' = [v10 EXCEPT !.kid = 0]
  BY <1>12, DestroyKeeps
<1>13. CASE Pr!WaitForFinished \/ Pr!PostWait \/ Pr!CallerGivesUp \/ Pr!WaitTimesOut
  BY <1>13, WaitForFinishedKeeps, PostWaitKeeps, CallerGivesUpKeeps, WaitTimesOutKeeps
<1>14. ASSUME NEW l \in Pr!Loops, Pr!RunWait(l) PROVE Pr!Inv'
  BY <1>14, RunWaitKeeps
<1>15. CASE UNCHANGED Pr!vars
  <2>1. /\ UNCHANGED <<v1, v2, v3, v4, v5, v6, v7, v8, v9, v10>>
    BY <1>15 DEF Pr!vars
  <2> QED
    BY <2>1, Waiting, OnlyWaits
<1> QED
  BY <1>1, <1>2, <1>3, <1>4, <1>5, <1>6, <1>7, <1>8, <1>9, <1>10, <1>11, <1>12, <1>13, <1>14,
     <1>15
     DEF Pr!Next

LEMMA ProcessReaped == Pr!Inv => Pr!NothingLeftBehind /\ Pr!FinishedOnceWithOutput
<1> SUFFICES ASSUME Pr!Inv PROVE Pr!NothingLeftBehind /\ Pr!FinishedOnceWithOutput
  OBVIOUS
<1>1. Pr!NothingLeftBehind
  <2>1. ASSUME NEW k \in Pr!Born, v2[k] # "reaped" PROVE k = v1.pid /\ v1.state = "Running"
               /\ v1.polling
    <3>1. k \in Pr!Kids /\ k >= 1 /\ k > Len(v9) /\ v5 # "destroyed" /\ k \in 1 .. Pr!Youngest
      BY <2>1, ProcessFacts DEF Pr!Inv, Pr!InOrder, Pr!Born, Pr!Kids
    <3>2. ~(Pr!Exiting /\ k = v6)
      BY <2>1 DEF Pr!Inv, Pr!ExitInOrder
    <3>3. v6 = IF Pr!Exiting THEN Len(v9) + 1 ELSE 0
      BY DEF Pr!Inv, Pr!InOrder
    <3>4. CASE v1.pid = 0
      BY <3>1, <3>2, <3>3, <3>4, ProcessFacts DEF Pr!Youngest
    <3>5. CASE v1.pid # 0
      <4>1. v5 \in {"none", "finished"}
        <5>1. v1.pid = (IF v5 = "finished" THEN v6 ELSE Len(v9)) + 1 /\ k <= v1.pid
          BY <3>1, <3>5, ProcessFacts DEF Pr!Inv, Pr!InOrder, Pr!Youngest, Pr!Kids
        <5>2. CASE v5 \in {"out", "err", "state"}
          BY <3>1, <3>2, <3>3, <5>1, <5>2, ProcessFacts DEF Pr!Exiting
        <5> QED
          BY <3>1, <5>2 DEF Pr!Inv, Pr!TypeOK, Pr!Stages
      <4>2. v1.polling /\ v1.state # "NotRunning" /\ v1.state = "Running"
        BY <3>1, <3>5, <4>1, MemberFields DEF Pr!Inv, Pr!ExitInOrder, Pr!InOrder, Pr!TypeOK
      <4>3. k = v1.pid
        <5>1. k <= v1.pid
          BY <3>1, <3>5, ProcessFacts DEF Pr!Youngest, Pr!Kids
        <5>2. v1.pid = (IF v5 = "finished" THEN v6 ELSE Len(v9)) + 1
          BY <3>5 DEF Pr!Inv, Pr!InOrder
        <5> QED
          BY <3>1, <3>2, <3>3, <4>1, <5>1, <5>2, ProcessFacts DEF Pr!Exiting, Pr!Kids
      <4> QED
        BY <4>2, <4>3
    <3> QED
      BY <3>4, <3>5
  <2>2. v1.io = {<<c, v1.fd[c]>> : c \in {d \in Pr!Channels : v1.fd[d] # Pr!Closed}}
    BY DEF Pr!Inv, Pr!Wired, Pr!Watched, Pr!Open
  <2>3. \A c \in Pr!Channels : v1.fd[c] # Pr!Closed => v1.fd[c] = v1.pid
    BY DEF Pr!Inv, Pr!Wired, Pr!Watched, Pr!Open
  <2>4. v1.queue > 0 => v1.fd["in"] # Pr!Closed /\ v1.wantOut
    BY DEF Pr!Inv, Pr!Wired, Pr!Watched, Pr!Open
  <2> QED
    BY <2>1, <2>2, <2>3, <2>4 DEF Pr!NothingLeftBehind
<1>2. Pr!FinishedOnceWithOutput
  <2>1. \A i \in DOMAIN v9 : v9[i] = i
    BY DEF Pr!Inv, Pr!InOrder
  <2>2. ASSUME NEW k \in Pr!Born, v2[k] = "reaped", v5 # "destroyed", k > Len(v9) PROVE k = v6
    <3>1. k \in 1 .. Pr!Youngest /\ k \in Pr!Kids
      BY <2>2 DEF Pr!Inv, Pr!InOrder, Pr!Born
    <3>2. v6 = IF Pr!Exiting THEN Len(v9) + 1 ELSE 0
      BY DEF Pr!Inv, Pr!InOrder
    <3>3. CASE v1.pid = 0
      BY <2>2, <3>1, <3>2, <3>3, ProcessFacts DEF Pr!Youngest, Pr!Kids
    <3>4. CASE v1.pid # 0
      <4>1. v1.pid = (IF v5 = "finished" THEN v6 ELSE Len(v9)) + 1 /\ k <= v1.pid
        BY <3>1, <3>4, ProcessFacts DEF Pr!Inv, Pr!InOrder, Pr!Youngest, Pr!Kids
      <4>2. CASE v5 \in {"none", "finished"}
        <5>1. k # v1.pid
          BY <2>2, <3>4, <4>2 DEF Pr!Inv, Pr!ExitInOrder
        <5> QED
          BY <2>2, <3>1, <3>2, <4>1, <4>2, <5>1, ProcessFacts DEF Pr!Exiting, Pr!Kids
      <4>3. CASE v5 \in {"out", "err", "state"}
        BY <2>2, <3>1, <3>2, <4>1, <4>3, ProcessFacts DEF Pr!Exiting, Pr!Kids
      <4> QED
        BY <2>2, <4>2, <4>3 DEF Pr!Inv, Pr!TypeOK, Pr!Stages
    <3> QED
      BY <3>3, <3>4
  <2>3. \A k \in Pr!Born : v2[k] = "reaped" => k = v6 \/ k <= Len(v9) \/ v5 = "destroyed"
    BY <2>2, ProcessFacts DEF Pr!Born, Pr!Kids
  <2>4. ASSUME NEW i \in DOMAIN v9, NEW c \in Pr!Outputs PROVE v3[c][v9[i]] = 0
    <3>1. v9[i] = i /\ i \in 1 .. Len(v9) /\ i \in Pr!Kids
      BY ProcessFacts DEF Pr!Inv, Pr!InOrder, Pr!Kids
    <3>2. ~(v3[c][i] > 0) /\ v3[c][i] \in Nat
      BY <3>1, ProcessFacts DEF Pr!Inv, Pr!Readable, Pr!TypeOK
    <3> QED
      BY <3>1, <3>2
  <2>5. \A k \in v10.told : k <= Len(v9)
    BY DEF Pr!Inv, Pr!WaitsForBorn
  <2> QED
    BY <2>1, <2>3, <2>4, <2>5 DEF Pr!FinishedOnceWithOutput
<1> QED
  BY <1>1, <1>2

-----------------------------------------------------------------------------
(* Sockets: of either class, and, of a TcpSocket, one that is dialled      *)
(* again and one that is sent something. The members are in v1, the owner  *)
(* in v2, what is ready in v3, the posted closures in v4, the peer in v5,  *)
(* the last signal in v6, the connections made in v7, the class in v8.     *)
SocketKinds ==
    {[local |-> FALSE, conns |-> MaxConnections, chunks |-> 0],
     [local |-> FALSE, conns |-> 1, chunks |-> 1],
     [local |-> TRUE, conns |-> MaxConnections, chunks |-> 1]}

St == INSTANCE StreamSocket WITH
    Kinds <- SocketKinds, LongPaths <- FALSE, IoErrors <- FALSE,
    MoveWithPosts <- FALSE,
    sock <- v1, home <- v2, ready <- v3, closures <- v4, peer <- v5,
    last <- v6, dialled <- v7, kind <- v8

\* What is absent is no watch.
ASSUME StreamAssumption == None \notin St!Watches

(* Two signals, one after the other.                                       *)
LEMMA SignalsAlike ==
  ASSUME NEW s \in Seq(St!Signals), NEW t \in Seq(St!Signals), Len(s) = Len(t),
         \A i \in 1 .. Len(s) : s[i] = t[i]
  PROVE  s = t
  OBVIOUS
LEMMA TwoSignals ==
  ASSUME NEW a \in St!Signals, NEW b \in St!Signals
  PROVE  Append(<<a>>, b) = <<a, b>>
<1> DEFINE s == Append(<<a>>, b)
           t == <<a, b>>
<1>1. s \in Seq(St!Signals) /\ Len(s) = 2 /\ s[1] = a /\ s[2] = b
  OBVIOUS
<1>2. t \in Seq(St!Signals) /\ Len(t) = 2 /\ t[1] = a /\ t[2] = b
  OBVIOUS
<1> HIDE DEF s, t
<1>3. s = t
  BY <1>1, <1>2, SignalsAlike
<1> QED
  BY <1>3 DEF s, t

(* What the helpers make of the members. Later(m, n): the generation has   *)
(* not gone back, and it has gone on when the connection is another one.   *)
Later(m, n) == n.gen >= m.gen /\ (n.gen = m.gen => n.conn = m.conn)
SameButWatch(m, n) == n.state = m.state /\ n.queue = m.queue /\ n.out = m.out
Aimed(m, n, f) ==
  /\ n \in St!Members /\ St!Tuned(n) /\ n.interest = f /\ SameButWatch(m, n)
  /\ n.conn = m.conn /\ n.active = m.active /\ n.gen = m.gen
Idle(m, n, c) ==
  /\ n \in St!Members /\ ~n.active /\ n.watch = None /\ SameButWatch(m, n) /\ n.conn = c
       /\ Later(m, n)
Watching(m, n) ==
  /\ n \in St!Members /\ n.active /\ St!Tuned(n) /\ SameButWatch(m, n) /\ n.conn = m.conn
       /\ Later(m, n)
  /\ n.interest = m.interest
Down(m, n) ==
  /\ n \in St!Members /\ n.state = "Disconnected" /\ n.conn = St!NoFd /\ ~n.active
       /\ n.watch = None
  /\ n.queue = 0 /\ Later(m, n)

LEMMA MemberTypes ==
  ASSUME NEW m \in St!Members
  PROVE  /\ m.state \in {"Disconnected", "Connecting", "Connected", "Error"} /\ m.conn \in Nat
         /\ m.gen \in Nat /\ m.interest \in St!Interests /\ m.queue \in Nat
         /\ m.watch \in St!Watches \union {None} /\ m.out \in Seq(St!Signals)
  BY DEF St!Members
LEMMA MemberFlags ==
  ASSUME NEW m \in St!Members PROVE m.active \in BOOLEAN /\ m.buffer \in BOOLEAN
  BY DEF St!Members

LEMMA SetStateOnly ==
  ASSUME NEW m \in St!Members, NEW st \in {"Disconnected", "Connecting", "Connected", "Error"},
         NEW n, n = [m EXCEPT !.state = st]
  PROVE  /\ n \in St!Members /\ n.state = st /\ n.conn = m.conn /\ n.active = m.active
              /\ n.gen = m.gen
         /\ n.interest = m.interest /\ n.queue = m.queue /\ n.watch = m.watch /\ n.out = m.out
  BY DEF St!Members

LEMMA SetQueueOnly ==
  ASSUME NEW m \in St!Members, NEW q \in Nat, NEW n, n = [m EXCEPT !.queue = q]
  PROVE  /\ n \in St!Members /\ n.queue = q /\ n.conn = m.conn /\ n.active = m.active
              /\ n.gen = m.gen
         /\ n.interest = m.interest /\ n.state = m.state /\ n.watch = m.watch /\ n.out = m.out
  BY DEF St!Members

LEMMA SetBufferOnly ==
  ASSUME NEW m \in St!Members, NEW b \in BOOLEAN, NEW n, n = [m EXCEPT !.buffer = b]
  PROVE  /\ n \in St!Members /\ n.queue = m.queue /\ n.conn = m.conn /\ n.active = m.active
              /\ n.gen = m.gen
         /\ n.interest = m.interest /\ n.state = m.state /\ n.watch = m.watch /\ n.out = m.out
  BY DEF St!Members

LEMMA SetOutOnly ==
  ASSUME NEW m \in St!Members, NEW o \in Seq(St!Signals), NEW n, n = [m EXCEPT !.out = o]
  PROVE  /\ n \in St!Members /\ n.queue = m.queue /\ n.conn = m.conn /\ n.active = m.active
              /\ n.gen = m.gen
         /\ n.interest = m.interest /\ n.state = m.state /\ n.watch = m.watch /\ n.out = o
  BY DEF St!Members

LEMMA SetInterestOnly ==
  ASSUME NEW m \in St!Members, NEW f \in St!Interests, NEW n, n = [m EXCEPT !.interest = f]
  PROVE  /\ n \in St!Members /\ n.queue = m.queue /\ n.conn = m.conn /\ n.active = m.active
              /\ n.gen = m.gen
         /\ n.interest = f /\ n.state = m.state /\ n.watch = m.watch /\ n.out = m.out
  BY DEF St!Members

LEMMA SetConnOnly ==
  ASSUME NEW m \in St!Members, NEW x \in Nat, NEW n, n = [m EXCEPT !.conn = x]
  PROVE  /\ n \in St!Members /\ n.queue = m.queue /\ n.conn = x /\ n.active = m.active
              /\ n.gen = m.gen
         /\ n.interest = m.interest /\ n.state = m.state /\ n.watch = m.watch /\ n.out = m.out
  BY DEF St!Members

LEMMA SetActiveOnly ==
  ASSUME NEW m \in St!Members, NEW x \in BOOLEAN, NEW n, n = [m EXCEPT !.active = x]
  PROVE  /\ n \in St!Members /\ n.queue = m.queue /\ n.conn = m.conn /\ n.active = x
              /\ n.gen = m.gen
         /\ n.interest = m.interest /\ n.state = m.state /\ n.watch = m.watch /\ n.out = m.out
  BY DEF St!Members

LEMMA SetGenOnly ==
  ASSUME NEW m \in St!Members, NEW x \in Nat, NEW n, n = [m EXCEPT !.gen = x]
  PROVE  /\ n \in St!Members /\ n.queue = m.queue /\ n.conn = m.conn /\ n.active = m.active
              /\ n.gen = x
         /\ n.interest = m.interest /\ n.state = m.state /\ n.watch = m.watch /\ n.out = m.out
  BY DEF St!Members

LEMMA SetWatchOnly ==
  ASSUME NEW m \in St!Members, NEW w \in St!Watches \union {None}, NEW n,
         n = [m EXCEPT !.watch = w]
  PROVE  /\ n \in St!Members /\ n.queue = m.queue /\ n.conn = m.conn /\ n.active = m.active
              /\ n.gen = m.gen
         /\ n.interest = m.interest /\ n.state = m.state /\ n.watch = w /\ n.out = m.out
  BY DEF St!Members

LEMMA WatchOfMembers ==
  ASSUME NEW m \in St!Members
  PROVE  [conn |-> m.conn, gen |-> m.gen, interest |-> m.interest] \in St!Watches
  BY DEF St!Members, St!Watches

LEMMA RegisteredWatch ==
  ASSUME NEW m \in St!Members, NEW n, n = St!Registered(m)
  PROVE  /\ n \in St!Members /\ n.queue = m.queue /\ n.conn = m.conn /\ n.active = m.active
              /\ n.gen = m.gen
         /\ n.interest = m.interest /\ n.state = m.state /\ n.out = m.out
         /\ n.watch = [conn |-> m.conn, gen |-> m.gen, interest |-> m.interest]
  BY WatchOfMembers, SetWatchOnly DEF St!Registered

(* IOEvent::setInterest() keeps the watch at what the members say.         *)
LEMMA InterestSet ==
  ASSUME NEW m \in St!Members, St!Tuned(m), NEW f \in St!Interests
  PROVE  Aimed(m, St!SetInterest(m, f), f)
<1>1. CASE m.interest = f
  BY <1>1 DEF St!SetInterest, Aimed, SameButWatch
<1>2. CASE m.interest # f
  <2> DEFINE k == [m EXCEPT !.interest = f]
  <2>1. /\ k \in St!Members /\ k.queue = m.queue /\ k.conn = m.conn /\ k.active = m.active
             /\ k.gen = m.gen
        /\ k.interest = f /\ k.state = m.state /\ k.watch = m.watch /\ k.out = m.out
    BY SetInterestOnly
  <2>2. St!SetInterest(m, f) = St!SyncRegistration(k, m.active)
    BY <1>2 DEF St!SetInterest
  <2> HIDE DEF k
  <2>3. CASE m.active
    <3>1. m.conn # St!NoFd
          /\ m.watch = [conn |-> m.conn, gen |-> m.gen, interest |-> m.interest]
      BY <2>3 DEF St!Tuned
    <3>2. m.watch # None
      BY <3>1, WatchOfMembers, StreamAssumption
    <3> DEFINE w == [conn |-> m.conn, gen |-> m.gen, interest |-> f]
               n == [k EXCEPT !.watch = w]
    <3>3. [k.watch EXCEPT !.interest = f] = w
      BY <3>1, <2>1
    <3>4. St!SetInterest(m, f) = [k EXCEPT !.watch = [k.watch EXCEPT !.interest = f]]
      BY <2>1, <2>2, <2>3, <3>1, <3>2 DEF St!SyncRegistration
    <3>5. St!SetInterest(m, f) = n
      BY <3>3, <3>4
    <3>6. w \in St!Watches
      BY MemberTypes DEF St!Watches
    <3>7. /\ n \in St!Members /\ n.queue = k.queue /\ n.conn = k.conn /\ n.active = k.active
               /\ n.gen = k.gen
          /\ n.interest = k.interest /\ n.state = k.state /\ n.watch = w /\ n.out = k.out
      BY <2>1, <3>6, SetWatchOnly
    <3> HIDE DEF n
    <3>8. St!Tuned(n) /\ SameButWatch(m, n)
      BY <2>1, <2>3, <3>1, <3>7 DEF St!Tuned, SameButWatch
    <3> QED
      BY <2>1, <3>5, <3>7, <3>8 DEF Aimed
  <2>4. CASE ~m.active
    <3>1. m.watch = None
      BY <2>4 DEF St!Tuned
    <3>2. St!SetInterest(m, f) = k
      BY <2>1, <2>2, <2>4, <3>1 DEF St!SyncRegistration
    <3>3. St!Tuned(k) /\ SameButWatch(m, k)
      BY <2>1, <2>4, <3>1 DEF St!Tuned, SameButWatch
    <3> QED
      BY <2>1, <3>2, <3>3 DEF Aimed
  <2> QED
    BY <2>3, <2>4
<1> QED
  BY <1>1, <1>2

(* stopWatching() and setDescriptor() go on to another generation.         *)
LEMMA WatchingStops ==
  ASSUME NEW m \in St!Members, St!Tuned(m)
  PROVE  Idle(m, St!StopWatching(m), m.conn)
<1>1. CASE ~m.active
  BY <1>1, MemberTypes DEF St!StopWatching, Idle, SameButWatch, Later, St!Tuned
<1>2. CASE m.active
  <2> DEFINE a == [m EXCEPT !.active = FALSE]
             b == [a EXCEPT !.gen = m.gen + 1]
             n == [b EXCEPT !.watch = None]
  <2>0. n = [m EXCEPT !.active = FALSE, !.gen = @ + 1, !.watch = None]
    OBVIOUS
  <2> HIDE DEF a, b, n
  <2>1. /\ a \in St!Members /\ a.queue = m.queue /\ a.conn = m.conn /\ a.active = FALSE
        /\ a.state = m.state /\ a.out = m.out
    <3>1. \A x \in BOOLEAN : a = [m EXCEPT !.active = x] =>
            /\ a \in St!Members /\ a.queue = m.queue /\ a.conn = m.conn /\ a.active = x
            /\ a.state = m.state /\ a.out = m.out
      BY SetActiveOnly
    <3> QED
      BY <3>1 DEF a
  <2>2. /\ b \in St!Members /\ b.queue = m.queue /\ b.conn = m.conn /\ b.active = FALSE
        /\ b.state = m.state /\ b.out = m.out /\ b.gen = m.gen + 1
    <3>1. m.gen + 1 \in Nat
      BY MemberTypes
    <3>2. b = [a EXCEPT !.gen = m.gen + 1]
      BY DEF b
    <3>3. /\ b \in St!Members /\ b.queue = a.queue /\ b.conn = a.conn /\ b.active = a.active
          /\ b.gen = m.gen + 1 /\ b.state = a.state /\ b.out = a.out
      BY <2>1, <3>1, <3>2, SetGenOnly
    <3> QED
      BY <2>1, <3>3
  <2>4. /\ n \in St!Members /\ n.queue = m.queue /\ n.conn = m.conn /\ n.active = FALSE
        /\ n.state = m.state /\ n.out = m.out /\ n.gen = m.gen + 1 /\ n.watch = None
    BY <2>2, SetWatchOnly DEF n
  <2>3. St!StopWatching(m) = n
    BY <1>2, <2>0 DEF St!StopWatching
  <2> QED
    BY <2>3, <2>4, MemberTypes DEF Idle, SameButWatch, Later
<1> QED
  BY <1>1, <1>2

LEMMA DescriptorSet ==
  ASSUME NEW m \in St!Members, ~m.active, m.watch = None, NEW c \in Nat
  PROVE  Idle(m, St!SetDescriptor(m, c), c)
<1>1. CASE m.conn = c
  BY <1>1, MemberTypes DEF St!SetDescriptor, Idle, SameButWatch, Later
<1>2. CASE m.conn # c
  <2> DEFINE a == [m EXCEPT !.conn = c]
             b == [a EXCEPT !.gen = m.gen + 1]
             n == [b EXCEPT !.watch = None]
  <2>0. n = [m EXCEPT !.conn = c, !.gen = @ + 1, !.watch = None]
    OBVIOUS
  <2> HIDE DEF a, b, n
  <2>9. m.active = FALSE /\ m.gen + 1 \in Nat
    BY MemberFlags, MemberTypes
  <2>1. /\ a \in St!Members /\ a.queue = m.queue /\ a.conn = c /\ a.active = FALSE
        /\ a.state = m.state /\ a.out = m.out
    BY <2>9, SetConnOnly DEF a
  <2>2. /\ b \in St!Members /\ b.queue = m.queue /\ b.conn = c /\ b.active = FALSE
        /\ b.state = m.state /\ b.out = m.out /\ b.gen = m.gen + 1
    BY <2>1, <2>9, SetGenOnly DEF b
  <2>4. /\ n \in St!Members /\ n.queue = m.queue /\ n.conn = c /\ n.active = FALSE
        /\ n.state = m.state /\ n.out = m.out /\ n.gen = m.gen + 1 /\ n.watch = None
    BY <2>2, SetWatchOnly DEF n
  <2>3. St!SetDescriptor(m, c) = n
    BY <1>2, <2>0 DEF St!SetDescriptor
  <2> QED
    BY <2>3, <2>4, <2>9, MemberTypes DEF Idle, SameButWatch, Later
<1> QED
  BY <1>1, <1>2

LEMMA WatchingStarts ==
  ASSUME NEW m \in St!Members, St!Tuned(m), m.conn # St!NoFd
  PROVE  Watching(m, St!StartWatching(m))
<1>1. CASE m.active
  <2>1. St!StartWatching(m) = St!SyncRegistration(m, FALSE)
    BY <1>1 DEF St!StartWatching
  <2>2. St!StartWatching(m) = St!Registered(m)
    BY <1>1, <2>1 DEF St!SyncRegistration
  <2> DEFINE n == St!Registered(m)
  <2>3. /\ n \in St!Members /\ n.queue = m.queue /\ n.conn = m.conn /\ n.active = m.active
             /\ n.gen = m.gen
        /\ n.interest = m.interest /\ n.state = m.state /\ n.out = m.out
        /\ n.watch = [conn |-> m.conn, gen |-> m.gen, interest |-> m.interest]
    BY RegisteredWatch
  <2> HIDE DEF n
  <2> QED
    BY <1>1, <2>2, <2>3, MemberTypes DEF n, Watching, SameButWatch, Later, St!Tuned
<1>2. CASE ~m.active
  <2> DEFINE a == [m EXCEPT !.active = TRUE]
             k == [a EXCEPT !.gen = m.gen + 1]
             n == St!Registered(k)
  <2>0. k = [m EXCEPT !.active = TRUE, !.gen = @ + 1]
    OBVIOUS
  <2> HIDE DEF a, k
  <2>8. /\ a \in St!Members /\ a.queue = m.queue /\ a.conn = m.conn /\ a.active = TRUE
        /\ a.interest = m.interest /\ a.state = m.state /\ a.watch = m.watch /\ a.out = m.out
    <3>1. \A x \in BOOLEAN : a = [m EXCEPT !.active = x] =>
            /\ a \in St!Members /\ a.queue = m.queue /\ a.conn = m.conn /\ a.active = x
            /\ a.interest = m.interest /\ a.state = m.state /\ a.watch = m.watch
            /\ a.out = m.out
      BY SetActiveOnly
    <3> QED
      BY <3>1 DEF a
  <2>9. m.gen + 1 \in Nat
    BY MemberTypes
  <2>1. /\ k \in St!Members /\ k.queue = m.queue /\ k.conn = m.conn /\ k.gen = m.gen + 1
        /\ k.interest = m.interest /\ k.state = m.state /\ k.watch = m.watch /\ k.out = m.out
        /\ k.active = TRUE
    BY <2>8, <2>9, SetGenOnly DEF k
  <2>3. St!StartWatching(m) = St!SyncRegistration(k, TRUE)
    BY <1>2, <2>0 DEF St!StartWatching
  <2>4. m.watch = None
    BY <1>2 DEF St!Tuned
  <2>5. St!StartWatching(m) = n
    BY <2>1, <2>3, <2>4 DEF St!SyncRegistration
  <2>6. /\ n \in St!Members /\ n.queue = k.queue /\ n.conn = k.conn /\ n.active = k.active
             /\ n.gen = k.gen
        /\ n.interest = k.interest /\ n.state = k.state /\ n.out = k.out
        /\ n.watch = [conn |-> k.conn, gen |-> k.gen, interest |-> k.interest]
    BY <2>1, RegisteredWatch
  <2> HIDE DEF n
  <2>7. St!Tuned(n)
    BY <2>1, <2>6 DEF St!Tuned
  <2> QED
    BY <2>1, <2>5, <2>6, <2>7, MemberTypes DEF Watching, SameButWatch, Later
<1> QED
  BY <1>1, <1>2

(* A step after a step.                                                    *)
LEMMA LaterAgain ==
  ASSUME NEW m \in St!Members, NEW k \in St!Members, NEW n \in St!Members, Later(m, k),
         Later(k, n)
  PROVE  Later(m, n)
  BY MemberTypes DEF Later

(* What a handler may emit, by the state of the socket before and after.   *)
Emits(m, n) ==
  \/ n.out = <<>> /\ (m.state = "Connected" => n.state = "Connected")
  \/ n.out = <<"disconnected">>
  \/ n.out = <<"connected">> /\ m.state # "Connected" /\ n.state = "Connected"
  \/ n.out = <<"disconnected", "connected">> /\ n.state = "Connected"
  \/ n.out = <<"connected", "disconnected">> /\ m.state # "Connected"
Outcome(m, n) == St!Settled(n) /\ Later(m, n) /\ Emits(m, n)

LEMMA SocketGoesDown ==
  ASSUME NEW m \in St!Members, St!Tuned(m)
  PROVE  LET n == St!ApplyDisconnectedState(m) IN
         /\ Down(m, n)
         /\ n.out = IF St!Live(m) THEN Append(m.out, "disconnected") ELSE m.out
<1> DEFINE a == [m EXCEPT !.state = "Disconnected"]
           b == [a EXCEPT !.queue = 0]
           t == [b EXCEPT !.buffer = FALSE]
           w == St!StopWatching(t)
           d == St!SetDescriptor(w, St!NoFd)
           n == St!ApplyDisconnectedState(m)
<1>0. t = St!TransitionToDisconnected(m)
  BY DEF St!TransitionToDisconnected
<1>1. n = IF m.state \in {"Connected", "Connecting"} THEN St!Emit(d, "disconnected") ELSE d
  BY <1>0 DEF St!ApplyDisconnectedState
<1> HIDE DEF a, b, t, w, d, n
<1>2. /\ a \in St!Members /\ a.queue = m.queue /\ a.conn = m.conn /\ a.active = m.active
           /\ a.gen = m.gen
      /\ a.interest = m.interest /\ a.state = "Disconnected" /\ a.watch = m.watch
           /\ a.out = m.out
  BY SetStateOnly DEF a
<1>3. /\ b \in St!Members /\ b.queue = 0 /\ b.conn = m.conn /\ b.active = m.active
           /\ b.gen = m.gen
      /\ b.interest = m.interest /\ b.state = "Disconnected" /\ b.watch = m.watch
           /\ b.out = m.out
  BY <1>2, SetQueueOnly DEF b
<1>4. /\ t \in St!Members /\ t.queue = 0 /\ t.conn = m.conn /\ t.active = m.active
           /\ t.gen = m.gen
      /\ t.interest = m.interest /\ t.state = "Disconnected" /\ t.watch = m.watch
           /\ t.out = m.out
  BY <1>3, SetBufferOnly DEF t
<1>5. St!Tuned(t)
  BY <1>4 DEF St!Tuned
<1>6. Idle(t, w, t.conn)
  BY <1>4, <1>5, WatchingStops DEF w
<1>7. Idle(w, d, St!NoFd)
  BY <1>6, DescriptorSet DEF d, Idle, St!NoFd
<1>8. /\ d \in St!Members /\ ~d.active /\ d.watch = None /\ d.conn = St!NoFd /\ d.queue = 0
      /\ d.state = "Disconnected" /\ d.out = m.out
  BY <1>4, <1>6, <1>7 DEF Idle, SameButWatch
<1>9. Later(m, d)
  <2>1. Later(m, w)
    BY <1>4, <1>6 DEF Idle, Later
  <2> QED
    BY <1>6, <1>7, <2>1, LaterAgain DEF Idle
<1>10. Later(m, d) = (d.gen >= m.gen /\ (d.gen = m.gen => d.conn = m.conn))
  BY DEF Later
<1>11. CASE St!Live(m)
  <2> DEFINE o == Append(d.out, "disconnected")
  <2>1. n = [d EXCEPT !.out = o]
    BY <1>1, <1>11 DEF St!Live, St!Emit
  <2>2. o \in Seq(St!Signals)
    BY <1>8, MemberTypes DEF St!Signals
  <2>5. o = Append(m.out, "disconnected")
    BY <1>8
  <2> HIDE DEF o
  <2>3. /\ n \in St!Members /\ n.queue = d.queue /\ n.conn = d.conn /\ n.active = d.active
             /\ n.gen = d.gen
        /\ n.interest = d.interest /\ n.state = d.state /\ n.watch = d.watch
        /\ n.out = o
    BY <1>8, <2>1, <2>2, SetOutOnly
  <2>4. Down(m, n)
    BY <1>8, <1>9, <2>3 DEF Down, Later
  <2> QED
    BY <1>11, <2>3, <2>4, <2>5 DEF n
<1>12. CASE ~St!Live(m)
  <2>1. n = d
    BY <1>1, <1>12 DEF St!Live
  <2> QED
    BY <1>8, <1>9, <1>12, <2>1 DEF Down, n
<1> QED
  BY <1>11, <1>12

(* An error first, and the signal is left out.                             *)
LEMMA SocketFails ==
  ASSUME NEW m \in St!Members, St!Tuned(m)
  PROVE  LET n == St!ApplyDisconnectedState(St!FailWithErrno(m)) IN Down(m, n) /\ n.out = m.out
<1> DEFINE f == St!FailWithErrno(m)
           n == St!ApplyDisconnectedState(f)
<1>1. /\ f \in St!Members /\ f.queue = m.queue /\ f.conn = m.conn /\ f.active = m.active
           /\ f.gen = m.gen
      /\ f.interest = m.interest /\ f.state = "Error" /\ f.watch = m.watch /\ f.out = m.out
  BY SetStateOnly DEF St!FailWithErrno
<1> HIDE DEF f
<1>2. St!Tuned(f) /\ ~St!Live(f)
  BY <1>1 DEF St!Tuned, St!Live
<1>3. Down(f, n) /\ n.out = f.out
  BY <1>1, <1>2, SocketGoesDown
<1> HIDE DEF n
<1>4. Down(m, n) /\ n.out = m.out
  BY <1>1, <1>3 DEF Down, Later
<1> QED
  BY <1>4 DEF n, f

LEMMA DownIsSettled ==
  ASSUME NEW m, NEW n, Down(m, n)
  PROVE  St!Settled(n) /\ Later(m, n)
  BY DEF Down, St!Settled, St!Watched, St!Tuned, St!Live

LEMMA WantedIsInterest ==
  ASSUME NEW m \in St!Members PROVE St!Wanted(m) \in St!Interests
  BY DEF St!Wanted, St!LocalInterest, St!TcpInterest, St!Interests

(* updateInterest() settles a socket that is watched as its state says.    *)
LEMMA InterestUpdated ==
  ASSUME NEW m, St!Watched(m)
  PROVE  LET n == St!UpdateInterest(m) IN
         /\ St!Settled(n) /\ Later(m, n) /\ n.out = m.out /\ n.state = m.state
<1> DEFINE n == St!UpdateInterest(m)
<1>1. m \in St!Members /\ St!Tuned(m)
  BY DEF St!Watched
<1>2. n = St!SetInterest(m, St!Wanted(m))
  BY DEF St!UpdateInterest, St!Wanted
<1> HIDE DEF n
<1>3. Aimed(m, n, St!Wanted(m))
  BY <1>1, <1>2, WantedIsInterest, InterestSet
<1>4. St!Wanted(n) = St!Wanted(m)
  BY <1>3 DEF Aimed, SameButWatch, St!Wanted, St!LocalInterest, St!TcpInterest
<1>5. St!Settled(n) /\ n.out = m.out /\ n.state = m.state
  BY <1>3, <1>4 DEF Aimed, SameButWatch, St!Watched, St!Settled, St!Live
<1>6. Later(m, n)
  BY <1>1, <1>3, MemberTypes DEF Later, Aimed
<1> QED
  BY <1>5, <1>6 DEF n

Flushed(m, k) ==
  /\ St!Watched(k) /\ Later(m, k) /\ k.out = m.out
  /\ k.state = m.state \/ (m.state = "Connecting" /\ k.state = "Disconnected")

LEMMA WritesFlushed ==
  ASSUME NEW m, St!Watched(m), NEW k \in St!FlushPendingWrites(m)
  PROVE  Flushed(m, k)
<1>1. m \in St!Members /\ St!Tuned(m)
  BY DEF St!Watched
<1>2. \/ k = m
      \/ m.state = "Connecting" /\ k = St!ApplyDisconnectedState(St!FailWithErrno(m))
      \/ \E q \in 0 .. m.queue : k = [m EXCEPT !.queue = q]
  <2>1. \/ k = m
        \/ k \in St!LocalSends(m)
        \/ k \in St!TcpSends(m)
    BY DEF St!FlushPendingWrites
  <2>2. ASSUME k \in St!LocalSends(m), m.state # "Connecting"
               PROVE \E q \in 0 .. m.queue : k = [m EXCEPT !.queue = q]
    BY <2>2 DEF St!LocalSends
  <2>3. ASSUME k \in St!TcpSends(m), m.state # "Connecting"
               PROVE \E q \in 0 .. m.queue : k = [m EXCEPT !.queue = q]
    BY <2>3 DEF St!TcpSends
  <2>4. ASSUME k \in St!LocalSends(m), m.state = "Connecting"
               PROVE k = St!ApplyDisconnectedState(St!FailWithErrno(m))
    BY <2>4 DEF St!LocalSends
  <2>5. ASSUME k \in St!TcpSends(m), m.state = "Connecting" PROVE k = m
    BY <2>5 DEF St!TcpSends
  <2> QED
    BY <2>1, <2>2, <2>3, <2>4, <2>5
<1>3. CASE k = m
  BY <1>1, <1>3, MemberTypes DEF Flushed, Later
<1>4. CASE m.state = "Connecting" /\ k = St!ApplyDisconnectedState(St!FailWithErrno(m))
  <2>1. Down(m, k) /\ k.out = m.out
    BY <1>1, <1>4, SocketFails
  <2>2. St!Watched(k) /\ Later(m, k)
    BY <2>1, DownIsSettled DEF St!Settled
  <2> QED
    BY <1>4, <2>1, <2>2 DEF Flushed, Down
<1>5. CASE \E q \in 0 .. m.queue : k = [m EXCEPT !.queue = q]
  <2>1. PICK q \in 0 .. m.queue : k = [m EXCEPT !.queue = q]
    BY <1>5
  <2>2. q \in Nat /\ (q > 0 => m.queue > 0)
    BY <1>1, MemberTypes
  <2>3. /\ k \in St!Members /\ k.queue = q /\ k.conn = m.conn /\ k.active = m.active
             /\ k.gen = m.gen
        /\ k.interest = m.interest /\ k.state = m.state /\ k.watch = m.watch /\ k.out = m.out
    BY <1>1, <2>1, <2>2, SetQueueOnly
  <2>4. St!Watched(k)
    BY <2>2, <2>3 DEF St!Watched, St!Tuned, St!Live
  <2>5. m.gen \in Nat /\ k.gen = m.gen /\ k.conn = m.conn
    BY <1>1, <2>3, MemberTypes
  <2>6. Later(m, k)
    BY <2>5 DEF Later
  <2> QED
    BY <2>3, <2>4, <2>6 DEF Flushed
<1> QED
  BY <1>2, <1>3, <1>4, <1>5

(* What is flushed and then tuned is settled.                              *)
LEMMA FlushedAndSettled ==
  ASSUME NEW m, St!Watched(m), NEW k \in St!FlushPendingWrites(m), NEW n,
         n = St!UpdateInterest(k)
  PROVE  /\ St!Settled(n) /\ Later(m, n) /\ n.out = m.out
         /\ n.state = m.state \/ (m.state = "Connecting" /\ n.state = "Disconnected")
<1>1. Flushed(m, k)
  BY WritesFlushed
<1>2. St!Settled(n) /\ Later(k, n) /\ n.out = k.out /\ n.state = k.state
  BY <1>1, InterestUpdated DEF Flushed
<1>3. Later(m, n)
  BY <1>1, <1>2, LaterAgain DEF Flushed, St!Settled, St!Watched
<1> QED
  BY <1>1, <1>2, <1>3 DEF Flushed

(* applyConnectedState(): the socket is watched and has said that it is    *)
(* connected, and if all is sent at once the interest is updated again.    *)
UpAgain(m, n) ==
  /\ St!Settled(n) /\ Later(m, n) /\ n.state = "Connected" /\ n.active
       /\ n.out = Append(m.out, "connected")
LEMMA SocketComesUp ==
  ASSUME NEW m \in St!Members, St!Tuned(m), m.conn # St!NoFd,
         NEW n \in St!ApplyConnectedState(m)
  PROVE  UpAgain(m, n)
<1> DEFINE a == [m EXCEPT !.state = "Connected"]
           b == St!UpdateInterest(a)
           c == St!StartWatching(b)
           d == St!Emit(c, "connected")
<1>0. PICK k \in St!FlushPendingWrites(d) : n = St!UpdateInterest(k)
  BY DEF St!ApplyConnectedState
<1> HIDE DEF a, b, c, d
<1>1. /\ a \in St!Members /\ a.queue = m.queue /\ a.conn = m.conn /\ a.active = m.active
           /\ a.gen = m.gen
      /\ a.interest = m.interest /\ a.state = "Connected" /\ a.watch = m.watch /\ a.out = m.out
  BY SetStateOnly DEF a
<1>2. St!Tuned(a)
  BY <1>1 DEF St!Tuned
<1>3. Aimed(a, b, St!Wanted(a))
  BY <1>1, <1>2, WantedIsInterest, InterestSet DEF b, St!UpdateInterest, St!Wanted
<1>4. Watching(b, c)
  BY <1>1, <1>3, WatchingStarts DEF c, Aimed
<1> DEFINE o == Append(c.out, "connected")
<1>5. d = [c EXCEPT !.out = o]
  BY DEF d, St!Emit
<1>6. o \in Seq(St!Signals) /\ c \in St!Members
  BY <1>4, MemberTypes DEF St!Signals, Watching
<1>14. o = Append(m.out, "connected")
  BY <1>1, <1>3, <1>4 DEF Watching, Aimed, SameButWatch
<1> HIDE DEF o
<1>7. /\ d \in St!Members /\ d.queue = c.queue /\ d.conn = c.conn /\ d.active = c.active
           /\ d.gen = c.gen
      /\ d.interest = c.interest /\ d.state = c.state /\ d.watch = c.watch
      /\ d.out = o
  BY <1>5, <1>6, SetOutOnly
<1>8. d.state = "Connected" /\ d.active /\ St!Tuned(d) /\ d.out = Append(m.out, "connected")
  BY <1>1, <1>3, <1>4, <1>7, <1>14 DEF Watching, Aimed, SameButWatch, St!Tuned
<1>9. Later(m, d)
  <2>1. b.gen = m.gen /\ b.conn = m.conn
    BY <1>1, <1>3 DEF Aimed
  <2> QED
    BY <1>4, <1>7, <2>1 DEF Watching, Later
<1>10. St!Watched(d)
  BY <1>7, <1>8 DEF St!Watched, St!Live
<1>11. St!Settled(n) /\ Later(d, n) /\ n.out = d.out /\ n.state = "Connected"
  BY <1>0, <1>8, <1>10, FlushedAndSettled
<1>12. Later(m, n)
  BY <1>7, <1>9, <1>11, LaterAgain DEF St!Settled, St!Watched
<1>13. n.active
  BY <1>11 DEF St!Settled, St!Watched, St!Live
<1> QED
  BY <1>8, <1>11, <1>12, <1>13 DEF UpAgain

(* handleReadable() and handleWritable() of a connected socket.            *)
Reading(k, j) ==
  /\ St!Settled(j) /\ Later(k, j)
  /\ \/ j.out = k.out /\ j.state = "Connected"
     \/ j.out = Append(k.out, "disconnected")
LEMMA SocketReads ==
  ASSUME NEW k, St!Settled(k), k.state = "Connected", NEW j \in St!HandleReadable(k)
  PROVE  Reading(k, j)
<1>1. k \in St!Members /\ St!Tuned(k) /\ St!Watched(k) /\ St!Live(k)
  BY DEF St!Settled, St!Watched, St!Live
<1> DEFINE b == k.buffer \/ v5.in > 0
           g == [k EXCEPT !.buffer = b]
<1>2. b \in BOOLEAN
  BY <1>1, MemberFlags
<1> HIDE DEF b
<1>3. /\ g \in St!Members /\ g.queue = k.queue /\ g.conn = k.conn /\ g.active = k.active
           /\ g.gen = k.gen
      /\ g.interest = k.interest /\ g.state = k.state /\ g.watch = k.watch /\ g.out = k.out
  BY <1>1, <1>2, SetBufferOnly
<1>4. j \in {k, g, St!ApplyDisconnectedState(g)}
  BY DEF St!HandleReadable, St!StreamEnds, b
<1> HIDE DEF g
<1>5. St!Settled(g)
  BY <1>1, <1>3 DEF St!Settled, St!Watched, St!Tuned, St!Live, St!Wanted, St!LocalInterest,
     St!TcpInterest
<1>6. Later(k, g) /\ Later(k, k)
  BY <1>1, <1>3, MemberTypes DEF Later
<1>7. CASE j = St!ApplyDisconnectedState(g)
  <2>1. Down(g, j) /\ j.out = Append(g.out, "disconnected")
    BY <1>3, <1>5, <1>7, SocketGoesDown DEF St!Settled, St!Watched, St!Live
  <2>2. St!Settled(j) /\ Later(g, j)
    BY <2>1, DownIsSettled
  <2>3. Later(k, j)
    BY <1>3, <2>2 DEF Later
  <2> QED
    BY <1>3, <2>1, <2>2, <2>3 DEF Reading
<1>8. CASE j = k
  BY <1>6, <1>8 DEF Reading
<1>9. CASE j = g
  BY <1>3, <1>5, <1>6, <1>9 DEF Reading
<1> QED
  BY <1>4, <1>7, <1>8, <1>9

LEMMA SocketWrites ==
  ASSUME NEW j, St!Settled(j), j.state = "Connected", NEW n \in St!HandleWritable(j)
  PROVE  St!Settled(n) /\ Later(j, n) /\ n.out = j.out /\ n.state = "Connected"
<1>1. PICK k \in St!FlushPendingWrites(j) : n = St!UpdateInterest(k)
  BY DEF St!HandleWritable
<1> QED
  BY <1>1, FlushedAndSettled DEF St!Settled

LEMMA SocketCloses ==
  ASSUME NEW m, St!Settled(m), m.out = <<>>
  PROVE  Down(m, St!Close(m)) /\ Outcome(m, St!Close(m))
<1> DEFINE n == St!ApplyDisconnectedState(m)
<1>1. m \in St!Members /\ St!Tuned(m)
  BY DEF St!Settled, St!Watched
<1>2. Down(m, n) /\ n.out = IF St!Live(m) THEN Append(m.out, "disconnected") ELSE m.out
  BY <1>1, SocketGoesDown
<1> HIDE DEF n
<1>3. St!Settled(n) /\ Later(m, n)
  BY <1>2, DownIsSettled
<1>4. Append(<<>>, "disconnected") = <<"disconnected">>
  OBVIOUS
<1>5. Emits(m, n)
  BY <1>2, <1>4 DEF Emits, St!Live
<1> QED
  BY <1>2, <1>3, <1>5 DEF Outcome, St!Close, n

LEMMA SocketDialled ==
  ASSUME NEW m, St!Settled(m), m.out = <<>>, m.state # "Connected", m.conn # St!NoFd,
         NEW n \in St!ApplyConnectedState(m)
  PROVE  Outcome(m, n) /\ n.out = <<"connected">> /\ n.state = "Connected"
<1>1. UpAgain(m, n)
  BY SocketComesUp DEF St!Settled, St!Watched
<1>2. Append(<<>>, "connected") = <<"connected">>
  OBVIOUS
<1> QED
  BY <1>1, <1>2 DEF UpAgain, Outcome, Emits

(* handleEvents(), from the answer to a dial to what is left to write.     *)
LEMMA EventsHandled ==
  ASSUME NEW m, St!Settled(m), m.out = <<>>, m.active, NEW ev, NEW n \in St!HandleEvents(m, ev)
  PROVE  Outcome(m, n)
<1>1. m \in St!Members /\ St!Tuned(m) /\ m.conn # St!NoFd /\ St!Live(m)
  BY DEF St!Settled, St!Watched, St!Tuned
<1>2. CASE "err" \in ev
  <2>1. n \in St!HungUp(m)
    BY <1>2 DEF St!HandleEvents
  <2>2. n = St!Close(m) \/ (m.state = "Connecting" /\ n \in St!ApplyConnectedState(m))
    BY <2>1 DEF St!HungUp, St!Close
  <2>3. CASE n = St!Close(m)
    BY <2>3, SocketCloses
  <2>4. CASE m.state = "Connecting" /\ n \in St!ApplyConnectedState(m)
    BY <1>1, <2>4, SocketDialled
  <2> QED
    BY <2>2, <2>3, <2>4
<1>3. CASE "err" \notin ev
  <2> DEFINE dial == IF m.state = "Connecting"
             /\ "write" \in ev THEN St!DialAnswered(m) ELSE {m}
             read(k) == IF "read" \in ev
               /\ k.state = "Connected" THEN St!HandleReadable(k) ELSE {k}
             write(k) == IF "write" \in ev
               /\ k.state = "Connected" THEN St!HandleWritable(k) ELSE {k}
  <2>1. n \in UNION {UNION {write(j) : j \in read(k)} : k \in dial}
    BY <1>3 DEF St!HandleEvents
  <2>2. PICK k \in dial : n \in UNION {write(j) : j \in read(k)}
    <3> HIDE DEF dial, read, write
    <3> QED
      BY <2>1
  <2>3. PICK j \in read(k) : n \in write(j)
    <3> HIDE DEF read, write
    <3> QED
      BY <2>2
  <2>4. \/ k = m
        \/ Outcome(m, k) /\ m.state # "Connected" /\ (k.out = <<>> \/ k.out = <<"connected">>)
    <3>1. CASE k = m
      BY <3>1
    <3>2. CASE m.state = "Connecting" /\ k \in St!ApplyConnectedState(m)
      BY <1>1, <3>2, SocketDialled
    <3>3. CASE m.state = "Connecting" /\ k = St!ApplyDisconnectedState(St!FailWithErrno(m))
      <4>1. Down(m, k) /\ k.out = m.out
        BY <1>1, <3>3, SocketFails
      <4> QED
        BY <3>3, <4>1, DownIsSettled DEF Outcome, Emits
    <3> QED
      BY <3>1, <3>2, <3>3 DEF St!DialAnswered
  <2>5. Outcome(m, k)
    BY <1>1, <2>4, MemberTypes DEF Outcome, Emits, Later
  <2>6. Outcome(m, j)
    <3>1. CASE j = k
      BY <2>5, <3>1
    <3>2. CASE k.state = "Connected" /\ j \in St!HandleReadable(k)
      <4>1. Reading(k, j)
        BY <2>5, <3>2, SocketReads DEF Outcome
      <4>2. St!Settled(j) /\ Later(m, j)
        BY <1>1, <2>5, <4>1, LaterAgain DEF Outcome, Reading, St!Settled, St!Watched
      <4>3. CASE j.out = k.out /\ j.state = "Connected"
        BY <2>5, <3>2, <4>2, <4>3 DEF Outcome, Emits
      <4>4. CASE j.out = Append(k.out, "disconnected")
        <5>1. /\ Append(<<>>, "disconnected") = <<"disconnected">>
              /\ Append(<<"connected">>, "disconnected") = <<"connected", "disconnected">>
          BY TwoSignals DEF St!Signals
        <5>2. Emits(m, j)
          BY <2>4, <4>4, <5>1 DEF Emits
        <5> QED
          BY <4>2, <5>2 DEF Outcome
      <4> QED
        BY <4>1, <4>3, <4>4 DEF Reading
    <3> QED
      BY <3>1, <3>2
  <2>7. CASE n = j
    BY <2>6, <2>7
  <2>8. CASE j.state = "Connected" /\ n \in St!HandleWritable(j)
    <3>1. St!Settled(n) /\ Later(j, n) /\ n.out = j.out /\ n.state = "Connected"
      BY <2>6, <2>8, SocketWrites DEF Outcome
    <3>2. Later(m, n)
      BY <1>1, <2>6, <3>1, LaterAgain DEF Outcome, St!Settled, St!Watched
    <3> QED
      BY <2>6, <2>8, <3>1, <3>2 DEF Outcome, Emits
  <2> QED
    BY <2>3, <2>7, <2>8
<1> QED
  BY <1>2, <1>3

(* write(), queued first and flushed then.                                 *)
LEMMA SocketWritten ==
  ASSUME NEW m, St!Settled(m), m.out = <<>>, NEW n \in St!Written(m)
  PROVE  Outcome(m, n)
<1>1. m \in St!Members /\ St!Tuned(m)
  BY DEF St!Settled, St!Watched
<1>2. CASE n = m
  BY <1>1, <1>2, MemberTypes DEF Outcome, Emits, Later
<1>3. CASE St!Live(m)
           /\ \E k \in St!FlushPendingWrites([m EXCEPT !.queue = @ + 1]) : n = St!UpdateInterest(k)
  <2> DEFINE q == m.queue + 1
             a == [m EXCEPT !.queue = q]
  <2>1. PICK k \in St!FlushPendingWrites(a) : n = St!UpdateInterest(k)
    BY <1>3
  <2>2. q \in Nat
    BY <1>1, MemberTypes
  <2> HIDE DEF q
  <2>3. /\ a \in St!Members /\ a.queue = q /\ a.conn = m.conn /\ a.active = m.active
             /\ a.gen = m.gen
        /\ a.interest = m.interest /\ a.state = m.state /\ a.watch = m.watch /\ a.out = m.out
    BY <1>1, <2>2, SetQueueOnly
  <2> HIDE DEF a
  <2>4. St!Watched(a)
    BY <1>3, <2>3 DEF St!Settled, St!Watched, St!Tuned, St!Live
  <2>5. /\ St!Settled(n) /\ Later(a, n) /\ n.out = a.out
        /\ n.state = a.state \/ (a.state = "Connecting" /\ n.state = "Disconnected")
    BY <2>1, <2>4, FlushedAndSettled
  <2>6. Later(m, n)
    BY <2>3, <2>5 DEF Later
  <2> QED
    BY <2>3, <2>5, <2>6 DEF Outcome, Emits
<1> QED
  BY <1>2, <1>3 DEF St!Written, St!Live

(* connectToHost() and connectToPath(): what there is has been closed, and *)
(* the socket has a descriptor, or none, that is not watched yet.          *)
Opened(m, n, c) ==
  /\ n \in St!Members /\ St!Tuned(n) /\ ~n.active /\ n.watch = None /\ n.conn = c /\ n.queue = 0
  /\ n.state = "Disconnected" /\ Later(m, n)
  /\ n.out = <<"disconnected">> \/ (n.out = <<>> /\ m.state # "Connected")

LEMMA SocketClosed ==
  ASSUME NEW m, St!Settled(m), m.out = <<>>
  PROVE  Opened(m, St!Close(m), St!NoFd)
<1> DEFINE n == St!ApplyDisconnectedState(m)
<1>1. Down(m, n) /\ n.out = IF St!Live(m) THEN Append(m.out, "disconnected") ELSE m.out
  BY SocketGoesDown DEF St!Settled, St!Watched
<1>2. Append(<<>>, "disconnected") = <<"disconnected">>
  OBVIOUS
<1> HIDE DEF n
<1>3. n.out = <<"disconnected">> \/ (n.out = <<>> /\ m.state # "Connected")
  BY <1>1, <1>2 DEF St!Live
<1>4. Opened(m, n, St!NoFd)
  BY <1>1, <1>3 DEF Opened, Down, St!Tuned
<1> QED
  BY <1>4 DEF St!Close, n

LEMMA SocketOpened ==
  ASSUME NEW m \in St!Members, NEW b, NEW n, NEW c \in Nat, NEW d, Opened(m, b, d),
         n = St!SetDescriptor(b, c)
  PROVE  Opened(m, n, c)
<1>1. Idle(b, n, c)
  BY DescriptorSet DEF Opened
<1>2. Later(m, n)
  BY <1>1, LaterAgain DEF Opened, Idle
<1> QED
  BY <1>1, <1>2 DEF Opened, Idle, SameButWatch, St!Tuned

LEMMA DialFails ==
  ASSUME NEW m, NEW b, NEW d, Opened(m, b, d), NEW n, n = St!FailWithErrno(b)
  PROVE  Outcome(m, n)
<1>1. /\ n \in St!Members /\ n.queue = 0 /\ n.conn = b.conn /\ ~n.active /\ n.gen = b.gen
      /\ n.state = "Error" /\ n.watch = None /\ n.out = b.out
  BY SetStateOnly DEF St!FailWithErrno, Opened
<1>2. St!Settled(n)
  BY <1>1 DEF St!Settled, St!Watched, St!Tuned, St!Live
<1>3. Later(m, n)
  BY <1>1 DEF Opened, Later
<1> QED
  BY <1>1, <1>2, <1>3 DEF Outcome, Emits, Opened

LEMMA DialFailsAndCloses ==
  ASSUME NEW m \in St!Members, NEW b, NEW d, Opened(m, b, d), NEW n,
         n = St!Close(St!FailWithErrno(b))
  PROVE  Outcome(m, n)
<1>1. Down(b, n) /\ n.out = b.out
  BY SocketFails DEF Opened, St!Close
<1>2. St!Settled(n) /\ Later(b, n)
  BY <1>1, DownIsSettled
<1>3. Later(m, n)
  BY <1>1, <1>2, LaterAgain DEF Opened, Down
<1> QED
  BY <1>1, <1>2, <1>3 DEF Outcome, Emits, Opened

LEMMA DialSucceeds ==
  ASSUME NEW m \in St!Members, NEW b, NEW d, d # St!NoFd, Opened(m, b, d),
         NEW n \in St!ApplyConnectedState(b)
  PROVE  Outcome(m, n)
<1>1. UpAgain(b, n)
  BY SocketComesUp DEF Opened
<1>2. Later(m, n)
  BY <1>1, LaterAgain DEF Opened, UpAgain, St!Settled, St!Watched
<1>3. /\ Append(<<>>, "connected") = <<"connected">>
      /\ Append(<<"disconnected">>, "connected") = <<"disconnected", "connected">>
  BY TwoSignals DEF St!Signals
<1>4. Emits(m, n)
  BY <1>1, <1>3 DEF Opened, UpAgain, Emits
<1> QED
  BY <1>1, <1>2, <1>4 DEF UpAgain, Outcome

LEMMA DialIsOnItsWay ==
  ASSUME NEW m \in St!Members, NEW b, NEW d, d # St!NoFd, Opened(m, b, d),
         NEW n, n = St!StartWatching(St!UpdateInterest([b EXCEPT !.state = "Connecting"]))
  PROVE  Outcome(m, n)
<1> DEFINE a == [b EXCEPT !.state = "Connecting"]
           u == St!UpdateInterest(a)
<1>1. b \in St!Members /\ b.conn # St!NoFd /\ ~b.active /\ b.watch = None
  BY DEF Opened
<1>2. /\ a \in St!Members /\ a.queue = b.queue /\ a.conn = b.conn /\ a.active = b.active
           /\ a.gen = b.gen
      /\ a.interest = b.interest /\ a.state = "Connecting" /\ a.watch = b.watch /\ a.out = b.out
  BY <1>1, SetStateOnly
<1> HIDE DEF a
<1>3. St!Tuned(a)
  BY <1>1, <1>2 DEF St!Tuned
<1>4. Aimed(a, u, St!Wanted(a))
  BY <1>2, <1>3, WantedIsInterest, InterestSet DEF St!UpdateInterest, St!Wanted
<1> HIDE DEF u
<1>5. Watching(u, n)
  BY <1>1, <1>2, <1>4, WatchingStarts DEF Aimed, a, u
<1>6. n.state = "Connecting" /\ n.queue = a.queue /\ n.interest = St!Wanted(a) /\ n.out = b.out
  BY <1>2, <1>4, <1>5 DEF Aimed, Watching, SameButWatch
<1>7. St!Wanted(n) = St!Wanted(a)
  BY <1>2, <1>6 DEF St!Wanted, St!LocalInterest, St!TcpInterest
<1>8. St!Settled(n)
  BY <1>5, <1>6, <1>7 DEF St!Settled, St!Watched, Watching, St!Live
<1>9. Later(b, n)
  BY <1>2, <1>4, <1>5 DEF Aimed, Watching, Later
<1>10. Later(m, n)
  BY <1>1, <1>8, <1>9, LaterAgain DEF Opened, St!Settled, St!Watched
<1> QED
  BY <1>6, <1>8, <1>10 DEF Outcome, Emits, Opened

LEMMA AnsweredInTail ==
  ASSUME NEW q \in St!Closures, q # <<>>, NEW i \in Nat, NEW st, St!Answered(q, i + 1, st)
  PROVE  St!Answered(Tail(q), i, st)
<1> DEFINE t == Tail(q)
<1>1. t \in St!Closures /\ Len(t) = Len(q) - 1 /\ \A j \in 1 .. Len(t) : t[j] = q[j + 1]
  BY DEF St!Closures
<1>0. Len(q) \in Nat /\ Len(t) \in Nat
  BY <1>1 DEF St!Closures
<1> HIDE DEF t
<1>2. CASE \E k \in i + 2 .. Len(q) : q[k] = "disconnected"
           /\ \A j \in i + 2 .. k - 1 : q[j] # "connected"
  <2>1. PICK k \in i + 2 .. Len(q) : q[k] = "disconnected"
             /\ \A j \in i + 2 .. k - 1 : q[j] # "connected"
    BY <1>2
  <2>2. k - 1 \in i + 1 .. Len(t) /\ k - 1 \in 1 .. Len(t) /\ (k - 1) + 1 = k
    BY <1>0, <1>1
  <2>3. t[k - 1] = "disconnected"
    BY <1>1, <2>1, <2>2
  <2>4. ASSUME NEW j \in i + 1 .. (k - 1) - 1 PROVE t[j] # "connected"
    <3>1. j + 1 \in i + 2 .. k - 1 /\ j \in 1 .. Len(t)
      BY <1>0, <2>2
    <3> QED
      BY <1>1, <2>1, <3>1
  <2> QED
    BY <2>2, <2>3, <2>4 DEF St!Answered, t
<1>3. CASE st = "Connected" /\ \A j \in i + 2 .. Len(q) : q[j] \notin St!Signals
  <2>1. ASSUME NEW j \in i + 1 .. Len(t) PROVE t[j] \notin St!Signals
    <3>1. j + 1 \in i + 2 .. Len(q) /\ j \in 1 .. Len(t)
      BY <1>0, <1>1
    <3> QED
      BY <1>1, <1>3, <3>1
  <2> QED
    BY <1>3, <2>1 DEF St!Answered, t
<1>4. i + 1 + 1 = i + 2
  OBVIOUS
<1> QED
  BY <1>2, <1>3, <1>4 DEF St!Answered

LEMMA AnsweredFurtherOn ==
  ASSUME NEW q \in St!Closures, q # <<>>, q[1] \in St!Operations, NEW st, St!Answered(q, 0, st)
  PROVE  St!Answered(q, 1, st)
<1>1. q[1] # "disconnected" /\ Len(q) \in Nat
  BY DEF St!Closures, St!Operations
<1>2. CASE \E k \in 0 + 1 .. Len(q) : q[k] = "disconnected"
           /\ \A j \in 0 + 1 .. k - 1 : q[j] # "connected"
  <2>1. PICK k \in 0 + 1 .. Len(q) : q[k] = "disconnected"
             /\ \A j \in 0 + 1 .. k - 1 : q[j] # "connected"
    BY <1>2
  <2>2. k \in 1 + 1 .. Len(q)
    BY <1>1, <2>1
  <2>3. \A j \in 1 + 1 .. k - 1 : j \in 0 + 1 .. k - 1
    BY <2>2
  <2> QED
    BY <2>1, <2>2, <2>3 DEF St!Answered
<1>3. CASE st = "Connected" /\ \A j \in 0 + 1 .. Len(q) : q[j] \notin St!Signals
  <2>1. \A j \in 1 + 1 .. Len(q) : j \in 0 + 1 .. Len(q)
    BY <1>1
  <2> QED
    BY <1>3, <2>1 DEF St!Answered
<1> QED
  BY <1>2, <1>3 DEF St!Answered

(* Another closure behind: an operation, the one signal or the other.      *)
LEMMA AnsweredBefore ==
  ASSUME NEW q \in St!Closures, NEW x \in St!Operations \union St!Signals,
         NEW i \in 0 .. Len(q), NEW st, NEW st2,
         St!Answered(q, i, st),
         \/ x \in St!Operations /\ st2 = st
         \/ x = "disconnected"
         \/ x = "connected" /\ st # "Connected"
  PROVE  St!Answered(Append(q, x), i, st2)
<1> DEFINE t == Append(q, x)
<1>1. /\ Len(q) \in Nat /\ Len(t) = Len(q) + 1 /\ t[Len(q) + 1] = x
      /\ \A j \in 1 .. Len(q) : t[j] = q[j]
  BY DEF St!Closures
<1> HIDE DEF t
<1>2. CASE \E k \in i + 1 .. Len(q) : q[k] = "disconnected"
           /\ \A j \in i + 1 .. k - 1 : q[j] # "connected"
  <2>1. PICK k \in i + 1 .. Len(q) : q[k] = "disconnected"
             /\ \A j \in i + 1 .. k - 1 : q[j] # "connected"
    BY <1>2
  <2>2. k \in i + 1 .. Len(t) /\ k \in 1 .. Len(q)
    BY <1>1
  <2>3. \A j \in i + 1 .. k - 1 : j \in 1 .. Len(q)
    BY <1>1
  <2> QED
    BY <1>1, <2>1, <2>2, <2>3 DEF St!Answered, t
<1>3. CASE st = "Connected" /\ \A j \in i + 1 .. Len(q) : q[j] \notin St!Signals
  <2>1. ASSUME NEW j \in i + 1 .. Len(q) PROVE j \in 1 .. Len(q) /\ t[j] = q[j]
               /\ t[j] \notin St!Signals
    BY <1>1, <1>3
  <2>2. CASE x = "disconnected"
    <3>1. Len(q) + 1 \in i + 1 .. Len(t) /\ t[Len(q) + 1] = "disconnected"
      BY <1>1, <2>2
    <3>2. ASSUME NEW j \in i + 1 .. (Len(q) + 1) - 1 PROVE t[j] # "connected"
      <4>1. j \in i + 1 .. Len(q)
        BY <1>1
      <4> QED
        BY <2>1, <4>1 DEF St!Signals
    <3> QED
      BY <3>1, <3>2 DEF St!Answered, t
  <2>3. CASE x \in St!Operations /\ st2 = st
    <3>1. x \notin St!Signals
      BY <2>3 DEF St!Operations, St!Signals
    <3>2. ASSUME NEW j \in i + 1 .. Len(t) PROVE t[j] \notin St!Signals
      <4>1. j = Len(q) + 1 \/ j \in i + 1 .. Len(q)
        BY <1>1
      <4> QED
        BY <1>1, <2>1, <3>1, <4>1
    <3> QED
      BY <1>3, <2>3, <3>2 DEF St!Answered, t
  <2> QED
    BY <1>3, <2>2, <2>3
<1> QED
  BY <1>2, <1>3 DEF St!Answered

LEMMA OrderedAfterSignal ==
  ASSUME NEW q \in St!Closures, q # <<>>, NEW l, NEW st, St!Ordered(q, l, st),
         Head(q) \in St!Signals
  PROVE  St!Ordered(Tail(q), <<Head(q)>>, st)
<1> DEFINE t == Tail(q)
<1>1. /\ Len(q) \in Nat /\ Len(q) >= 1 /\ Head(q) = q[1] /\ Len(t) = Len(q) - 1
      /\ \A j \in 1 .. Len(t) : t[j] = q[j + 1]
  BY DEF St!Closures
<1> HIDE DEF t
<1>2. ASSUME <<Head(q)>> = <<"connected">> PROVE St!Answered(t, 0, st)
  <2>1. q[1] = "connected"
    BY <1>1, <1>2
  <2>2. St!Answered(q, 0 + 1, st)
    BY <1>1, <2>1 DEF St!Ordered
  <2> QED
    BY <2>2, AnsweredInTail DEF t
<1>3. ASSUME NEW i \in 1 .. Len(t), t[i] = "connected" PROVE St!Answered(t, i, st)
  <2>1. i + 1 \in 1 .. Len(q) /\ q[i + 1] = "connected" /\ i \in Nat
    BY <1>1, <1>3
  <2>2. St!Answered(q, i + 1, st)
    BY <2>1 DEF St!Ordered
  <2> QED
    BY <2>1, <2>2, AnsweredInTail DEF t
<1> QED
  BY <1>2, <1>3 DEF St!Ordered, t

LEMMA OrderedAfterOperation ==
  ASSUME NEW q \in St!Closures, q # <<>>, NEW l, NEW st, St!Ordered(q, l, st),
         Head(q) \in St!Operations
  PROVE  St!Ordered(Tail(q), l, st)
<1> DEFINE t == Tail(q)
<1>1. /\ Len(q) \in Nat /\ Len(q) >= 1 /\ Head(q) = q[1] /\ Len(t) = Len(q) - 1
      /\ \A j \in 1 .. Len(t) : t[j] = q[j + 1]
  BY DEF St!Closures
<1> HIDE DEF t
<1>2. ASSUME l = <<"connected">> PROVE St!Answered(t, 0, st)
  <2>1. St!Answered(q, 0, st)
    BY <1>2 DEF St!Ordered
  <2>2. St!Answered(q, 1, st)
    BY <1>1, <2>1, AnsweredFurtherOn
  <2>3. St!Answered(q, 0 + 1, st)
    BY <2>2
  <2> QED
    BY <2>3, AnsweredInTail DEF t
<1>3. ASSUME NEW i \in 1 .. Len(t), t[i] = "connected" PROVE St!Answered(t, i, st)
  <2>1. i + 1 \in 1 .. Len(q) /\ q[i + 1] = "connected" /\ i \in Nat
    BY <1>1, <1>3
  <2>2. St!Answered(q, i + 1, st)
    BY <2>1 DEF St!Ordered
  <2> QED
    BY <2>1, <2>2, AnsweredInTail DEF t
<1> QED
  BY <1>2, <1>3 DEF St!Ordered, t

LEMMA OrderedWithAnother ==
  ASSUME NEW q \in St!Closures, NEW x \in St!Operations \union St!Signals, NEW l, NEW st,
         NEW st2, St!Ordered(q, l, st),
         \/ x \in St!Operations /\ st2 = st
         \/ x = "disconnected"
         \/ x = "connected" /\ st # "Connected" /\ st2 = "Connected"
  PROVE  Append(q, x) \in St!Closures /\ St!Ordered(Append(q, x), l, st2)
<1> DEFINE t == Append(q, x)
<1>1. /\ t \in St!Closures /\ Len(q) \in Nat /\ Len(t) = Len(q) + 1 /\ t[Len(q) + 1] = x
      /\ \A j \in 1 .. Len(q) : t[j] = q[j]
  BY DEF St!Closures
<1>2. ASSUME NEW i \in 0 .. Len(q), St!Answered(q, i, st) PROVE St!Answered(t, i, st2)
  BY <1>2, AnsweredBefore
<1> HIDE DEF t
<1>3. l = <<"connected">> => St!Answered(t, 0, st2)
  BY <1>1, <1>2 DEF St!Ordered
<1>4. ASSUME NEW i \in 1 .. Len(t), t[i] = "connected" PROVE St!Answered(t, i, st2)
  <2>1. CASE i \in 1 .. Len(q)
    BY <1>1, <1>2, <1>4, <2>1 DEF St!Ordered
  <2>2. CASE i = Len(q) + 1
    <3>1. st2 = "Connected" /\ \A j \in i + 1 .. Len(t) : FALSE
      BY <1>1, <1>4, <2>2 DEF St!Operations
    <3> QED
      BY <3>1 DEF St!Answered
  <2> QED
    BY <1>1, <2>1, <2>2
<1> QED
  BY <1>1, <1>3, <1>4 DEF St!Ordered, t

LEMMA OrderedInState ==
  ASSUME NEW q, NEW l, NEW st, NEW st2, St!Ordered(q, l, st), st = "Connected"
         => st2 = "Connected"
  PROVE  St!Ordered(q, l, st2)
  BY DEF St!Ordered, St!Answered

(* What a handler has emitted is queued behind the rest.                   *)
LEMMA OrderedWithSignals ==
  ASSUME NEW q \in St!Closures, NEW l, NEW m, NEW n, Emits(m, n), St!Ordered(q, l, m.state)
  PROVE  q \o n.out \in St!Closures /\ St!Ordered(q \o n.out, l, n.state)
<1>1. /\ q \o <<>> = q /\ q \o <<"connected">> = Append(q, "connected")
      /\ q \o <<"disconnected">> = Append(q, "disconnected")
  BY DEF St!Closures
<1>2. "connected" \in St!Signals /\ "disconnected" \in St!Signals
  BY DEF St!Signals
<1>3. ASSUME NEW a \in St!Signals, NEW b \in St!Signals
      PROVE  q \o <<a, b>> = Append(Append(q, a), b)
  BY DEF St!Closures, St!Signals
<1>4. CASE n.out = <<>> /\ (m.state = "Connected" => n.state = "Connected")
  BY <1>1, <1>4, OrderedInState
<1>5. CASE n.out = <<"disconnected">>
  BY <1>1, <1>2, <1>5, OrderedWithAnother
<1>6. CASE n.out = <<"connected">> /\ m.state # "Connected" /\ n.state = "Connected"
  BY <1>1, <1>2, <1>6, OrderedWithAnother
<1>7. CASE n.out = <<"disconnected", "connected">> /\ n.state = "Connected"
  <2> DEFINE t == Append(q, "disconnected")
  <2>1. t \in St!Closures /\ St!Ordered(t, l, "Error")
    BY <1>2, OrderedWithAnother
  <2>2. q \o n.out = Append(t, "connected")
    BY <1>2, <1>3, <1>7
  <2> HIDE DEF t
  <2> QED
    BY <1>2, <1>7, <2>1, <2>2, OrderedWithAnother
<1>8. CASE n.out = <<"connected", "disconnected">> /\ m.state # "Connected"
  <2> DEFINE t == Append(q, "connected")
  <2>1. t \in St!Closures /\ St!Ordered(t, l, "Connected")
    BY <1>2, <1>8, OrderedWithAnother
  <2>2. q \o n.out = Append(t, "disconnected")
    BY <1>2, <1>3, <1>8
  <2> HIDE DEF t
  <2> QED
    BY <1>2, <2>1, <2>2, OrderedWithAnother
<1> QED
  BY <1>4, <1>5, <1>6, <1>7, <1>8 DEF Emits

(* The signals of a LocalSocket are seen at once.                          *)
LEMMA OrderedAtOnce ==
  ASSUME NEW q \in Seq(St!Operations), NEW l \in St!LastSignals, NEW m, NEW n, Emits(m, n),
         St!Ordered(q, l, m.state)
  PROVE  St!Last1(l \o n.out) \in St!LastSignals /\ St!Ordered(q, St!Last1(l \o n.out), n.state)
<1>1. \A i \in 1 .. Len(q) : q[i] \in St!Operations /\ q[i] \notin St!Signals
      /\ q[i] # "connected" /\ q[i] # "disconnected"
  BY DEF St!Operations, St!Signals
<1>2. ASSUME NEW x, NEW st
             PROVE St!Ordered(q, x, st) <=> (x = <<"connected">> => st = "Connected")
  <2>1. \A k \in 0 + 1 .. Len(q) : k \in 1 .. Len(q)
    OBVIOUS
  <2> QED
    BY <1>1, <2>1 DEF St!Ordered, St!Answered
<1>3. l = <<"connected">> => m.state = "Connected"
  BY <1>2
<1>4. \/ n.out = <<>> /\ St!Last1(l \o n.out) = l
      \/ /\ n.out \in {<<"disconnected">>, <<"connected", "disconnected">>}
         /\ St!Last1(l \o n.out) = <<"disconnected">>
      \/ /\ n.out \in {<<"connected">>, <<"disconnected", "connected">>}
         /\ St!Last1(l \o n.out) = <<"connected">>
  <2>1. l \in Seq(St!Signals) /\ "connected" \in St!Signals /\ "disconnected" \in St!Signals
    <3>1. <<>> \in Seq(St!Signals) /\ <<"connected">> \in Seq(St!Signals)
          /\ <<"disconnected">> \in Seq(St!Signals)
      BY DEF St!Signals
    <3> QED
      BY <3>1 DEF St!LastSignals, St!Signals
  <2>2. ASSUME NEW o \in Seq(St!Signals), o # <<>> PROVE St!Last1(l \o o) = <<o[Len(o)]>>
    <3>1. l \o o # <<>> /\ Len(l \o o) = Len(l) + Len(o)
          /\ (l \o o)[Len(l) + Len(o)] = o[Len(o)]
      BY <2>1, <2>2
    <3> QED
      BY <3>1 DEF St!Last1
  <2>3. l \o <<>> = l /\ St!Last1(l) = l
    <3>1. l \o <<>> = l
      BY <2>1
    <3>2. St!Last1(<<>>) = <<>> /\ St!Last1(<<"connected">>) = <<"connected">>
          /\ St!Last1(<<"disconnected">>) = <<"disconnected">>
      BY DEF St!Last1
    <3> QED
      BY <3>1, <3>2 DEF St!LastSignals
  <2>4. ASSUME NEW a \in St!Signals PROVE St!Last1(l \o <<a>>) = <<a>>
    <3>1. <<a>> \in Seq(St!Signals) /\ <<a>> # <<>> /\ Len(<<a>>) = 1 /\ <<a>>[1] = a
      OBVIOUS
    <3> QED
      BY <2>2, <3>1
  <2>5. ASSUME NEW a \in St!Signals, NEW b \in St!Signals PROVE St!Last1(l \o <<a, b>>) = <<b>>
    <3>1. <<a, b>> \in Seq(St!Signals) /\ <<a, b>> # <<>> /\ Len(<<a, b>>) = 2 /\ <<a,
          b>>[2] = b
      OBVIOUS
    <3> QED
      BY <2>2, <3>1
  <2> QED
    BY <2>1, <2>3, <2>4, <2>5 DEF Emits
<1> QED
  BY <1>2, <1>3, <1>4 DEF Emits, St!LastSignals

(* The socket and its closures, after a handler.                           *)
LEMMA MembersDelivered ==
  ASSUME NEW m, Outcome(v1, m), v1' = [m EXCEPT !.out = <<>>], v8' = v8
  PROVE  St!Settled(v1)' /\ v1'.out = <<>> /\ v1'.state = m.state /\ Later(v1, v1')
<1> DEFINE n == [m EXCEPT !.out = <<>>]
<1>1. m \in St!Members /\ <<>> \in Seq(St!Signals)
  BY DEF Outcome, St!Settled, St!Watched
<1>2. /\ n \in St!Members /\ n.queue = m.queue /\ n.conn = m.conn /\ n.active = m.active
           /\ n.gen = m.gen
      /\ n.interest = m.interest /\ n.state = m.state /\ n.watch = m.watch /\ n.out = <<>>
  BY <1>1, SetOutOnly
<1>3. v1' = n
  OBVIOUS
<1> HIDE DEF n
<1>4. St!Settled(n)
  BY <1>2 DEF Outcome, St!Settled, St!Watched, St!Tuned, St!Live, St!Wanted, St!LocalInterest,
     St!TcpInterest
<1>5. Later(v1, n)
  BY <1>2 DEF Outcome, Later
<1>6. St!Settled(v1)'
  BY <1>3, <1>4 DEF St!Settled, St!Watched, St!Tuned, St!Live, St!Wanted, St!Local,
     St!LocalInterest, St!TcpInterest
<1> QED
  BY <1>2, <1>3, <1>5, <1>6

LEMMA SignalsDelivered ==
  ASSUME v2 \in St!Owners, v6 \in St!LastSignals, NEW queued \in [St!Owners -> St!Closures],
         queued[1 - v2] = <<>>, St!Local => queued[v2] \in Seq(St!Operations),
         St!Ordered(queued[v2], v6, v1.state),
         NEW m, Outcome(v1, m), St!DeliverAfter(m, queued), v2' = v2, v8' = v8
  PROVE  St!SignalsInOrder' /\ St!Settled(v1)' /\ v1'.out = <<>> /\ Later(v1, v1')
<1>1. St!Settled(v1)' /\ v1'.out = <<>> /\ v1'.state = m.state /\ Later(v1, v1')
  BY MembersDelivered DEF St!DeliverAfter
<1>2. Emits(v1, m) /\ v2 \in St!Owners /\ 1 - v2 \in St!Owners /\ 1 - v2 # v2
      /\ St!Local' = St!Local
  BY DEF Outcome, St!Owners, St!Local
<1>3. CASE St!Local
  <2>1. v4' = queued /\ v6' = St!Last1(v6 \o m.out)
    BY <1>3 DEF St!DeliverAfter
  <2>2. v6' \in St!LastSignals /\ St!Ordered(queued[v2], v6', m.state)
    BY <1>2, <1>3, <2>1, OrderedAtOnce
  <2> QED
    BY <1>1, <1>2, <2>1, <2>2 DEF St!SignalsInOrder
<1>4. CASE ~St!Local
  <2> DEFINE q == queued[v2] \o m.out
  <2>1. v4' = [queued EXCEPT ![v2] = q] /\ v6' = v6
    BY <1>4 DEF St!DeliverAfter
  <2>2. q \in St!Closures /\ St!Ordered(q, v6, m.state)
    BY <1>2, OrderedWithSignals
  <2> HIDE DEF q
  <2>3. v4' \in [St!Owners -> St!Closures] /\ v4'[v2] = q /\ v4'[1 - v2] = <<>>
    BY <1>2, <2>1, <2>2
  <2> QED
    BY <1>1, <1>2, <1>4, <2>1, <2>2, <2>3 DEF St!SignalsInOrder
<1> QED
  BY <1>3, <1>4

LEMMA ReadyStaysKnown ==
  ASSUME St!ReadyIsKnown, v1 \in St!Members, v1' \in St!Members, Later(v1, v1'),
         \/ v3' = v3
         \/ \E o \in St!Owners : \E e \in v3[o] : v3' = [v3 EXCEPT ![o] = @ \ {e}]
  PROVE  St!ReadyIsKnown'
<1>1. /\ v3' \in [St!Owners -> SUBSET St!Readiness]
      /\ \A o \in St!Owners : v3'[o] \subseteq v3[o]
  BY DEF St!ReadyIsKnown
<1>2. ASSUME NEW o \in St!Owners, NEW e \in v3'[o]
      PROVE  e.gen <= v1'.gen /\ (e.gen = v1'.gen => e.conn = v1'.conn)
  <2>1. e.gen \in Nat /\ e.gen <= v1.gen /\ (e.gen = v1.gen => e.conn = v1.conn)
    BY <1>1 DEF St!ReadyIsKnown, St!Readiness
  <2>2. v1.gen \in Nat /\ v1'.gen \in Nat
    BY MemberTypes
  <2> QED
    BY <2>1, <2>2 DEF Later
<1> QED
  BY <1>1, <1>2 DEF St!ReadyIsKnown

(* Everything a step does that delivers what a handler has left.           *)
LEMMA DeliveryKeepsInv ==
  ASSUME St!Inv, NEW m, Outcome(v1, m), St!Deliver(m), v2' = v2, v8' = v8, v7' \in Nat,
         \/ v3' = v3
         \/ \E o \in St!Owners : \E e \in v3[o] : v3' = [v3 EXCEPT ![o] = @ \ {e}]
  PROVE  St!Inv'
<1>1. St!SignalsInOrder' /\ St!Settled(v1)' /\ v1'.out = <<>> /\ Later(v1, v1')
  BY SignalsDelivered DEF St!Inv, St!SignalsInOrder, St!Deliver
<1>2. v1 \in St!Members /\ v1' \in St!Members
  BY <1>1 DEF St!Inv, St!Settled, St!Watched, St!Members, St!Interests, St!Watches, St!Signals
<1> QED
  BY <1>1, <1>2, ReadyStaysKnown DEF St!Inv

LEMMA ConnectKeepsInv ==
  ASSUME St!Inv, St!Connect \/ St!LocalConnect, v8' = v8
  PROVE  St!Inv'
<1> DEFINE c == v7 + 1
           b == St!Close(v1)
           open == St!SetDescriptor(b, c)
           none == St!SetDescriptor(open, St!NoFd)
<1>1. St!Settled(v1) /\ v1.out = <<>> /\ v1 \in St!Members /\ c \in Nat /\ c # St!NoFd
      /\ v7 \in Nat
  BY DEF St!Inv, St!Settled, St!Watched, St!NoFd
<1>2. Opened(v1, b, St!NoFd)
  BY <1>1, SocketClosed
<1> HIDE DEF c, b
<1>3. Opened(v1, open, c)
  BY <1>1, <1>2, SocketOpened
<1> HIDE DEF open
<1>4. Opened(v1, none, St!NoFd)
  BY <1>1, <1>3, SocketOpened DEF St!NoFd
<1> HIDE DEF none
<1>5. v2' = v2 /\ v3' = v3
  BY DEF St!Connect, St!LocalConnect
<1>6. \E m : Outcome(v1, m) /\ St!Deliver(m) /\ v7' \in Nat
  <2>1. CASE \E m \in {St!FailWithErrno(b)} : St!Deliver(m) /\ v7' = v7
    BY <1>1, <1>2, <2>1, DialFails
  <2>2. CASE v7' = c /\ \E k \in St!ApplyConnectedState(open) : St!Deliver(k)
    BY <1>1, <1>3, <2>2, DialSucceeds
  <2>3. CASE v7' = c
             /\ St!Deliver(St!StartWatching(St!UpdateInterest([open EXCEPT !.state = "Connecting"])))
    BY <1>1, <1>3, <2>3, DialIsOnItsWay
  <2>4. CASE v7' = c /\ St!Deliver(St!Close(St!FailWithErrno(none)))
    BY <1>1, <1>4, <2>4, DialFailsAndCloses
  <2>5. CASE v7' = c /\ St!Deliver(St!FailWithErrno(none))
    BY <1>1, <1>4, <2>5, DialFails
  <2>6. CASE v1.watch = None /\ St!Deliver(St!FailWithErrno(v1)) /\ v7' = v7
    <3> DEFINE n == St!FailWithErrno(v1)
    <3>1. /\ n \in St!Members /\ n.queue = v1.queue /\ n.conn = v1.conn /\ n.active = v1.active
          /\ n.gen = v1.gen /\ n.interest = v1.interest /\ n.state = "Error"
               /\ n.watch = v1.watch
          /\ n.out = v1.out
      BY <1>1, SetStateOnly DEF St!FailWithErrno
    <3>2. ~v1.active
      BY <1>1, <2>6, WatchOfMembers, StreamAssumption DEF St!Settled, St!Watched, St!Tuned
    <3> HIDE DEF n
    <3>3. St!Settled(n) /\ v1.state # "Connected"
      BY <1>1, <3>1, <3>2 DEF St!Settled, St!Watched, St!Tuned, St!Live
    <3>4. Later(v1, n)
      BY <1>1, <3>1, MemberTypes DEF Later
    <3>5. Outcome(v1, n)
      BY <1>1, <3>1, <3>3, <3>4 DEF Outcome, Emits
    <3> QED
      BY <1>1, <2>6, <3>5 DEF n
  <2>7. CASE St!Connect
    BY <2>1, <2>2, <2>3, <2>4, <2>7 DEF St!Connect, c, b, open, none
  <2>8. CASE St!LocalConnect
    BY <2>2, <2>3, <2>5, <2>6, <2>8 DEF St!LocalConnect, c, b, open, none
  <2> QED
    BY <2>7, <2>8
<1> QED
  BY <1>5, <1>6, DeliveryKeepsInv

LEMMA CallsKeepInv ==
  ASSUME St!Inv, St!Write \/ St!CloseCall, v8' = v8
  PROVE  St!Inv'
<1>1. St!Settled(v1) /\ v1.out = <<>> /\ v7' \in Nat /\ v2' = v2 /\ v3' = v3
  BY DEF St!Inv, St!Write, St!CloseCall
<1>2. CASE St!Write
  BY <1>1, <1>2, SocketWritten, DeliveryKeepsInv DEF St!Write
<1>3. CASE St!CloseCall
  BY <1>1, <1>3, SocketCloses, DeliveryKeepsInv DEF St!CloseCall
<1> QED
  BY <1>2, <1>3

(* Nothing but closures or readiness, or the buffer.                       *)
LEMMA SocketKept ==
  ASSUME St!Settled(v1), NEW b \in BOOLEAN, v1' = v1 \/ v1' = [v1 EXCEPT !.buffer = b], v8' = v8
  PROVE  St!Settled(v1)' /\ v1'.out = v1.out /\ v1'.state = v1.state /\ Later(v1, v1')
<1> DEFINE n == [v1 EXCEPT !.buffer = b]
<1>1. v1 \in St!Members
  BY DEF St!Settled, St!Watched
<1>2. /\ n \in St!Members /\ n.queue = v1.queue /\ n.conn = v1.conn /\ n.active = v1.active
      /\ n.gen = v1.gen /\ n.interest = v1.interest /\ n.state = v1.state /\ n.watch = v1.watch
      /\ n.out = v1.out
  BY <1>1, SetBufferOnly
<1>3. v1' = v1 \/ v1' = n
  OBVIOUS
<1> HIDE DEF n
<1>4. St!Settled(n)
  BY <1>2 DEF St!Settled, St!Watched, St!Tuned, St!Live, St!Wanted, St!LocalInterest,
     St!TcpInterest
<1>5. Later(v1, n) /\ Later(v1, v1)
  BY <1>1, <1>2, MemberTypes DEF Later
<1>6. St!Settled(v1)'
  BY <1>3, <1>4 DEF St!Settled, St!Watched, St!Tuned, St!Live, St!Wanted, St!Local,
     St!LocalInterest, St!TcpInterest
<1> QED
  BY <1>2, <1>3, <1>5, <1>6

LEMMA MembersKnown == St!Settled(v1) => v1 \in St!Members
  BY DEF St!Settled, St!Watched

(* A closure posted to the owner, and the closures run there.              *)
LEMMA PostKeepsInv ==
  ASSUME St!Inv, NEW op \in St!Operations, St!Post(op), v8' = v8
  PROVE  St!Inv'
<1>1. v4' = [v4 EXCEPT ![v2] = Append(@, op)] /\ UNCHANGED <<v1, v2, v3, v6, v7>>
  BY DEF St!Post
<1>2. /\ v2 \in St!Owners /\ v4 \in [St!Owners -> St!Closures] /\ v6 \in St!LastSignals
      /\ 1 - v2 \in St!Owners /\ 1 - v2 # v2
  BY DEF St!Inv, St!SignalsInOrder, St!Owners
<1> DEFINE q == Append(v4[v2], op)
<1>3. q \in St!Closures /\ St!Ordered(q, v6, v1.state)
  BY <1>2, OrderedWithAnother DEF St!Inv, St!SignalsInOrder
<1>4. v4[v2] \in Seq(St!Operations) => q \in Seq(St!Operations)
  OBVIOUS
<1>5. v4' = [v4 EXCEPT ![v2] = q]
  BY <1>1
<1> HIDE DEF q
<1>6. v4' \in [St!Owners -> St!Closures] /\ v4'[v2] = q /\ v4'[1 - v2] = <<>>
  BY <1>2, <1>3, <1>5 DEF St!Inv, St!SignalsInOrder
<1>7. St!Local' => v4'[v2] \in Seq(St!Operations)
  BY <1>4, <1>6 DEF St!Inv, St!SignalsInOrder, St!Local
<1>8. St!SignalsInOrder'
  BY <1>1, <1>2, <1>3, <1>6, <1>7 DEF St!SignalsInOrder
<1>9. St!Settled(v1)' /\ v1'.out = v1.out /\ Later(v1, v1')
  BY <1>1, SocketKept DEF St!Inv
<1>10. St!ReadyIsKnown'
  BY <1>1 DEF St!Inv, St!ReadyIsKnown
<1> QED
  BY <1>1, <1>8, <1>9, <1>10 DEF St!Inv

LEMMA ClosureKeepsInv ==
  ASSUME St!Inv, NEW o \in St!Owners, St!RunClosure(o), v8' = v8
  PROVE  St!Inv'
<1> DEFINE op == Head(v4[o])
           rest == [v4 EXCEPT ![o] = Tail(@)]
           t == Tail(v4[o])
<1>1. /\ v2 \in St!Owners /\ v4 \in [St!Owners -> St!Closures] /\ v6 \in St!LastSignals
      /\ 1 - v2 \in St!Owners /\ 1 - v2 # v2 /\ v4[1 - v2] = <<>>
  BY DEF St!Inv, St!SignalsInOrder, St!Owners
<1>2. v4[o] # <<>> /\ o = v2
  <2>1. o = v2 \/ o = 1 - v2
    BY <1>1 DEF St!Owners
  <2> QED
    BY <1>1, <2>1 DEF St!RunClosure
<1>3. v4[v2] \in St!Closures /\ op \in St!Operations \union St!Signals /\ t \in St!Closures
  BY <1>1, <1>2 DEF St!Closures
<1>4. St!Local => t \in Seq(St!Operations) /\ op \in St!Operations
  BY <1>2 DEF St!Inv, St!SignalsInOrder
<1>5. St!Ordered(v4[v2], v6, v1.state)
  BY DEF St!Inv, St!SignalsInOrder
<1>6. op \in St!Signals => St!Ordered(t, <<op>>, v1.state)
  BY <1>2, <1>3, <1>5, OrderedAfterSignal
<1>7. op \in St!Operations => St!Ordered(t, v6, v1.state)
  BY <1>2, <1>3, <1>5, OrderedAfterOperation
<1>8. rest = [v4 EXCEPT ![v2] = t]
  BY <1>2
<1>9. \/ op \in St!Signals /\ v4' = rest /\ v6' = <<op>> /\ UNCHANGED <<v1, v2, v3, v7>>
      \/ /\ op \in St!Operations
              /\ \E m \in {St!Close(v1)} \union St!Written(v1) : St!DeliverAfter(m, rest)
         /\ UNCHANGED <<v2, v3, v7>>
  BY <1>2 DEF St!RunClosure, St!Operations
<1> HIDE DEF op, rest, t
<1>10. rest \in [St!Owners -> St!Closures] /\ rest[v2] = t /\ rest[1 - v2] = <<>>
  BY <1>1, <1>3, <1>8
<1>11. CASE op \in St!Signals /\ v4' = rest /\ v6' = <<op>> /\ UNCHANGED <<v1, v2, v3, v7>>
  <2>1. op \notin St!Operations
    BY <1>11 DEF St!Operations, St!Signals
  <2>2. ~St!Local /\ ~St!Local'
    BY <1>4, <2>1 DEF St!Local
  <2>3. v6' \in St!LastSignals
    BY <1>11 DEF St!LastSignals, St!Signals
  <2>4. St!SignalsInOrder'
    BY <1>1, <1>6, <1>10, <1>11, <2>2, <2>3 DEF St!SignalsInOrder
  <2>5. St!Settled(v1)' /\ v1'.out = v1.out
    BY <1>11, SocketKept DEF St!Inv
  <2>6. St!ReadyIsKnown'
    BY <1>11 DEF St!Inv, St!ReadyIsKnown
  <2> QED
    BY <1>11, <2>4, <2>5, <2>6 DEF St!Inv
<1>12. CASE /\ op \in St!Operations
                 /\ \E m \in {St!Close(v1)} \union St!Written(v1) : St!DeliverAfter(m, rest)
            /\ UNCHANGED <<v2, v3, v7>>
  <2>1. PICK m \in {St!Close(v1)} \union St!Written(v1) : St!DeliverAfter(m, rest)
    BY <1>12
  <2>2. Outcome(v1, m)
    BY SocketCloses, SocketWritten DEF St!Inv
  <2>3. St!SignalsInOrder' /\ St!Settled(v1)' /\ v1'.out = <<>> /\ Later(v1, v1')
    BY <1>1, <1>4, <1>7, <1>10, <1>12, <2>1, <2>2, SignalsDelivered
  <2>4. v1 \in St!Members /\ v1' \in St!Members
    BY <2>3 DEF St!Inv, St!Settled, St!Watched, St!Members, St!Interests, St!Watches, St!Signals
  <2> QED
    BY <1>12, <2>3, <2>4, ReadyStaysKnown DEF St!Inv
<1> QED
  BY <1>9, <1>11, <1>12

(* Another owner: with nothing in flight, the socket takes its watch along.*)
LEMMA MoveKeepsInv ==
  ASSUME St!Inv, St!Move, v8' = v8
  PROVE  St!Inv'
<1> DEFINE g == v1.gen + 1
           a == [v1 EXCEPT !.watch = None]
           m == [a EXCEPT !.gen = g]
           n == IF m.active /\ m.conn # St!NoFd THEN St!Registered(m) ELSE m
<1>1. /\ v2' = 1 - v2 /\ v4[v2] = <<>> /\ UNCHANGED <<v3, v4, v6, v7>>
  BY DEF St!Move
<1>2. v1' = n
  <2>1. m = [v1 EXCEPT !.watch = None, !.gen = @ + 1]
    OBVIOUS
  <2> QED
    BY <2>1 DEF St!Move
<1>3. /\ v1 \in St!Members /\ St!Tuned(v1) /\ g \in Nat /\ g > v1.gen
  BY MemberTypes DEF St!Inv, St!Settled, St!Watched
<1> HIDE DEF g, a, m
<1>4. /\ a \in St!Members /\ a.queue = v1.queue /\ a.conn = v1.conn /\ a.active = v1.active
      /\ a.interest = v1.interest /\ a.state = v1.state /\ a.watch = None
      /\ a.out = v1.out
  BY <1>3, SetWatchOnly DEF a
<1>5. /\ m \in St!Members /\ m.queue = v1.queue /\ m.conn = v1.conn /\ m.active = v1.active
      /\ m.interest = v1.interest /\ m.state = v1.state /\ m.watch = None
      /\ m.out = v1.out /\ m.gen = g
  BY <1>3, <1>4, SetGenOnly DEF m
<1> HIDE DEF n
<1>6. St!Tuned(n) /\ n \in St!Members /\ SameButWatch(m, n) /\ n.conn = m.conn
      /\ n.active = m.active
      /\ n.interest = m.interest /\ n.gen = m.gen
  <2>1. CASE m.active
    <3>1. n = St!Registered(m) /\ m.conn # St!NoFd
      BY <1>3, <1>5, <2>1 DEF St!Tuned, n
    <3>2. /\ n \in St!Members /\ n.queue = m.queue /\ n.conn = m.conn /\ n.active = m.active
          /\ n.gen = m.gen /\ n.interest = m.interest /\ n.state = m.state /\ n.out = m.out
          /\ n.watch = [conn |-> m.conn, gen |-> m.gen, interest |-> m.interest]
      BY <1>5, <3>1, RegisteredWatch
    <3>3. St!Tuned(n)
      BY <2>1, <3>1, <3>2 DEF St!Tuned
    <3> QED
      BY <3>2, <3>3 DEF SameButWatch
  <2>2. CASE ~m.active
    <3>1. n = m
      BY <2>2 DEF n
    <3> QED
      BY <1>5, <2>2, <3>1 DEF St!Tuned, SameButWatch
  <2> QED
    BY <2>1, <2>2
<1>7. /\ n \in St!Members /\ n.queue = v1.queue /\ n.conn = v1.conn /\ n.active = v1.active
      /\ n.interest = v1.interest /\ n.state = v1.state /\ n.out = v1.out /\ n.gen = g
  BY <1>5, <1>6 DEF SameButWatch
<1>8. St!Settled(n)
  BY <1>6, <1>7 DEF St!Inv, St!Settled, St!Watched, St!Live, St!Wanted, St!LocalInterest,
     St!TcpInterest
<1>9. St!Settled(v1)' /\ v1'.out = <<>>
  BY <1>2, <1>7, <1>8 DEF St!Inv, St!Settled, St!Watched, St!Tuned, St!Live, St!Wanted,
     St!Local, St!LocalInterest, St!TcpInterest
<1>10. Later(v1, v1')
  BY <1>2, <1>3, <1>7, MemberTypes DEF Later
<1>11. St!ReadyIsKnown'
  BY <1>1, <1>2, <1>3, <1>7, <1>10, ReadyStaysKnown DEF St!Inv
<1>12. St!SignalsInOrder'
  <2>1. /\ v2 \in St!Owners /\ v2' \in St!Owners /\ 1 - v2' = v2 /\ v4[1 - v2] = <<>>
    BY <1>1 DEF St!Inv, St!SignalsInOrder, St!Owners
  <2>2. St!Ordered(<<>>, v6, v1.state)
    BY <1>1 DEF St!Inv, St!SignalsInOrder
  <2>3. St!Ordered(<<>>, v6, v1'.state)
    BY <1>2, <1>7, <2>2
  <2>4. v4'[v2'] = <<>> /\ v4'[1 - v2'] = <<>> /\ <<>> \in Seq(St!Operations)
    BY <1>1, <2>1
  <2> QED
    BY <1>1, <2>1, <2>3, <2>4 DEF St!Inv, St!SignalsInOrder
<1> QED
  BY <1>1, <1>9, <1>11, <1>12 DEF St!Inv

(* Readiness is of the present watch when it is collected, and that it is  *)
(* of the present generation is looked at when it is handled.              *)
LEMMA CollectKeepsInv ==
  ASSUME St!Inv, St!CollectReady, v8' = v8
  PROVE  St!Inv'
<1>1. UNCHANGED <<v1, v2, v4, v6, v7>>
  BY DEF St!CollectReady
<1>2. PICK ev \in SUBSET {"read", "write", "err"} :
        v3' = [v3 EXCEPT ![v2] = @ \union {[gen |-> v1.watch.gen, conn |-> v1.watch.conn,
        ev |-> ev]}]
  <2> DEFINE w == v1.watch
             ev == (IF "read" \in w.interest
               /\ (v5.in > 0 \/ v5.st = "closed") THEN {"read"} ELSE {})
                   \union (IF "write" \in w.interest
                     /\ v5.st # "connecting" THEN {"write"} ELSE {})
                   \union (IF v5.st \in {"refused", "reset"} THEN {"err"} ELSE {})
  <2>1. v3' = [v3 EXCEPT ![v2] = @ \union {[gen |-> w.gen, conn |-> w.conn, ev |-> ev]}]
    BY DEF St!CollectReady
  <2>2. ev \in SUBSET {"read", "write", "err"}
    OBVIOUS
  <2> HIDE DEF ev
  <2> QED
    BY <2>1, <2>2
<1>3. v1.watch # None
  BY DEF St!CollectReady
<1>4. /\ v1.watch.gen = v1.gen /\ v1.watch.conn = v1.conn /\ v1.gen \in Nat /\ v1.conn \in Nat
      /\ v2 \in St!Owners
  <2>1. v1.active /\ v1 \in St!Members
    BY <1>3 DEF St!Inv, St!Settled, St!Watched, St!Tuned
  <2>2. v1.watch = [conn |-> v1.conn, gen |-> v1.gen, interest |-> v1.interest]
    BY <2>1 DEF St!Inv, St!Settled, St!Watched, St!Tuned
  <2> QED
    BY <2>1, <2>2, MemberTypes DEF St!Inv, St!SignalsInOrder
<1> DEFINE r == [gen |-> v1.gen, conn |-> v1.conn, ev |-> ev]
<1>5. r \in St!Readiness /\ r.gen = v1.gen /\ r.conn = v1.conn
  BY <1>4 DEF St!Readiness
<1>6. v3' = [v3 EXCEPT ![v2] = @ \union {r}]
  BY <1>2, <1>4
<1> HIDE DEF r
<1>7. /\ v3' \in [St!Owners -> SUBSET St!Readiness]
      /\ \A o \in St!Owners : \A e \in v3'[o] : e \in v3[o] \/ e = r
  BY <1>4, <1>5, <1>6 DEF St!Inv, St!ReadyIsKnown
<1>8. St!ReadyIsKnown'
  BY <1>1, <1>4, <1>5, <1>7 DEF St!Inv, St!ReadyIsKnown
<1>9. St!Settled(v1)' /\ v1'.out = v1.out
  BY <1>1, SocketKept DEF St!Inv
<1>10. St!SignalsInOrder'
  BY <1>1 DEF St!Inv, St!SignalsInOrder, St!Local
<1> QED
  BY <1>1, <1>8, <1>9, <1>10 DEF St!Inv

LEMMA DispatchKeepsInv ==
  ASSUME St!Inv, NEW o \in St!Owners, St!Dispatch(o), v8' = v8
  PROVE  St!Inv'
<1>1. PICK e \in v3[o] :
        /\ v3' = [v3 EXCEPT ![o] = @ \ {e}]
        /\ IF o = v2 /\ St!IsRegistrationCurrent(e)
           THEN \E m \in St!SignalledAndHandled(v1, e.ev) : St!Deliver(m)
           ELSE UNCHANGED <<v1, v4, v6>>
        /\ UNCHANGED <<v2, v7>>
  BY DEF St!Dispatch
<1>2. \E x \in St!Owners : \E y \in v3[x] : v3' = [v3 EXCEPT ![x] = @ \ {y}]
  BY <1>1
<1>3. v7' \in Nat /\ v2' = v2
  BY <1>1 DEF St!Inv
<1>4. CASE o = v2 /\ St!IsRegistrationCurrent(e)
  <2>1. PICK m \in St!HandleEvents(v1, e.ev) \union {St!Close(v1)} : St!Deliver(m)
    BY <1>1, <1>4 DEF St!SignalledAndHandled
  <2>2. Outcome(v1, m)
    BY <1>4, <2>1, EventsHandled, SocketCloses DEF St!Inv, St!IsRegistrationCurrent
  <2> QED
    BY <1>2, <1>3, <2>1, <2>2, DeliveryKeepsInv
<1>5. CASE ~(o = v2 /\ St!IsRegistrationCurrent(e))
  <2>1. UNCHANGED <<v1, v2, v4, v6, v7>>
    BY <1>1, <1>5
  <2>2. St!Settled(v1)' /\ v1'.out = v1.out /\ Later(v1, v1') /\ v1 \in St!Members
        /\ v1' \in St!Members
    BY <2>1, SocketKept, MembersKnown DEF St!Inv
  <2>3. St!ReadyIsKnown'
    BY <1>2, <2>2, ReadyStaysKnown DEF St!Inv
  <2>4. St!SignalsInOrder'
    BY <2>1 DEF St!Inv, St!SignalsInOrder, St!Local
  <2> QED
    BY <2>1, <2>2, <2>3, <2>4 DEF St!Inv
<1> QED
  BY <1>4, <1>5

LEMMA UntouchedKeepsInv ==
  ASSUME St!Inv, UNCHANGED <<v8, v2, v3, v4, v6, v7>>,
         v1' = v1 \/ v1' = [v1 EXCEPT !.buffer = FALSE]
  PROVE  St!Inv'
<1>1. St!Settled(v1)' /\ v1'.out = v1.out /\ v1'.state = v1.state /\ Later(v1, v1')
  BY SocketKept DEF St!Inv
<1>2. v1 \in St!Members /\ v1' \in St!Members
  BY <1>1 DEF St!Inv, St!Settled, St!Watched, St!Members, St!Interests, St!Watches, St!Signals
<1>3. St!ReadyIsKnown'
  BY <1>1, <1>2, ReadyStaysKnown DEF St!Inv
<1>4. St!SignalsInOrder'
  BY <1>1 DEF St!Inv, St!SignalsInOrder, St!Local
<1> QED
  BY <1>1, <1>3, <1>4 DEF St!Inv

LEMMA StreamNext == St!Inv /\ [St!Next]_St!vars => St!Inv'
<1> SUFFICES ASSUME St!Inv, [St!Next]_St!vars PROVE St!Inv'
  OBVIOUS
<1>1. CASE UNCHANGED St!vars
  BY <1>1, UntouchedKeepsInv DEF St!vars
<1>2. CASE St!Next
  <2>1. v8' = v8
    BY <1>2 DEF St!Next
  <2>2. CASE St!Connect \/ St!LocalConnect
    BY <2>1, <2>2, ConnectKeepsInv
  <2>3. CASE St!Write \/ St!CloseCall
    BY <2>1, <2>3, CallsKeepInv
  <2>4. CASE St!ReadAll \/ St!PeerStep
    BY <2>1, <2>4, UntouchedKeepsInv DEF St!ReadAll, St!PeerStep
  <2>5. CASE St!Move
    BY <2>1, <2>5, MoveKeepsInv
  <2>6. CASE St!CollectReady
    BY <2>1, <2>6, CollectKeepsInv
  <2>7. CASE \E op \in {"write", "close"} : St!Post(op)
    BY <2>1, <2>7, PostKeepsInv DEF St!Operations
  <2>8. CASE \E o \in St!Owners : St!RunClosure(o)
    BY <2>1, <2>8, ClosureKeepsInv
  <2>9. CASE \E o \in St!Owners : St!Dispatch(o)
    BY <2>1, <2>9, DispatchKeepsInv
  <2> QED
    BY <1>2, <2>2, <2>3, <2>4, <2>5, <2>6, <2>7, <2>8, <2>9 DEF St!Next
<1> QED
  BY <1>1, <1>2

LEMMA UnconnectedSocket ==
  /\ St!Unconnected \in St!Members /\ St!Tuned(St!Unconnected) /\ ~St!Unconnected.active
       /\ St!Unconnected.watch = None
  /\ St!Unconnected.state = "Disconnected" /\ St!Unconnected.queue = 0
       /\ St!Unconnected.out = <<>>
  BY DEF St!Unconnected, St!Members, St!Interests, St!NoFd, St!Signals, St!Tuned

LEMMA AdoptedSocket == St!Settled(St!Adopted) /\ St!Adopted.out = <<>> /\ St!Adopted.gen \in Nat
<1> DEFINE d == St!SetDescriptor(St!Unconnected, 1)
           a == [d EXCEPT !.state = "Connected"]
           u == St!UpdateInterest(a)
           n == St!StartWatching(u)
<1>1. Idle(St!Unconnected, d, 1)
  BY UnconnectedSocket, DescriptorSet
<1> HIDE DEF d
<1>2. /\ a \in St!Members /\ a.queue = d.queue /\ a.conn = d.conn /\ a.active = d.active
           /\ a.gen = d.gen
      /\ a.interest = d.interest /\ a.state = "Connected" /\ a.watch = d.watch /\ a.out = d.out
  BY <1>1, SetStateOnly DEF Idle
<1> HIDE DEF a
<1>3. St!Tuned(a) /\ a.conn # St!NoFd
  BY <1>1, <1>2 DEF Idle, St!Tuned, St!NoFd
<1>4. Aimed(a, u, St!Wanted(a))
  BY <1>2, <1>3, WantedIsInterest, InterestSet DEF St!UpdateInterest, St!Wanted
<1> HIDE DEF u
<1>5. Watching(u, n)
  BY <1>2, <1>3, <1>4, WatchingStarts DEF Aimed
<1> HIDE DEF n
<1>6. n.state = "Connected" /\ n.queue = a.queue /\ n.interest = St!Wanted(a) /\ n.out = <<>>
  BY <1>1, <1>2, <1>4, <1>5, UnconnectedSocket DEF Aimed, Watching, SameButWatch, Idle
<1>7. St!Wanted(n) = St!Wanted(a)
  BY <1>2, <1>6 DEF St!Wanted, St!LocalInterest, St!TcpInterest
<1>8. St!Settled(n)
  BY <1>5, <1>6, <1>7 DEF St!Settled, St!Watched, Watching, St!Live
<1>9. n = St!Adopted
  BY DEF St!Adopted, n, u, a, d
<1> QED
  BY <1>6, <1>8, <1>9, MemberTypes DEF St!Settled, St!Watched

LEMMA StreamInit == St!Init => St!Inv
<1> SUFFICES ASSUME St!Init PROVE St!Inv
  OBVIOUS
<1>1. St!Settled(St!Unconnected)
  BY UnconnectedSocket DEF St!Settled, St!Watched, St!Live
<1>2. St!Settled(v1) /\ v1.out = <<>> /\ v7 \in Nat
  BY <1>1, UnconnectedSocket, AdoptedSocket DEF St!Init
<1>3. St!ReadyIsKnown
  BY DEF St!Init, St!ReadyIsKnown
<1>4. St!SignalsInOrder
  <2>1. v2 = 0 /\ 1 - v2 = 1 /\ v4[0] = <<>> /\ v4[1] = <<>> /\ v6 = <<>>
    BY DEF St!Init, St!Owners
  <2>2. <<>> \in Seq(St!Operations) /\ <<>> \in St!Closures /\ St!Ordered(<<>>, <<>>, v1.state)
    BY DEF St!Closures, St!Ordered
  <2> QED
    BY <2>1, <2>2 DEF St!Init, St!SignalsInOrder, St!Owners, St!LastSignals
<1> QED
  BY <1>2, <1>3, <1>4 DEF St!Inv

LEMMA StreamFollowsState == St!Inv => St!WatchFollowsState
<1> SUFFICES ASSUME St!Inv PROVE St!WatchFollowsState
  OBVIOUS
<1>1. /\ v1 \in St!Members /\ St!Tuned(v1) /\ (v1.active <=> St!Live(v1))
           /\ (v1.queue > 0 => v1.active)
      /\ (v1.active => v1.interest = St!Wanted(v1)) /\ v2 \in St!Owners
  BY DEF St!Inv, St!Settled, St!Watched, St!SignalsInOrder
<1>2. \A e \in v3[v2] : St!IsRegistrationCurrent(e) => e.conn = v1.conn
  BY <1>1 DEF St!Inv, St!ReadyIsKnown, St!IsRegistrationCurrent
<1>3. v1.active <=> v1.watch # None
  BY <1>1, WatchOfMembers, StreamAssumption DEF St!Tuned
<1>4. v1.state \in {"Connected", "Connecting"} <=> v1.watch # None
  BY <1>1, <1>3 DEF St!Live
<1>5. ASSUME v1.watch # None
      PROVE  /\ v1.watch.gen = v1.gen /\ v1.watch.conn = v1.conn
             /\ "write" \in v1.watch.interest <=> (v1.queue > 0 \/ v1.state = "Connecting")
             /\ v1.state = "Connected" => "read" \in v1.watch.interest
  <2>1. v1.watch = [conn |-> v1.conn, gen |-> v1.gen, interest |-> v1.interest] /\ St!Live(v1)
    BY <1>1, <1>3, <1>5 DEF St!Tuned
  <2>2. v1.watch.gen = v1.gen /\ v1.watch.conn = v1.conn /\ v1.watch.interest = St!Wanted(v1)
    BY <1>1, <1>3, <1>5, <2>1
  <2>3. "write" \in St!Wanted(v1) <=> (v1.queue > 0 \/ v1.state = "Connecting")
    BY <2>1 DEF St!Wanted, St!LocalInterest, St!TcpInterest, St!Live
  <2>4. v1.state = "Connected" => "read" \in St!Wanted(v1)
    BY <2>1 DEF St!Wanted, St!LocalInterest, St!TcpInterest, St!Live
  <2> QED
    BY <2>2, <2>3, <2>4
<1> QED
  BY <1>2, <1>4, <1>5 DEF St!WatchFollowsState

LEMMA AnsweredBehind ==
  ASSUME NEW l \in Seq(St!Signals), NEW q \in St!Closures, NEW i \in Nat, NEW st,
         St!Answered(q, i, st),
         NEW n \in Nat, n = Len(l)
  PROVE  St!Answered(l \o q, n + i, st)
<1> DEFINE a == l \o q
<1>1. /\ Len(q) \in Nat /\ Len(a) = n + Len(q) /\ \A j \in 1 .. Len(q) : a[n + j] = q[j]
  BY DEF St!Closures
<1> HIDE DEF a
<1>2. CASE \E k \in i + 1 .. Len(q) : q[k] = "disconnected"
           /\ \A j \in i + 1 .. k - 1 : q[j] # "connected"
  <2>1. PICK k \in i + 1 .. Len(q) : q[k] = "disconnected"
             /\ \A j \in i + 1 .. k - 1 : q[j] # "connected"
    BY <1>2
  <2>2. n + k \in n + i + 1 .. Len(a) /\ k \in 1 .. Len(q)
    BY <1>1
  <2>3. ASSUME NEW j \in n + i + 1 .. n + k - 1 PROVE a[j] # "connected"
    <3>1. j - n \in i + 1 .. k - 1 /\ j - n \in 1 .. Len(q) /\ n + (j - n) = j
      BY <2>2
    <3> QED
      BY <1>1, <2>1, <3>1
  <2> QED
    BY <1>1, <2>1, <2>2, <2>3 DEF St!Answered, a
<1>3. CASE st = "Connected" /\ \A j \in i + 1 .. Len(q) : q[j] \notin St!Signals
  <2>1. ASSUME NEW j \in n + i + 1 .. Len(a) PROVE a[j] \notin St!Signals
    <3>1. j - n \in i + 1 .. Len(q) /\ j - n \in 1 .. Len(q) /\ n + (j - n) = j
      BY <1>1
    <3> QED
      BY <1>1, <1>3, <3>1
  <2> QED
    BY <1>3, <2>1 DEF St!Answered, a
<1> QED
  BY <1>2, <1>3 DEF St!Answered

LEMMA StreamSignalsAnswered == St!Inv => St!ConnectedThenDisconnected
<1> SUFFICES ASSUME St!Inv PROVE St!ConnectedThenDisconnected
  OBVIOUS
<1> DEFINE q == v4[v2]
           a == v6 \o q
<1>1. q \in St!Closures /\ v6 \in St!LastSignals /\ v4[1 - v2] = <<>>
      /\ St!Ordered(q, v6, v1.state)
  BY DEF St!Inv, St!SignalsInOrder
<1>2. v6 \in Seq(St!Signals)
  <2>1. <<>> \in Seq(St!Signals) /\ <<"connected">> \in Seq(St!Signals)
        /\ <<"disconnected">> \in Seq(St!Signals)
    BY DEF St!Signals
  <2> QED
    BY <1>1, <2>1 DEF St!LastSignals
<1>3. v6 \o v4[1 - v2] \o v4[v2] = a
  BY <1>1, <1>2
<1> DEFINE n == Len(v6)
<1>4. /\ n \in Nat /\ Len(q) \in Nat /\ Len(a) = n + Len(q)
      /\ \A i \in 1 .. n : a[i] = v6[i]
      /\ \A j \in 1 .. Len(q) : a[n + j] = q[j]
  BY <1>1, <1>2 DEF St!Closures
<1> HIDE DEF q, a
<1>5. ASSUME NEW i \in 1 .. Len(a), a[i] = "connected" PROVE St!Answered(a, i, v1.state)
  <2>1. CASE i \in 1 .. n
    <3>1. v6[i] = "connected" /\ n # 0
      BY <1>4, <1>5, <2>1
    <3>2. v6 = <<"connected">> /\ n = 1 /\ i = 1
      BY <1>1, <2>1, <3>1 DEF St!LastSignals
    <3>3. St!Answered(q, 0, v1.state)
      BY <1>1, <3>2 DEF St!Ordered
    <3>4. St!Answered(v6 \o q, n + 0, v1.state)
      BY <1>1, <1>2, <1>4, <3>3, AnsweredBehind
    <3> QED
      BY <1>4, <3>2, <3>4 DEF a
  <2>2. CASE i \notin 1 .. n
    <3> DEFINE j == i - n
    <3>1. j \in 1 .. Len(q) /\ j \in Nat /\ n + j = i
      BY <1>4, <2>2
    <3>2. St!Answered(q, j, v1.state)
      BY <1>1, <1>4, <1>5, <3>1 DEF St!Ordered
    <3> HIDE DEF j
    <3>3. St!Answered(v6 \o q, n + j, v1.state)
      BY <1>1, <1>2, <1>4, <3>1, <3>2, AnsweredBehind
    <3> QED
      BY <3>1, <3>3 DEF a
  <2> QED
    BY <2>1, <2>2
<1> QED
  BY <1>3, <1>5 DEF St!ConnectedThenDisconnected

-----------------------------------------------------------------------------
(* A server of either class. Whether it listens is in v1, its descriptor   *)
(* in v2, its limit in v3, the pending clients in v4, those that have not  *)
(* been accepted in v5, the stage of the accept loop and the slot in v6    *)
(* and v7, the announcements in v8, where each client is in v9, the calls  *)
(* of listen() in v10, the path in v11, the class in v12.                  *)
Sv == INSTANCE SocketServer WITH
    m_listening <- v1, listenFd <- v2, m_maxPendingConnections <- v3,
    m_pendingConnections <- v4, backlog <- v5, accepting <- v6, inSlot <- v7,
    announced <- v8, client <- v9, listens <- v10, path <- v11,
    LocalServer <- v12

(* A list that has every client at most once: one more, and the first gone. *)
LEMMA NewLast ==
  ASSUME NEW S, NEW s \in Seq(S), Sv!IsInjective(s), NEW e \in S, e \notin Sv!Range(s)
  PROVE  LET t == Append(s, e) IN
         t \in Seq(S) /\ Sv!IsInjective(t) /\ Sv!Range(t) = Sv!Range(s) \union {e}
<1> DEFINE t == Append(s, e)
<1>1. /\ t \in Seq(S) /\ Len(s) \in Nat /\ DOMAIN s = 1 .. Len(s)
      /\ DOMAIN t = 1 .. Len(s) + 1 /\ t[Len(s) + 1] = e
      /\ \A i \in 1 .. Len(s) : t[i] = s[i]
  OBVIOUS
<1> HIDE DEF t
<1>2. \A i \in DOMAIN t : i \in DOMAIN s \/ i = Len(s) + 1
  BY <1>1
<1>3. Sv!IsInjective(t)
  BY <1>1, <1>2 DEF Sv!IsInjective, Sv!Range
<1>4. Sv!Range(t) = Sv!Range(s) \union {e}
  <2>1. \A i \in DOMAIN s : i \in DOMAIN t /\ t[i] = s[i]
    BY <1>1
  <2>2. Len(s) + 1 \in DOMAIN t
    BY <1>1
  <2> QED
    BY <1>1, <1>2, <2>1, <2>2 DEF Sv!Range
<1> QED
  BY <1>1, <1>3, <1>4 DEF t

LEMMA FirstGone ==
  ASSUME NEW S, NEW s \in Seq(S), Sv!IsInjective(s), s # <<>>
  PROVE  /\ Head(s) \in S /\ Head(s) \in Sv!Range(s) /\ Tail(s) \in Seq(S)
         /\ Sv!IsInjective(Tail(s)) /\ Sv!Range(Tail(s)) = Sv!Range(s) \ {Head(s)}
<1> DEFINE t == Tail(s)
<1>1. /\ Len(s) \in Nat /\ Len(s) >= 1 /\ DOMAIN s = 1 .. Len(s)
      /\ t \in Seq(S) /\ DOMAIN t = 1 .. Len(s) - 1 /\ Head(s) = s[1] /\ s[1] \in S
      /\ \A i \in 1 .. Len(s) - 1 : t[i] = s[i + 1]
  OBVIOUS
<1> HIDE DEF t
<1>2. Head(s) \in Sv!Range(s)
  BY <1>1 DEF Sv!Range
<1>3. \A i \in DOMAIN t : i + 1 \in DOMAIN s /\ t[i] = s[i + 1] /\ i \in Nat /\ i + 1 # 1
  BY <1>1
<1>4. \A i \in DOMAIN s : i = 1 \/ (i - 1 \in DOMAIN t /\ t[i - 1] = s[i])
  BY <1>1
<1>5. Sv!IsInjective(t)
  BY <1>3 DEF Sv!IsInjective
<1>6. Sv!Range(t) = Sv!Range(s) \ {Head(s)}
  <2>1. \A i \in DOMAIN t : t[i] # s[1]
    BY <1>1, <1>3 DEF Sv!IsInjective
  <2>2. Sv!Range(t) \subseteq Sv!Range(s) \ {s[1]}
    BY <1>3, <2>1 DEF Sv!Range
  <2>3. Sv!Range(s) \ {s[1]} \subseteq Sv!Range(t)
    BY <1>4 DEF Sv!Range
  <2> QED
    BY <1>1, <2>2, <2>3
<1> QED
  BY <1>1, <1>2, <1>5, <1>6 DEF t

LEMMA NoneThere ==
  /\ \A S : <<>> \in Seq(S)
  /\ Sv!IsInjective(<<>>) /\ Sv!Range(<<>>) = {}
  BY DEF Sv!IsInjective, Sv!Range

(* Every client in one place, when some have got to another.               *)
LEMMA ServerInit == Sv!Init => Sv!Inv
  BY NoneThere DEF Sv!Init, Sv!Inv, Sv!TypeOK, Sv!InOnePlace, Sv!NoneWithoutListening

(* Everything that waits is let go, with the listening socket.             *)
LEMMA AllDropped ==
  ASSUME Sv!Inv, Sv!CloseDropsPending, v5' = <<>>, UNCHANGED <<v12, v7>>,
         v1' \in BOOLEAN, v12 => v11' = v2'
  PROVE  Sv!Inv'
<1>1. /\ v9' = [c \in Sv!Clients |-> IF c \in Sv!Range(v4) THEN "deleted"
                                      ELSE IF c \in Sv!Range(v5) THEN "refused" ELSE v9[c]]
      /\ v4' = <<>>
  BY DEF Sv!CloseDropsPending
<1>2. Sv!TypeOK'
  BY <1>1, NoneThere DEF Sv!Inv, Sv!TypeOK
<1>3. \A c \in Sv!Clients : v9'[c] # "pending" /\ v9'[c] # "backlog"
  BY <1>1 DEF Sv!Inv, Sv!TypeOK, Sv!InOnePlace
<1>4. Sv!IsInjective(v4)' /\ Sv!IsInjective(v5)'
  BY <1>1, NoneThere
<1>5. Sv!Range(v4)' = {} /\ Sv!Range(v5)' = {}
  BY <1>1, NoneThere
<1>6. Sv!InOnePlace'
  BY <1>3, <1>4, <1>5 DEF Sv!InOnePlace
<1> QED
  BY <1>1, <1>2, <1>6 DEF Sv!Inv, Sv!NoneWithoutListening

LEMMA ServerCloses ==
  ASSUME Sv!Inv, Sv!CloseServer, UNCHANGED <<v12, v7>>
  PROVE  Sv!Inv'
<1>1. v1' = FALSE /\ v2' = 0 /\ v5' = <<>> /\ v11' = 0
  BY DEF Sv!CloseServer
<1>2. CASE v12 /\ ~v1
  <2>1. v4 = <<>> /\ v5 = <<>> /\ UNCHANGED <<v4, v5>>
    BY <1>1, <1>2 DEF Sv!CloseServer, Sv!Inv, Sv!NoneWithoutListening
  <2>2. v9' = v9
    <3>1. v9' = [c \in Sv!Clients |-> IF c \in {} THEN "refused" ELSE v9[c]]
      BY <1>2, <2>1, NoneThere DEF Sv!CloseServer, Sv!Fate
    <3> QED
      BY <3>1 DEF Sv!Inv, Sv!TypeOK
  <2> QED
    BY <1>1, <2>1, <2>2 DEF Sv!Inv, Sv!TypeOK, Sv!InOnePlace, Sv!NoneWithoutListening
<1>3. CASE Sv!CloseDropsPending
  BY <1>1, <1>3, AllDropped
<1> QED
  BY <1>2, <1>3 DEF Sv!CloseServer

LEMMA ServerHandsOut ==
  ASSUME Sv!Inv, Sv!NextPendingConnection, UNCHANGED v12
  PROVE  Sv!Inv'
<1>1. /\ v4 # <<>> /\ v4' = Tail(v4)
      /\ v9' = [c \in Sv!Clients |-> IF c \in {Head(v4)} THEN "handed out"
                                      ELSE v9[c]]
      /\ UNCHANGED <<v1, v2, v11, v5, v7>>
  BY DEF Sv!NextPendingConnection, Sv!Fate
<1>2. /\ Head(v4) \in Sv!Clients
      /\ Head(v4) \in Sv!Range(v4)
      /\ v4' \in Seq(Sv!Clients) /\ Sv!IsInjective(v4')
      /\ Sv!Range(v4') = Sv!Range(v4) \ {Head(v4)}
  BY <1>1, FirstGone DEF Sv!Inv, Sv!TypeOK, Sv!InOnePlace
<1>3. \A c \in Sv!Clients :
        v9'[c] = IF c = Head(v4) THEN "handed out" ELSE v9[c]
  BY <1>1
<1>4. Sv!TypeOK'
  BY <1>1, <1>2 DEF Sv!Inv, Sv!TypeOK
<1>5. v9[Head(v4)] = "pending"
  BY <1>2 DEF Sv!Inv, Sv!InOnePlace
<1>6. Sv!InOnePlace'
  <2>1. \A c \in Sv!Clients : v9'[c] = "pending" <=> c \in Sv!Range(v4')
    BY <1>2, <1>3 DEF Sv!Inv, Sv!InOnePlace
  <2>2. \A c \in Sv!Clients : v9'[c] = "backlog" <=> c \in Sv!Range(v5')
    BY <1>1, <1>2, <1>3, <1>5 DEF Sv!Inv, Sv!InOnePlace
  <2> QED
    BY <1>1, <1>2, <2>1, <2>2 DEF Sv!Inv, Sv!InOnePlace
<1>7. Sv!NoneWithoutListening'
  BY <1>1 DEF Sv!Inv, Sv!NoneWithoutListening
<1> QED
  BY <1>4, <1>6, <1>7 DEF Sv!Inv

LEMMA ServerAccepts ==
  ASSUME Sv!Inv, Sv!AcceptOne, UNCHANGED v12
  PROVE  Sv!Inv'
<1> DEFINE h == Head(v5)
           f == IF Len(v4) < v3 THEN "pending" ELSE "refused"
<1>1. /\ v5 # <<>> /\ v5' = Tail(v5)
      /\ v9' = [c \in Sv!Clients |-> IF c \in {h} THEN f ELSE v9[c]]
      /\ UNCHANGED <<v1, v2, v11>> /\ v7' \in BOOLEAN
  BY DEF Sv!AcceptOne, Sv!Fate, Sv!Inv, Sv!TypeOK
<1>2. /\ h \in Sv!Clients /\ h \in Sv!Range(v5)
      /\ v5' \in Seq(Sv!Clients) /\ Sv!IsInjective(v5') /\ Sv!Range(v5') = Sv!Range(v5) \ {h}
  BY <1>1, FirstGone DEF Sv!Inv, Sv!TypeOK, Sv!InOnePlace
<1>3. \A c \in Sv!Clients : v9'[c] = IF c = h THEN f ELSE v9[c]
  BY <1>1
<1>4. v9[h] = "backlog" /\ h \notin Sv!Range(v4) /\ v1
  BY <1>1, <1>2 DEF Sv!Inv, Sv!InOnePlace, Sv!NoneWithoutListening
<1>5. /\ v4' \in Seq(Sv!Clients) /\ Sv!IsInjective(v4')
      /\ Sv!Range(v4') = Sv!Range(v4)
                                          \union (IF f = "pending" THEN {h} ELSE {})
  <2>1. CASE Len(v4) < v3
    <3>1. v4' = Append(v4, h)
      BY <2>1 DEF Sv!AcceptOne
    <3>2. f = "pending"
      BY <2>1
    <3> HIDE DEF f, h
    <3>3. v4 \in Seq(Sv!Clients) /\ Sv!IsInjective(v4)
      BY DEF Sv!Inv, Sv!TypeOK, Sv!InOnePlace
    <3>4. /\ v4' \in Seq(Sv!Clients) /\ Sv!IsInjective(v4')
          /\ Sv!Range(v4') = Sv!Range(v4) \union {h}
      BY <1>2, <1>4, <3>1, <3>3, NewLast
    <3> QED
      BY <3>2, <3>4
  <2>2. CASE ~(Len(v4) < v3)
    <3>1. v4' = v4
      BY <2>2 DEF Sv!AcceptOne
    <3> QED
      BY <2>2, <3>1 DEF Sv!Inv, Sv!TypeOK, Sv!InOnePlace
  <2> QED
    BY <2>1, <2>2
<1>6. f \in {"pending", "refused"}
  OBVIOUS
<1> HIDE DEF h, f
<1>7. Sv!TypeOK'
  BY <1>1, <1>2, <1>5, <1>6 DEF Sv!Inv, Sv!TypeOK
<1>8. \A c \in Sv!Clients : v9'[c] = "pending" <=> c \in Sv!Range(v4')
  BY <1>2, <1>3, <1>4, <1>5, <1>6 DEF Sv!Inv, Sv!InOnePlace
<1>9. \A c \in Sv!Clients : v9'[c] = "backlog" <=> c \in Sv!Range(v5')
  BY <1>2, <1>3, <1>4, <1>6 DEF Sv!Inv, Sv!InOnePlace
<1>10. Sv!InOnePlace'
  BY <1>2, <1>5, <1>8, <1>9 DEF Sv!InOnePlace
<1>11. Sv!NoneWithoutListening'
  BY <1>1, <1>4 DEF Sv!Inv, Sv!NoneWithoutListening
<1> QED
  BY <1>7, <1>10, <1>11 DEF Sv!Inv

LEMMA ServerIsCalled ==
  ASSUME Sv!Inv, NEW k \in Sv!Clients, Sv!ClientConnects(k), UNCHANGED v12
  PROVE  Sv!Inv'
<1>1. /\ v9[k] = "new" /\ v1 /\ v5' = Append(v5, k)
      /\ v9' = [c \in Sv!Clients |-> IF c \in {k} THEN "backlog" ELSE v9[c]]
      /\ UNCHANGED <<v1, v2, v4, v11, v7>>
  BY DEF Sv!ClientConnects, Sv!Fate, Sv!serverVars
<1>2. k \notin Sv!Range(v5) /\ k \notin Sv!Range(v4)
  BY <1>1 DEF Sv!Inv, Sv!InOnePlace
<1>3. v5' \in Seq(Sv!Clients) /\ Sv!IsInjective(v5') /\ Sv!Range(v5') = Sv!Range(v5) \union {k}
  BY <1>1, <1>2, NewLast DEF Sv!Inv, Sv!TypeOK, Sv!InOnePlace
<1>4. \A c \in Sv!Clients : v9'[c] = IF c = k THEN "backlog" ELSE v9[c]
  BY <1>1
<1>5. Sv!TypeOK'
  BY <1>1, <1>3 DEF Sv!Inv, Sv!TypeOK
<1>6. \A c \in Sv!Clients : v9'[c] = "pending" <=> c \in Sv!Range(v4')
  BY <1>1, <1>2, <1>4 DEF Sv!Inv, Sv!InOnePlace
<1>7. \A c \in Sv!Clients : v9'[c] = "backlog" <=> c \in Sv!Range(v5')
  BY <1>3, <1>4 DEF Sv!Inv, Sv!InOnePlace
<1>8. Sv!InOnePlace'
  BY <1>1, <1>3, <1>6, <1>7 DEF Sv!Inv, Sv!InOnePlace
<1>9. Sv!NoneWithoutListening'
  BY <1>1 DEF Sv!Inv, Sv!NoneWithoutListening
<1> QED
  BY <1>5, <1>8, <1>9 DEF Sv!Inv

LEMMA ServerNext == Sv!Inv /\ [Sv!Next]_Sv!vars => Sv!Inv'
<1> SUFFICES ASSUME Sv!Inv, [Sv!Next]_Sv!vars PROVE Sv!Inv'
  OBVIOUS
<1>1. CASE UNCHANGED v12 /\ Sv!Close
  BY <1>1, ServerCloses DEF Sv!Close
<1>2. CASE UNCHANGED v12 /\ Sv!ListenFails
  BY <1>2, ServerCloses DEF Sv!ListenFails
<1>3. CASE UNCHANGED v12 /\ Sv!Listen
  <2>1. /\ v1' = TRUE /\ v2' = v10 + 1 /\ v5' = <<>> /\ Sv!CloseDropsPending
        /\ v11' = (IF v12 THEN v10 + 1 ELSE 0) /\ UNCHANGED <<v12, v7>>
    BY <1>3 DEF Sv!Listen
  <2>2. v1' \in BOOLEAN /\ (v12 => v11' = v2')
    BY <2>1
  <2> QED
    BY <2>1, <2>2, AllDropped
<1>4. CASE UNCHANGED v12 /\ Sv!NextPendingConnection
  BY <1>4, ServerHandsOut
<1>5. CASE UNCHANGED v12 /\ Sv!AcceptOne
  BY <1>5, ServerAccepts
<1>6. ASSUME UNCHANGED v12, NEW c \in Sv!Clients, Sv!ClientConnects(c) PROVE Sv!Inv'
  BY <1>6, ServerIsCalled
<1>7. ASSUME UNCHANGED <<v12, v1, v2, v4, v11, v5, v9>>,
             v7' \in BOOLEAN
      PROVE  Sv!Inv'
  <2>1. Sv!TypeOK'
    BY <1>7 DEF Sv!Inv, Sv!TypeOK
  <2>2. Sv!InOnePlace'
    BY <1>7 DEF Sv!Inv, Sv!InOnePlace
  <2>3. Sv!NoneWithoutListening'
    BY <1>7 DEF Sv!Inv, Sv!NoneWithoutListening
  <2> QED
    BY <2>1, <2>2, <2>3 DEF Sv!Inv
<1>8. CASE UNCHANGED v12 /\ \E n \in 1 .. 2 : Sv!SetMaxPendingConnections(n)
  BY <1>7, <1>8 DEF Sv!SetMaxPendingConnections, Sv!Inv, Sv!TypeOK
<1>9. CASE UNCHANGED v12
           /\ (Sv!HandleEvents \/ Sv!AcceptEnds \/ Sv!SlotReturns \/ Sv!EmitNewConnection)
  <2>1. v7' \in BOOLEAN
    BY <1>9 DEF Sv!HandleEvents, Sv!AcceptEnds, Sv!SlotReturns, Sv!EmitNewConnection, Sv!Inv,
       Sv!TypeOK
  <2> QED
    BY <1>7, <1>9, <2>1 DEF Sv!HandleEvents, Sv!AcceptEnds, Sv!SlotReturns,
       Sv!EmitNewConnection, Sv!serverVars
<1>10. CASE UNCHANGED Sv!vars
  BY <1>7, <1>10 DEF Sv!vars, Sv!serverVars, Sv!Inv, Sv!TypeOK
<1> QED
  BY <1>1, <1>2, <1>3, <1>4, <1>5, <1>6, <1>8, <1>9, <1>10 DEF Sv!Next

LEMMA ServerAccounts == Sv!Inv => Sv!AcceptedAreAccounted
  BY DEF Sv!Inv, Sv!InOnePlace, Sv!NoneWithoutListening, Sv!AcceptedAreAccounted

-----------------------------------------------------------------------------
(* A datagram socket. Its members are in v1 to v3 and v5 to v6, what the   *)
(* system holds for it in v4, the calls from other threads in v7, the one  *)
(* that runs in v8, the posted sends in v9, the datagrams that have come   *)
(* in v10, the calls of bind() in v11, what was delivered in v12, the      *)
(* calls that failed and were applied in v13.                              *)
Ud == INSTANCE UdpSocket WITH
    Callers <- UdpCallers,
    m_state <- v1, udpFd <- v2, m_pendingDatagrams <- v3, kernelQueue <- v4,
    udpActive <- v5, joined <- v6, call <- v7, ownerRuns <- v8, sends <- v9,
    arrived <- v10, binds <- v11, delivered <- v12, lostBinds <- v13

(* Putting stretches of datagrams together, adding one that has just come, *)
(* and taking the first.                                                   *)
LEMMA StretchesJoin ==
  ASSUME NEW s \in Seq(Nat), NEW t \in Seq(Nat), Ud!Rising(s), Ud!Rising(t), Ud!Before(s, t)
  PROVE  s \o t \in Seq(Nat) /\ Ud!Rising(s \o t)
<1>1. s \o t \in Seq(Nat) /\ Len(s \o t) = Len(s) + Len(t)
  OBVIOUS
<1>2. \A i \in 1 .. Len(s) + Len(t) :
        (s \o t)[i] = IF i <= Len(s) THEN s[i] ELSE t[i - Len(s)]
  OBVIOUS
<1>3. ASSUME NEW i \in 1 .. Len(s) + Len(t), NEW j \in 1 .. Len(s) + Len(t), i < j
      PROVE  (s \o t)[i] < (s \o t)[j]
  <2>1. CASE j <= Len(s)
    BY <1>2, <1>3, <2>1 DEF Ud!Rising
  <2>2. CASE i <= Len(s) /\ j > Len(s)
    <3>1. j - Len(s) \in 1 .. Len(t) /\ i \in 1 .. Len(s)
      BY <2>2
    <3> QED
      BY <1>2, <2>2, <3>1 DEF Ud!Before
  <2>3. CASE i > Len(s)
    <3>1. i - Len(s) \in 1 .. Len(t) /\ j - Len(s) \in 1 .. Len(t) /\ i - Len(s) < j - Len(s)
      BY <1>3, <2>3
    <3>2. t[i - Len(s)] < t[j - Len(s)]
      BY <3>1 DEF Ud!Rising
    <3>3. (s \o t)[i] = t[i - Len(s)] /\ (s \o t)[j] = t[j - Len(s)]
      BY <1>2, <1>3, <2>3
    <3> QED
      BY <3>2, <3>3
  <2> QED
    BY <2>1, <2>2, <2>3
<1> QED
  BY <1>1, <1>3 DEF Ud!Rising

LEMMA StretchesStayApart ==
  ASSUME NEW s \in Seq(Nat), NEW t \in Seq(Nat), NEW u \in Seq(Nat)
  PROVE  /\ Ud!Before(s, u) /\ Ud!Before(t, u) => Ud!Before(s \o t, u)
         /\ Ud!Before(u, s) /\ Ud!Before(u, t) => Ud!Before(u, s \o t)
<1>1. Len(s \o t) = Len(s) + Len(t)
  OBVIOUS
<1>2. ASSUME NEW i \in 1 .. Len(s) + Len(t)
      PROVE  \/ i \in 1 .. Len(s) /\ (s \o t)[i] = s[i]
             \/ i - Len(s) \in 1 .. Len(t) /\ (s \o t)[i] = t[i - Len(s)]
  OBVIOUS
<1>3. ASSUME Ud!Before(s, u), Ud!Before(t, u), NEW i \in 1 .. Len(s \o t), NEW j \in 1 .. Len(u)
      PROVE  (s \o t)[i] < u[j]
  BY <1>1, <1>2, <1>3 DEF Ud!Before
<1>4. ASSUME Ud!Before(u, s), Ud!Before(u, t), NEW j \in 1 .. Len(u), NEW i \in 1 .. Len(s \o t)
      PROVE  u[j] < (s \o t)[i]
  BY <1>1, <1>2, <1>4 DEF Ud!Before
<1> QED
  BY <1>3, <1>4 DEF Ud!Before

LEMMA StretchesReach ==
  ASSUME NEW s \in Seq(Nat), NEW t \in Seq(Nat), NEW n \in Nat, Ud!UpTo(s, n), Ud!UpTo(t, n)
  PROVE  Ud!UpTo(s \o t, n)
<1>1. Len(s \o t) = Len(s) + Len(t)
  OBVIOUS
<1>2. ASSUME NEW i \in 1 .. Len(s) + Len(t)
      PROVE  \/ i \in 1 .. Len(s) /\ (s \o t)[i] = s[i]
             \/ i - Len(s) \in 1 .. Len(t) /\ (s \o t)[i] = t[i - Len(s)]
  OBVIOUS
<1> QED
  BY <1>1, <1>2 DEF Ud!UpTo

LEMMA NoDatagrams ==
  ASSUME NEW s \in Seq(Nat), NEW n \in Nat
  PROVE  /\ <<>> \in Seq(Nat) /\ Ud!Rising(<<>>) /\ Ud!Before(s, <<>>) /\ Ud!Before(<<>>, s)
              /\ Ud!UpTo(<<>>, n)
  BY DEF Ud!Rising, Ud!Before, Ud!UpTo

LEMMA DatagramComes ==
  ASSUME NEW s \in Seq(Nat), NEW n \in Nat, Ud!Rising(s), Ud!UpTo(s, n)
  PROVE  /\ Append(s, n + 1) \in Seq(Nat) /\ Ud!Rising(Append(s, n + 1))
              /\ Ud!UpTo(Append(s, n + 1), n + 1)
<1>1. /\ Append(s, n + 1) \in Seq(Nat) /\ Len(Append(s, n + 1)) = Len(s) + 1
      /\ Append(s, n + 1)[Len(s) + 1] = n + 1
  OBVIOUS
<1>2. ASSUME NEW i \in 1 .. Len(s) PROVE Append(s, n + 1)[i] = s[i] /\ s[i] \in Nat
  OBVIOUS
<1>3. ASSUME NEW i \in 1 .. Len(s) + 1 PROVE i = Len(s) + 1 \/ i \in 1 .. Len(s)
  OBVIOUS
<1> QED
  BY <1>1, <1>2, <1>3 DEF Ud!Rising, Ud!UpTo

LEMMA DatagramIsLater ==
  ASSUME NEW s \in Seq(Nat), NEW t \in Seq(Nat), NEW n \in Nat, Ud!Before(t, s), Ud!UpTo(t, n)
  PROVE  Ud!Before(t, Append(s, n + 1)) /\ Ud!UpTo(t, n + 1)
  BY DEF Ud!Before, Ud!UpTo

LEMMA DatagramTaken ==
  ASSUME NEW d \in Seq(Nat), NEW s \in Seq(Nat), NEW k \in Seq(Nat), NEW n \in Nat, s # <<>>,
         Ud!Rising(d), Ud!Rising(s), Ud!Before(d, s), Ud!Before(d, k), Ud!Before(s, k),
         Ud!UpTo(d, n), Ud!UpTo(s, n)
  PROVE  LET d2 == Append(d, Head(s))
             s2 == Tail(s)
         IN  /\ d2 \in Seq(Nat) /\ s2 \in Seq(Nat) /\ Ud!Rising(d2) /\ Ud!Rising(s2)
             /\ Ud!Before(d2, s2) /\ Ud!Before(d2, k) /\ Ud!Before(s2, k) /\ Ud!UpTo(d2, n)
                  /\ Ud!UpTo(s2, n)
<1> DEFINE d2 == Append(d, Head(s))
           s2 == Tail(s)
<1>1. Len(s) >= 1 /\ Head(s) = s[1] /\ s[1] \in Nat
  OBVIOUS
<1>2. s2 \in Seq(Nat) /\ Len(s2) = Len(s) - 1 /\ \A i \in 1 .. Len(s) - 1 : s2[i] = s[i + 1]
  BY <1>1
<1>3. d2 \in Seq(Nat) /\ Len(d2) = Len(d) + 1 /\ d2[Len(d) + 1] = s[1]
      /\ \A i \in 1 .. Len(d) : d2[i] = d[i]
  BY <1>1
<1> HIDE DEF d2, s2
<1>4. ASSUME NEW i \in 1 .. Len(s2)
      PROVE  i + 1 \in 1 .. Len(s) /\ s2[i] = s[i + 1]
  BY <1>2
<1>5. ASSUME NEW i \in 1 .. Len(d2)
      PROVE  (i \in 1 .. Len(d) /\ d2[i] = d[i]) \/ (i = Len(d) + 1 /\ d2[i] = s[1])
  BY <1>3
<1>6. 1 \in 1 .. Len(s)
  BY <1>1
<1>12. /\ \A i \in 1 .. Len(s) : s[i] \in Nat
       /\ \A i \in 1 .. Len(d) : d[i] \in Nat
       /\ \A i, j \in 1 .. Len(s) : i < j => s[i] < s[j]
       /\ \A i, j \in 1 .. Len(d) : i < j => d[i] < d[j]
       /\ \A i \in 1 .. Len(d), j \in 1 .. Len(s) : d[i] < s[j]
  BY DEF Ud!Rising, Ud!Before
<1>7. Ud!Rising(s2)
  BY <1>4, <1>12 DEF Ud!Rising
<1>8. Ud!Rising(d2)
  <2> SUFFICES ASSUME NEW i \in 1 .. Len(d2), NEW j \in 1 .. Len(d2), i < j PROVE d2[i] < d2[j]
    BY DEF Ud!Rising
  <2>1. i # Len(d) + 1
    BY <1>3
  <2>2. i \in 1 .. Len(d) /\ d2[i] = d[i]
    BY <1>5, <2>1
  <2> QED
    BY <2>2, <1>5, <1>6, <1>12
<1>9. Ud!Before(d2, s2)
  <2> SUFFICES ASSUME NEW i \in 1 .. Len(d2), NEW j \in 1 .. Len(s2) PROVE d2[i] < s2[j]
    BY DEF Ud!Before
  <2>1. j + 1 \in 1 .. Len(s) /\ s2[j] = s[j + 1] /\ 1 < j + 1
    BY <1>4
  <2> QED
    BY <2>1, <1>5, <1>6, <1>12
<1>10. Ud!Before(d2, k) /\ Ud!Before(s2, k)
  BY <1>4, <1>5, <1>6, <1>3 DEF Ud!Before
<1>11. Ud!UpTo(d2, n) /\ Ud!UpTo(s2, n)
  BY <1>4, <1>5, <1>6, <1>3 DEF Ud!UpTo
<1> QED
  BY <1>2, <1>3, <1>7, <1>8, <1>9, <1>10, <1>11 DEF d2, s2

LEMMA UdpInit == Ud!Init => Ud!Inv
<1> SUFFICES ASSUME Ud!Init PROVE Ud!Inv
  OBVIOUS
<1>1. Ud!NoCall \in Ud!CallStates /\ Ud!NoCall.phase = "none" /\ ~Ud!NoCall.abandoned
      /\ ~Ud!NoCall.started /\ ~Ud!NoCall.done
  BY DEF Ud!NoCall, Ud!CallStates, Ud!Phases
<1>2. Ud!CallsInStep
  BY <1>1 DEF Ud!Init, Ud!CallsInStep
<1>3. Ud!DatagramsInOrder
  <2>1. 0 \in Nat /\ <<>> \in Seq(Nat)
    OBVIOUS
  <2>2. Ud!Rising(<<>>) /\ Ud!Before(<<>>, <<>>) /\ Ud!UpTo(<<>>, 0)
    BY <2>1, NoDatagrams
  <2> QED
    BY <2>1, <2>2 DEF Ud!Init, Ud!DatagramsInOrder
<1> QED
  BY <1>2, <1>3 DEF Ud!Inv

(* bind() throws away what is waiting; the others leave it.                *)
LEMMA UdpDatagramsLeft ==
  ASSUME Ud!DatagramsInOrder, UNCHANGED <<v10, v12>>,
         \/ v3' = <<>> /\ v4' = <<>>
         \/ UNCHANGED <<v3, v4>>
  PROVE  Ud!DatagramsInOrder'
  BY NoDatagrams DEF Ud!DatagramsInOrder

LEMMA UdpCallChanges ==
  ASSUME Ud!CallsInStep, NEW c \in UdpCallers, NEW r \in Ud!CallStates,
         v7' = [v7 EXCEPT ![c] = r],
         r.abandoned <=> r.phase = "returned", r.started => r.phase = "waiting", r.done
           => r.started,
         v13' = {},
         \/ UNCHANGED v8 /\ (v8 = c => r.started /\ ~r.done)
         \/ v8' = 0
         \/ v8' = c /\ r.started /\ ~r.done
  PROVE  Ud!CallsInStep'
<1>1. v7' \in [UdpCallers -> Ud!CallStates] /\ v8' \in {0} \union UdpCallers
  BY DEF Ud!CallsInStep
<1>2. v7'[c] = r /\ \A d \in UdpCallers : d # c => v7'[d] = v7[d]
  BY DEF Ud!CallsInStep
<1>3. \A d \in UdpCallers :
        /\ v7'[d].abandoned <=> v7'[d].phase = "returned"
        /\ v7'[d].started => v7'[d].phase = "waiting"
        /\ v7'[d].done => v7'[d].started
  BY <1>2 DEF Ud!CallsInStep
<1>4. v8' # 0 => v7'[v8'].started /\ ~v7'[v8'].done
  BY <1>1, <1>2 DEF Ud!CallsInStep
<1> QED
  BY <1>1, <1>3, <1>4 DEF Ud!CallsInStep

(* The owner ends the closure: it has been started, so it is not given up. *)
LEMMA UdpOwnerDone ==
  ASSUME Ud!CallsInStep, NEW c \in UdpCallers, NEW b \in BOOLEAN, Ud!OwnerDone(c, b)
  PROVE  Ud!CallsInStep'
<1> DEFINE r == [v7[c] EXCEPT !.done = TRUE, !.result = b]
<1>1. v7[c] \in Ud!CallStates /\ v8 = c /\ v8 # 0
  BY UdpAssumption DEF Ud!CallsInStep, Ud!OwnerDone
<1>2. /\ r \in Ud!CallStates /\ r.abandoned = v7[c].abandoned /\ r.phase = v7[c].phase
      /\ r.started = v7[c].started
  BY <1>1 DEF Ud!CallStates
<1>3. v7[c].started /\ ~v7[c].abandoned
  BY <1>1 DEF Ud!CallsInStep
<1>4. v7' = [v7 EXCEPT ![c] = r] /\ v8' = 0 /\ v13' = {}
  BY <1>3 DEF Ud!OwnerDone, Ud!CallsInStep
<1> HIDE DEF r
<1> QED
  BY <1>1, <1>2, <1>3, <1>4, UdpCallChanges DEF Ud!CallsInStep

LEMMA UdpOwnerStarts ==
  ASSUME Ud!CallsInStep, NEW c \in UdpCallers, Ud!OwnerStarts(c) \/ Ud!CallerTimesOut(c)
         \/ Ud!CallerReturns(c)
  PROVE  Ud!CallsInStep'
<1>1. v7[c] \in Ud!CallStates /\ v13' = {}
  BY DEF Ud!CallsInStep, Ud!OwnerStarts, Ud!CallerTimesOut, Ud!CallerReturns
<1>2. /\ Ud!NoCall \in Ud!CallStates /\ Ud!NoCall.phase = "none" /\ ~Ud!NoCall.abandoned
           /\ ~Ud!NoCall.started
      /\ ~Ud!NoCall.done
  BY DEF Ud!NoCall, Ud!CallStates, Ud!Phases
<1>3. CASE Ud!OwnerStarts(c) /\ v7[c].abandoned
  <2>1. v7' = [v7 EXCEPT ![c] = Ud!NoCall] /\ v8' = v8 /\ v8 = 0
    BY <1>3 DEF Ud!OwnerStarts
  <2> QED
    BY <1>1, <1>2, <2>1, UdpCallChanges, UdpAssumption
<1>4. CASE Ud!OwnerStarts(c) /\ ~v7[c].abandoned
  <2> DEFINE r == [v7[c] EXCEPT !.started = TRUE]
  <2>1. v7' = [v7 EXCEPT ![c] = r] /\ v8' = c /\ v7[c].phase # "none" /\ ~v7[c].started
    BY <1>4 DEF Ud!OwnerStarts, Ud!Posted
  <2>2. /\ r \in Ud!CallStates /\ r.started /\ r.abandoned = v7[c].abandoned
             /\ r.phase = v7[c].phase
        /\ r.done = v7[c].done
    BY <1>1 DEF Ud!CallStates
  <2>3. v7[c].phase = "waiting" /\ ~v7[c].done
    BY <1>1, <1>4, <2>1 DEF Ud!CallsInStep, Ud!CallStates, Ud!Phases
  <2> HIDE DEF r
  <2> QED
    BY <1>1, <1>4, <2>1, <2>2, <2>3, UdpCallChanges
<1>5. CASE Ud!CallerTimesOut(c)
  <2> DEFINE r == [v7[c] EXCEPT !.abandoned = TRUE, !.phase = "returned"]
  <2>1. /\ v7' = [v7 EXCEPT ![c] = r] /\ v8' = v8 /\ v7[c].phase = "waiting"
        /\ ~v7[c].started
    BY <1>5 DEF Ud!CallerTimesOut
  <2>2. /\ r \in Ud!CallStates /\ r.abandoned = TRUE /\ r.phase = "returned"
             /\ r.started = v7[c].started
        /\ r.done = v7[c].done
    BY <1>1 DEF Ud!CallStates, Ud!Phases
  <2>3. v8 # c /\ ~v7[c].done
    BY <2>1, UdpAssumption DEF Ud!CallsInStep
  <2> HIDE DEF r
  <2> QED
    BY <1>1, <2>1, <2>2, <2>3, UdpCallChanges
<1>6. CASE Ud!CallerReturns(c)
  <2>1. v7' = [v7 EXCEPT ![c] = Ud!NoCall] /\ v8' = v8 /\ v7[c].done
    BY <1>6 DEF Ud!CallerReturns
  <2>2. v8 # c
    BY <2>1, UdpAssumption DEF Ud!CallsInStep
  <2> QED
    BY <1>1, <1>2, <2>1, <2>2, UdpCallChanges
<1> QED
  BY <1>3, <1>4, <1>5, <1>6

LEMMA UdpCalls ==
  ASSUME Ud!CallsInStep, NEW c \in UdpCallers, NEW op \in {"bind", "join", "leave"},
         Ud!CallOwner(c, op)
  PROVE  Ud!CallsInStep'
<1> DEFINE r == [Ud!NoCall EXCEPT !.phase = "waiting", !.op = op]
<1>1. /\ r \in Ud!CallStates /\ r.phase = "waiting" /\ ~r.abandoned /\ ~r.started /\ ~r.done
  BY DEF Ud!NoCall, Ud!CallStates, Ud!Phases
<1>2. v7' = [v7 EXCEPT ![c] = r] /\ v8' = v8 /\ v13' = {} /\ v7[c].phase = "none"
  BY DEF Ud!CallOwner, Ud!CallsInStep
<1>3. v8 # c
  BY <1>2, UdpAssumption DEF Ud!CallsInStep
<1> HIDE DEF r
<1> QED
  BY <1>1, <1>2, <1>3, UdpCallChanges

LEMMA UdpReads ==
  ASSUME Ud!DatagramsInOrder, Ud!HandleReadable \/ Ud!PendingDatagram \/ Ud!Arrives
  PROVE  Ud!DatagramsInOrder'
<1>1. CASE Ud!HandleReadable
  <2>1. /\ v3' = v3 \o v4 /\ v4' = <<>>
        /\ v12' = v12 /\ v10' = v10
    BY <1>1 DEF Ud!HandleReadable
  <2>2. /\ v3 \o v4 \in Seq(Nat) /\ Ud!Rising(v3 \o v4)
        /\ Ud!UpTo(v3 \o v4, v10)
    BY StretchesJoin, StretchesReach DEF Ud!DatagramsInOrder
  <2>3. Ud!Before(v12, v3 \o v4)
    BY StretchesStayApart DEF Ud!DatagramsInOrder
  <2>4. Ud!Rising(<<>>) /\ Ud!Before(v12, <<>>) /\ Ud!UpTo(<<>>, v10) /\ <<>> \in Seq(Nat)
    BY NoDatagrams DEF Ud!DatagramsInOrder
  <2>5. Ud!Before(v3', <<>>)
    BY <2>1, <2>2, NoDatagrams DEF Ud!DatagramsInOrder
  <2> QED
    BY <2>1, <2>2, <2>3, <2>4, <2>5 DEF Ud!DatagramsInOrder
<1>2. CASE Ud!PendingDatagram
  <2>1. /\ v12' = Append(v12, Head(v3)) /\ v4' = v4
        /\ v3' = Tail(v3) /\ v10' = v10 /\ v3 # <<>>
    BY <1>2 DEF Ud!PendingDatagram
  <2>2. /\ v12' \in Seq(Nat) /\ v3' \in Seq(Nat) /\ Ud!Rising(v12')
        /\ Ud!Rising(v3') /\ Ud!Before(v12', v3')
        /\ Ud!Before(v12', v4) /\ Ud!Before(v3', v4)
        /\ Ud!UpTo(v12', v10) /\ Ud!UpTo(v3', v10)
    BY <2>1, DatagramTaken DEF Ud!DatagramsInOrder
  <2> QED
    BY <2>1, <2>2 DEF Ud!DatagramsInOrder
<1>3. CASE Ud!Arrives
  <2>1. /\ v4' = Append(v4, v10 + 1) /\ v10' = v10 + 1
        /\ v12' = v12 /\ v3' = v3
    BY <1>3 DEF Ud!Arrives, Ud!udpVars
  <2>2. /\ v4' \in Seq(Nat) /\ Ud!Rising(v4') /\ Ud!UpTo(v4', v10') /\ v10' \in Nat
    BY <2>1, DatagramComes DEF Ud!DatagramsInOrder
  <2>3. /\ Ud!Before(v12, v4') /\ Ud!UpTo(v12, v10')
        /\ Ud!Before(v3, v4') /\ Ud!UpTo(v3, v10')
    BY <2>1, DatagramIsLater DEF Ud!DatagramsInOrder
  <2> QED
    BY <2>1, <2>2, <2>3 DEF Ud!DatagramsInOrder
<1> QED
  BY <1>1, <1>2, <1>3

LEMMA UdpNext == Ud!Inv /\ [Ud!Next]_Ud!vars => Ud!Inv'
<1> SUFFICES ASSUME Ud!Inv, [Ud!Next]_Ud!vars PROVE Ud!Inv'
  OBVIOUS
<1> USE DEF Ud!Inv
<1>1. ASSUME UNCHANGED <<v7, v8, v13>> PROVE Ud!CallsInStep'
  BY <1>1 DEF Ud!CallsInStep
<1>2. CASE \E ok \in BOOLEAN : Ud!Bind(ok)
  BY <1>1, <1>2, UdpDatagramsLeft DEF Ud!Bind, Ud!BindImpl, Ud!TransitionToUnbound
<1>3. CASE \E ok \in BOOLEAN, c \in UdpCallers : Ud!OwnerBinds(c, ok) \/ Ud!OwnerJoins(c, ok)
           \/ Ud!OwnerLeaves(c, ok)
  <2> PICK ok \in BOOLEAN, c \in UdpCallers : Ud!OwnerBinds(c, ok) \/ Ud!OwnerJoins(c, ok)
           \/ Ud!OwnerLeaves(c, ok)
    BY <1>3
  <2>1. Ud!CallsInStep'
    BY UdpOwnerDone DEF Ud!OwnerBinds, Ud!OwnerJoins, Ud!OwnerLeaves
  <2>2. Ud!DatagramsInOrder'
    BY UdpDatagramsLeft DEF Ud!OwnerBinds, Ud!OwnerJoins, Ud!OwnerLeaves, Ud!BindImpl,
       Ud!TransitionToUnbound
  <2> QED
    BY <2>1, <2>2
<1>4. CASE \E c \in UdpCallers, op \in {"bind", "join", "leave"} : Ud!CallOwner(c, op)
  BY <1>4, UdpCalls, UdpDatagramsLeft DEF Ud!CallOwner, Ud!udpVars
<1>5. CASE \E c \in UdpCallers : Ud!OwnerStarts(c) \/ Ud!CallerTimesOut(c)
           \/ Ud!CallerReturns(c)
  <2> PICK c \in UdpCallers : Ud!OwnerStarts(c) \/ Ud!CallerTimesOut(c) \/ Ud!CallerReturns(c)
    BY <1>5
  <2>1. Ud!CallsInStep'
    BY UdpOwnerStarts
  <2>2. Ud!DatagramsInOrder'
    BY UdpDatagramsLeft DEF Ud!OwnerStarts, Ud!CallerTimesOut, Ud!CallerReturns, Ud!udpVars
  <2> QED
    BY <2>1, <2>2
<1>6. CASE Ud!SendDatagram \/ Ud!PostSend \/ Ud!RunSend \/ Ud!HandleError
  BY <1>1, <1>6, UdpDatagramsLeft DEF Ud!SendDatagram, Ud!PostSend, Ud!RunSend, Ud!HandleError,
     Ud!SendOutcome, Ud!udpVars
<1>7. CASE Ud!HandleReadable \/ Ud!PendingDatagram \/ Ud!Arrives
  BY <1>1, <1>7, UdpReads DEF Ud!HandleReadable, Ud!PendingDatagram, Ud!Arrives
<1>8. CASE UNCHANGED Ud!vars
  BY <1>1, <1>8, UdpDatagramsLeft DEF Ud!vars, Ud!udpVars
<1> QED
  BY <1>2, <1>3, <1>4, <1>5, <1>6, <1>7, <1>8 DEF Ud!Next

LEMMA UdpAbandoned == Ud!Inv => Ud!AbandonedNeverApplied
<1> SUFFICES ASSUME Ud!Inv PROVE Ud!AbandonedNeverApplied
  OBVIOUS
<1>1. v13 = {} /\ (v8 # 0 => v7[v8].phase = "waiting" /\ ~v7[v8].abandoned)
  BY DEF Ud!Inv, Ud!CallsInStep
<1> DEFINE s == v12 \o v3
<1>2. s \in Seq(Nat) /\ Ud!Rising(s)
  BY StretchesJoin DEF Ud!Inv, Ud!DatagramsInOrder
<1>3. Ud!Before(s, v4)
  BY StretchesStayApart DEF Ud!Inv, Ud!DatagramsInOrder
<1>4. s \o v4 \in Seq(Nat) /\ Ud!Rising(s \o v4)
  <2> HIDE DEF s
  <2> QED
    BY <1>2, <1>3, StretchesJoin DEF Ud!Inv, Ud!DatagramsInOrder
<1>5. v12 \o v3 \o v4 = s \o v4
  OBVIOUS
<1> HIDE DEF s
<1>6. \A i \in 2 .. Len(s \o v4) : (s \o v4)[i - 1] < (s \o v4)[i]
  <2>1. ASSUME NEW q \in Seq(Nat), Ud!Rising(q), NEW i \in 2 .. Len(q) PROVE q[i - 1] < q[i]
    <3>1. i \in 1 .. Len(q) /\ i - 1 \in 1 .. Len(q) /\ i - 1 < i
      OBVIOUS
    <3> QED
      BY <2>1, <3>1 DEF Ud!Rising
  <2> QED
    BY <1>4, <2>1
<1> QED
  BY <1>1, <1>5, <1>6 DEF Ud!AbandonedNeverApplied

-----------------------------------------------------------------------------
(* Timers that move between loops and strands, for any number of each; a   *)
(* slot leaves alone the timers that are due on its own loop. The owners   *)
(* are in v1, who is alive in v2, who is active in v3, the generations in  *)
(* v5, what is armed in v7, due in v8 and v9, the closures in v10, whose   *)
(* slots run in v11.                                                       *)
Tm == INSTANCE Timer WITH
    Loops <- TimerLoops, Strands <- TimerStrands,
    MoveDue <- FALSE, MaxGen <- MaxTimerGen, MaxPosts <- MaxTimerPosts,
    owner <- v1, alive <- v2, m_active <- v3, m_singleShot <- v4,
    m_generation <- v5, m_deadlinePassed <- v6, armed <- v7, due <- v8,
    serviceDue <- v9, tasks <- v10, slot <- v11, m_stopped <- v12,
    timerPosts <- v13

LEMMA TimerEntryFields ==
  /\ \A o, t, g : Tm!Entry(o, t, g).o = o /\ Tm!Entry(o, t, g).t = t
       /\ Tm!Entry(o, t, g).gen = g
  /\ \A o \in Tm!Owners, t \in Timers, g \in Nat : Tm!Entry(o, t, g) \in Tm!Entries
  /\ \A e \in Tm!Entries : e = Tm!Entry(e.o, e.t, e.gen) /\ e.o \in Tm!Owners /\ e.t \in Timers
       /\ e.gen \in Nat
  BY DEF Tm!Entry, Tm!Entries

(* The two tables hold nothing of a timer after its owner has cancelled it.*)
LEMMA TimerCancelledAll ==
  ASSUME Tm!TimerType, Tm!ArmedAtHome, NEW t \in Timers
  PROVE  /\ \A e \in Tm!Cancelled(v1[t], t) : e \in v7 /\ e.t # t
         /\ \A e \in v7 : e.t # t => e \in Tm!Cancelled(v1[t], t)
  BY DEF Tm!Cancelled, Tm!ArmedElsewhere, Tm!SameIndex, Tm!ArmedAtHome

LEMMA TimerScheduledOnce ==
  ASSUME Tm!TimerType, Tm!ArmedAtHome, NEW t \in Timers, NEW g \in Nat
  PROVE  /\ Tm!Scheduled(v1[t], t, g) \in SUBSET Tm!Entries
         /\ \A e \in Tm!Entries : e.t # t => (e \in Tm!Scheduled(v1[t], t, g) <=> e \in v7)
         /\ \A e \in Tm!Scheduled(v1[t], t, g) : e.t = t => e.o = v1[t]
         /\ \/ Tm!Entry(v1[t], t, g) \in Tm!Scheduled(v1[t], t, g)
            \/ v12 /\ v1[t] \in TimerStrands
<1>1. Tm!Entry(v1[t], t, g) \in Tm!Entries
  BY TimerEntryFields DEF Tm!TimerType
<1> QED
  BY <1>1, TimerEntryFields, TimerCancelledAll DEF Tm!Scheduled, Tm!Cancelled, Tm!TimerType,
     Tm!ArmedAtHome

LEMMA TimerStartEffect ==
  ASSUME Tm!TimerType, Tm!ArmedAtHome, NEW t \in v2, Tm!StartTimer(t)
  PROVE  Tm!Effect(t)
<1> DEFINE g == v5[t] + 1
<1>1. t \in Timers /\ g \in Nat /\ v5'[t] = g /\ v5' \in [Timers -> Nat]
  BY DEF Tm!TimerType, Tm!StartTimer
<1>2. v7' = Tm!Scheduled(v1[t], t, g) /\ v1' = v1 /\ v2' = v2
  BY DEF Tm!StartTimer
<1>3. Tm!TimerType'
  BY <1>1, <1>2, TimerScheduledOnce DEF Tm!TimerType, Tm!StartTimer
<1>4. Tm!OthersUntouched(t)
  BY <1>1, <1>2, TimerScheduledOnce DEF Tm!OthersUntouched, Tm!StartTimer, Tm!TimerType
<1> QED
  BY <1>1, <1>2, <1>3, <1>4, TimerScheduledOnce DEF Tm!Effect, Tm!ArmedAnew

LEMMA TimerDisarmEffect ==
  ASSUME Tm!TimerType, Tm!ArmedAtHome, NEW t \in v2, Tm!StopTimer(t) \/ Tm!Destroy(t)
  PROVE  Tm!Effect(t)
<1> USE DEF Tm!Disarm, Tm!StopTimer, Tm!Destroy
<1>1. t \in Timers /\ v5' \in [Timers -> Nat] /\ v3' = v3 \ {t}
  BY DEF Tm!TimerType
<1>2. v7' = Tm!Cancelled(v1[t], t) /\ v1' = v1 /\ (v2' = v2 \/ v2' = v2 \ {t})
  OBVIOUS
<1>3. \A e \in v7' : e \in v7 /\ e.t # t
  BY <1>1, <1>2, TimerCancelledAll
<1>4. Tm!TimerType'
  BY <1>1, <1>2, <1>3 DEF Tm!TimerType
<1>5. Tm!OthersUntouched(t)
  BY <1>1, <1>2, TimerCancelledAll DEF Tm!OthersUntouched, Tm!TimerType
<1> QED
  BY <1>1, <1>3, <1>4, <1>5 DEF Tm!Effect, Tm!ArmedAnew

LEMMA TimerMoveEffect ==
  ASSUME Tm!TimerType, Tm!ArmedAtHome, NEW t \in v2, NEW o \in Tm!Owners, Tm!MoveTo(t, o)
  PROVE  Tm!Effect(t)
<1> USE DEF Tm!MoveTo
<1> DEFINE a == Tm!Entry(o, t, v5[t])
<1>1. t \in Timers /\ v1'[t] = o /\ v1' \in [Timers -> Tm!Owners]
      /\ v5[t] \in Nat
  BY DEF Tm!TimerType
<1>2. a \in Tm!Entries /\ a.t = t /\ a.o = o
  BY <1>1, TimerEntryFields
<1>3. \/ v7' = Tm!Cancelled(v1[t], t) \union {a}
      \/ /\ v7' = Tm!Cancelled(v1[t], t)
         /\ t \notin v3 \/ (o \in TimerStrands /\ v12)
  <2>1. {e \in Tm!Cancelled(v1[t], t) : ~(e.t = t
        /\ Tm!SameIndex(e.o, o))} = Tm!Cancelled(v1[t], t)
    BY <1>1, TimerCancelledAll
  <2> QED
    BY <2>1 DEF Tm!OnMoved
<1>4. \A e \in v7' : e = a \/ (e \in v7 /\ e.t # t)
  BY <1>1, <1>3, TimerCancelledAll
<1>5. Tm!TimerType'
  BY <1>1, <1>2, <1>4 DEF Tm!TimerType
<1>6. Tm!OthersUntouched(t)
  BY <1>1, <1>2, <1>3, TimerCancelledAll DEF Tm!OthersUntouched, Tm!TimerType
<1> QED
  BY <1>1, <1>2, <1>3, <1>4, <1>5, <1>6 DEF Tm!Effect, Tm!ArmedAnew

LEMMA TimerApplyEffect ==
  ASSUME Tm!TimerType, Tm!ArmedAtHome, NEW t \in v2, NEW op, Tm!Apply(t, op)
  PROVE  Tm!Effect(t)
<1>1. t \in Timers
  BY DEF Tm!TimerType
<1>2. CASE Tm!StartTimer(t)
  BY <1>2, TimerStartEffect
<1>3. CASE Tm!StopTimer(t) \/ Tm!Destroy(t)
  BY <1>3, TimerDisarmEffect
<1>4. ASSUME NEW o \in Tm!Owners, Tm!MoveTo(t, o) PROVE Tm!Effect(t)
  BY <1>4, TimerMoveEffect
<1>5. CASE UNCHANGED <<v1, v2, v3, v5, v7>> /\ v4' \in SUBSET Timers
  BY <1>1, <1>5 DEF Tm!Effect, Tm!OthersUntouched, Tm!TimerType, Tm!ArmedAtHome
<1>6. CASE Tm!SetInterval(t) /\ ~Tm!StartTimer(t)
  <2>1. UNCHANGED Tm!timerState
    BY <1>6 DEF Tm!SetInterval
  <2> QED
    BY <1>5, <2>1 DEF Tm!timerState, Tm!TimerType
<1>7. CASE Tm!SetSingleShot(t)
  <2>1. v4' \in SUBSET Timers
    BY <1>7 DEF Tm!SetSingleShot
  <2> QED
    BY <1>5, <1>7, <2>1 DEF Tm!SetSingleShot
<1> QED
  BY <1>2, <1>3, <1>4, <1>6, <1>7 DEF Tm!Apply

(* Only a move changes the owner, and only a deletion who is alive.        *)
LEMMA TimerApplyStays ==
  ASSUME NEW t, NEW op, Tm!Apply(t, op), op \notin {"move", "delete"}
  PROVE  UNCHANGED <<v1, v2>>
  BY DEF Tm!Apply, Tm!StartTimer, Tm!SetInterval, Tm!StopTimer, Tm!Disarm, Tm!SetSingleShot,
     Tm!timerState

LEMMA TimerDispatchEffect ==
  ASSUME Tm!TimerType, Tm!ArmedAtHome, NEW o, NEW t \in v2, NEW g, Tm!DispatchTimeout(o, t, g)
  PROVE  \/ /\ t \in v3 /\ g = v5[t]
            /\ Tm!Effect(t) /\ Tm!ArmedAnew(t) /\ UNCHANGED <<v1, v2>>
            /\ v11' = [v11 EXCEPT ![o] = t]
         \/ /\ t \notin v3 \/ g # v5[t]
            /\ UNCHANGED <<Tm!timerState, v11>>
<1>1. CASE ~(t \in v3 /\ g = v5[t])
  BY <1>1 DEF Tm!DispatchTimeout
<1>2. CASE t \in v3 /\ g = v5[t]
  <2> DEFINE n == v5[t] + 1
  <2>1. /\ t \in Timers /\ n \in Nat
        /\ v5' \in [Timers -> Nat] /\ v5'[t] = n
        /\ v3' = v3 \ (v4 \intersect {t})
        /\ UNCHANGED <<v1, v2, v4>>
        /\ v11' = [v11 EXCEPT ![o] = t]
    BY <1>2 DEF Tm!DispatchTimeout, Tm!TimerType
  <2>2. CASE t \in v4
    <3>1. v7' = v7 /\ t \notin v3'
      BY <1>2, <2>1, <2>2 DEF Tm!DispatchTimeout
    <3>2. Tm!TimerType' /\ Tm!OthersUntouched(t)
      BY <1>2, <2>1, <3>1 DEF Tm!TimerType, Tm!OthersUntouched, Tm!DispatchTimeout
    <3> QED
      BY <1>2, <2>1, <3>1, <3>2 DEF Tm!Effect, Tm!ArmedAnew, Tm!ArmedAtHome
  <2>3. CASE t \notin v4
    <3>1. v7' = Tm!Scheduled(v1[t], t, n)
      BY <1>2, <2>3 DEF Tm!DispatchTimeout
    <3>2. Tm!TimerType'
      BY <2>1, <3>1, TimerScheduledOnce DEF Tm!TimerType
    <3>3. Tm!OthersUntouched(t)
      BY <1>2, <2>1, <3>1, TimerScheduledOnce DEF Tm!TimerType, Tm!OthersUntouched,
         Tm!DispatchTimeout
    <3> QED
      BY <1>2, <2>1, <3>1, <3>2, <3>3, TimerScheduledOnce DEF Tm!Effect, Tm!ArmedAnew
  <2> QED
    BY <2>2, <2>3
<1> QED
  BY <1>1, <1>2

LEMMA TimerPendingIsOnItsWay ==
  \A t : Tm!Pending(t) <=> Tm!OnItsWay(v1[t], t, v5[t])
  BY DEF Tm!Pending, Tm!OnItsWay, Tm!Holds

LEMMA TimerPendingIsOnItsWayNext ==
  \A t : Tm!Pending(t)' <=> \/ Tm!Entry(v1'[t], t, v5'[t]) \in v7'
                         \/ Tm!Entry(v1'[t], t, v5'[t]) \in v9'
                         \/ Tm!Entry(v1'[t], t, v5'[t]) \in v8'[v1'[t]]
                         \/ Tm!Holds(v10'[v1'[t]], t, v5'[t])
  BY DEF Tm!Pending, Tm!Holds, Tm!Entry

(* A step may keep the timeout of a timer on its way, or arm the timer     *)
(* anew, or leave it inactive.                                             *)
LEMMA TimerPendingKept ==
  ASSUME Tm!ActivePending, v12 => v12',
         \A t \in v2' \intersect v3' :
           \/ Tm!ArmedAnew(t) /\ (v12 => v12')
           \/ /\ t \in v2 \intersect v3
              /\ v1'[t] = v1[t] /\ v5'[t] = v5[t]
              /\ Tm!OnItsWay(v1[t], t, v5[t]) =>
                   \/ Tm!Entry(v1[t], t, v5[t]) \in v7'
                   \/ Tm!Entry(v1[t], t, v5[t]) \in v9'
                   \/ Tm!Entry(v1[t], t, v5[t]) \in v8'[v1[t]]
                   \/ Tm!Holds(v10'[v1[t]], t, v5[t])
                   \/ v12' /\ v1[t] \in TimerStrands
  PROVE  Tm!ActivePending'
<1> SUFFICES ASSUME NEW t \in v2' \intersect v3'
             PROVE  Tm!Pending(t)' \/ (v12' /\ v1'[t] \in TimerStrands)
  BY DEF Tm!ActivePending
<1>1. CASE Tm!ArmedAnew(t)
  BY <1>1, TimerPendingIsOnItsWayNext DEF Tm!ArmedAnew
<1>2. CASE ~Tm!ArmedAnew(t)
  <2>1. /\ v1'[t] = v1[t] /\ v5'[t] = v5[t]
        /\ Tm!Pending(t) \/ (v12 /\ v1[t] \in TimerStrands)
    BY <1>2 DEF Tm!ActivePending
  <2> QED
    BY <1>2, <2>1, TimerPendingIsOnItsWay, TimerPendingIsOnItsWayNext
<1> QED
  BY <1>1, <1>2

(* An operation on a timer that its owner carries out: nothing of the      *)
(* timer is due, or it stays where it is.                                  *)
LEMMA TimerOperationKeeps ==
  ASSUME Tm!TypeOK, Tm!ArmedAtHome, Tm!ActivePending, NEW t \in v2, Tm!Effect(t),
         UNCHANGED <<v9, v12>>,
         \A u \in v2 : u # t \/ ~Tm!ArmedAnew(t) =>
            LET o == v1[u]
                g == v5[u] IN
            /\ Tm!Entry(o, u, g) \in v8[o] => Tm!Entry(o, u, g) \in v8'[o]
            /\ Tm!Holds(v10[o], u, g) => Tm!Holds(v10'[o], u, g)
  PROVE  Tm!ArmedAtHome' /\ Tm!ActivePending'
<1>0. t \in Timers
  BY DEF Tm!TypeOK, Tm!TimerType
<1>1. Tm!ArmedAtHome'
  <2> SUFFICES ASSUME NEW e \in v7' PROVE e.t \in v2' /\ v1'[e.t] = e.o
    BY DEF Tm!ArmedAtHome
  <2>1. e \in Tm!Entries /\ e.t \in Timers
    BY TimerEntryFields DEF Tm!Effect, Tm!TimerType
  <2>2. CASE e.t = t
    BY <2>2 DEF Tm!Effect
  <2>3. CASE e.t # t
    BY <2>1, <2>3 DEF Tm!Effect, Tm!OthersUntouched, Tm!ArmedAtHome
  <2> QED
    BY <2>2, <2>3
<1>2. Tm!ActivePending'
  <2> SUFFICES ASSUME NEW u \in v2' \intersect v3', ~Tm!ArmedAnew(u)
               PROVE  /\ u \in v2 \intersect v3
                      /\ v1'[u] = v1[u] /\ v5'[u] = v5[u]
                      /\ Tm!OnItsWay(v1[u], u, v5[u]) =>
                           \/ Tm!Entry(v1[u], u, v5[u]) \in v7'
                           \/ Tm!Entry(v1[u], u, v5[u]) \in v9'
                           \/ Tm!Entry(v1[u], u, v5[u]) \in v8'[v1[u]]
                           \/ Tm!Holds(v10'[v1[u]], u, v5[u])
    BY TimerPendingKept
  <2>1. u \in Timers
    BY DEF Tm!Effect, Tm!TimerType
  <2>2. CASE u = t
    <3>1. UNCHANGED <<v1, v2, v3, v5, v7>>
      BY <2>2 DEF Tm!Effect
    <3> QED
      BY <2>2, <3>1 DEF Tm!OnItsWay
  <2>3. CASE u # t
    <3>1. /\ u \in v2 \intersect v3
          /\ v1'[u] = v1[u] /\ v5'[u] = v5[u]
      BY <2>1, <2>3 DEF Tm!Effect, Tm!OthersUntouched
    <3>2. /\ Tm!Entry(v1[u], u, v5[u]) \in Tm!Entries
          /\ Tm!Entry(v1[u], u, v5[u]).t = u
      BY <2>1, TimerEntryFields DEF Tm!TypeOK, Tm!TimerType
    <3>3. Tm!Entry(v1[u], u, v5[u]) \in v7
            => Tm!Entry(v1[u], u, v5[u]) \in v7'
      BY <2>3, <3>2 DEF Tm!Effect, Tm!OthersUntouched
    <3> QED
      BY <2>3, <3>1, <3>3 DEF Tm!OnItsWay
  <2> QED
    BY <2>2, <2>3
<1> QED
  BY <1>1, <1>2

(* Closures and due timeouts move on; the timers themselves are untouched. *)
LEMMA TimerTransportKeeps ==
  ASSUME Tm!TypeOK, Tm!ActivePending, UNCHANGED <<v1, v2, v3, v5, v12>>,
         \A u \in v2 :
            LET o == v1[u]
                g == v5[u] IN
            u \in v3 /\ Tm!OnItsWay(o, u, g) =>
              \/ Tm!Entry(o, u, g) \in v7' \/ Tm!Entry(o, u, g) \in v9'
              \/ Tm!Entry(o, u, g) \in v8'[o] \/ Tm!Holds(v10'[o], u, g)
  PROVE  Tm!ActivePending'
  BY TimerPendingKept

-----------------------------------------------------------------------------
(* What a queue holds when closures are appended and taken off.            *)
LEMMA TimerHoldsAppended ==
  ASSUME NEW q \in Seq(Tm!Closures), NEW k \in Tm!Closures
  PROVE  /\ Append(q, k) \in Seq(Tm!Closures)
         /\ \A t, g : Tm!Holds(q, t, g) => Tm!Holds(Append(q, k), t, g)
         /\ \A t, g : k = [op |-> "timeout", t |-> t, gen |-> g] => Tm!Holds(Append(q, k), t, g)
<1>1. /\ Append(q, k) \in Seq(Tm!Closures) /\ DOMAIN q = 1 .. Len(q) /\ Len(q) \in Nat
      /\ DOMAIN Append(q, k) = 1 .. Len(q) + 1
      /\ \A i \in 1 .. Len(q) : Append(q, k)[i] = q[i]
      /\ Append(q, k)[Len(q) + 1] = k
  OBVIOUS
<1>2. DOMAIN q \in SUBSET DOMAIN Append(q, k) /\ Len(q) + 1 \in DOMAIN Append(q, k)
  BY <1>1
<1> HIDE DEF Tm!Closures
<1> QED
  BY <1>1, <1>2 DEF Tm!Holds

LEMMA TimerHoldsPopped ==
  ASSUME NEW q \in Seq(Tm!Closures), q # <<>>
  PROVE  /\ Tail(q) \in Seq(Tm!Closures) /\ Head(q) \in Tm!Closures
         /\ \A t, g : Tm!Holds(q, t, g) /\ Head(q) # [op |-> "timeout", t |-> t, gen |-> g]
                        => Tm!Holds(Tail(q), t, g)
<1>1. /\ Tail(q) \in Seq(Tm!Closures) /\ Head(q) \in Tm!Closures /\ Head(q) = q[1]
      /\ Len(q) \in Nat /\ DOMAIN q = 1 .. Len(q) /\ DOMAIN Tail(q) = 1 .. Len(q) - 1
      /\ \A i \in 1 .. Len(q) - 1 : Tail(q)[i] = q[i + 1]
  OBVIOUS
<1> SUFFICES ASSUME NEW t, NEW g, Tm!Holds(q, t, g),
                    Head(q) # [op |-> "timeout", t |-> t, gen |-> g]
             PROVE  Tm!Holds(Tail(q), t, g)
  BY <1>1
<1>2. PICK i \in 1 .. Len(q) : q[i] = [op |-> "timeout", t |-> t, gen |-> g]
  BY <1>1 DEF Tm!Holds
<1>3. i # 1
  BY <1>1, <1>2
<1>4. i - 1 \in 1 .. Len(q) - 1 /\ (i - 1) + 1 = i
  BY <1>1, <1>3
<1>5. Tail(q)[i - 1] = q[i]
  BY <1>1, <1>4
<1> QED
  BY <1>1, <1>2, <1>4, <1>5 DEF Tm!Holds

-----------------------------------------------------------------------------
LEMMA TimerInitInv == Tm!Init => Tm!Inv
<1> SUFFICES ASSUME Tm!Init PROVE Tm!Inv
  OBVIOUS
<1>1. Tm!TypeOK
  BY DEF Tm!Init, Tm!TypeOK, Tm!TimerType, Tm!Owners
<1> QED
  BY <1>1 DEF Tm!Init, Tm!Inv, Tm!ArmedAtHome, Tm!DueAtHome, Tm!ActivePending

(* A slot acts on the timers of its owner, and leaves those that are due   *)
(* where they are.                                                         *)
LEMMA TimerCallFromSlotKeeps ==
  ASSUME Tm!Inv, NEW o \in Tm!Owners, NEW t \in Timers, NEW op, Tm!CallFromSlot(o, t, op)
  PROVE  Tm!Inv'
<1> USE DEF Tm!Inv
<1>1. /\ t \in v2 /\ v1[t] = o /\ Tm!Effect(t)
      /\ UNCHANGED <<v8, v9, v10, v11, v12>>
  BY TimerApplyEffect DEF Tm!CallFromSlot, Tm!TypeOK
<1>2. Tm!TypeOK'
  BY <1>1 DEF Tm!TypeOK, Tm!Effect
<1>3. Tm!ArmedAtHome' /\ Tm!ActivePending'
  BY <1>1, TimerOperationKeeps
<1>4. Tm!DueAtHome'
  <2>1. CASE op \notin {"move", "delete"}
    <3>1. UNCHANGED <<v1, v2>>
      BY <2>1, TimerApplyStays DEF Tm!CallFromSlot
    <3> QED
      BY <1>1, <3>1 DEF Tm!DueAtHome
  <2>2. CASE op \in {"move", "delete"}
    <3>1. \A e \in v8[o] : e.t # t
      BY <2>2 DEF Tm!CallFromSlot
    <3>2. \A p \in Tm!Owners : \A e \in v8[p] : e.t \in Timers /\ e.t # t
      BY <1>1, <3>1, TimerEntryFields DEF Tm!DueAtHome, Tm!TypeOK
    <3> QED
      BY <1>1, <3>2 DEF Tm!DueAtHome, Tm!Effect, Tm!OthersUntouched
  <2> QED
    BY <2>1, <2>2
<1> QED
  BY <1>2, <1>3, <1>4

(* The queue of the owner without its first closure.                       *)
LEMMA TimerPoppedTasks ==
  ASSUME Tm!TypeOK, NEW o \in Tm!Owners, v10[o] # <<>>,
         v10' = [v10 EXCEPT ![o] = Tail(@)]
  PROVE  /\ v10' \in [Tm!Owners -> Seq(Tm!Closures)]
         /\ Head(v10[o]) \in Tm!Closures
         /\ \A p \in Tm!Owners : \A t, g :
              Tm!Holds(v10[p], t, g) /\ Head(v10[o]) # [op |-> "timeout", t |-> t, gen |-> g]
                => Tm!Holds(v10'[p], t, g)
<1>1. v10[o] \in Seq(Tm!Closures)
  BY DEF Tm!TypeOK
<1>2. Tail(v10[o]) \in Seq(Tm!Closures) /\ Head(v10[o]) \in Tm!Closures
      /\ \A t, g : Tm!Holds(v10[o], t, g)
           /\ Head(v10[o]) # [op |-> "timeout", t |-> t, gen |-> g]
            => Tm!Holds(Tail(v10[o]), t, g)
  BY <1>1, TimerHoldsPopped
<1> QED
  BY <1>2 DEF Tm!TypeOK

LEMMA TimerRunTaskKeeps ==
  ASSUME Tm!Inv, NEW o \in Tm!Owners, Tm!RunTask(o)
  PROVE  Tm!Inv'
<1> USE DEF Tm!Inv
<1> DEFINE k == Head(v10[o])
           popped == [v10 EXCEPT ![o] = Tail(v10[o])]
<1>1. /\ v10[o] # <<>> /\ v8[o] = {}
      /\ UNCHANGED <<v8, v9, v12>>
  BY DEF Tm!RunTask, Tm!Idle
<1>2. k \in Tm!Closures /\ k.t \in Timers /\ k.gen \in Nat
  BY <1>1, TimerHoldsPopped DEF Tm!TypeOK, Tm!Closures
<1>3. CASE k.op = "timeout" /\ Tm!Deliverable(o, k.t) /\ v10' = popped
           /\ Tm!DispatchTimeout(o, k.t, k.gen)
  <2>1. /\ k.t \in v2 /\ v1[k.t] = o
    BY <1>3 DEF Tm!Deliverable
  <2>2. k = [op |-> "timeout", t |-> k.t, gen |-> k.gen]
    BY <1>2, <1>3 DEF Tm!Closures
  <2>3. CASE /\ Tm!Effect(k.t) /\ Tm!ArmedAnew(k.t) /\ UNCHANGED <<v1, v2>>
             /\ v11' = [v11 EXCEPT ![o] = k.t]
    <3>1. Tm!TypeOK'
      BY <1>1, <1>2, <1>3, <2>3, TimerPoppedTasks DEF Tm!TypeOK, Tm!Effect
    <3>2. \A u \in v2 : u # k.t =>
             /\ v1[u] \in Tm!Owners
             /\ k # [op |-> "timeout", t |-> u, gen |-> v5[u]]
      BY <2>2 DEF Tm!TypeOK, Tm!TimerType
    <3>3. Tm!ArmedAtHome' /\ Tm!ActivePending'
      BY <1>1, <1>3, <2>1, <2>3, <3>2, TimerPoppedTasks, TimerOperationKeeps
    <3>4. Tm!DueAtHome'
      BY <1>1, <2>3 DEF Tm!DueAtHome
    <3> QED
      BY <3>1, <3>3, <3>4
  <2>4. CASE /\ k.t \notin v3 \/ k.gen # v5[k.t]
             /\ UNCHANGED <<Tm!timerState, v11>>
    <3>1. Tm!TypeOK'
      BY <1>1, <1>2, <1>3, <2>4, TimerPoppedTasks DEF Tm!TypeOK, Tm!TimerType, Tm!timerState
    <3>2. \A u \in v2 : u \in v3 =>
             /\ v1[u] \in Tm!Owners
             /\ k # [op |-> "timeout", t |-> u, gen |-> v5[u]]
      BY <2>2, <2>4 DEF Tm!TypeOK, Tm!TimerType
    <3>3. Tm!ActivePending'
      BY <1>1, <1>3, <2>4, <3>2, TimerPoppedTasks, TimerTransportKeeps DEF Tm!timerState,
         Tm!OnItsWay
    <3>4. Tm!ArmedAtHome' /\ Tm!DueAtHome'
      BY <1>1, <2>4 DEF Tm!ArmedAtHome, Tm!DueAtHome, Tm!timerState
    <3> QED
      BY <3>1, <3>3, <3>4
  <2> QED
    BY <1>3, <2>1, <2>3, <2>4, TimerDispatchEffect DEF Tm!TypeOK
<1>4. CASE /\ k.op = "timeout" /\ ~Tm!Deliverable(o, k.t) /\ v10' = popped
           /\ UNCHANGED <<Tm!timerState, v11>>
  <2>1. Tm!TypeOK'
    BY <1>1, <1>4, TimerPoppedTasks DEF Tm!TypeOK, Tm!TimerType, Tm!timerState
  <2>2. \A u \in v2 : v1[u] \in Tm!Owners /\
           (v1[u] = o => k # [op |-> "timeout", t |-> u, gen |-> v5[u]])
    BY <1>4 DEF Tm!Deliverable, Tm!TypeOK, Tm!TimerType
  <2>3. \A p \in Tm!Owners : p # o => v10'[p] = v10[p]
    BY <1>4 DEF Tm!TypeOK
  <2>4. Tm!ActivePending'
    BY <1>1, <1>4, <2>2, <2>3, TimerPoppedTasks, TimerTransportKeeps DEF Tm!timerState,
       Tm!OnItsWay
  <2>5. Tm!ArmedAtHome' /\ Tm!DueAtHome'
    BY <1>1, <1>4 DEF Tm!ArmedAtHome, Tm!DueAtHome, Tm!timerState
  <2> QED
    BY <2>1, <2>4, <2>5
<1>5. CASE /\ k.op # "timeout" /\ k.t \in v2 /\ v1[k.t] = o
           /\ Tm!Apply(k.t, k.op) /\ v10' = popped /\ UNCHANGED v11
  <2>1. Tm!Effect(k.t)
    BY <1>5, TimerApplyEffect DEF Tm!TypeOK
  <2>2. Tm!TypeOK'
    BY <1>1, <1>5, <2>1, TimerPoppedTasks DEF Tm!TypeOK, Tm!Effect
  <2>3. \A u \in v2 : v1[u] \in Tm!Owners
           /\ k # [op |-> "timeout", t |-> u, gen |-> v5[u]]
    BY <1>5 DEF Tm!TypeOK, Tm!TimerType
  <2>4. Tm!ArmedAtHome' /\ Tm!ActivePending'
    BY <1>1, <1>5, <2>1, <2>3, TimerPoppedTasks, TimerOperationKeeps
  <2>5. \A p \in Tm!Owners : \A e \in v8[p] : e.t \in Timers /\ e.t # k.t
    BY <1>1, <1>5, TimerEntryFields DEF Tm!DueAtHome, Tm!TypeOK
  <2>6. Tm!DueAtHome'
    BY <1>1, <2>1, <2>5 DEF Tm!DueAtHome, Tm!Effect, Tm!OthersUntouched
  <2> QED
    BY <2>2, <2>4, <2>6
<1>6. CASE /\ k.op # "timeout" /\ k.t \notin v2
           /\ v10' = popped /\ UNCHANGED <<Tm!timerState, v11>>
  <2>1. Tm!TypeOK'
    BY <1>1, <1>6, TimerPoppedTasks DEF Tm!TypeOK, Tm!TimerType, Tm!timerState
  <2>2. \A u \in v2 : v1[u] \in Tm!Owners
           /\ k # [op |-> "timeout", t |-> u, gen |-> v5[u]]
    BY <1>6 DEF Tm!TypeOK, Tm!TimerType
  <2>3. Tm!ActivePending'
    BY <1>1, <1>6, <2>2, TimerPoppedTasks, TimerTransportKeeps DEF Tm!timerState, Tm!OnItsWay
  <2>4. Tm!ArmedAtHome' /\ Tm!DueAtHome'
    BY <1>1, <1>6 DEF Tm!ArmedAtHome, Tm!DueAtHome, Tm!timerState
  <2> QED
    BY <2>1, <2>3, <2>4
<1>7. CASE /\ k.op # "timeout" /\ k.t \in v2 /\ v1[k.t] # o
           /\ v10' = [popped EXCEPT ![v1[k.t]] = Append(popped[v1[k.t]], k)]
           /\ UNCHANGED <<Tm!timerState, v11>>
  <2> DEFINE p == v1[k.t]
  <2>1. p \in Tm!Owners /\ p # o
    BY <1>2, <1>7 DEF Tm!TypeOK, Tm!TimerType
  <2>2. /\ v10'[p] = Append(v10[p], k) /\ v10'[o] = Tail(v10[o])
        /\ \A q \in Tm!Owners \ {o, p} : v10'[q] = v10[q]
        /\ \A q \in Tm!Owners : v10[q] \in Seq(Tm!Closures)
    BY <1>7, <2>1 DEF Tm!TypeOK
  <2>3. v10' \in [Tm!Owners -> Seq(Tm!Closures)]
    BY <1>1, <1>2, <1>7, <2>1, <2>2, TimerHoldsAppended, TimerHoldsPopped DEF Tm!TypeOK
  <2>4. \A q \in Tm!Owners : \A t, g : Tm!Holds(v10[q], t, g) => Tm!Holds(v10'[q], t, g)
    <3> SUFFICES ASSUME NEW q \in Tm!Owners, NEW t, NEW g, Tm!Holds(v10[q], t, g)
                 PROVE  Tm!Holds(v10'[q], t, g)
      OBVIOUS
    <3>1. CASE q = o
      <4>1. k # [op |-> "timeout", t |-> t, gen |-> g]
        BY <1>7
      <4> QED
        BY <1>1, <2>2, <3>1, <4>1, TimerHoldsPopped
    <3>2. CASE q = p
      BY <1>2, <2>1, <2>2, <3>2, TimerHoldsAppended
    <3>3. CASE q \notin {o, p}
      BY <2>2, <3>3
    <3> QED
      BY <3>1, <3>2, <3>3
  <2>5. Tm!TypeOK'
    BY <1>1, <1>7, <2>3 DEF Tm!TypeOK, Tm!TimerType, Tm!timerState
  <2>6. \A u \in v2 : v1[u] \in Tm!Owners
    BY DEF Tm!TypeOK, Tm!TimerType
  <2>7. Tm!ActivePending'
    BY <1>1, <1>7, <2>4, <2>6, TimerTransportKeeps DEF Tm!timerState, Tm!OnItsWay
  <2>8. Tm!ArmedAtHome' /\ Tm!DueAtHome'
    BY <1>1, <1>7 DEF Tm!ArmedAtHome, Tm!DueAtHome, Tm!timerState
  <2> QED
    BY <2>5, <2>7, <2>8
<1> QED
  BY <1>3, <1>4, <1>5, <1>6, <1>7 DEF Tm!RunTask

LEMMA TimerTakeDueTimersKeeps ==
  ASSUME Tm!Inv, NEW l \in TimerLoops, Tm!TakeDueTimers(l)
  PROVE  Tm!Inv'
<1> USE DEF Tm!Inv
<1> DEFINE D == {e \in v7 : e.o = l /\ e.t \in v6}
<1>1. /\ l \in Tm!Owners /\ v8[l] = {} /\ D \in SUBSET Tm!Entries
      /\ v8' = [v8 EXCEPT ![l] = D] /\ v7' = v7 \ D
      /\ UNCHANGED <<v1, v2, v3, v4, v5,
                     v9, v10, v11, v12>>
  <2>1. l \in Tm!Owners /\ v8[l] = {} /\ v8' = [v8 EXCEPT ![l] = D] /\ v8'[l] = D
    BY DEF Tm!TakeDueTimers, Tm!Idle, Tm!TypeOK, Tm!Owners
  <2> QED
    BY <2>1 DEF Tm!TakeDueTimers, Tm!TypeOK, Tm!TimerType
<1>2. Tm!TypeOK'
  BY <1>1 DEF Tm!TypeOK, Tm!TimerType
<1>3. Tm!ArmedAtHome'
  BY <1>1 DEF Tm!ArmedAtHome
<1>4. Tm!DueAtHome'
  BY <1>1 DEF Tm!DueAtHome, Tm!ArmedAtHome, Tm!TypeOK
<1>5. \A u \in v2 : \A g : Tm!Entry(v1[u], u, g) \in D => v1[u] = l
  BY TimerEntryFields
<1>6. Tm!ActivePending'
  <2>1. \A p \in Tm!Owners : v8[p] \in SUBSET v8'[p]
    BY <1>1 DEF Tm!TypeOK
  <2>2. v8'[l] = D /\ \A u \in v2 : v1[u] \in Tm!Owners
    BY <1>1 DEF Tm!TypeOK, Tm!TimerType
  <2> QED
    BY <1>1, <1>5, <2>1, <2>2, TimerTransportKeeps DEF Tm!OnItsWay
<1> QED
  BY <1>2, <1>3, <1>4, <1>6

LEMMA TimerDispatchDueKeeps ==
  ASSUME Tm!Inv, NEW l \in TimerLoops, Tm!DispatchDue(l)
  PROVE  Tm!Inv'
<1> USE DEF Tm!Inv
<1>1. PICK e \in v8[l] : v8' = [v8 EXCEPT ![l] = @ \ {e}] /\ Tm!DispatchTimeout(l, e.t, e.gen)
  BY DEF Tm!DispatchDue
<1>2. /\ l \in Tm!Owners /\ e \in Tm!Entries /\ e.t \in v2 /\ v1[e.t] = l
      /\ UNCHANGED <<v9, v10, v12>>
  BY DEF Tm!DispatchDue, Tm!DueAtHome, Tm!TypeOK, Tm!Owners
<1>3. /\ v8' \in [Tm!Owners -> SUBSET Tm!Entries]
      /\ \A p \in Tm!Owners : v8'[p] \in SUBSET v8[p]
      /\ \A p \in Tm!Owners : \A f \in v8[p] : f # e => f \in v8'[p]
  BY <1>1, <1>2 DEF Tm!TypeOK
<1>4. \A u \in v2 : v1[u] \in Tm!Owners
        /\ Tm!Entry(v1[u], u, v5[u]).t = u
        /\ Tm!Entry(v1[u], u, v5[u]).gen = v5[u]
  BY TimerEntryFields DEF Tm!TypeOK, Tm!TimerType
<1>5. CASE /\ Tm!Effect(e.t) /\ Tm!ArmedAnew(e.t) /\ UNCHANGED <<v1, v2>>
           /\ v11' = [v11 EXCEPT ![l] = e.t]
  <2>1. Tm!TypeOK'
    BY <1>2, <1>3, <1>5, TimerEntryFields DEF Tm!TypeOK, Tm!Effect
  <2>2. \A u \in v2 : u # e.t => Tm!Entry(v1[u], u, v5[u]) # e
    BY <1>4
  <2>3. Tm!ArmedAtHome' /\ Tm!ActivePending'
    BY <1>2, <1>3, <1>4, <1>5, <2>2, TimerOperationKeeps
  <2>4. Tm!DueAtHome'
    BY <1>3, <1>5 DEF Tm!DueAtHome
  <2> QED
    BY <2>1, <2>3, <2>4
<1>6. CASE /\ e.t \notin v3 \/ e.gen # v5[e.t]
           /\ UNCHANGED <<Tm!timerState, v11>>
  <2>1. Tm!TypeOK'
    BY <1>2, <1>3, <1>6 DEF Tm!TypeOK, Tm!TimerType, Tm!timerState
  <2>2. \A u \in v2 \intersect v3 : Tm!Entry(v1[u], u, v5[u]) # e
    BY <1>4, <1>6
  <2>3. Tm!ActivePending'
    BY <1>2, <1>3, <1>4, <1>6, <2>2, TimerTransportKeeps DEF Tm!OnItsWay, Tm!timerState
  <2>4. Tm!ArmedAtHome' /\ Tm!DueAtHome'
    BY <1>3, <1>6 DEF Tm!ArmedAtHome, Tm!DueAtHome, Tm!timerState
  <2> QED
    BY <2>1, <2>3, <2>4
<1> QED
  BY <1>1, <1>2, <1>5, <1>6, TimerDispatchEffect DEF Tm!TypeOK

LEMMA TimerServiceKeeps ==
  ASSUME Tm!Inv, Tm!ServiceTake \/ Tm!ServicePost \/ Tm!ServiceStop
  PROVE  Tm!Inv'
<1> USE DEF Tm!Inv
<1>0. \A u \in v2 : v1[u] \in Tm!Owners
  BY DEF Tm!TypeOK, Tm!TimerType
<1>1. CASE Tm!ServiceTake
  <2> DEFINE ready == {e \in v7 : e.o \in TimerStrands /\ e.t \in v6}
  <2>1. /\ v9' = ready /\ v7' = v7 \ ready /\ v9 = {}
        /\ UNCHANGED <<v1, v2, v3, v4, v5,
                       v8, v10, v11, v12>>
    BY <1>1 DEF Tm!ServiceTake
  <2>2. Tm!TypeOK' /\ Tm!ArmedAtHome' /\ Tm!DueAtHome'
    BY <2>1 DEF Tm!TypeOK, Tm!TimerType, Tm!ArmedAtHome, Tm!DueAtHome
  <2>3. Tm!ActivePending'
    BY <2>1, TimerTransportKeeps DEF Tm!OnItsWay
  <2> QED
    BY <2>2, <2>3
<1>2. CASE Tm!ServicePost
  <2>1. PICK e \in v9 : /\ v9' = v9 \ {e}
                                /\ Tm!Post(e.o, "timeout", e.t, e.gen)
    BY <1>2 DEF Tm!ServicePost
  <2> DEFINE k == [op |-> "timeout", t |-> e.t, gen |-> e.gen]
  <2>2. /\ UNCHANGED <<Tm!timerState, v8, v11, v12>>
        /\ e \in Tm!Entries /\ e.o \in Tm!Owners /\ k \in Tm!Closures
        /\ v10' = [v10 EXCEPT ![e.o] = Append(@, k)]
    BY <1>2, <2>1, TimerEntryFields DEF Tm!ServicePost, Tm!Post, Tm!TypeOK, Tm!Closures
  <2>3. /\ v10' \in [Tm!Owners -> Seq(Tm!Closures)]
        /\ \A p \in Tm!Owners : \A t, g : Tm!Holds(v10[p], t, g) => Tm!Holds(v10'[p], t, g)
        /\ Tm!Holds(v10'[e.o], e.t, e.gen)
    <3>1. v10[e.o] \in Seq(Tm!Closures) /\ v10'[e.o] = Append(v10[e.o], k)
      BY <2>2 DEF Tm!TypeOK
    <3>2. \A p \in Tm!Owners : p # e.o => v10'[p] = v10[p]
      BY <2>2 DEF Tm!TypeOK
    <3> HIDE DEF k
    <3>3. /\ Append(v10[e.o], k) \in Seq(Tm!Closures)
          /\ \A t, g : Tm!Holds(v10[e.o], t, g) => Tm!Holds(v10'[e.o], t, g)
      BY <2>2, <3>1, TimerHoldsAppended
    <3>4. v10' \in [Tm!Owners -> Seq(Tm!Closures)]
      BY <2>2, <3>3 DEF Tm!TypeOK
    <3>5. Tm!Holds(v10'[e.o], e.t, e.gen)
      BY <2>2, <3>1, TimerHoldsAppended DEF k
    <3> QED
      BY <3>2, <3>3, <3>4, <3>5
  <2>4. Tm!TypeOK' /\ Tm!ArmedAtHome' /\ Tm!DueAtHome'
    BY <2>1, <2>2, <2>3 DEF Tm!TypeOK, Tm!TimerType, Tm!ArmedAtHome, Tm!DueAtHome, Tm!timerState
  <2>5. \A o, u, g : Tm!Entry(o, u, g) = e => o = e.o /\ u = e.t /\ g = e.gen
    BY TimerEntryFields
  <2>6. Tm!ActivePending'
    BY <1>0, <2>1, <2>2, <2>3, <2>5, TimerTransportKeeps DEF Tm!OnItsWay, Tm!timerState
  <2> QED
    BY <2>4, <2>6
<1>3. CASE Tm!ServiceStop
  <2>1. /\ v7' = {e \in v7 : e.o \in TimerLoops} /\ v12'
        /\ UNCHANGED <<v1, v2, v3, v4, v5,
                       v8, v9, v10, v11>>
    BY <1>3 DEF Tm!ServiceStop
  <2>2. Tm!TypeOK' /\ Tm!ArmedAtHome' /\ Tm!DueAtHome'
    BY <2>1 DEF Tm!TypeOK, Tm!TimerType, Tm!ArmedAtHome, Tm!DueAtHome
  <2>3. \A u \in v2 : \A g : Tm!Entry(v1[u], u, g).o = v1[u]
    BY TimerEntryFields
  <2>4. \A u \in v2 : \A g : Tm!Entry(v1[u], u, g) \in v7 =>
           Tm!Entry(v1[u], u, g) \in v7' \/ v1[u] \in TimerStrands
    BY <1>0, <2>1, <2>3 DEF Tm!Owners
  <2>5. Tm!ActivePending'
    BY <2>1, <2>4, TimerPendingKept DEF Tm!OnItsWay
  <2> QED
    BY <2>2, <2>5
<1> QED
  BY <1>1, <1>2, <1>3

LEMMA TimerOutsideKeeps ==
  ASSUME Tm!Inv, NEW t \in Timers, NEW op \in Tm!Ops \union {"move"},
         Tm!CallFromElsewhere(t, op) \/ Tm!DeadlinePasses(t)
  PROVE  Tm!Inv'
<1> USE DEF Tm!Inv
<1>0. \A u \in v2 : v1[u] \in Tm!Owners
  BY DEF Tm!TypeOK, Tm!TimerType
<1>1. CASE Tm!CallFromElsewhere(t, op)
  <2> DEFINE o == v1[t]
             k == [op |-> op, t |-> t, gen |-> 0]
  <2>1. /\ t \in v2 /\ o \in Tm!Owners /\ k \in Tm!Closures
        /\ v10' = [v10 EXCEPT ![o] = Append(@, k)]
        /\ UNCHANGED <<Tm!timerState, v8, v9, v11, v12>>
    BY <1>0, <1>1 DEF Tm!CallFromElsewhere, Tm!Post, Tm!Closures
  <2> HIDE DEF k, o
  <2>2. v10[o] \in Seq(Tm!Closures) /\ v10'[o] = Append(v10[o], k)
    BY <2>1 DEF Tm!TypeOK
  <2>3. \A p \in Tm!Owners : p # o => v10'[p] = v10[p]
    BY <2>1 DEF Tm!TypeOK
  <2>4. /\ Append(v10[o], k) \in Seq(Tm!Closures)
        /\ \A u, g : Tm!Holds(v10[o], u, g) => Tm!Holds(v10'[o], u, g)
    BY <2>1, <2>2, TimerHoldsAppended
  <2>5. v10' \in [Tm!Owners -> Seq(Tm!Closures)]
    BY <2>1, <2>4 DEF Tm!TypeOK
  <2>6. Tm!TypeOK' /\ Tm!ArmedAtHome' /\ Tm!DueAtHome'
    BY <2>1, <2>5 DEF Tm!TypeOK, Tm!TimerType, Tm!ArmedAtHome, Tm!DueAtHome, Tm!timerState
  <2>7. Tm!ActivePending'
    BY <1>0, <2>1, <2>3, <2>4, TimerTransportKeeps DEF Tm!OnItsWay, Tm!timerState
  <2> QED
    BY <2>6, <2>7
<1>2. CASE Tm!DeadlinePasses(t)
  <2>1. UNCHANGED <<v1, v2, v3, v4, v5, v7, v8, v9,
                    v10, v11, v12>>
    BY <1>2 DEF Tm!DeadlinePasses
  <2>2. Tm!TypeOK' /\ Tm!ArmedAtHome' /\ Tm!DueAtHome'
    BY <2>1 DEF Tm!TypeOK, Tm!TimerType, Tm!ArmedAtHome, Tm!DueAtHome
  <2>3. Tm!ActivePending'
    BY <2>1, TimerTransportKeeps DEF Tm!OnItsWay
  <2> QED
    BY <2>2, <2>3
<1> QED
  BY <1>1, <1>2

LEMMA TimerNextKeepsInv ==
  ASSUME Tm!Inv, [Tm!Next]_Tm!vars
  PROVE  Tm!Inv'
<1>1. CASE UNCHANGED Tm!vars
  BY <1>1 DEF Tm!vars, Tm!timerState, Tm!Inv, Tm!TypeOK, Tm!TimerType, Tm!ArmedAtHome,
     Tm!DueAtHome, Tm!ActivePending, Tm!Pending
<1>2. ASSUME NEW o \in Tm!Owners, Tm!SlotReturns(o) PROVE Tm!Inv'
  <2>1. /\ v11' = [v11 EXCEPT ![o] = None]
        /\ UNCHANGED <<Tm!timerState, v8, v9, v10, v12>>
    BY <1>2 DEF Tm!SlotReturns
  <2>2. Tm!TypeOK' /\ Tm!ArmedAtHome' /\ Tm!DueAtHome'
    BY <2>1 DEF Tm!Inv, Tm!TypeOK, Tm!TimerType, Tm!ArmedAtHome, Tm!DueAtHome, Tm!timerState
  <2>3. Tm!ActivePending'
    BY <2>1, TimerTransportKeeps DEF Tm!OnItsWay, Tm!timerState, Tm!Inv
  <2> QED
    BY <2>2, <2>3 DEF Tm!Inv
<1> QED
  BY <1>1, <1>2, TimerCallFromSlotKeeps, TimerRunTaskKeeps, TimerTakeDueTimersKeeps,
     TimerDispatchDueKeeps,
     TimerServiceKeeps, TimerOutsideKeeps DEF Tm!Next, Tm!OwnerStep, Tm!LoopStep

LEMMA TimerInvArmed == Tm!Inv => Tm!ActiveTimersArmed
BY DEF Tm!Inv, Tm!ActiveTimersArmed, Tm!ActivePending, Tm!ArmedAtHome, Tm!DueAtHome, Tm!Owners

LEMMA TimerNextAtHome ==
  ASSUME Tm!Inv, [Tm!Next]_Tm!vars
  PROVE  Tm!TimeoutAtHome
<1> SUFFICES ASSUME NEW o \in Tm!Owners, v11[o] = None, v11'[o] # None
             PROVE  v1[v11'[o]] = o
  BY DEF Tm!TimeoutAtHome
<1> USE DEF Tm!Inv
<1>1. v11 \in [Tm!Owners -> Timers \union {None}]
  BY DEF Tm!TypeOK
<1>2. ASSUME NEW p \in Tm!Owners, Tm!RunTask(p) PROVE v1[v11'[o]] = o
  <2> DEFINE k == Head(v10[p])
  <2>1. v11' # v11
    BY <1>1
  <2>2. Tm!Deliverable(p, k.t) /\ Tm!DispatchTimeout(p, k.t, k.gen)
    BY <1>2, <2>1 DEF Tm!RunTask
  <2>3. v11' = [v11 EXCEPT ![p] = k.t] /\ v1[k.t] = p
    BY <2>1, <2>2 DEF Tm!DispatchTimeout, Tm!Deliverable
  <2> HIDE DEF k
  <2> QED
    BY <1>1, <2>3
<1>3. ASSUME NEW l \in TimerLoops, Tm!DispatchDue(l) PROVE v1[v11'[o]] = o
  <2>1. PICK e \in v8[l] : Tm!DispatchTimeout(l, e.t, e.gen)
    BY <1>3 DEF Tm!DispatchDue
  <2>2. v11' = [v11 EXCEPT ![l] = e.t] /\ v1[e.t] = l /\ l \in Tm!Owners
    BY <2>1 DEF Tm!DispatchTimeout, Tm!DueAtHome, Tm!Owners
  <2> QED
    BY <1>1, <2>2
<1>4. ASSUME NEW p \in Tm!Owners, Tm!SlotReturns(p) PROVE FALSE
  BY <1>1, <1>4 DEF Tm!SlotReturns
<1>5. v11' # v11
  BY <1>1
<1>6. ASSUME NEW p \in Tm!Owners, NEW t \in Timers, NEW op, Tm!CallFromSlot(p, t, op)
             PROVE FALSE
  BY <1>5, <1>6 DEF Tm!CallFromSlot
<1>7. ASSUME NEW t \in Timers, NEW op, Tm!CallFromElsewhere(t, op) \/ Tm!DeadlinePasses(t)
             PROVE FALSE
  BY <1>5, <1>7 DEF Tm!CallFromElsewhere, Tm!DeadlinePasses
<1>8. ASSUME NEW l \in TimerLoops, Tm!TakeDueTimers(l) PROVE FALSE
  BY <1>5, <1>8 DEF Tm!TakeDueTimers
<1>9. ~(Tm!ServiceTake \/ Tm!ServicePost \/ Tm!ServiceStop \/ UNCHANGED Tm!vars)
  BY <1>5 DEF Tm!ServiceTake, Tm!ServicePost, Tm!ServiceStop, Tm!vars
<1> QED
  BY <1>2, <1>3, <1>4, <1>6, <1>7, <1>8, <1>9 DEF Tm!Next, Tm!OwnerStep, Tm!LoopStep

-----------------------------------------------------------------------------
\* IoService arms a descriptor for one event.
Wo == INSTANCE IoWatchProofs WITH
    OneShot <- TRUE, Fds <- {1, 2}, MaxEvents <- 2, MaxReg <- 3,
    m_watches <- v1, m_nextRegistration <- v2, epoll <- v3, wakeup <- v4,
    fdReady <- v5, polled <- v6, pollpc <- v7, toPost <- v8, readyIO <- v9,
    batch <- v10, running <- v11, ioStopped <- v12

-----------------------------------------------------------------------------
(* The tree, for any number of places. The nodes that live are in v1, the  *)
(* marked ones in v2, parents in v3, children in v4, the lists of children *)
(* to delete in v5, the roots in v6, those to delete in v7, what the pass  *)
(* has still to tick in v8, its run() calls in v9, and what they have      *)
(* dropped of the lists in v10.                                            *)
Tr == INSTANCE NodeTree WITH
    Addresses <- TreeAddresses, MovesMarked <- FALSE, TwoParents <- FALSE,
    alive <- v1, marked <- v2, m_parent <- v3, m_children <- v4,
    m_childrenToDelete <- v5, m_rootNodes <- v6, m_nodesToDelete <- v7,
    pass <- v8, walk <- v9, forgotten <- v10

(* Adding a node to a list that does not have it.                          *)
LEMMA OneMore ==
  ASSUME NEW S, NEW s \in Seq(S), NEW e \in S
  PROVE  /\ Append(s, e) \in Seq(S) /\ Tr!Range(Append(s, e)) = Tr!Range(s) \union {e}
         /\ Tr!IsInjective(s) /\ e \notin Tr!Range(s) => Tr!IsInjective(Append(s, e))
<1> DEFINE t == Append(s, e)
<1>1. /\ t \in Seq(S) /\ Len(s) \in Nat /\ Len(t) = Len(s) + 1
      /\ DOMAIN s = 1 .. Len(s) /\ DOMAIN t = 1 .. Len(s) + 1
      /\ t[Len(s) + 1] = e /\ \A i \in 1 .. Len(s) : t[i] = s[i]
  OBVIOUS
<1> HIDE DEF t
<1>2. Tr!Range(t) = Tr!Range(s) \union {e}
  <2>1. Len(s) + 1 \in DOMAIN t
    BY <1>1
  <2>2. ASSUME NEW x \in Tr!Range(t) PROVE x \in Tr!Range(s) \union {e}
    <3>1. PICK i \in DOMAIN t : x = t[i]
      BY DEF Tr!Range
    <3>2. CASE i = Len(s) + 1
      BY <1>1, <3>1, <3>2
    <3>3. CASE i # Len(s) + 1
      <4>1. i \in 1 .. Len(s)
        BY <1>1, <3>3
      <4> QED
        BY <1>1, <3>1, <4>1 DEF Tr!Range
    <3> QED
      BY <3>2, <3>3
  <2>3. ASSUME NEW x \in Tr!Range(s) PROVE x \in Tr!Range(t)
    <3>1. PICK i \in DOMAIN s : x = s[i]
      BY DEF Tr!Range
    <3>2. i \in DOMAIN t /\ t[i] = x
      BY <1>1, <3>1
    <3> QED
      BY <3>2 DEF Tr!Range
  <2>4. e \in Tr!Range(t)
    BY <1>1, <2>1 DEF Tr!Range
  <2> QED
    BY <2>2, <2>3, <2>4
<1>3. ASSUME Tr!IsInjective(s), e \notin Tr!Range(s) PROVE Tr!IsInjective(t)
  <2> SUFFICES ASSUME NEW i \in 1 .. Len(s) + 1, NEW j \in 1 .. Len(s) + 1, t[i] = t[j]
                      PROVE i = j
    BY <1>1 DEF Tr!IsInjective
  <2>1. \A k \in 1 .. Len(s) : t[k] # e
    BY <1>1, <1>3 DEF Tr!Range
  <2>2. CASE i = Len(s) + 1 \/ j = Len(s) + 1
    BY <1>1, <2>1, <2>2
  <2>3. CASE i # Len(s) + 1 /\ j # Len(s) + 1
    <3>1. i \in 1 .. Len(s) /\ j \in 1 .. Len(s)
      BY <1>1, <2>3
    <3> QED
      BY <1>1, <1>3, <3>1 DEF Tr!IsInjective
  <2> QED
    BY <2>2, <2>3
<1> QED
  BY <1>1, <1>2, <1>3 DEF t

(* k is the recursion in Kept, which has a solution.                       *)
Keeps(k, s, gone) ==
  /\ Tr!Kept(s, gone) = k[Len(s)] /\ k[0] = <<>>
  /\ \A n \in 1 .. Len(s) :
       k[n] = IF s[n] \in gone THEN k[n - 1] ELSE Append(k[n - 1], s[n])

LEMMA KeptWellDefined ==
  ASSUME NEW S, NEW s \in Seq(S), NEW gone
  PROVE  \E k : Keeps(k, s, gone)
<1> DEFINE Solves(k, m) ==
      k = [n \in 0 .. m |->
             IF n = 0 THEN <<>>
             ELSE IF s[n] \in gone THEN k[n - 1] ELSE Append(k[n - 1], s[n])]
           N == {m \in Nat : \E k : Solves(k, m)}
<1>1. 0 \in N
  <2>1. Solves([n \in 0 .. 0 |-> <<>>], 0)
    OBVIOUS
  <2> QED
    BY <2>1
<1>2. ASSUME NEW m \in N PROVE m + 1 \in N
  <2>1. PICK k : Solves(k, m)
    BY <1>2
  <2> DEFINE g == [n \in 0 .. m + 1 |->
                     IF n = m + 1
                     THEN IF s[n] \in gone THEN k[m] ELSE Append(k[m], s[n])
                     ELSE k[n]]
  <2>2. \A n \in 0 .. m : g[n] = k[n]
    OBVIOUS
  <2>3. \A n \in 0 .. m : k[n] = IF n = 0 THEN <<>>
             ELSE IF s[n] \in gone THEN k[n - 1] ELSE Append(k[n - 1], s[n])
    BY <2>1
  <2>4. ASSUME NEW n \in 0 .. m + 1
        PROVE  g[n] = IF n = 0 THEN <<>>
             ELSE IF s[n] \in gone THEN g[n - 1] ELSE Append(g[n - 1], s[n])
    <3>1. CASE n = 0
      <4>1. 0 \in 0 .. m
        OBVIOUS
      <4>2. g[0] = k[0] /\ k[0] = <<>>
        BY <2>2, <2>3, <4>1
      <4> QED
        BY <3>1, <4>2
    <3>2. CASE n \in 1 .. m
      <4>1. n \in 0 .. m /\ n - 1 \in 0 .. m /\ n # 0
        BY <3>2
      <4> QED
        BY <4>1, <2>2, <2>3
    <3>3. CASE n = m + 1
      <4>1. m \in 0 .. m /\ n - 1 = m /\ n # 0
        BY <3>3
      <4>2. g[n - 1] = k[m]
        BY <4>1, <2>2
      <4>3. g[n] = IF s[n] \in gone THEN k[m] ELSE Append(k[m], s[n])
        BY <3>3
      <4> QED
        BY <4>1, <4>2, <4>3
    <3> QED
      BY <3>1, <3>2, <3>3
  <2>5. g = [n \in 0 .. m + 1 |-> IF n = 0 THEN <<>>
             ELSE IF s[n] \in gone THEN g[n - 1] ELSE Append(g[n - 1], s[n])]
    <3> HIDE DEF g
    <3>1. g = [n \in 0 .. m + 1 |-> g[n]]
      BY DEF g
    <3> QED
      BY <2>4, <3>1
  <2> HIDE DEF g
  <2>6. \E h : Solves(h, m + 1)
    BY <2>5
  <2>7. m + 1 \in Nat
    OBVIOUS
  <2> QED
    BY <2>6, <2>7
<1>3. N = Nat
  <2>1. N \in SUBSET Nat
    OBVIOUS
  <2> HIDE DEF N
  <2> QED
    BY <1>1, <1>2, <2>1, Wo!SetInduction
<1>4. Len(s) \in Nat
  OBVIOUS
<1>5. \E k : Solves(k, Len(s))
  <2>1. Len(s) \in N
    BY <1>3, <1>4
  <2> QED
    BY <2>1
<1> DEFINE solution == CHOOSE k : Solves(k, Len(s))
<1>6. Solves(solution, Len(s))
  BY <1>5
<1>7. Tr!Kept(s, gone) = solution[Len(s)]
  BY DEF Tr!Kept
<1> HIDE DEF solution
<1>8. \A n \in 0 .. Len(s) :
        solution[n] = IF n = 0 THEN <<>>
                      ELSE IF s[n] \in gone THEN solution[n - 1] ELSE Append(solution[n - 1],
                      s[n])
  BY <1>6
<1>9. solution[0] = <<>>
  BY <1>4, <1>8
<1>10. \A n \in 1 .. Len(s) :
         solution[n] = IF s[n] \in gone THEN solution[n - 1] ELSE Append(solution[n - 1], s[n])
  BY <1>4, <1>8
<1> QED
  BY <1>7, <1>9, <1>10 DEF Keeps

(* What is kept of a list: all nodes but those that are gone, once.        *)
LEMMA KeptIs ==
  ASSUME NEW S, NEW s \in Seq(S), NEW gone
  PROVE  /\ Tr!Kept(s, gone) \in Seq(S) /\ Tr!Range(Tr!Kept(s, gone)) = Tr!Range(s) \ gone
         /\ Tr!IsInjective(s) => Tr!IsInjective(Tr!Kept(s, gone))
<1>1. PICK k : Keeps(k, s, gone)
  BY KeptWellDefined
<1>2. Len(s) \in Nat /\ DOMAIN s = 1 .. Len(s) /\ \A i \in 1 .. Len(s) : s[i] \in S
  OBVIOUS
<1> DEFINE First(n) == {s[i] : i \in 1 .. n}
           Up(n) == /\ k[n] \in Seq(S) /\ Tr!Range(k[n]) = First(n) \ gone
                    /\ Tr!IsInjective(s) => Tr!IsInjective(k[n])
           N == {n \in Nat : n <= Len(s) => Up(n)}
<1>3. 0 \in N
  <2>1. k[0] = <<>> /\ First(0) = {} /\ <<>> \in Seq(S)
    BY <1>1 DEF Keeps
  <2>2. Tr!Range(<<>>) = {} /\ Tr!IsInjective(<<>>)
    BY DEF Tr!Range, Tr!IsInjective
  <2> QED
    BY <2>1, <2>2
<1>4. ASSUME NEW n \in N PROVE n + 1 \in N
  <2> SUFFICES ASSUME n + 1 <= Len(s) PROVE Up(n + 1)
    OBVIOUS
  <2>1. n \in Nat /\ n + 1 \in 1 .. Len(s) /\ s[n + 1] \in S
    BY <1>2
  <2>2. Up(n)
    BY <1>2, <2>1
  <2>3. First(n + 1) = First(n) \union {s[n + 1]}
    <3>1. 1 .. n + 1 = 1 .. n \union {n + 1}
      BY <2>1
    <3> QED
      BY <3>1
  <2>4. k[n + 1] = IF s[n + 1] \in gone THEN k[n] ELSE Append(k[n], s[n + 1])
    BY <1>1, <2>1 DEF Keeps
  <2>5. Tr!IsInjective(s) => s[n + 1] \notin First(n)
    <3>1. \A i \in 1 .. n : i \in 1 .. Len(s) /\ i # n + 1
      BY <1>2, <2>1
    <3> QED
      BY <1>2, <2>1, <3>1 DEF Tr!IsInjective
  <2> HIDE DEF First
  <2>6. CASE s[n + 1] \in gone
    BY <2>2, <2>3, <2>4, <2>6
  <2>7. CASE s[n + 1] \notin gone
    <3> DEFINE q == k[n]  e == s[n + 1]
    <3>1. q \in Seq(S) /\ e \in S /\ k[n + 1] = Append(q, e)
      BY <2>1, <2>2, <2>4, <2>7
    <3>2. Tr!IsInjective(s) => Tr!IsInjective(q) /\ e \notin Tr!Range(q)
      BY <2>2, <2>5
    <3>3. Tr!Range(q) = First(n) \ gone
      BY <2>2
    <3> HIDE DEF q, e
    <3>4. /\ Append(q, e) \in Seq(S) /\ Tr!Range(Append(q, e)) = Tr!Range(q) \union {e}
          /\ Tr!IsInjective(s) => Tr!IsInjective(Append(q, e))
      BY <3>1, <3>2, OneMore
    <3>5. Tr!Range(k[n + 1]) = First(n + 1) \ gone
      BY <2>3, <2>7, <3>1, <3>3, <3>4 DEF e
    <3> QED
      BY <3>1, <3>4, <3>5
  <2> QED
    BY <2>6, <2>7
<1>5. N = Nat
  <2>1. N \in SUBSET Nat
    OBVIOUS
  <2> HIDE DEF N
  <2> QED
    BY <1>3, <1>4, <2>1, Wo!SetInduction
<1>6. Up(Len(s))
  <2> HIDE DEF N
  <2>1. Len(s) \in N
    BY <1>2, <1>5
  <2> HIDE DEF Up
  <2>2. Len(s) <= Len(s) => Up(Len(s))
    BY <2>1 DEF N
  <2> QED
    BY <1>2, <2>2
<1>7. Tr!Kept(s, gone) = k[Len(s)]
  BY <1>1 DEF Keeps
<1>8. First(Len(s)) = Tr!Range(s)
  BY <1>2 DEF Tr!Range
<1> QED
  BY <1>6, <1>7, <1>8

(* The second of two is where it was when the first is taken out.          *)
LEMMA SecondStays ==
  ASSUME NEW S, NEW s \in Seq(S), Len(s) = 2, NEW t \in Seq(S), Len(t) < 2
  PROVE  (t \o SubSeq(s, Len(t) + 1, Len(s)))[2] = s[2]
<1>0. Len(t) \in Nat
  OBVIOUS
<1>1. Len(t) = 0 \/ Len(t) = 1
  <2>1. \A n \in Nat : n < 2 => n = 0 \/ n = 1
    OBVIOUS
  <2> QED
    BY <1>0, <2>1
<1>2. CASE Len(t) = 0
  <2> DEFINE u == SubSeq(s, 1, 2)
  <2>1. u \in Seq(S)
    BY SMTT(30)
  <2>2. Len(u) = 2
    OBVIOUS
  <2>3. u[2] = s[2]
    OBVIOUS
  <2> HIDE DEF u
  <2>4. (t \o u)[2] = s[2]
    BY <1>2, <2>1, <2>2, <2>3
  <2> QED
    BY <1>2, <2>4 DEF u
<1>3. CASE Len(t) = 1
  <2> DEFINE u == SubSeq(s, 2, 2)
  <2>1. u \in Seq(S)
    OBVIOUS
  <2>2. Len(u) = 1
    OBVIOUS
  <2>3. u[1] = s[2]
    OBVIOUS
  <2> HIDE DEF u
  <2>4. \A i \in Len(t) + 1 .. Len(t) + Len(u) : (t \o u)[i] = u[i - Len(t)]
    BY <2>1
  <2>5. 2 \in Len(t) + 1 .. Len(t) + Len(u) /\ 2 - Len(t) = 1
    BY <1>3, <2>2
  <2>6. (t \o u)[2] = s[2]
    BY <2>3, <2>4, <2>5
  <2>7. SubSeq(s, Len(t) + 1, Len(s)) = u
    BY <1>3 DEF u
  <2> QED
    BY <2>6, <2>7
<1> QED
  BY <1>1, <1>2, <1>3

(* f is the recursion in Swept, which has a solution.                      *)
Sweeps(f, p, list) ==
  /\ Tr!Swept(p, list) = f[Len(list)].dead
  /\ f[0] = [mem |-> list, size |-> Len(list), dead |-> {}]
  /\ \A n \in 1 .. Len(list) : f[n] = Tr!Visit(p, f[n - 1], n)

LEMMA SweptWellDefined ==
  ASSUME NEW S, NEW list \in Seq(S), NEW p
  PROVE  \E f : Sweeps(f, p, list)
<1> DEFINE s0 == [mem |-> list, size |-> Len(list), dead |-> {}]
           Step(acc, n) == Tr!Visit(p, acc, n)
           Solves(f, m) == f = [n \in 0 .. m |-> IF n = 0 THEN s0 ELSE Step(f[n - 1], n)]
           N == {m \in Nat : \E f : Solves(f, m)}
<1>0. Tr!Swept(p, list) = (CHOOSE f : Solves(f, Len(list)))[Len(list)].dead
  BY DEF Tr!Swept
<1> HIDE DEF s0, Step
<1>1. 0 \in N
  <2>1. Solves([n \in 0 .. 0 |-> s0], 0)
    OBVIOUS
  <2> QED
    BY <2>1
<1>2. ASSUME NEW m \in N PROVE m + 1 \in N
  <2>1. PICK f : Solves(f, m)
    BY <1>2
  <2> DEFINE g == [n \in 0 .. m + 1 |-> IF n = m + 1 THEN Step(f[m], n) ELSE f[n]]
  <2>2. \A n \in 0 .. m : g[n] = f[n]
    OBVIOUS
  <2>3. \A n \in 0 .. m : f[n] = IF n = 0 THEN s0 ELSE Step(f[n - 1], n)
    BY <2>1
  <2>4. ASSUME NEW n \in 0 .. m + 1 PROVE g[n] = IF n = 0 THEN s0 ELSE Step(g[n - 1], n)
    <3>1. CASE n = 0
      <4>1. 0 \in 0 .. m
        OBVIOUS
      <4>2. g[0] = f[0] /\ f[0] = s0
        BY <2>2, <2>3, <4>1
      <4> QED
        BY <3>1, <4>2
    <3>2. CASE n \in 1 .. m
      <4>1. n \in 0 .. m /\ n - 1 \in 0 .. m /\ n # 0
        BY <3>2
      <4> QED
        BY <4>1, <2>2, <2>3
    <3>3. CASE n = m + 1
      <4>1. m \in 0 .. m /\ n - 1 = m /\ n # 0
        BY <3>3
      <4>2. g[n - 1] = f[m]
        BY <4>1, <2>2
      <4>3. g[n] = Step(f[m], n)
        BY <3>3
      <4> QED
        BY <4>1, <4>2, <4>3
    <3> QED
      BY <3>1, <3>2, <3>3
  <2>5. g = [n \in 0 .. m + 1 |-> IF n = 0 THEN s0 ELSE Step(g[n - 1], n)]
    <3> HIDE DEF g
    <3>1. g = [n \in 0 .. m + 1 |-> g[n]]
      BY DEF g
    <3> QED
      BY <2>4, <3>1
  <2> HIDE DEF g
  <2>6. \E h : Solves(h, m + 1)
    BY <2>5
  <2>7. m + 1 \in Nat
    OBVIOUS
  <2> QED
    BY <2>6, <2>7
<1>3. N = Nat
  <2>1. N \in SUBSET Nat
    OBVIOUS
  <2> HIDE DEF N
  <2> QED
    BY <1>1, <1>2, <2>1, Wo!SetInduction
<1>4. Len(list) \in Nat
  OBVIOUS
<1>5. \E f : Solves(f, Len(list))
  <2>1. Len(list) \in N
    BY <1>3, <1>4
  <2> QED
    BY <2>1
<1> DEFINE solution == CHOOSE f : Solves(f, Len(list))
<1>6. Solves(solution, Len(list))
  BY <1>5
<1>7. Tr!Swept(p, list) = solution[Len(list)].dead
  BY <1>0
<1> HIDE DEF solution
<1>8. \A n \in 0 .. Len(list) : solution[n] = IF n = 0 THEN s0 ELSE Step(solution[n - 1], n)
  BY <1>6
<1>9. solution[0] = s0
  BY <1>4, <1>8
<1>10. \A n \in 1 .. Len(list) : solution[n] = Step(solution[n - 1], n)
  BY <1>4, <1>8
<1> QED
  BY <1>7, <1>9, <1>10 DEF Sweeps, s0, Step

(* What a sweep deletes was in the list.                                   *)
LEMMA SweptFromList ==
  ASSUME NEW S, NEW list \in Seq(S), NEW p
  PROVE  Tr!Swept(p, list) \subseteq Tr!Range(list)
<1> DEFINE R == Tr!Range(list)
           Good(acc) == /\ acc.mem \in Seq(R) /\ Len(list) <= Len(acc.mem)
                        /\ acc.size \in Nat /\ acc.size <= Len(acc.mem)
                        /\ acc.dead \subseteq R
<1>1. PICK f : Sweeps(f, p, list)
  BY SweptWellDefined
<1> DEFINE N == {n \in Nat : n <= Len(list) => Good(f[n])}
<1>2. Len(list) \in Nat
  OBVIOUS
<1>3. 0 \in N
  <2>1. \A i \in 1 .. Len(list) : list[i] \in R
    BY DEF Tr!Range
  <2> HIDE DEF R
  <2>2. list \in Seq(R)
    BY <1>2, <2>1
  <2> QED
    BY <1>1, <1>2, <2>2 DEF Sweeps
<1>4. ASSUME NEW n \in N PROVE n + 1 \in N
  <2> SUFFICES ASSUME n + 1 <= Len(list) PROVE Good(f[n + 1])
    OBVIOUS
  <2>1. n \in Nat /\ n + 1 \in 1 .. Len(list) /\ n + 1 - 1 = n
    BY <1>2
  <2> DEFINE acc == f[n]
             v == acc.mem[n + 1]
             whole == SubSeq(acc.mem, 1, acc.size)
             kept == IF v3[v] = p THEN Tr!Kept(whole, {v}) ELSE whole
             rest == SubSeq(acc.mem, Len(kept) + 1, Len(acc.mem))
  <2>2. Good(acc)
    BY <1>2, <2>1
  <2>9. f[n + 1] = Tr!Visit(p, acc, n + 1)
    BY <1>1, <2>1 DEF Sweeps
  <2> HIDE DEF acc
  <2>3. f[n + 1] = IF v \notin v1 \/ v \in Tr!Gone(acc.dead) THEN acc
                   ELSE [mem |-> kept \o rest, size |-> Len(kept), dead |-> acc.dead \union {v}]
    BY <2>9 DEF Tr!Visit, Tr!Without
  <2> HIDE DEF R
  <2>4. v \in R
    BY <1>2, <2>1, <2>2
  <2>5. kept \in Seq(R)
    <3>1. whole \in Seq(R)
      BY <2>2
    <3> HIDE DEF whole
    <3>2. Tr!Kept(whole, {v}) \in Seq(R)
      BY <3>1, KeptIs
    <3> QED
      BY <3>1, <3>2
  <2> HIDE DEF kept, v
  <2>6. /\ Len(kept) \in Nat /\ rest \in Seq(R)
        /\ Len(acc.mem) \in Nat
        /\ Len(kept) < Len(acc.mem) => Len(rest) = Len(acc.mem) - Len(kept)
        /\ Len(rest) \in Nat
    BY <2>2, <2>5
  <2> HIDE DEF rest
  <2>7. kept \o rest \in Seq(R) /\ Len(kept \o rest) = Len(kept) + Len(rest)
    BY <2>5, <2>6
  <2>8. Len(list) <= Len(kept \o rest) /\ Len(kept) <= Len(kept \o rest)
    BY <1>2, <2>2, <2>6, <2>7
  <2> QED
    BY <2>2, <2>3, <2>4, <2>6, <2>7, <2>8
<1>5. N = Nat
  <2>1. N \in SUBSET Nat
    OBVIOUS
  <2> HIDE DEF N
  <2> QED
    BY <1>3, <1>4, <2>1, Wo!SetInduction
<1>6. Good(f[Len(list)])
  <2> HIDE DEF Good
  <2>1. Len(list) \in N
    BY <1>2, <1>5
  <2> QED
    BY <1>2, <2>1
<1> QED
  BY <1>1, <1>6 DEF Sweeps

(* The sweep of at most two children, none below the other, meets them     *)
(* all.                                                                    *)
LEMMA SweptIsAll ==
  ASSUME NEW S, NEW list \in Seq(S), Len(list) <= 2, NEW p,
         \A v \in Tr!Range(list) : v \in v1 /\ v3[v] = p,
         \A v, w \in Tr!Range(list) : w \in Tr!Subtree(v) => w = v
  PROVE  Tr!Swept(p, list) = Tr!Range(list)
<1>1. Len(list) \in Nat /\ Len(list) \in 0 .. 2 /\ DOMAIN list = 1 .. Len(list)
  <2>1. Len(list) \in Nat /\ DOMAIN list = 1 .. Len(list)
    OBVIOUS
  <2> QED
    BY <2>1
<1> DEFINE s0 == [mem |-> list, size |-> Len(list), dead |-> {}]
<1>2. PICK f : Sweeps(f, p, list)
  BY SweptWellDefined
<1>3. CASE Len(list) = 0
  BY <1>1, <1>2, <1>3 DEF Sweeps, Tr!Range
<1>4. CASE Len(list) # 0
  <2> DEFINE v == list[1]
             whole == SubSeq(list, 1, Len(list))
             left == Tr!Without(whole, v)
             tail == SubSeq(list, Len(left) + 1, Len(list))
             s1 == [mem |-> left \o tail, size |-> Len(left), dead |-> {v}]
  <2>1. /\ whole \in Seq(S) /\ Len(whole) = Len(list) /\ whole[1] = v
        /\ \A i \in 1 .. Len(list) : whole[i] = list[i]
    BY <1>1, <1>4
  <2>2. v \in Tr!Range(list) /\ v \in v1 /\ v3[v] = p
    BY <1>1, <1>4 DEF Tr!Range
  <2>3. f[1] = s1
    <3>1. f[1] = Tr!Visit(p, s0, 1)
      BY <1>1, <1>2, <1>4 DEF Sweeps
    <3>2. Tr!Gone({}) = {}
      BY DEF Tr!Gone
    <3> QED
      BY <2>2, <3>1, <3>2 DEF Tr!Visit
  <2> HIDE DEF whole
  <2>4. left \in Seq(S) /\ Len(left) \in Nat /\ Len(left) < Len(list)
    <3>1. PICK k : Keeps(k, whole, {v})
      BY <2>1, KeptWellDefined
    <3>2. k[1] = <<>>
      <4>1. 1 \in 1 .. Len(whole) /\ 1 - 1 = 0
        BY <1>1, <1>4, <2>1
      <4> QED
        BY <2>1, <3>1, <4>1 DEF Keeps
    <3>3. left = k[Len(whole)]
      BY <3>1 DEF Keeps, Tr!Without
    <3> HIDE DEF left
    <3>4. CASE Len(list) = 1
      <4>1. left = <<>>
        BY <2>1, <3>2, <3>3, <3>4
      <4>2. <<>> \in Seq(S) /\ Len(<<>>) = 0
        OBVIOUS
      <4> QED
        BY <3>4, <4>1, <4>2
    <3>5. CASE Len(list) = 2
      <4>1. 2 \in 1 .. Len(whole) /\ 2 - 1 = 1 /\ whole[2] \in S
        BY <2>1, <3>5
      <4>2. k[2] = <<>> \/ k[2] = Append(<<>>, whole[2])
        BY <3>1, <3>2, <4>1 DEF Keeps
      <4>3. <<>> \in Seq(S) /\ Len(<<>>) = 0
        OBVIOUS
      <4>4. Append(<<>>, whole[2]) \in Seq(S) /\ Len(Append(<<>>, whole[2])) = 1
        BY <4>1
      <4>5. left = k[2]
        BY <2>1, <3>3, <3>5
      <4>6. CASE k[2] = <<>>
        BY <3>5, <4>3, <4>5, <4>6
      <4>7. CASE k[2] = Append(<<>>, whole[2])
        BY <3>5, <4>4, <4>5, <4>7
      <4> QED
        BY <4>2, <4>6, <4>7
    <3> QED
      BY <1>1, <1>4, <3>4, <3>5
  <2>5. CASE Len(list) = 1
    <3>1. Tr!Range(list) = {v}
      BY <1>1, <2>5 DEF Tr!Range
    <3>2. Tr!Swept(p, list) = s1.dead
      BY <1>2, <2>3, <2>5 DEF Sweeps
    <3> QED
      BY <3>1, <3>2
  <2>6. CASE Len(list) = 2
    <3> DEFINE w == list[2]
    <3>1. s1.mem[2] = w
      <4> HIDE DEF left
      <4>1. (left \o tail)[2] = w
        BY <2>4, <2>6, SecondStays
      <4> HIDE DEF tail, w
      <4> QED
        BY <4>1
    <3>2. f[2] = Tr!Visit(p, s1, 2)
      <4> HIDE DEF s1
      <4>1. 2 \in 1 .. Len(list) /\ 2 - 1 = 1
        BY <2>6
      <4> QED
        BY <1>2, <2>3, <4>1 DEF Sweeps
    <3>3. Tr!Range(list) = {v, w}
      BY <1>1, <2>6 DEF Tr!Range
    <3>4. w \in v1 /\ (w \in Tr!Subtree(v) => w = v)
      BY <3>3
    <3>5. s1.dead = {v} /\ Tr!Gone({v}) = Tr!Subtree(v)
      BY DEF Tr!Gone
    <3> HIDE DEF w, v, s1
    <3>6. f[2].dead = {v, w}
      <4>1. CASE w \in Tr!Subtree(v)
        <5>1. f[2] = s1
          BY <3>1, <3>2, <3>5, <4>1 DEF Tr!Visit
        <5> QED
          BY <3>4, <3>5, <4>1, <5>1
      <4>2. CASE w \notin Tr!Subtree(v)
        <5>1. f[2].dead = s1.dead \union {w}
          BY <3>1, <3>2, <3>4, <3>5, <4>2 DEF Tr!Visit
        <5> QED
          BY <3>5, <5>1
      <4> QED
        BY <4>1, <4>2
    <3> QED
      BY <1>2, <2>6, <3>3, <3>6 DEF Sweeps
  <2> QED
    BY <1>1, <1>4, <2>5, <2>6
<1> QED
  BY <1>3, <1>4

(* What is destroyed: the marked nodes D and all that is below them, and   *)
(* nothing that a set closed downwards around them leaves out.             *)
LEMMA GoneIs ==
  ASSUME Tr!TypeOK, Tr!HangsOnce, NEW D \in SUBSET TreeAddresses
  PROVE  /\ Tr!Gone(D) \subseteq TreeAddresses /\ D \subseteq Tr!Gone(D) /\ Tr!Closed(Tr!Gone(D))
         /\ \A b \in Tr!Gone(D) : b \in D \/ v3[b] \in Tr!Gone(D)
         /\ \A S \in SUBSET TreeAddresses : D \subseteq S /\ Tr!Closed(S) => Tr!Gone(D) \subseteq S
<1>1. ASSUME NEW a \in TreeAddresses
      PROVE  /\ Tr!Subtree(a) \subseteq TreeAddresses /\ a \in Tr!Subtree(a)
                  /\ Tr!Closed(Tr!Subtree(a))
             /\ \A S \in SUBSET TreeAddresses : a \in S /\ Tr!Closed(S)
                  => Tr!Subtree(a) \subseteq S
  <2>1. Tr!Subtree(a) \subseteq TreeAddresses /\ a \in Tr!Subtree(a)
    BY DEF Tr!Subtree, Tr!IsBelow
  <2>2. \A S \in SUBSET TreeAddresses : a \in S /\ Tr!Closed(S) => Tr!Subtree(a) \subseteq S
    BY DEF Tr!Subtree, Tr!IsBelow
  <2>3. Tr!Closed(Tr!Subtree(a))
    <3> SUFFICES ASSUME NEW b \in Tr!Subtree(a), NEW c \in Tr!Range(v4[b])
                        PROVE c \in Tr!Subtree(a)
      BY DEF Tr!Closed
    <3>1. c \in TreeAddresses
      BY <2>1 DEF Tr!TypeOK, Tr!HangsOnce
    <3>2. ASSUME NEW S \in SUBSET TreeAddresses, a \in S, Tr!Closed(S) PROVE c \in S
      <4>1. b \in S
        BY <3>2 DEF Tr!Subtree, Tr!IsBelow
      <4> QED
        BY <3>2, <4>1 DEF Tr!Closed
    <3> QED
      BY <3>1, <3>2 DEF Tr!Subtree, Tr!IsBelow
  <2> QED
    BY <2>1, <2>2, <2>3
<1>2. ASSUME NEW a \in TreeAddresses, NEW b \in Tr!Subtree(a)
      PROVE  b = a \/ v3[b] \in Tr!Subtree(a)
  <2> DEFINE T == {c \in Tr!Subtree(a) : c = a \/ v3[c] \in Tr!Subtree(a)}
  <2>1. T \in SUBSET TreeAddresses /\ a \in T
    BY <1>1
  <2>2. Tr!Closed(T)
    <3> SUFFICES ASSUME NEW c \in T, NEW d \in Tr!Range(v4[c]) PROVE d \in T
      BY DEF Tr!Closed
    <3>1. c \in Tr!Subtree(a) /\ c \in TreeAddresses
      BY <1>1
    <3>2. d \in Tr!Subtree(a)
      BY <1>1, <3>1 DEF Tr!Closed
    <3>3. v3[d] = c
      BY <3>1 DEF Tr!HangsOnce
    <3> QED
      BY <3>1, <3>2, <3>3
  <2> HIDE DEF T
  <2>3. b \in T
    BY <1>1, <2>1, <2>2
  <2> QED
    BY <2>3 DEF T
<1>3. Tr!Gone(D) \subseteq TreeAddresses /\ D \subseteq Tr!Gone(D)
  BY <1>1 DEF Tr!Gone
<1>4. Tr!Closed(Tr!Gone(D))
  <2> SUFFICES ASSUME NEW a \in D, NEW b \in Tr!Subtree(a), NEW c \in Tr!Range(v4[b])
               PROVE  c \in Tr!Gone(D)
    BY DEF Tr!Gone, Tr!Closed
  <2>1. c \in Tr!Subtree(a)
    BY <1>1 DEF Tr!Closed
  <2> QED
    BY <2>1 DEF Tr!Gone
<1>5. ASSUME NEW b \in Tr!Gone(D) PROVE b \in D \/ v3[b] \in Tr!Gone(D)
  <2>1. PICK a \in D : b \in Tr!Subtree(a)
    BY DEF Tr!Gone
  <2>2. b = a \/ v3[b] \in Tr!Subtree(a)
    BY <1>2, <2>1
  <2> QED
    BY <2>1, <2>2 DEF Tr!Gone
<1>6. ASSUME NEW S \in SUBSET TreeAddresses, D \subseteq S, Tr!Closed(S)
             PROVE Tr!Gone(D) \subseteq S
  <2> SUFFICES ASSUME NEW a \in D PROVE Tr!Subtree(a) \subseteq S
    BY DEF Tr!Gone
  <2>1. a \in S /\ a \in TreeAddresses
    BY <1>6
  <2> QED
    BY <1>1, <1>6, <2>1
<1> QED
  BY <1>3, <1>4, <1>5, <1>6

(* Destructors leave a tree of the other nodes, with the same parents.     *)
LEMMA DestroyLeavesTree ==
  ASSUME Tr!TypeOK, Tr!HangsOnce, NEW D \in SUBSET TreeAddresses, Tr!Destroy(D)
  PROVE  /\ v1' = v1 \ Tr!Gone(D) /\ v2' = v2 \ Tr!Gone(D)
         /\ \A a \in TreeAddresses \ Tr!Gone(D) : v3'[a] = v3[a]
         /\ v1' \subseteq TreeAddresses
         /\ v3' \in [TreeAddresses -> TreeAddresses \union {None}]
         /\ v4' \in [TreeAddresses -> Seq(TreeAddresses)]
         /\ v6' \in Seq(TreeAddresses)
         /\ Tr!Range(v6') = Tr!Range(v6) \ Tr!Gone(D)
         /\ Tr!HangsOnce'
<1> DEFINE g == Tr!Gone(D)
<1>1. /\ v1' = v1 \ g /\ v2' = v2 \ g
      /\ v3' = [a \in TreeAddresses |-> IF a \in g THEN None ELSE v3[a]]
      /\ v4' = [a \in TreeAddresses |-> IF a \in g THEN <<>> ELSE Tr!Left(v4[a], a, g)]
      /\ v6' = Tr!Kept(v6, g)
  BY DEF Tr!Destroy
<1>2. /\ g \subseteq TreeAddresses /\ Tr!Closed(g)
  BY GoneIs
<1> HIDE DEF g
<1>3. /\ v6' \in Seq(TreeAddresses) /\ Tr!Range(v6') = Tr!Range(v6) \ g
      /\ Tr!IsInjective(v6')
  BY <1>1, KeptIs DEF Tr!TypeOK, Tr!HangsOnce
<1>4. ASSUME NEW p \in TreeAddresses, p \notin g
      PROVE  /\ v4'[p] \in Seq(TreeAddresses) /\ Tr!IsInjective(v4'[p])
             /\ Tr!Range(v4'[p]) = Tr!Range(v4[p]) \ g
  <2>1. v4[p] \in Seq(TreeAddresses) /\ Tr!IsInjective(v4[p])
    BY DEF Tr!TypeOK, Tr!HangsOnce
  <2>2. v4'[p] = Tr!Kept(v4[p], {c \in g : v3[c] = p})
    BY <1>1, <1>4 DEF Tr!Left
  <2>3. \A b \in Tr!Range(v4[p]) : v3[b] = p
    BY DEF Tr!HangsOnce
  <2> DEFINE X == {c \in g : v3[c] = p}
  <2>4. Tr!Range(v4[p]) \ X = Tr!Range(v4[p]) \ g
    BY <2>3
  <2> HIDE DEF X
  <2>5. /\ Tr!Kept(v4[p], X) \in Seq(TreeAddresses)
        /\ Tr!Range(Tr!Kept(v4[p], X)) = Tr!Range(v4[p]) \ X
        /\ Tr!IsInjective(Tr!Kept(v4[p], X))
    BY <2>1, KeptIs
  <2> QED
    BY <2>2, <2>4, <2>5 DEF X
<1>5. ASSUME NEW p \in TreeAddresses, p \in g
      PROVE  /\ v4'[p] \in Seq(TreeAddresses) /\ Tr!IsInjective(v4'[p])
             /\ Tr!Range(v4'[p]) = {}
  <2>1. v4'[p] = <<>>
    BY <1>1, <1>5
  <2>2. <<>> \in Seq(TreeAddresses) /\ Tr!IsInjective(<<>>) /\ Tr!Range(<<>>) = {}
    BY DEF Tr!IsInjective, Tr!Range
  <2> QED
    BY <2>1, <2>2
<1>6. /\ \A a \in TreeAddresses \ g : v3'[a] = v3[a]
      /\ v3' \in [TreeAddresses -> TreeAddresses \union {None}]
  BY <1>1 DEF Tr!TypeOK
<1>7. v4' \in [TreeAddresses -> Seq(TreeAddresses)]
  <2>1. v4' = [a \in TreeAddresses |-> v4'[a]]
    BY <1>1
  <2>2. \A a \in TreeAddresses : v4'[a] \in Seq(TreeAddresses)
    BY <1>4, <1>5
  <2> QED
    BY <2>1, <2>2
<1>8. ASSUME NEW p \in TreeAddresses, NEW a \in Tr!Range(v4'[p])
      PROVE  a \in v1' /\ v3'[a] = p
  <2>1. p \notin g /\ a \in Tr!Range(v4[p]) /\ a \notin g
    BY <1>4, <1>5
  <2>2. a \in v1 /\ v3[a] = p /\ a \in TreeAddresses
    BY <2>1 DEF Tr!HangsOnce, Tr!TypeOK
  <2> QED
    BY <1>1, <1>6, <2>1, <2>2
<1>9. ASSUME NEW a \in Tr!Range(v6') PROVE a \in v1' /\ v3'[a] = None
  <2>1. a \in Tr!Range(v6) /\ a \notin g
    BY <1>3
  <2>2. a \in v1 /\ v3[a] = None /\ a \in TreeAddresses
    BY <2>1 DEF Tr!HangsOnce, Tr!TypeOK
  <2> QED
    BY <1>1, <1>6, <2>1, <2>2
<1>10. ASSUME NEW a \in v1'
       PROVE  IF v3'[a] = None THEN a \in Tr!Range(v6')
              ELSE v3'[a] \in v1' /\ a \in Tr!Range(v4'[v3'[a]])
  <2>1. a \in v1 /\ a \notin g /\ a \in TreeAddresses /\ v3'[a] = v3[a]
    BY <1>1, <1>6 DEF Tr!TypeOK
  <2>2. CASE v3[a] = None
    BY <1>3, <2>1, <2>2 DEF Tr!HangsOnce
  <2>3. CASE v3[a] # None
    <3>1. v3[a] \in v1 /\ a \in Tr!Range(v4[v3[a]])
      BY <2>1, <2>3 DEF Tr!HangsOnce
    <3>2. v3[a] \in TreeAddresses
      BY <3>1 DEF Tr!TypeOK
    <3>3. v3[a] \notin g
      BY <1>2, <2>1, <3>1 DEF Tr!Closed
    <3> QED
      BY <1>1, <1>4, <2>1, <2>3, <3>1, <3>2, <3>3
  <2> QED
    BY <2>2, <2>3
<1>11. Tr!HangsOnce'
  BY <1>3, <1>4, <1>5, <1>8, <1>9, <1>10 DEF Tr!HangsOnce
<1>12. v1' \subseteq TreeAddresses
  BY <1>1 DEF Tr!TypeOK
<1> QED
  BY <1>1, <1>3, <1>6, <1>7, <1>11, <1>12 DEF g

(* They take what they destroy out of the lists of children to delete.     *)
LEMMA ListsLeft ==
  ASSUME Tr!TypeOK, Tr!DeletesListed, NEW g \in SUBSET TreeAddresses
  PROVE  LET lists == Tr!ListsWithout(g) IN
         /\ lists \in [TreeAddresses -> Seq(TreeAddresses)]
         /\ \A p \in g : lists[p] = <<>>
         /\ \A p \in TreeAddresses \ g : Tr!Range(lists[p]) = Tr!Range(v5[p]) \ g
         /\ \A p \in TreeAddresses : v5[p] = <<>> => lists[p] = <<>>
<1> DEFINE lists == Tr!ListsWithout(g)
<1>1. lists = [a \in TreeAddresses |-> IF a \in g THEN <<>> ELSE Tr!Left(v5[a], a, g)]
  BY DEF Tr!ListsWithout
<1> HIDE DEF lists
<1>2. ASSUME NEW p \in TreeAddresses \ g
      PROVE  /\ lists[p] \in Seq(TreeAddresses)
             /\ Tr!Range(lists[p]) = Tr!Range(v5[p]) \ g
  <2> DEFINE X == {c \in g : v3[c] = p}
  <2>1. lists[p] = Tr!Kept(v5[p], X)
    BY <1>1 DEF Tr!Left
  <2>2. v5[p] \in Seq(TreeAddresses) /\ \A b \in Tr!Range(v5[p]) : v3[b] = p
    BY DEF Tr!TypeOK, Tr!DeletesListed
  <2>3. Tr!Range(v5[p]) \ X = Tr!Range(v5[p]) \ g
    BY <2>2
  <2> HIDE DEF X
  <2>4. /\ Tr!Kept(v5[p], X) \in Seq(TreeAddresses)
        /\ Tr!Range(Tr!Kept(v5[p], X)) = Tr!Range(v5[p]) \ X
    BY <2>2, KeptIs
  <2> QED
    BY <2>1, <2>3, <2>4
<1>3. \A p \in g : lists[p] = <<>> /\ lists[p] \in Seq(TreeAddresses)
  BY <1>1
<1>4. ASSUME NEW p \in TreeAddresses, v5[p] = <<>> PROVE lists[p] = <<>>
  <2>1. CASE p \in g
    BY <1>3, <2>1
  <2>2. CASE p \notin g
    <3>1. lists[p] \in Seq(TreeAddresses) /\ Tr!Range(lists[p]) = {}
      <4>1. Tr!Range(v5[p]) = {}
        BY <1>4 DEF Tr!Range
      <4> QED
        BY <1>2, <2>2, <4>1
    <3> DEFINE q == lists[p]
    <3>2. \A i \in 1 .. Len(q) : q[i] \in Tr!Range(q)
      BY <3>1 DEF Tr!Range
    <3> HIDE DEF q
    <3>3. Len(q) = 0
      BY <3>1, <3>2 DEF q
    <3> QED
      BY <3>1, <3>3 DEF q
  <2> QED
    BY <2>1, <2>2
<1>5. lists \in [TreeAddresses -> Seq(TreeAddresses)]
  BY <1>1, <1>2, <1>3
<1> QED
  BY <1>2, <1>3, <1>4, <1>5 DEF lists

(* Nothing is there at first.                                              *)
LEMMA TreeInit == Tr!Init => Tr!Inv
<1> SUFFICES ASSUME Tr!Init PROVE Tr!Inv
  OBVIOUS
<1>1. <<>> \in Seq(TreeAddresses) /\ Len(<<>>) = 0 /\ Tr!Range(<<>>) = {}
      /\ Tr!IsInjective(<<>>)
  BY DEF Tr!Range, Tr!IsInjective
<1>2. Tr!TypeOK
  BY <1>1 DEF Tr!Init, Tr!TypeOK
<1>3. Tr!HangsOnce
  BY <1>1 DEF Tr!Init, Tr!HangsOnce
<1>4. Tr!DeletesListed
  BY <1>1, TreeAssumption DEF Tr!Init, Tr!DeletesListed, Tr!OthersArePending
<1>5. Tr!WalkGoesDown
  BY <1>1 DEF Tr!Init, Tr!WalkGoesDown
<1> QED
  BY <1>2, <1>3, <1>4, <1>5 DEF Tr!Inv

(* What run() sweeps when it starts is deleted with all below it, and no   *)
(* other node's list has anything of it; what it skips of a list of three  *)
(* or more is noted.                                                       *)
LEMMA RunSweeps ==
  ASSUME Tr!Inv, NEW a \in v1, a \notin Tr!Gone(Tr!Range(v5[a])), Tr!EnterRun(a)
  PROVE  /\ v1' = v1 \ Tr!Gone(Tr!Swept(a, v5[a]))
         /\ Tr!Swept(a, v5[a]) \in SUBSET TreeAddresses
         /\ \A b \in Tr!Swept(a, v5[a]) : v3[b] = a
         /\ \A b \in TreeAddresses \ Tr!Gone(Tr!Swept(a, v5[a])) : v3'[b] = v3[b]
         /\ v1' \subseteq TreeAddresses
         /\ v3' \in [TreeAddresses -> TreeAddresses \union {None}]
         /\ v4' \in [TreeAddresses -> Seq(TreeAddresses)]
         /\ v5' \in [TreeAddresses -> Seq(TreeAddresses)]
         /\ v6' \in Seq(TreeAddresses)
         /\ Tr!HangsOnce' /\ Tr!DeletesListed'
<1> DEFINE list == v5[a]  R == Tr!Range(list)
           D == Tr!Swept(a, list)  g == Tr!Gone(D)
           lists == Tr!ListsWithout(g)
<1>1. /\ a \in TreeAddresses /\ list \in Seq(TreeAddresses)
      /\ \A b \in R : b \in v2 /\ v3[b] = a
  BY DEF Tr!Inv, Tr!TypeOK, Tr!DeletesListed
<1>2. R \subseteq v1 /\ R \in SUBSET TreeAddresses
  BY <1>1 DEF Tr!Inv, Tr!DeletesListed, Tr!TypeOK
<1>3. Tr!Destroy(D) /\ v7' = v7 /\ v5' = [lists EXCEPT ![a] = <<>>]
      /\ v10' = (v10 \union Tr!Skipped(a, list)) \intersect v1'
  BY DEF Tr!EnterRun
<1>4. D \subseteq R
  BY <1>1, SweptFromList
<1>5. R \ D \subseteq Tr!Skipped(a, list)
  <2>1. CASE Len(list) > 2
    BY <2>1 DEF Tr!Skipped
  <2>2. CASE ~(Len(list) > 2)
    <3>1. Len(list) <= 2
      <4>1. Len(list) \in Nat
        BY <1>1
      <4> QED
        BY <2>2, <4>1
    <3>2. ASSUME NEW v \in R, NEW w \in R, w \in Tr!Subtree(v) PROVE w = v
      <4>1. Tr!Gone({v}) = Tr!Subtree(v) /\ Tr!Subtree(v) \subseteq Tr!Gone(R)
        BY DEF Tr!Gone
      <4>2. w \in {v} \/ v3[w] \in Tr!Gone({v})
        <5>1. {v} \in SUBSET TreeAddresses
          BY <1>2
        <5> QED
          BY <3>2, <4>1, <5>1, GoneIs DEF Tr!Inv
      <4> QED
        BY <1>1, <4>1, <4>2
    <3>3. \A v \in R : v \in v1 /\ v3[v] = a
      BY <1>1, <1>2
    <3>4. D = R
      <4> HIDE DEF list
      <4> QED
        BY <1>1, <3>1, <3>2, <3>3, SweptIsAll
    <3> QED
      BY <3>4
  <2> QED
    BY <2>1, <2>2
<1>6. D \in SUBSET TreeAddresses /\ \A b \in D : b \in v2 /\ v3[b] = a
  BY <1>1, <1>2, <1>4
<1> HIDE DEF D
<1>7. /\ v1' = v1 \ g /\ v2' = v2 \ g
      /\ \A b \in TreeAddresses \ g : v3'[b] = v3[b]
      /\ v1' \subseteq TreeAddresses
      /\ v3' \in [TreeAddresses -> TreeAddresses \union {None}]
      /\ v4' \in [TreeAddresses -> Seq(TreeAddresses)]
      /\ v6' \in Seq(TreeAddresses) /\ Tr!HangsOnce'
  BY <1>3, <1>6, DestroyLeavesTree DEF Tr!Inv
<1>8. /\ g \in SUBSET TreeAddresses /\ D \subseteq g /\ Tr!Closed(g)
      /\ \A b \in g : b \in D \/ v3[b] \in g
  BY <1>6, GoneIs DEF Tr!Inv
<1> HIDE DEF g
<1>9. /\ lists \in [TreeAddresses -> Seq(TreeAddresses)]
      /\ \A p \in g : lists[p] = <<>>
      /\ \A p \in TreeAddresses \ g : Tr!Range(lists[p]) = Tr!Range(v5[p]) \ g
      /\ \A p \in TreeAddresses : v5[p] = <<>> => lists[p] = <<>>
  BY <1>8, ListsLeft DEF Tr!Inv
<1> HIDE DEF lists
<1>10. <<>> \in Seq(TreeAddresses) /\ Tr!Range(<<>>) = {}
  BY DEF Tr!Range
<1>11. /\ v5' \in [TreeAddresses -> Seq(TreeAddresses)] /\ v5'[a] = <<>>
       /\ \A p \in TreeAddresses : p # a => v5'[p] = lists[p]
  BY <1>1, <1>3, <1>9, <1>10
<1>12. v2' \subseteq v1'
  BY <1>7 DEF Tr!Inv, Tr!DeletesListed
<1>13. ASSUME NEW p \in TreeAddresses
       PROVE  /\ p \notin v1' => v5'[p] = <<>>
              /\ \A b \in Tr!Range(v5'[p]) : b \in v2' /\ v3'[b] = p
  <2>1. CASE p = a
    BY <1>10, <1>11, <2>1
  <2>2. CASE p # a /\ p \in g
    BY <1>9, <1>10, <1>11, <2>2
  <2>3. CASE p # a /\ p \notin g
    <3>1. v5'[p] = lists[p] /\ Tr!Range(v5'[p]) = Tr!Range(v5[p]) \ g
      BY <1>9, <1>11, <2>3
    <3>2. p \notin v1 => v5'[p] = <<>>
      BY <1>9, <3>1 DEF Tr!Inv, Tr!DeletesListed
    <3>3. \A b \in Tr!Range(v5[p]) : b \in v2 /\ v3[b] = p /\ b \in TreeAddresses
      BY DEF Tr!Inv, Tr!DeletesListed, Tr!TypeOK
    <3> QED
      BY <1>7, <2>3, <3>1, <3>2, <3>3
  <2> QED
    BY <2>1, <2>2, <2>3
<1>14. ASSUME NEW b \in v7' PROVE b \in v2' /\ v3'[b] = None
  <2>1. b \in v2 /\ v3[b] = None /\ b \in TreeAddresses
    BY <1>3 DEF Tr!Inv, Tr!DeletesListed, Tr!TypeOK
  <2>2. b \notin D
    BY <1>1, <1>6, <2>1, TreeAssumption
  <2>3. b \notin g
    BY <1>8, <2>1, <2>2, TreeAssumption
  <2> QED
    BY <1>7, <2>1, <2>3
<1>15. ASSUME NEW b \in v2' \ v10'
       PROVE  IF v3'[b] = None THEN b \in v7' ELSE b \in Tr!Range(v5'[v3'[b]])
  <2>1. b \in v2 /\ b \notin g /\ b \in TreeAddresses /\ v3'[b] = v3[b] /\ b \in v1
    BY <1>7 DEF Tr!Inv, Tr!DeletesListed, Tr!TypeOK
  <2>2. b \notin v10 /\ b \notin Tr!Skipped(a, list)
    BY <1>3, <1>12
  <2>3. CASE v3[b] = None
    BY <1>3, <2>1, <2>2, <2>3 DEF Tr!Inv, Tr!DeletesListed, Tr!OthersArePending, Tr!Pending
  <2>4. CASE v3[b] # None
    <3>1. v3[b] \in v1 /\ b \in Tr!Range(v4[v3[b]]) /\ v3[b] \in TreeAddresses
      BY <2>1, <2>4 DEF Tr!Inv, Tr!HangsOnce, Tr!TypeOK
    <3>2. b \in Tr!Range(v5[v3[b]])
      BY <2>1, <2>2, <2>4 DEF Tr!Inv, Tr!DeletesListed, Tr!OthersArePending, Tr!Pending
    <3>3. v3[b] # a
      BY <1>5, <1>8, <2>1, <2>2, <3>2
    <3>4. v3[b] \notin g
      BY <1>8, <2>1, <3>1 DEF Tr!Closed
    <3>5. Tr!Range(v5'[v3[b]]) = Tr!Range(v5[v3[b]]) \ g
      BY <1>9, <1>11, <3>1, <3>3, <3>4
    <3> QED
      BY <2>1, <2>4, <3>2, <3>5
  <2> QED
    BY <2>3, <2>4
<1>16. Tr!DeletesListed'
  BY <1>12, <1>13, <1>14, <1>15 DEF Tr!DeletesListed, Tr!OthersArePending, Tr!Pending
<1> QED
  BY <1>6, <1>7, <1>11, <1>16 DEF D, g

(* run() of a root: no root is below another node.                         *)
LEMMA RootsRun == Tr!Inv /\ Tr!RunRoot => Tr!Inv'
<1> SUFFICES ASSUME Tr!Inv, Tr!RunRoot PROVE Tr!Inv'
  OBVIOUS
<1> DEFINE a == Head(v8)  R == Tr!Range(v5[a])
           D == Tr!Swept(a, v5[a])  g == Tr!Gone(D)
<1>1. /\ v8 # <<>> /\ v9 = <<>> /\ Tr!EnterRun(a) /\ v8' = Tail(v8)
      /\ v9' = <<[n |-> a, next |-> 1]>>
  BY DEF Tr!RunRoot
<1>2. v8 \in Seq(TreeAddresses)
  BY DEF Tr!Inv, Tr!TypeOK
<1>3. a \in Tr!Range(v8) /\ Tr!Range(Tail(v8)) \subseteq Tr!Range(v8)
      /\ Tail(v8) \in Seq(TreeAddresses)
  <2>1. v8 \in Seq(TreeAddresses) /\ Len(v8) \in Nat /\ Len(v8) # 0 /\ DOMAIN v8 = 1 .. Len(v8)
    BY <1>1, <1>2
  <2>2. 1 \in DOMAIN v8 /\ a = v8[1]
    BY <2>1
  <2>3. DOMAIN Tail(v8) = 1 .. Len(v8) - 1
        /\ \A i \in 1 .. Len(v8) - 1 : Tail(v8)[i] = v8[i + 1] /\ i + 1 \in 1 .. Len(v8)
    BY <1>1, <2>1
  <2>4. Tr!Range(Tail(v8)) \subseteq Tr!Range(v8)
    BY <2>1, <2>3 DEF Tr!Range
  <2>5. Tail(v8) \in Seq(TreeAddresses)
    BY <1>1, <1>2
  <2> QED
    BY <2>2, <2>4, <2>5 DEF Tr!Range
<1>4. a \in v1 /\ v3[a] = None
  BY <1>3 DEF Tr!Inv, Tr!WalkGoesDown
<1> HIDE DEF a
<1>0. a \notin Tr!Gone(R)
  <2>1. a \in TreeAddresses
    BY <1>4 DEF Tr!Inv, Tr!TypeOK
  <2>2. \A b \in R : b \in v2 /\ v3[b] = a
    BY <2>1 DEF Tr!Inv, Tr!DeletesListed
  <2>3. R \in SUBSET TreeAddresses
    BY <2>2 DEF Tr!Inv, Tr!DeletesListed, Tr!TypeOK
  <2> HIDE DEF R
  <2>4. Tr!Gone(R) \subseteq TreeAddresses /\ \A b \in Tr!Gone(R) : b \in R \/ v3[b] \in Tr!Gone(R)
    BY <2>3, GoneIs DEF Tr!Inv
  <2> QED
    BY <1>4, <2>1, <2>2, <2>4, TreeAssumption
<1>5. /\ v1' = v1 \ g /\ D \in SUBSET TreeAddresses
      /\ \A b \in D : v3[b] = a
      /\ \A b \in TreeAddresses \ g : v3'[b] = v3[b]
      /\ v1' \subseteq TreeAddresses
      /\ v3' \in [TreeAddresses -> TreeAddresses \union {None}]
      /\ v4' \in [TreeAddresses -> Seq(TreeAddresses)]
      /\ v5' \in [TreeAddresses -> Seq(TreeAddresses)]
      /\ v6' \in Seq(TreeAddresses)
      /\ Tr!HangsOnce' /\ Tr!DeletesListed'
  BY <1>0, <1>1, <1>4, RunSweeps
<1> HIDE DEF D
<1>6. \A b \in g : b \in D \/ v3[b] \in g
  BY <1>5, GoneIs DEF Tr!Inv
<1>7. g \subseteq TreeAddresses
  BY <1>5, GoneIs DEF Tr!Inv
<1> HIDE DEF g
<1>8. ASSUME NEW b \in Tr!Range(v8) PROVE b \in v1' /\ v3'[b] = None
  <2>1. b \in v1 /\ v3[b] = None /\ b \in TreeAddresses
    BY DEF Tr!Inv, Tr!WalkGoesDown, Tr!TypeOK
  <2>2. a \in TreeAddresses
    BY <1>4 DEF Tr!Inv, Tr!TypeOK
  <2>3. b \notin g
    BY <1>5, <1>6, <1>7, <2>1, <2>2, TreeAssumption
  <2> QED
    BY <1>5, <2>1, <2>3
<1>9. a \in v1' /\ v3'[a] = None
  BY <1>3, <1>8
<1> DEFINE w == [n |-> a, next |-> 1]
<1>10. w \in [n : TreeAddresses, next : (Nat \ {0}) \union {None}]
  BY <1>4 DEF Tr!Inv, Tr!TypeOK
<1>11. v9' \in Seq([n : TreeAddresses, next : (Nat \ {0}) \union {None}]) /\ DOMAIN v9' = {1}
       /\ v9'[1] = w
  <2> HIDE DEF w
  <2>1. v9' = <<w>>
    BY <1>1 DEF w
  <2> QED
    BY <1>10, <2>1
<1>12. Tr!WalkGoesDown'
  <2>1. v9'[1].n = a
    BY <1>11
  <2>2. Tr!Range(v8') \subseteq Tr!Range(v8)
    BY <1>1, <1>3
  <2> QED
    BY <1>5, <1>8, <1>9, <1>11, <2>1, <2>2 DEF Tr!WalkGoesDown
<1>13. Tr!TypeOK'
  BY <1>1, <1>3, <1>5, <1>11 DEF Tr!TypeOK
<1> QED
  BY <1>5, <1>12, <1>13 DEF Tr!Inv

(* run() of a child: no node of the path to it is below its children.      *)
LEMMA ChildrenRun == Tr!Inv /\ Tr!RunChild => Tr!Inv'
<1> SUFFICES ASSUME Tr!Inv, Tr!RunChild PROVE Tr!Inv'
  OBVIOUS
<1> DEFINE W == [n : TreeAddresses, next : (Nat \ {0}) \union {None}]
           L == Len(v9)  k == v9[L].next  t == v9[L].n
           a == v4[t][k]  R == Tr!Range(v5[a])
           D == Tr!Swept(a, v5[a])  g == Tr!Gone(D)
           up == [v9 EXCEPT ![L].next = @ + 1]
           w == [n |-> a, next |-> 1]
<1>1. /\ v9 # <<>> /\ k # None /\ k <= Len(v4[t]) /\ Tr!EnterRun(a)
      /\ v9' = Append(up, w) /\ v8' = v8
  BY DEF Tr!RunChild, Tr!Updating, Tr!Top
<1>2. v9 \in Seq(W) /\ L \in Nat /\ L # 0 /\ DOMAIN v9 = 1 .. L /\ L \in 1 .. L
  <2>1. v9 \in Seq(W)
    BY DEF Tr!Inv, Tr!TypeOK
  <2>2. L \in Nat /\ L # 0 /\ DOMAIN v9 = 1 .. L
    BY <1>1, <2>1
  <2> QED
    BY <2>1, <2>2
<1>3. v9[L] \in W
  <2> HIDE DEF W, L
  <2> QED
    BY <1>2
<1>4. t \in TreeAddresses /\ k \in Nat \ {0}
  BY <1>1, <1>3
<1>5. /\ a \in Tr!Range(v4[t]) /\ a \in v1 /\ v3[a] = t
      /\ a \in TreeAddresses
  <2>1. v4[t] \in Seq(TreeAddresses)
    BY <1>4 DEF Tr!Inv, Tr!TypeOK
  <2>2. k \in DOMAIN v4[t]
    BY <1>1, <1>4, <2>1
  <2>3. a \in Tr!Range(v4[t])
    BY <2>2 DEF Tr!Range
  <2>4. \A b \in Tr!Range(v4[t]) : b \in v1 /\ v3[b] = t
    BY <1>4 DEF Tr!Inv, Tr!HangsOnce
  <2> HIDE DEF a, t
  <2>5. a \in v1 /\ v3[a] = t
    BY <2>3, <2>4
  <2> QED
    BY <2>3, <2>5 DEF Tr!Inv, Tr!TypeOK
<1>6. /\ up \in Seq(W) /\ Len(up) = L /\ DOMAIN up = 1 .. L
      /\ \A i \in 1 .. L : up[i].n = v9[i].n
  <2> DEFINE v == [v9[L] EXCEPT !.next = @ + 1]
  <2>1. v \in W /\ v.n = v9[L].n
    BY <1>3, <1>4
  <2>2. up = [v9 EXCEPT ![L] = v]
    OBVIOUS
  <2> HIDE DEF v, up, W
  <2>3. up \in Seq(W) /\ Len(up) = L /\ DOMAIN up = 1 .. L
    BY <1>2, <2>1, <2>2
  <2>4. \A i \in 1 .. L : up[i] = IF i = L THEN v ELSE v9[i]
    BY <1>2, <2>2
  <2> QED
    BY <2>1, <2>3, <2>4
<1>7. w \in W /\ w.n = a
  BY <1>5
<1> HIDE DEF W, L, k, t, a, up, w
<1>8. /\ v9' \in Seq(W) /\ DOMAIN v9' = 1 .. L + 1 /\ v9'[L + 1].n = a
      /\ \A i \in 1 .. L : v9'[i].n = v9[i].n
  <2>1. Append(up, w) \in Seq(W) /\ DOMAIN Append(up, w) = 1 .. L + 1
        /\ Append(up, w)[L + 1] = w
        /\ \A i \in 1 .. L : Append(up, w)[i] = up[i]
    BY <1>2, <1>6, <1>7
  <2> QED
    BY <1>1, <1>6, <1>7, <2>1
<1>9. ASSUME NEW i \in 1 .. L
      PROVE  /\ v9[i].n \in v1
             /\ v3[v9[i].n] = IF i = 1 THEN None ELSE v9[i - 1].n
             /\ v9[i].n \in TreeAddresses
  BY <1>2 DEF Tr!Inv, Tr!WalkGoesDown, Tr!TypeOK
<1>10. \A i, j \in 1 .. L : v9[i].n = v9[j].n => i = j
  BY <1>2 DEF Tr!Inv, Tr!WalkGoesDown
<1>11. ASSUME NEW i \in 1 .. L PROVE v9[i].n # a
  <2> SUFFICES ASSUME v9[i].n = a PROVE FALSE
    OBVIOUS
  <2>1. (IF i = 1 THEN None ELSE v9[i - 1].n) = v9[L].n
    BY <1>5, <1>9 DEF t
  <2>2. i # 1
    BY <1>4, <2>1, TreeAssumption DEF t
  <2>3. i - 1 \in 1 .. L /\ i - 1 # L
    BY <1>2, <2>2
  <2> QED
    BY <1>2, <1>10, <2>1, <2>2, <2>3
<1>20. R \in SUBSET TreeAddresses /\ \A b \in R : v3[b] = a
  <2>1. \A b \in R : b \in v2 /\ v3[b] = a
    BY <1>5 DEF Tr!Inv, Tr!DeletesListed
  <2> QED
    BY <2>1 DEF Tr!Inv, Tr!DeletesListed, Tr!TypeOK
<1>21. a \notin Tr!Gone(R) /\ \A i \in 1 .. L : v9[i].n \notin Tr!Gone(R)
  <2> DEFINE path == {v9[i].n : i \in 1 .. L} \union {a}
             S == TreeAddresses \ path
  <2> HIDE DEF R
  <2>1. R \subseteq S
    <3> SUFFICES ASSUME NEW b \in R, b \in path PROVE FALSE
      BY <1>20
    <3>1. v3[b] = a
      BY <1>20
    <3>2. CASE b = a
      <4>1. a = t
        BY <1>5, <3>1, <3>2
      <4> QED
        BY <1>2, <1>11, <4>1 DEF t
    <3>3. CASE b # a
      <4>1. PICK i \in 1 .. L : b = v9[i].n
        BY <3>3
      <4>2. (IF i = 1 THEN None ELSE v9[i - 1].n) = a
        BY <1>9, <3>1, <4>1
      <4>3. i # 1
        BY <1>5, <4>2, TreeAssumption
      <4>4. i - 1 \in 1 .. L
        BY <1>2, <4>3
      <4> QED
        BY <1>11, <4>2, <4>3, <4>4
    <3> QED
      BY <3>2, <3>3
  <2>2. Tr!Closed(S)
    <3> SUFFICES ASSUME NEW b \in S, NEW c \in Tr!Range(v4[b]), c \in path PROVE FALSE
      <4>1. \A b \in S : Tr!Range(v4[b]) \subseteq TreeAddresses
        BY DEF Tr!Inv, Tr!HangsOnce, Tr!TypeOK
      <4> QED
        BY <4>1 DEF Tr!Closed
    <3>1. v3[c] = b /\ b \in TreeAddresses
      BY DEF Tr!Inv, Tr!HangsOnce
    <3>2. CASE c = a
      <4>1. b = v9[L].n
        BY <1>5, <3>1, <3>2 DEF t
      <4> QED
        BY <1>2, <4>1
    <3>3. CASE c # a
      <4>1. PICK i \in 1 .. L : c = v9[i].n
        BY <3>3
      <4>2. (IF i = 1 THEN None ELSE v9[i - 1].n) = b
        BY <1>9, <3>1, <4>1
      <4>3. i # 1
        BY <3>1, <4>2, TreeAssumption
      <4>4. i - 1 \in 1 .. L
        BY <1>2, <4>3
      <4> QED
        BY <4>2, <4>3, <4>4
    <3> QED
      BY <3>2, <3>3
  <2>3. S \in SUBSET TreeAddresses
    OBVIOUS
  <2> HIDE DEF S
  <2>4. Tr!Gone(R) \subseteq S
    BY <1>20, <2>1, <2>2, <2>3, GoneIs DEF Tr!Inv
  <2> QED
    BY <2>4 DEF S
<1>12. /\ v1' = v1 \ g /\ D \in SUBSET TreeAddresses
       /\ \A b \in D : v3[b] = a
       /\ \A b \in TreeAddresses \ g : v3'[b] = v3[b]
       /\ v1' \subseteq TreeAddresses
       /\ v3' \in [TreeAddresses -> TreeAddresses \union {None}]
       /\ v4' \in [TreeAddresses -> Seq(TreeAddresses)]
       /\ v5' \in [TreeAddresses -> Seq(TreeAddresses)]
       /\ v6' \in Seq(TreeAddresses)
       /\ Tr!HangsOnce' /\ Tr!DeletesListed'
  BY <1>1, <1>5, <1>21, RunSweeps
<1>15. a \notin g /\ \A i \in 1 .. L : v9[i].n \notin g
  <2>1. v5[a] \in Seq(TreeAddresses)
    BY <1>5 DEF Tr!Inv, Tr!TypeOK
  <2>2. D \subseteq R
    BY <2>1, SweptFromList
  <2>3. g \subseteq Tr!Gone(R)
    BY <2>2 DEF Tr!Gone
  <2> QED
    BY <1>21, <2>3
<1> HIDE DEF D
<1>13. g \subseteq TreeAddresses /\ \A b \in g : b \in D \/ v3[b] \in g
  BY <1>12, GoneIs DEF Tr!Inv
<1> HIDE DEF g
<1>14. ASSUME NEW b \in Tr!Range(v8) PROVE b \in v1' /\ v3'[b] = None
  <2>1. b \in v1 /\ v3[b] = None /\ b \in TreeAddresses
    BY DEF Tr!Inv, Tr!WalkGoesDown, Tr!TypeOK
  <2>2. b \notin g
    BY <1>5, <1>12, <1>13, <2>1, TreeAssumption
  <2> QED
    BY <1>12, <2>1, <2>2
<1>16. ASSUME NEW i \in 1 .. L + 1
       PROVE  /\ v9'[i].n \in v1'
              /\ v3'[v9'[i].n] = IF i = 1 THEN None ELSE v9'[i - 1].n
  <2>1. CASE i = L + 1
    <3>1. v9'[i].n = a
      BY <1>8, <2>1
    <3>2. a \in v1' /\ v3'[a] = t
      BY <1>5, <1>12, <1>15
    <3>3. i # 1 /\ i - 1 = L /\ v9'[L].n = t
      BY <1>2, <1>8, <2>1 DEF t
    <3> QED
      BY <1>12, <3>1, <3>2, <3>3
  <2>2. CASE i # L + 1
    <3>1. i \in 1 .. L
      BY <1>2, <2>2
    <3>2. /\ v9[i].n \in v1'
          /\ v3'[v9[i].n] = IF i = 1 THEN None ELSE v9[i - 1].n
      BY <1>9, <1>12, <1>15, <3>1
    <3>3. i # 1 => i - 1 \in 1 .. L
      BY <1>2, <3>1
    <3> QED
      BY <1>8, <3>1, <3>2, <3>3
  <2> QED
    BY <2>1, <2>2
<1>17. ASSUME NEW i \in 1 .. L + 1, NEW j \in 1 .. L + 1, v9'[i].n = v9'[j].n PROVE i = j
  <2>1. \A x \in 1 .. L + 1 : x = L + 1 \/ x \in 1 .. L
    BY <1>2
  <2> QED
    BY <1>8, <1>10, <1>11, <1>17, <2>1
<1>18. Tr!WalkGoesDown'
  BY <1>1, <1>8, <1>14, <1>16, <1>17 DEF Tr!WalkGoesDown
<1>19. Tr!TypeOK'
  <2>1. v8' \in Seq(TreeAddresses)
    BY <1>1 DEF Tr!Inv, Tr!TypeOK
  <2> QED
    BY <1>8, <1>12, <2>1 DEF Tr!TypeOK, W
<1> QED
  BY <1>12, <1>18, <1>19 DEF Tr!Inv

(* The child loop is over: update().                                       *)
LEMMA UpdatesBegin == Tr!Inv /\ Tr!BeginUpdate => Tr!Inv'
<1> SUFFICES ASSUME Tr!Inv, Tr!BeginUpdate PROVE Tr!Inv'
  OBVIOUS
<1> DEFINE W == [n : TreeAddresses, next : (Nat \ {0}) \union {None}]
           L == Len(v9)
           v == [v9[L] EXCEPT !.next = None]
<1>1. /\ v9 # <<>> /\ v9' = [v9 EXCEPT ![L].next = None]
      /\ UNCHANGED Tr!treeVars /\ v8' = v8 /\ v10' = v10
  BY DEF Tr!BeginUpdate
<1>2. v9 \in Seq(W)
  BY DEF Tr!Inv, Tr!TypeOK
<1>3. L \in Nat /\ L # 0 /\ DOMAIN v9 = 1 .. L
  BY <1>1, <1>2
<1>4. v \in W /\ v.n = v9[L].n /\ v9' = [v9 EXCEPT ![L] = v]
  <2>1. v9[L] \in W
    <3> HIDE DEF W, L
    <3>1. L \in 1 .. L
      BY <1>3
    <3> QED
      BY <1>2, <1>3, <3>1
  <2> QED
    BY <1>1, <2>1
<1> HIDE DEF W, v, L
<1>5. /\ v9' \in Seq(W) /\ DOMAIN v9' = 1 .. L
      /\ \A i \in 1 .. L : v9'[i].n = v9[i].n
  BY <1>2, <1>3, <1>4
<1>6. Tr!TypeOK'
  BY <1>1, <1>5 DEF Tr!Inv, Tr!TypeOK, Tr!treeVars, W
<1>7. Tr!HangsOnce' /\ Tr!DeletesListed'
  BY <1>1 DEF Tr!Inv, Tr!HangsOnce, Tr!DeletesListed, Tr!OthersArePending, Tr!Pending,
     Tr!treeVars
<1>8. Tr!WalkGoesDown'
  <2>1. \A i \in 1 .. L : i # 1 => i - 1 \in 1 .. L
    BY <1>3
  <2> QED
    BY <1>1, <1>3, <1>5, <2>1 DEF Tr!Inv, Tr!WalkGoesDown, Tr!treeVars
<1> QED
  BY <1>6, <1>7, <1>8 DEF Tr!Inv

(* The last of the run() calls returns: what its list had is forgotten.    *)
LEMMA RunsEnd == Tr!Inv /\ Tr!EndRun => Tr!Inv'
<1> SUFFICES ASSUME Tr!Inv, Tr!EndRun PROVE Tr!Inv'
  OBVIOUS
<1> DEFINE W == [n : TreeAddresses, next : (Nat \ {0}) \union {None}]
           L == Len(v9)
           t == v9[L].n
<1>1. /\ v9 # <<>> /\ v9' = SubSeq(v9, 1, L - 1) /\ v8' = v8
      /\ v5' = [v5 EXCEPT ![t] = <<>>]
      /\ v10' = v10 \union Tr!Range(v5[t])
      /\ UNCHANGED <<v1, v2, v3, v4, v6, v7>>
  BY DEF Tr!EndRun, Tr!Updating, Tr!Top
<1>2. v9 \in Seq(W)
  BY DEF Tr!Inv, Tr!TypeOK
<1>3. L \in Nat /\ L # 0 /\ DOMAIN v9 = 1 .. L /\ L \in 1 .. L
  <2>1. L \in Nat /\ L # 0 /\ DOMAIN v9 = 1 .. L
    BY <1>1, <1>2
  <2> QED
    BY <2>1
<1>4. t \in TreeAddresses
  BY <1>3 DEF Tr!Inv, Tr!WalkGoesDown, Tr!TypeOK
<1>5. /\ v5' \in [TreeAddresses -> Seq(TreeAddresses)] /\ v5'[t] = <<>>
      /\ \A p \in TreeAddresses : p # t => v5'[p] = v5[p]
  <2>1. <<>> \in Seq(TreeAddresses)
    OBVIOUS
  <2> HIDE DEF t
  <2> QED
    BY <1>1, <1>4, <2>1 DEF Tr!Inv, Tr!TypeOK
<1>6. /\ v9' \in Seq(W) /\ DOMAIN v9' = 1 .. L - 1
      /\ \A i \in 1 .. L - 1 : v9'[i] = v9[i]
  <2> HIDE DEF W
  <2>1. L - 1 \in Nat /\ L - 1 <= L
    BY <1>3
  <2>2. SubSeq(v9, 1, L - 1) \in Seq(W) /\ Len(SubSeq(v9, 1, L - 1)) = L - 1
    BY <1>2, <1>3, <2>1
  <2>3. \A i \in 1 .. L - 1 : SubSeq(v9, 1, L - 1)[i] = v9[i]
    BY <1>2, <1>3, <2>1
  <2> QED
    BY <1>1, <2>2, <2>3
<1>7. Tr!TypeOK'
  BY <1>1, <1>5, <1>6 DEF Tr!Inv, Tr!TypeOK
<1>8. Tr!HangsOnce'
  BY <1>1 DEF Tr!Inv, Tr!HangsOnce
<1>10. ASSUME NEW p \in TreeAddresses
       PROVE  /\ p \notin v1' => v5'[p] = <<>>
              /\ \A b \in Tr!Range(v5'[p]) : b \in v2' /\ v3'[b] = p
  <2>1. CASE p = t
    BY <1>5, <2>1 DEF Tr!Range
  <2>2. CASE p # t
    BY <1>1, <1>5, <2>2 DEF Tr!Inv, Tr!DeletesListed
  <2> QED
    BY <2>1, <2>2
<1>11. ASSUME NEW b \in v2' \ v10' PROVE Tr!Pending(b)'
  <2>1. b \in v2 \ v10 /\ b \notin Tr!Range(v5[t]) /\ v3'[b] = v3[b] /\ v7' = v7
    BY <1>1
  <2>2. IF v3[b] = None THEN b \in v7 ELSE b \in Tr!Range(v5[v3[b]])
    BY <2>1 DEF Tr!Inv, Tr!DeletesListed, Tr!OthersArePending, Tr!Pending
  <2>3. v3[b] \in TreeAddresses \union {None}
    BY <2>1 DEF Tr!Inv, Tr!DeletesListed, Tr!TypeOK
  <2> QED
    BY <1>5, <2>1, <2>2, <2>3 DEF Tr!Pending
<1>12. Tr!DeletesListed'
  BY <1>1, <1>10, <1>11 DEF Tr!Inv, Tr!DeletesListed, Tr!OthersArePending
<1>9. Tr!WalkGoesDown'
  <2>1. \A i \in 1 .. L - 1 : i \in 1 .. L /\ (i # 1 => i - 1 \in 1 .. L - 1)
    BY <1>3
  <2> HIDE DEF L
  <2>2. \A i \in 1 .. L - 1 :
          /\ v9[i].n \in v1
          /\ v3[v9[i].n] = IF i = 1 THEN None ELSE v9[i - 1].n
    BY <1>3, <2>1 DEF Tr!Inv, Tr!WalkGoesDown
  <2>3. \A i, j \in 1 .. L - 1 : v9[i].n = v9[j].n => i = j
    BY <1>3, <2>1 DEF Tr!Inv, Tr!WalkGoesDown
  <2>4. \A a \in Tr!Range(v8') : a \in v1' /\ v3'[a] = None
    BY <1>1 DEF Tr!Inv, Tr!WalkGoesDown
  <2>5. \A i \in 1 .. L - 1 :
          /\ v9'[i].n \in v1'
          /\ v3'[v9'[i].n] = IF i = 1 THEN None ELSE v9'[i - 1].n
    BY <1>1, <1>6, <2>1, <2>2
  <2>6. \A i, j \in 1 .. L - 1 : v9'[i].n = v9'[j].n => i = j
    BY <1>6, <2>3
  <2> QED
    BY <1>6, <2>4, <2>5, <2>6 DEF Tr!WalkGoesDown
<1> QED
  BY <1>7, <1>8, <1>9, <1>12 DEF Tr!Inv

(* The pass deletes the roots that are marked, and ticks the others.       *)
LEMMA PassesBegin == Tr!Inv /\ Tr!BeginPass => Tr!Inv'
<1> SUFFICES ASSUME Tr!Inv, Tr!BeginPass PROVE Tr!Inv'
  OBVIOUS
<1> DEFINE D == v7 \intersect v1  g == Tr!Gone(D)
<1>1. /\ v8 = <<>> /\ v9 = <<>> /\ v9' = v9 /\ Tr!Destroy(D)
      /\ v5' = Tr!ListsWithout(g)
      /\ v7' = {} /\ v8' = v6' /\ v10' = v10 \intersect v1'
  BY DEF Tr!BeginPass, Tr!InPass
<1>2. D \in SUBSET TreeAddresses /\ \A b \in D : v3[b] = None
  BY DEF Tr!Inv, Tr!TypeOK, Tr!DeletesListed
<1>3. \A b \in v2 \ v10 : v3[b] = None => b \in D
  BY DEF Tr!Inv, Tr!DeletesListed, Tr!OthersArePending, Tr!Pending
<1> HIDE DEF D
<1>4. /\ v1' = v1 \ g /\ v2' = v2 \ g
      /\ \A b \in TreeAddresses \ g : v3'[b] = v3[b]
      /\ v1' \subseteq TreeAddresses
      /\ v3' \in [TreeAddresses -> TreeAddresses \union {None}]
      /\ v4' \in [TreeAddresses -> Seq(TreeAddresses)]
      /\ v6' \in Seq(TreeAddresses) /\ Tr!HangsOnce'
  BY <1>1, <1>2, DestroyLeavesTree DEF Tr!Inv
<1>5. /\ g \subseteq TreeAddresses /\ D \subseteq g /\ Tr!Closed(g)
      /\ \A b \in g : b \in D \/ v3[b] \in g
  BY <1>2, GoneIs DEF Tr!Inv
<1> HIDE DEF g
<1> DEFINE lists == Tr!ListsWithout(g)
<1>12. /\ lists \in [TreeAddresses -> Seq(TreeAddresses)]
       /\ \A p \in g : lists[p] = <<>>
       /\ \A p \in TreeAddresses \ g : Tr!Range(lists[p]) = Tr!Range(v5[p]) \ g
       /\ \A p \in TreeAddresses : v5[p] = <<>> => lists[p] = <<>>
  <2>1. g \in SUBSET TreeAddresses
    BY <1>5
  <2> QED
    BY <2>1, ListsLeft DEF Tr!Inv
<1>13. v5' = lists
  BY <1>1
<1> HIDE DEF lists
<1>6. ASSUME NEW p \in TreeAddresses
      PROVE  /\ p \notin v1' => v5'[p] = <<>>
             /\ \A b \in Tr!Range(v5'[p]) : b \in v2' /\ v3'[b] = p
  <2>1. CASE p \in g
    BY <1>12, <1>13, <2>1 DEF Tr!Range
  <2>2. CASE p \notin g
    <3>1. v5'[p] = lists[p] /\ Tr!Range(v5'[p]) = Tr!Range(v5[p]) \ g
      BY <1>12, <1>13, <2>2
    <3>2. p \notin v1 => v5'[p] = <<>>
      BY <1>12, <3>1 DEF Tr!Inv, Tr!DeletesListed
    <3>3. \A b \in Tr!Range(v5[p]) : b \in v2 /\ v3[b] = p /\ b \in TreeAddresses
      BY DEF Tr!Inv, Tr!DeletesListed, Tr!TypeOK
    <3> QED
      BY <1>4, <2>2, <3>1, <3>2, <3>3
  <2> QED
    BY <2>1, <2>2
<1>7. v5' \in [TreeAddresses -> Seq(TreeAddresses)]
  BY <1>12, <1>13
<1>8. ASSUME NEW b \in v2' \ v10'
      PROVE  IF v3'[b] = None THEN b \in v7' ELSE b \in Tr!Range(v5'[v3'[b]])
  <2>1. b \in v2 /\ b \notin g /\ b \in TreeAddresses /\ v3'[b] = v3[b] /\ b \in v1 /\ b \in v1'
    BY <1>4 DEF Tr!Inv, Tr!DeletesListed, Tr!TypeOK
  <2>2. b \notin v10
    BY <1>1, <2>1
  <2>3. v3[b] # None
    BY <1>3, <1>5, <2>1, <2>2
  <2>4. v3[b] \in v1 /\ b \in Tr!Range(v4[v3[b]]) /\ v3[b] \in TreeAddresses
    BY <2>1, <2>3 DEF Tr!Inv, Tr!HangsOnce, Tr!TypeOK
  <2>5. b \in Tr!Range(v5[v3[b]])
    BY <2>1, <2>2, <2>3 DEF Tr!Inv, Tr!DeletesListed, Tr!OthersArePending, Tr!Pending
  <2>6. v3[b] \notin g
    BY <1>5, <2>1, <2>4 DEF Tr!Closed
  <2>7. Tr!Range(v5'[v3[b]]) = Tr!Range(v5[v3[b]]) \ g
    BY <1>12, <1>13, <2>4, <2>6
  <2> QED
    BY <2>1, <2>3, <2>5, <2>7
<1>9. Tr!DeletesListed'
  <2>1. v2' \subseteq v1'
    BY <1>4 DEF Tr!Inv, Tr!DeletesListed
  <2> QED
    BY <1>1, <1>6, <1>8, <2>1 DEF Tr!DeletesListed, Tr!OthersArePending, Tr!Pending
<1>10. Tr!WalkGoesDown'
  <2>1. DOMAIN v9' = {}
    BY <1>1
  <2>2. \A a \in Tr!Range(v8') : a \in v1' /\ v3'[a] = None
    BY <1>1, <1>4 DEF Tr!HangsOnce
  <2> QED
    BY <2>1, <2>2 DEF Tr!WalkGoesDown
<1>11. Tr!TypeOK'
  <2>1. v9' \in Seq([n : TreeAddresses, next : (Nat \ {0}) \union {None}])
    BY <1>1 DEF Tr!Inv, Tr!TypeOK
  <2> QED
    BY <1>1, <1>4, <1>7, <2>1 DEF Tr!TypeOK
<1> QED
  BY <1>4, <1>9, <1>10, <1>11 DEF Tr!Inv

(* deleteLater() puts the node into the list of the parent it has.         *)
LEMMA DeletesWait ==
  ASSUME NEW a \in TreeAddresses
  PROVE  Tr!Inv /\ Tr!DeleteLater(a) => Tr!Inv'
<1> SUFFICES ASSUME Tr!Inv, Tr!DeleteLater(a) PROVE Tr!Inv'
  OBVIOUS
<1> DEFINE p == v3[a]
<1>1. /\ a \in v1 /\ v2' = v2 \union {a} /\ v10' = v10 \ {a}
      /\ UNCHANGED <<v1, v3, v4, v6, v8, v9>>
  BY DEF Tr!DeleteLater
<1>2. Tr!HangsOnce'
  BY <1>1 DEF Tr!Inv, Tr!HangsOnce
<1>3. CASE p = None
  <2>1. v7' = v7 \union {a} /\ v5' = v5
    BY <1>3 DEF Tr!DeleteLater
  <2>2. Tr!TypeOK'
    BY <1>1, <2>1 DEF Tr!Inv, Tr!TypeOK
  <2>3. Tr!DeletesListed'
    BY <1>1, <1>3, <2>1 DEF Tr!Inv, Tr!DeletesListed, Tr!OthersArePending, Tr!Pending
  <2>4. Tr!WalkGoesDown'
    BY <1>1, <2>1 DEF Tr!Inv, Tr!WalkGoesDown
  <2> QED
    BY <1>2, <2>2, <2>3, <2>4 DEF Tr!Inv
<1>4. CASE p # None
  <2>1. p \in TreeAddresses /\ a \in Tr!Range(v4[p]) /\ p \in v1
    BY <1>1, <1>4 DEF Tr!Inv, Tr!HangsOnce, Tr!TypeOK
  <2> DEFINE s == v5[p]
  <2>2. v7' = v7
        /\ v5' = [v5 EXCEPT ![p] = Append(s, a)]
    BY <1>4, <2>1 DEF Tr!DeleteLater, Tr!PushDeleteChild
  <2>3. s \in Seq(TreeAddresses)
    BY <1>1, <1>4, <2>1 DEF Tr!Inv, Tr!TypeOK
  <2>4. /\ v5'[p] = Append(s, a)
        /\ \A q \in TreeAddresses : q # p => v5'[q] = v5[q]
    BY <2>1, <2>2 DEF Tr!Inv, Tr!TypeOK
  <2>5. /\ Append(s, a) \in Seq(TreeAddresses)
        /\ Tr!Range(Append(s, a)) = Tr!Range(s) \union {a}
    <3> HIDE DEF s
    <3> QED
      BY <2>3, OneMore
  <2>6. v5' \in [TreeAddresses -> Seq(TreeAddresses)]
    BY <2>2, <2>5 DEF Tr!Inv, Tr!TypeOK
  <2>7. Tr!TypeOK'
    BY <1>1, <2>6 DEF Tr!Inv, Tr!TypeOK
  <2> HIDE DEF p
  <2>8. ASSUME NEW q \in TreeAddresses
        PROVE  /\ q \notin v1' => v5'[q] = <<>>
               /\ \A b \in Tr!Range(v5'[q]) : b \in v2' /\ v3'[b] = q
    <3>1. CASE q = p
      <4>1. \A b \in Tr!Range(s) : b \in v2 /\ v3[b] = p
        BY <2>1 DEF Tr!Inv, Tr!DeletesListed
      <4> QED
        BY <1>1, <2>1, <2>4, <2>5, <3>1, <4>1 DEF p
    <3>2. CASE q # p
      BY <1>1, <2>4, <3>2 DEF Tr!Inv, Tr!DeletesListed
    <3> QED
      BY <3>1, <3>2
  <2>9. ASSUME NEW b \in v2' \ v10'
        PROVE  IF v3'[b] = None THEN b \in v7'
               ELSE b \in Tr!Range(v5'[v3'[b]])
    <3>1. CASE b = a
      <4>1. v3'[b] = p
        BY <1>1, <3>1 DEF p
      <4> QED
        BY <1>4, <2>4, <2>5, <3>1, <4>1
    <3>2. CASE b # a
      <4>1. b \in v2 \ v10 /\ b \in v1 /\ v3'[b] = v3[b]
        BY <1>1, <3>2 DEF Tr!Inv, Tr!DeletesListed
      <4>2. v3[b] # None => v3[b] \in TreeAddresses
        BY <4>1 DEF Tr!Inv, Tr!TypeOK
      <4>3. IF v3[b] = None THEN b \in v7
            ELSE b \in Tr!Range(v5[v3[b]])
        BY <4>1 DEF Tr!Inv, Tr!DeletesListed, Tr!OthersArePending, Tr!Pending
      <4>4. CASE v3[b] = None
        BY <2>2, <4>1, <4>3, <4>4
      <4>5. CASE v3[b] # None /\ v3[b] = p
        BY <2>4, <2>5, <4>1, <4>3, <4>5
      <4>6. CASE v3[b] # None /\ v3[b] # p
        BY <2>4, <4>1, <4>2, <4>3, <4>6
      <4> QED
        BY <4>4, <4>5, <4>6
    <3> QED
      BY <3>1, <3>2
  <2>10. Tr!DeletesListed'
    <3>1. v2' \subseteq v1'
      BY <1>1 DEF Tr!Inv, Tr!DeletesListed
    <3>2. \A b \in v7' : b \in v2' /\ v3'[b] = None
      BY <1>1, <2>2 DEF Tr!Inv, Tr!DeletesListed
    <3> QED
      BY <2>8, <2>9, <3>1, <3>2 DEF Tr!DeletesListed, Tr!OthersArePending, Tr!Pending
  <2>11. Tr!WalkGoesDown'
    BY <1>1 DEF Tr!Inv, Tr!WalkGoesDown
  <2> QED
    BY <1>2, <2>7, <2>10, <2>11 DEF Tr!Inv
<1> QED
  BY <1>3, <1>4

(* A new node is the last of its parent or of the roots; it was in no      *)
(* list.                                                                   *)
LEMMA NodesAreBorn ==
  ASSUME NEW a \in TreeAddresses, NEW p \in TreeAddresses \union {None}
  PROVE  Tr!Inv /\ Tr!Create(a, p) => Tr!Inv'
<1> SUFFICES ASSUME Tr!Inv, Tr!Create(a, p) PROVE Tr!Inv'
  OBVIOUS
<1>1. /\ a \notin v1 /\ p \in v1 \union {None} /\ v1' = v1 \union {a}
      /\ v3' = [v3 EXCEPT ![a] = p]
      /\ UNCHANGED <<v2, v5, v7, v8, v9, v10>>
  BY DEF Tr!Create
<1>2. /\ v3'[a] = p /\ a \notin v2 /\ p # a
      /\ v3' \in [TreeAddresses -> TreeAddresses \union {None}]
      /\ \A b \in v1 : b # a /\ v3'[b] = v3[b]
  BY <1>1, TreeAssumption DEF Tr!Inv, Tr!TypeOK, Tr!DeletesListed
<1>3. a \notin Tr!Range(v6) /\ \A q \in TreeAddresses : a \notin Tr!Range(v4[q])
  BY <1>1 DEF Tr!Inv, Tr!HangsOnce
<1>4. v5[a] = <<>>
  BY <1>1 DEF Tr!Inv, Tr!DeletesListed
<1>5. /\ v4' \in [TreeAddresses -> Seq(TreeAddresses)] /\ v6' \in Seq(TreeAddresses)
      /\ Tr!HangsOnce'
  <2>1. CASE p = None
    <3> DEFINE s == v6
    <3>1. v6' = Append(s, a) /\ v4' = v4
      BY <2>1 DEF Tr!Create
    <3>2. s \in Seq(TreeAddresses) /\ Tr!IsInjective(s) /\ a \notin Tr!Range(s)
      BY <1>3 DEF Tr!Inv, Tr!TypeOK, Tr!HangsOnce
    <3> HIDE DEF s
    <3>3. /\ v6' \in Seq(TreeAddresses) /\ Tr!Range(v6') = Tr!Range(s) \union {a}
          /\ Tr!IsInjective(v6')
      BY <3>1, <3>2, OneMore
    <3>4. Tr!HangsOnce'
      BY <1>1, <1>2, <2>1, <3>1, <3>3 DEF Tr!Inv, Tr!HangsOnce, s
    <3> QED
      BY <3>1, <3>3, <3>4 DEF Tr!Inv, Tr!TypeOK
  <2>2. CASE p # None
    <3> DEFINE s == v4[p]
    <3>1. /\ p \in TreeAddresses /\ p \in v1
          /\ v6' = Tr!Kept(v6, {a})
          /\ v4' = [v4 EXCEPT ![p] = Append(s, a)]
      BY <1>1, <2>2 DEF Tr!Create, Tr!AddChild, Tr!Without
    <3>2. s \in Seq(TreeAddresses) /\ Tr!IsInjective(s) /\ a \notin Tr!Range(s)
      BY <1>3, <3>1 DEF Tr!Inv, Tr!TypeOK, Tr!HangsOnce
    <3>3. /\ Append(s, a) \in Seq(TreeAddresses)
               /\ Tr!Range(Append(s, a)) = Tr!Range(s) \union {a}
          /\ Tr!IsInjective(Append(s, a))
      <4> HIDE DEF s
      <4> QED
        BY <3>2, OneMore
    <3>4. /\ v6' \in Seq(TreeAddresses) /\ Tr!Range(v6') = Tr!Range(v6)
          /\ Tr!IsInjective(v6')
      <4>1. v6 \in Seq(TreeAddresses) /\ Tr!IsInjective(v6)
        BY DEF Tr!Inv, Tr!TypeOK, Tr!HangsOnce
      <4>2. /\ v6' \in Seq(TreeAddresses) /\ Tr!Range(v6') = Tr!Range(v6) \ {a}
            /\ Tr!IsInjective(v6')
        BY <3>1, <4>1, KeptIs
      <4> QED
        BY <1>3, <4>2
    <3>5. /\ v4' \in [TreeAddresses -> Seq(TreeAddresses)] /\ v4'[p] = Append(s, a)
          /\ \A q \in TreeAddresses : q # p => v4'[q] = v4[q]
      BY <3>1, <3>3 DEF Tr!Inv, Tr!TypeOK
    <3>6. ASSUME NEW q \in TreeAddresses
          PROVE  /\ Tr!IsInjective(v4'[q])
                 /\ \A b \in Tr!Range(v4'[q]) : b \in v1' /\ v3'[b] = q
                 /\ Tr!Range(v4[q]) \subseteq Tr!Range(v4'[q])
      <4>1. Tr!IsInjective(v4[q])
            /\ \A b \in Tr!Range(v4[q]) : b \in v1' /\ v3'[b] = q
        BY <1>1, <1>2 DEF Tr!Inv, Tr!HangsOnce
      <4>2. CASE q = p
        BY <1>1, <1>2, <3>3, <3>5, <4>1, <4>2
      <4>3. CASE q # p
        BY <3>5, <4>1, <4>3
      <4> QED
        BY <4>2, <4>3
    <3>7. ASSUME NEW b \in v1'
          PROVE  IF v3'[b] = None THEN b \in Tr!Range(v6')
                 ELSE v3'[b] \in v1' /\ b \in Tr!Range(v4'[v3'[b]])
      <4>1. CASE b = a
        BY <1>1, <1>2, <2>2, <3>1, <3>3, <3>5, <4>1
      <4>2. CASE b # a
        <5>1. b \in v1 /\ v3'[b] = v3[b]
          BY <1>1, <1>2, <4>2
        <5>2. CASE v3[b] = None
          BY <3>4, <5>1, <5>2 DEF Tr!Inv, Tr!HangsOnce
        <5>3. CASE v3[b] # None
          <6>1. v3[b] \in v1 /\ b \in Tr!Range(v4[v3[b]])
                /\ v3[b] \in TreeAddresses
            BY <5>1, <5>3 DEF Tr!Inv, Tr!HangsOnce, Tr!TypeOK
          <6> QED
            BY <1>1, <3>6, <5>1, <5>3, <6>1
        <5> QED
          BY <5>2, <5>3
      <4> QED
        BY <4>1, <4>2
    <3>8. ASSUME NEW b \in Tr!Range(v6') PROVE b \in v1' /\ v3'[b] = None
      BY <1>1, <1>2, <3>4 DEF Tr!Inv, Tr!HangsOnce
    <3>9. Tr!HangsOnce'
      BY <3>4, <3>6, <3>7, <3>8 DEF Tr!HangsOnce
    <3> QED
      BY <3>4, <3>5, <3>9
  <2> QED
    BY <2>1, <2>2
<1>6. Tr!TypeOK'
  BY <1>1, <1>2, <1>5 DEF Tr!Inv, Tr!TypeOK
<1>7. Tr!DeletesListed'
  <2>1. v2 \subseteq v1
    BY DEF Tr!Inv, Tr!DeletesListed
  <2> QED
    BY <1>1, <1>2, <1>4, <2>1 DEF Tr!Inv, Tr!DeletesListed, Tr!OthersArePending,
       Tr!Pending
<1>8. Tr!WalkGoesDown'
  BY <1>1, <1>2 DEF Tr!Inv, Tr!WalkGoesDown
<1> QED
  BY <1>5, <1>6, <1>7, <1>8 DEF Tr!Inv

(* setParent(): out of the list it is in, into the new one.                *)
LEMMA NodesMove ==
  ASSUME NEW a \in TreeAddresses, NEW p \in TreeAddresses \union {None}
  PROVE  Tr!Inv /\ Tr!SetParent(a, p) => Tr!Inv'
<1> SUFFICES ASSUME Tr!Inv, Tr!SetParent(a, p) PROVE Tr!Inv'
  OBVIOUS
<1> DEFINE out == IF v3[a] = None THEN v4
                  ELSE [v4 EXCEPT ![v3[a]] = Tr!Without(@, a)]
           r == Tr!Kept(v6, {a})
<1>1. /\ a \in v1 \ v2 /\ p \in v1 \union {None} /\ p # a
      /\ ~Tr!Active(a) /\ a \notin Tr!Range(v8)
      /\ v3' = [v3 EXCEPT ![a] = p]
      /\ UNCHANGED <<v1, v2, v5, v7, v8, v9, v10>>
  <2>1. /\ a \in v1 \ v2 /\ (p = None \/ (p \in v1 /\ ~Tr!IsBelow(p, a)))
        /\ ~Tr!Active(a) /\ a \notin Tr!Range(v8)
        /\ v3' = [v3 EXCEPT ![a] = p]
        /\ UNCHANGED <<v1, v2, v5, v7, v8, v9, v10>>
    BY DEF Tr!SetParent, Tr!Movable
  <2>2. Tr!IsBelow(a, a)
    BY DEF Tr!IsBelow
  <2> QED
    BY <2>1, <2>2, TreeAssumption
<1>2. IF p = None THEN v4' = out /\ v6' = Append(r, a)
      ELSE v6' = r /\ v4' = [out EXCEPT ![p] = Append(@, a)]
  BY DEF Tr!SetParent, Tr!AddChild, Tr!Without
<1>3. /\ v3'[a] = p /\ v3' \in [TreeAddresses -> TreeAddresses \union {None}]
      /\ \A b \in TreeAddresses : b # a => v3'[b] = v3[b]
  BY <1>1 DEF Tr!Inv, Tr!TypeOK
<1>4. /\ r \in Seq(TreeAddresses) /\ Tr!IsInjective(r) /\ Tr!Range(r) = Tr!Range(v6) \ {a}
  <2>1. v6 \in Seq(TreeAddresses) /\ Tr!IsInjective(v6)
    BY DEF Tr!Inv, Tr!TypeOK, Tr!HangsOnce
  <2> QED
    BY <2>1, KeptIs
<1>5. ASSUME NEW q \in TreeAddresses
      PROVE  /\ out[q] \in Seq(TreeAddresses) /\ Tr!IsInjective(out[q])
             /\ Tr!Range(out[q]) = Tr!Range(v4[q]) \ {a}
  <2>1. v4[q] \in Seq(TreeAddresses) /\ Tr!IsInjective(v4[q])
    BY DEF Tr!Inv, Tr!TypeOK, Tr!HangsOnce
  <2>2. CASE v3[a] # q
    <3>1. out[q] = v4[q]
      BY <2>2
    <3>2. a \notin Tr!Range(v4[q])
      BY <2>2 DEF Tr!Inv, Tr!HangsOnce
    <3> QED
      BY <2>1, <3>1, <3>2
  <2>3. CASE v3[a] = q
    <3>1. q # None
      BY TreeAssumption
    <3>2. out[q] = Tr!Kept(v4[q], {a})
      BY <2>3, <3>1 DEF Tr!Inv, Tr!TypeOK, Tr!Without
    <3> HIDE DEF out
    <3> QED
      BY <2>1, <3>2, KeptIs
  <2> QED
    BY <2>2, <2>3
<1>6. DOMAIN out = TreeAddresses /\ out = [q \in TreeAddresses |-> out[q]]
  BY DEF Tr!Inv, Tr!TypeOK
<1> HIDE DEF out, r
<1>7. /\ v6' \in Seq(TreeAddresses) /\ Tr!IsInjective(v6')
      /\ Tr!Range(v6') = IF p = None THEN Tr!Range(r) \union {a} ELSE Tr!Range(r)
  <2>1. /\ Append(r, a) \in Seq(TreeAddresses)
             /\ Tr!Range(Append(r, a)) = Tr!Range(r) \union {a}
        /\ Tr!IsInjective(Append(r, a))
    BY <1>4, OneMore
  <2>2. CASE p = None
    BY <1>2, <2>1, <2>2
  <2>3. CASE p # None
    BY <1>2, <1>4, <2>3
  <2> QED
    BY <2>2, <2>3
<1>8. ASSUME NEW q \in TreeAddresses
      PROVE  /\ v4'[q] \in Seq(TreeAddresses) /\ Tr!IsInjective(v4'[q])
             /\ Tr!Range(v4'[q]) =
                  IF p = q THEN Tr!Range(out[q]) \union {a} ELSE Tr!Range(out[q])
  <2>1. CASE p # q
    <3>1. v4'[q] = out[q]
      BY <1>2, <1>6, <2>1
    <3> QED
      BY <1>5, <2>1, <3>1
  <2>2. CASE p = q
    <3>1. p # None
      BY <2>2, TreeAssumption
    <3>2. v4'[q] = Append(out[q], a)
      BY <1>2, <1>6, <2>2, <3>1
    <3>3. a \notin Tr!Range(out[q])
      BY <1>5
    <3> DEFINE s == out[q]
    <3>4. s \in Seq(TreeAddresses) /\ Tr!IsInjective(s) /\ a \notin Tr!Range(s)
      BY <1>5, <3>3
    <3> HIDE DEF s
    <3>5. /\ Append(s, a) \in Seq(TreeAddresses) /\ Tr!IsInjective(Append(s, a))
          /\ Tr!Range(Append(s, a)) = Tr!Range(s) \union {a}
      BY <3>4, OneMore
    <3> QED
      BY <2>2, <3>2, <3>5 DEF s
  <2> QED
    BY <2>1, <2>2
<1>9. v4' \in [TreeAddresses -> Seq(TreeAddresses)]
  <2>1. v4' = [q \in TreeAddresses |-> v4'[q]]
    <3>1. CASE p = None
      BY <1>2, <1>6, <3>1
    <3>2. CASE p # None
      <4>1. v4' = [out EXCEPT ![p] = Append(out[p], a)]
        BY <1>2, <3>2
      <4> QED
        BY <1>6, <4>1
    <3> QED
      BY <3>1, <3>2
  <2> QED
    BY <1>8, <2>1
<1>10. Tr!HangsOnce'
  <2>1. ASSUME NEW q \in TreeAddresses, NEW b \in Tr!Range(v4'[q])
        PROVE  b \in v1' /\ v3'[b] = q
    <3>1. CASE b = a
      BY <1>1, <1>3, <1>5, <1>8, <3>1
    <3>2. CASE b # a
      <4>1. b \in Tr!Range(v4[q])
        BY <1>5, <1>8, <3>2
      <4>2. b \in v1 /\ v3[b] = q /\ b \in TreeAddresses
        BY <4>1 DEF Tr!Inv, Tr!HangsOnce, Tr!TypeOK
      <4> QED
        BY <1>1, <1>3, <3>2, <4>2
    <3> QED
      BY <3>1, <3>2
  <2>2. ASSUME NEW b \in Tr!Range(v6') PROVE b \in v1' /\ v3'[b] = None
    <3>1. CASE b = a
      BY <1>1, <1>3, <1>4, <1>7, <3>1
    <3>2. CASE b # a
      <4>1. b \in Tr!Range(v6)
        BY <1>4, <1>7, <3>2
      <4>2. b \in v1 /\ v3[b] = None /\ b \in TreeAddresses
        BY <4>1 DEF Tr!Inv, Tr!HangsOnce, Tr!TypeOK
      <4> QED
        BY <1>1, <1>3, <3>2, <4>2
    <3> QED
      BY <3>1, <3>2
  <2>3. ASSUME NEW b \in v1'
        PROVE  IF v3'[b] = None THEN b \in Tr!Range(v6')
               ELSE v3'[b] \in v1' /\ b \in Tr!Range(v4'[v3'[b]])
    <3>1. CASE b = a
      <4>1. CASE p = None
        BY <1>3, <1>7, <3>1, <4>1
      <4>2. CASE p # None
        <5>1. p \in TreeAddresses /\ p \in v1
          BY <1>1, <4>2
        <5> QED
          BY <1>1, <1>3, <1>8, <3>1, <4>2, <5>1
      <4> QED
        BY <4>1, <4>2
    <3>2. CASE b # a
      <4>1. b \in v1 /\ b \in TreeAddresses /\ v3'[b] = v3[b]
        BY <1>1, <1>3, <3>2 DEF Tr!Inv, Tr!TypeOK
      <4>2. CASE v3[b] = None
        <5>1. b \in Tr!Range(v6)
          BY <4>1, <4>2 DEF Tr!Inv, Tr!HangsOnce
        <5> QED
          BY <1>4, <1>7, <3>2, <4>1, <4>2, <5>1
      <4>3. CASE v3[b] # None
        <5>1. v3[b] \in v1 /\ b \in Tr!Range(v4[v3[b]])
              /\ v3[b] \in TreeAddresses
          BY <4>1, <4>3 DEF Tr!Inv, Tr!HangsOnce, Tr!TypeOK
        <5> DEFINE q == v3[b]
        <5>2. q \in v1' /\ q \in TreeAddresses /\ b \in Tr!Range(v4[q]) /\ v3'[b] = q
          BY <1>1, <4>1, <5>1
        <5> HIDE DEF q
        <5>3. b \in Tr!Range(out[q])
          BY <1>5, <3>2, <5>2
        <5>4. b \in Tr!Range(v4'[q])
          BY <1>8, <5>2, <5>3
        <5> QED
          BY <4>3, <5>2, <5>4 DEF q
      <4> QED
        BY <4>2, <4>3
    <3> QED
      BY <3>1, <3>2
  <2> QED
    BY <1>7, <1>8, <2>1, <2>2, <2>3 DEF Tr!HangsOnce
<1>11. Tr!TypeOK'
  BY <1>1, <1>3, <1>7, <1>9 DEF Tr!Inv, Tr!TypeOK
<1>12. Tr!DeletesListed'
  <2>1. \A b \in v2 : b # a /\ b \in TreeAddresses /\ v3'[b] = v3[b]
    BY <1>1, <1>3 DEF Tr!Inv, Tr!DeletesListed, Tr!TypeOK
  <2> QED
    BY <1>1, <2>1 DEF Tr!Inv, Tr!DeletesListed, Tr!OthersArePending,
       Tr!Pending
<1>13. Tr!WalkGoesDown'
  <2>1. \A b \in Tr!Range(v8) : b # a /\ b \in TreeAddresses
    BY <1>1 DEF Tr!Inv, Tr!WalkGoesDown, Tr!TypeOK
  <2>2. \A i \in DOMAIN v9 : v9[i].n # a /\ v9[i].n \in TreeAddresses
    BY <1>1 DEF Tr!Active, Tr!Inv, Tr!WalkGoesDown, Tr!TypeOK
  <2>3. \A b \in TreeAddresses : b # a => v3'[b] = v3[b]
    BY <1>3
  <2> QED
    BY <1>1, <2>1, <2>2, <2>3 DEF Tr!Inv, Tr!WalkGoesDown
<1> QED
  BY <1>10, <1>11, <1>12, <1>13 DEF Tr!Inv

(* addChild() of a root is the same.                                       *)
LEMMA RootsAdopted ==
  ASSUME NEW a \in TreeAddresses, NEW p \in TreeAddresses \union {None}
  PROVE  Tr!AddToParent(a, p) => Tr!SetParent(a, p)
  BY DEF Tr!AddToParent, Tr!SetParent, Tr!AddChild

(* Every step keeps the tree and the lists of what is to be deleted.       *)
LEMMA TreeNext == Tr!Inv /\ [Tr!Next]_Tr!vars => Tr!Inv'
<1> SUFFICES ASSUME Tr!Inv, [Tr!Next]_Tr!vars PROVE Tr!Inv'
  OBVIOUS
<1>1. ASSUME NEW a \in TreeAddresses, NEW p \in TreeAddresses \union {None}, Tr!Create(a, p)
             PROVE Tr!Inv'
  BY <1>1, NodesAreBorn
<1>2. ASSUME NEW a \in TreeAddresses, NEW p \in TreeAddresses \union {None}, Tr!SetParent(a, p)
             PROVE Tr!Inv'
  BY <1>2, NodesMove
<1>10. ASSUME NEW a \in TreeAddresses, NEW p \in TreeAddresses \union {None}, Tr!AddToParent(a, p)
             PROVE Tr!Inv'
  BY <1>10, NodesMove, RootsAdopted
<1>3. ASSUME NEW a \in TreeAddresses, Tr!DeleteLater(a) PROVE Tr!Inv'
  BY <1>3, DeletesWait
<1>4. CASE Tr!BeginPass
  BY <1>4, PassesBegin
<1>5. CASE Tr!RunRoot
  BY <1>5, RootsRun
<1>6. CASE Tr!RunChild
  BY <1>6, ChildrenRun
<1>7. CASE Tr!BeginUpdate
  BY <1>7, UpdatesBegin
<1>8. CASE Tr!EndRun
  BY <1>8, RunsEnd
<1>9. CASE UNCHANGED Tr!vars
  BY <1>9 DEF Tr!Inv, Tr!TypeOK, Tr!HangsOnce, Tr!DeletesListed, Tr!OthersArePending,
     Tr!Pending, Tr!WalkGoesDown, Tr!vars, Tr!treeVars
<1> QED
  BY <1>1, <1>2, <1>3, <1>4, <1>5, <1>6, <1>7, <1>8, <1>9, <1>10 DEF Tr!Next

(* What it comes to.                                                       *)
LEMMA TreeIsConsistent == Tr!Inv => Tr!TreeConsistent /\ Tr!OthersArePending
  BY DEF Tr!Inv, Tr!TypeOK, Tr!HangsOnce, Tr!DeletesListed, Tr!WalkGoesDown, Tr!TreeConsistent

-----------------------------------------------------------------------------
\* The poller of EventLoop is level triggered.
Wl == INSTANCE IoWatchProofs WITH
    OneShot <- FALSE, Fds <- {1, 2}, MaxEvents <- 2, MaxReg <- 2,
    m_watches <- v1, m_nextRegistration <- v2, epoll <- v3, wakeup <- v4,
    fdReady <- v5, polled <- v6, pollpc <- v7, toPost <- v8, readyIO <- v9,
    batch <- v10, running <- v11, ioStopped <- v12

\* Two connections to one receiver, which moves between two owners.
Si == INSTANCE SignalsProofs WITH
    Owners <- {"o1", "o2"}, Conns <- {"c1", "c2"},
    Receiver <- [c \in {"c1", "c2"} |-> "n1"],
    Type <- [c \in {"c1", "c2"} |-> IF c = "c1" THEN "Auto" ELSE "Queued"],
    MaxEmits <- 2,
    m_slots <- v1, connected <- v2, made <- v3, nodeOwner <- v4,
    nodeAlive <- v5, nodeMarked <- v6, moved <- v7, posted <- v8,
    emitting <- v9, emits <- v10, calls <- v11

\* Two ends of this library, which connect again; with sockets that have no
\* room; then a client that is not, and a slow application.
Ws == INSTANCE WebSocket WITH
    Foreign <- FALSE, TakeInSlot <- TRUE, MaxConns <- 2, MaxMsgs <- 1,
    MaxItems <- 3, MaxQueue <- 0,
    ws <- v1, toServer <- v2, toClient <- v3, cur <- v4, upgrade <- v5,
    queued <- v6, listening <- v7, sent <- v8

Wq == INSTANCE WebSocket WITH
    Foreign <- FALSE, TakeInSlot <- TRUE, MaxConns <- 1, MaxMsgs <- 2,
    MaxItems <- 3, MaxQueue <- 1,
    ws <- v1, toServer <- v2, toClient <- v3, cur <- v4, upgrade <- v5,
    queued <- v6, listening <- v7, sent <- v8

Wf == INSTANCE WebSocket WITH
    Foreign <- TRUE, TakeInSlot <- FALSE, MaxConns <- 1, MaxMsgs <- 1,
    MaxItems <- 3, MaxQueue <- 1,
    ws <- v1, toServer <- v2, toClient <- v3, cur <- v4, upgrade <- v5,
    queued <- v6, listening <- v7, sent <- v8

\* Payloads at the limits of the three encodings of a length.
Fr == INSTANCE WebSocketFrame WITH
    Lengths <- {0, 125, 126, 65535, 65536}, MaxFrames <- 2,
    stream <- v1, fed <- v2, parsed <- v3, failed <- v4

Ke == INSTANCE HandshakeKeys WITH
    Bytes <- {0, 1, 130, 255}, Chars <- {0, 63, 64, 65}, KeySize <- 4,
    BlockSize <- 8, LengthSize <- 2, MaxBytes <- 5, MaxChars <- 5,
    MaxInput <- 20,
    bytes <- v1, chars <- v2, sha <- v3, input <- v4

Em == INSTANCE WebSocketImplEmscripten WITH
    Reconnects <- FALSE, MaxHandles <- 3,
    st <- v1, handle <- v2, browser <- v3, last <- v4

Ht == INSTANCE HttpServer WITH
    Conns <- {1}, Requests <- HttpRequests, MaxRequests <- 1,
    ContentLength <- 2, ResponseSize <- 3,
    sock <- v1, states <- v2, client <- v3, posted <- v4, serving <- v5

-----------------------------------------------------------------------------
\* The variables that a component has no use for.
Unused13 == v13 = 0
Unused12 == v12 = 0 /\ Unused13
Unused11 == v11 = 0 /\ Unused12
Unused9 == v9 = 0 /\ v10 = 0 /\ Unused11
Unused8 == v8 = 0 /\ Unused9
Unused7 == v7 = 0 /\ Unused8
Unused6 == v6 = 0 /\ Unused7
Unused5 == v5 = 0 /\ Unused6
Rest13 == <<v13>>
Rest12 == <<v12, v13>>
Rest11 == <<v11, v12, v13>>
Rest9 == <<v9, v10, v11, v12, v13>>
Rest7 == <<v7, v8, v9, v10, v11, v12, v13>>
Rest6 == <<v6, v7, v8, v9, v10, v11, v12, v13>>
Rest5 == <<v5, v6, v7, v8, v9, v10, v11, v12, v13>>

Init ==
    /\ part \in Checked
    /\ \/ part = "timer" /\ Tm!Init
       \/ part = "service" /\ Wo!Init /\ Unused13
       \/ part = "watch" /\ Wl!Init /\ Unused13
       \/ part = "tree" /\ Tr!Init /\ Unused11
       \/ part = "pointer" /\ Np!Init /\ Unused7
       \/ part = "storage" /\ Ts!Init /\ Unused9
       \/ part = "signal" /\ Si!Init /\ Unused12
       \/ part = "process" /\ Pr!Init /\ Unused11
       \/ part = "application" /\ Ap!Init /\ Unused11
       \/ part = "stream" /\ St!Init /\ Unused9
       \/ part = "server" /\ Sv!Init /\ Unused13
       \/ part = "udp" /\ Ud!Init
       \/ part = "websocket" /\ Ws!Init /\ Unused9
       \/ part = "congested" /\ Wq!Init /\ Unused9
       \/ part = "foreign" /\ Wf!Init /\ Unused9
       \/ part = "frame" /\ Fr!Init /\ Unused5
       \/ part = "key" /\ Ke!Init /\ Unused5
       \/ part = "browser" /\ Em!Init /\ Unused5
       \/ part = "http" /\ Ht!Init /\ Unused6

Next ==
    /\ UNCHANGED part
    /\ \/ part = "timer" /\ Tm!Next
       \/ part = "service" /\ Wo!Next /\ UNCHANGED Rest13
       \/ part = "watch" /\ Wl!Next /\ UNCHANGED Rest13
       \/ part = "tree" /\ Tr!Next /\ UNCHANGED Rest11
       \/ part = "pointer" /\ Np!Next /\ UNCHANGED Rest7
       \/ part = "storage" /\ Ts!Next /\ UNCHANGED Rest9
       \/ part = "signal" /\ Si!Next /\ UNCHANGED Rest12
       \/ part = "process" /\ Pr!Next /\ UNCHANGED Rest11
       \/ part = "application" /\ Ap!Next /\ UNCHANGED Rest11
       \/ part = "stream" /\ St!Next /\ UNCHANGED Rest9
       \/ part = "server" /\ Sv!Next /\ UNCHANGED Rest13
       \/ part = "udp" /\ Ud!Next
       \/ part = "websocket" /\ Ws!Next /\ UNCHANGED Rest9
       \/ part = "congested" /\ Wq!Next /\ UNCHANGED Rest9
       \/ part = "foreign" /\ Wf!Next /\ UNCHANGED Rest9
       \/ part = "frame" /\ Fr!Next /\ UNCHANGED Rest5
       \/ part = "key" /\ Ke!Next /\ UNCHANGED Rest5
       \/ part = "browser" /\ Em!Next /\ UNCHANGED Rest5
       \/ part = "http" /\ Ht!Next /\ UNCHANGED Rest6

Spec == Init /\ [][Next]_vars

-----------------------------------------------------------------------------
\* An active timer is armed with its owner, or a timeout of it is on its way,
\* wherever it has moved (Timer, EventLoop::m_timers, TimerService).
TimersFire == part = "timer" => Tm!ActiveTimersArmed

\* The slots of timeouts and of queued connections run inside the owner that
\* the timer or the receiver has at that moment, never on one that is dead
\* (Timer::onServiceTimeout, SlotInvocation in Connection.h).
CallbacksRunAtHome ==
    [][ /\ part = "timer" => Tm!TimeoutAtHome
        /\ part = "signal" => Si!SlotRunsAtHome ]_vars

\* A descriptor with a registration is watched by epoll, or its callback is on
\* the way and will rearm it, and no registration of an IoService has two
\* callbacks under way (EventLoop's and IoService's I/O threads).
WatchesHold ==
    /\ part = "service" => Wo!WatchesStayLive /\ Wo!NoDuplicateCallbacks
    /\ part = "watch" => Wl!WatchesStayLive /\ Wl!NoDuplicateCallbacks

\* Parents, children and root lists agree, and every node for which
\* deleteLater() was called is in a list that will be swept, but for what run()
\* skips of a list of three or more and what it clears after update() (Node,
\* EventLoop).
NodesAccounted ==
    part = "tree" => Tr!TreeConsistent /\ Tr!OthersArePending

\* Weak pointers see through reused addresses, and per-thread values are of
\* their thread and are deleted once (NodePtr, NodeRegistry, ThreadStorage).
HandlesAreSafe ==
    /\ part = "pointer" => Np!PointersAreSafe
    /\ part = "storage" => Ts!StorageIsPerThread

\* A slot sees an emission once, and those of a thread in order, but that one
\* from inside a slot may overtake those it is nested in (Signal::emit).
EmissionsInOrder == part = "signal" => Si!EmissionsOnceAndInOrder

\* A child that has ended leaves nothing behind, and finished() comes once,
\* after all of its output (Process).
ProcessesReaped == part = "process" => Pr!NothingLeftBehind /\ Pr!FinishedOnceWithOutput

\* The application is torn down in an order in which nothing is used after its
\* end, and a quit() is not forgotten (Application).
ApplicationOrdered == part = "application" => Ap!TeardownAndQuitOrdered

\* The interest of a socket's watch follows its state, and disconnected comes
\* after connected, once; no accepted connection is lost or handed out twice;
\* and a call whose caller has stopped to wait is never carried out (TcpSocket,
\* LocalSocket, TcpServer, LocalServer, UdpSocket).
SocketsFollowTheirState ==
    /\ part = "stream" => St!WatchFollowsState /\ St!ConnectedThenDisconnected
    /\ part = "server" => Sv!AcceptedAreAccounted
    /\ part = "udp" => Ud!AbandonedNeverApplied

\* The two ends of a WebSocket lose no message of an open connection and answer
\* a close; the browser's backend is in the state of its handle.
WebSocketsAgree ==
    /\ part = "websocket" => Ws!NothingLost /\ Ws!ClosingIsAnswered
    /\ part = "congested" => Wq!NothingLost /\ Wq!ClosingIsAnswered
    /\ part = "foreign" => Wf!NothingLost /\ Wf!ClosingIsAnswered
    /\ part = "browser" => Em!StateIsTheHandles

\* Frames are parsed as they were written, however they are cut; requests are,
\* if no read ends inside a chunk; and both sides of a handshake compute the
\* same keys (WebSocketFrame, WebSocketHandshake, HttpRequestParser).
WireFormatsAgree ==
    /\ part = "frame" => Fr!ParsedAsWritten
    /\ part = "key" => Ke!KeysAgree
    /\ part = "http" => Ht!RequestsUnderstood

\* A connection is closed only after the whole response (HttpServer).
HttpFlushed == [][part = "http" => Ht!ResponseFlushed]_vars

\* "Schedules this node for deletion on the next event-loop iteration. [...]
\* Safe to call from within `update()`", says Node.h of deleteLater(): a node
\* that was marked is in a list that an iteration sweeps.
DeleteLaterDeletes == part = "tree" => Tr!MarkedArePending

-----------------------------------------------------------------------------
(* What the proofs of the components say of this specification.            *)

(* A behaviour of the timers keeps their invariant.                        *)
LEMMA TimerPart == Spec => [](part = "timer" => Tm!Inv)
<1>1. Init => (part = "timer" => Tm!Inv)
  <2> SUFFICES ASSUME Init, part = "timer" PROVE Tm!Inv
    OBVIOUS
  <2>1. Tm!Init
    BY DEF Init
  <2> QED
    BY <2>1, TimerInitInv
<1>2. (part = "timer" => Tm!Inv) /\ [Next]_vars => (part = "timer" => Tm!Inv)'
  <2> SUFFICES ASSUME part = "timer" => Tm!Inv, [Next]_vars, part' = "timer" PROVE Tm!Inv'
    OBVIOUS
  <2>1. part = "timer" /\ [Tm!Next]_Tm!vars
    BY DEF Next, vars, Tm!vars, Tm!timerState
  <2> QED
    BY <2>1, TimerNextKeepsInv
<1> QED
  BY <1>1, <1>2, PTL DEF Spec

(* A behaviour of the connections keeps the invariant of SignalsProofs.    *)
LEMMA SignalPart == Spec => [](part = "signal" => Si!Inv)
<1>1. Init => (part = "signal" => Si!Inv)
  <2> SUFFICES ASSUME Init, part = "signal" PROVE Si!Inv
    OBVIOUS
  <2>1. Si!Init
    BY DEF Init
  <2> QED
    BY <2>1, Si!InitInv
<1>2. (part = "signal" => Si!Inv) /\ [Next]_vars => (part = "signal" => Si!Inv)'
  <2> SUFFICES ASSUME part = "signal" => Si!Inv, [Next]_vars, part' = "signal" PROVE Si!Inv'
    OBVIOUS
  <2>1. part = "signal" /\ [Si!Next]_Si!vars
    BY DEF Next, vars, Si!vars, Si!connVars, Si!blockVars
  <2> QED
    BY <2>1, Si!NextKeepsInv
<1> QED
  BY <1>1, <1>2, PTL DEF Spec

(* An active timer is armed with its owner or has a timeout on its way, in *)
(* every behaviour (Timer, EventLoop::m_timers, TimerService).             *)
THEOREM TimersFireCorrect == Spec => []TimersFire
<1>1. (part = "timer" => Tm!Inv) => TimersFire
  BY TimerInvArmed DEF TimersFire
<1> QED
  BY <1>1, TimerPart, PTL

(* The slots of timeouts and of connections run with the owner that the    *)
(* timer or the receiver has at that moment, in every behaviour            *)
(* (Timer::onServiceTimeout, SlotInvocation in Connection.h).              *)
THEOREM CallbacksRunAtHomeCorrect == Spec => CallbacksRunAtHome
<1> DEFINE Both == (part = "timer" => Tm!Inv) /\ (part = "signal" => Si!Inv)
           AtHome == /\ part = "timer" => Tm!TimeoutAtHome
                     /\ part = "signal" => Si!SlotRunsAtHome
<1>1. Both /\ [Next]_vars => AtHome
  <2>1. ASSUME Tm!Inv, [Next]_vars, part = "timer" PROVE Tm!TimeoutAtHome
    <3>1. [Tm!Next]_Tm!vars
      BY <2>1 DEF Next, vars, Tm!vars, Tm!timerState
    <3> QED
      BY <2>1, <3>1, TimerNextAtHome
  <2>2. ASSUME Si!Inv, [Next]_vars, part = "signal" PROVE Si!SlotRunsAtHome
    <3>1. [Si!Next]_Si!vars
      BY <2>2 DEF Next, vars, Si!vars, Si!connVars, Si!blockVars
    <3> QED
      BY <2>2, <3>1, Si!NextAtHome
  <2> QED
    BY <2>1, <2>2
<1>2. Spec => []Both
  BY TimerPart, SignalPart, PTL
<1>3. Both /\ [Next]_vars => [AtHome]_vars
  BY <1>1
<1>4. Spec => [][AtHome]_vars
  BY <1>2, <1>3, PTL DEF Spec
<1> QED
  BY <1>4 DEF CallbacksRunAtHome

(* A slot sees an emission at most once, and those of a thread in order,   *)
(* but for the ones that they are nested in, in every behaviour           *)
(* (Signal::emit, postToReceiverOwner).                 *)
THEOREM EmissionsInOrderCorrect == Spec => []EmissionsInOrder
<1>1. (part = "signal" => Si!Inv) => EmissionsInOrder
  BY Si!InvInOrder DEF EmissionsInOrder
<1> QED
  BY <1>1, SignalPart, PTL

(* Watched descriptors stay armed or have their callback coming, and those *)
(* of an IoService one callback at most, in every behaviour                *)
(* (IoService::run, EventLoop::ioThreadMain).                              *)
THEOREM WatchesHoldCorrect == Spec => []WatchesHold
<1> DEFINE Held == (part = "service" => Wo!Inv) /\ (part = "watch" => Wl!Inv)
<1>1. Wo!Descriptors /\ Wl!Descriptors
  <2>1. Wo!IsFiniteSet({1, 2}) /\ Wl!IsFiniteSet({1, 2})
    <3>1. 1 .. 2 = {1, 2} /\ 1 \in Int /\ 2 \in Int
      OBVIOUS
    <3>2. Wo!IsFiniteSet(1 .. 2)
      BY <3>1, Wo!FS_Interval
    <3>3. Wl!IsFiniteSet(1 .. 2)
      BY <3>1, Wl!FS_Interval
    <3> QED
      BY <3>1, <3>2, <3>3
  <2> QED
    BY <2>1, NoneAssumption DEF Wo!Descriptors, Wl!Descriptors, Wo!Callback, Wl!Callback
<1>2. Init => Held
  <2>1. Init /\ part = "service" => Wo!Inv
    BY <1>1, Wo!InitInv DEF Init
  <2>2. Init /\ part = "watch" => Wl!Inv
    BY <1>1, Wl!InitInv DEF Init
  <2> QED
    BY <2>1, <2>2
<1>3. Held /\ [Next]_vars => Held'
  <2>1. ASSUME part = "service" => Wo!Inv, [Next]_vars, part' = "service" PROVE Wo!Inv'
    <3>1. Wo!Inv /\ [Wo!Next]_Wo!vars
      BY <2>1 DEF Next, vars, Wo!vars, Wo!watchVars, Wo!threadVars, Wo!ownerVars
    <3> QED
      BY <1>1, <3>1, Wo!NextInv
  <2>2. ASSUME part = "watch" => Wl!Inv, [Next]_vars, part' = "watch" PROVE Wl!Inv'
    <3>1. Wl!Inv /\ [Wl!Next]_Wl!vars
      BY <2>2 DEF Next, vars, Wl!vars, Wl!watchVars, Wl!threadVars, Wl!ownerVars
    <3> QED
      BY <1>1, <3>1, Wl!NextInv
  <2> QED
    BY <2>1, <2>2
<1>4. Held => WatchesHold
  BY <1>1, Wo!InvHolds, Wl!InvHolds DEF WatchesHold
<1> QED
  BY <1>2, <1>3, <1>4, PTL DEF Spec

(* Pointers see through addresses that are used again, and per-thread      *)
(* values are of their thread and deleted once, in every behaviour and for *)
(* any addresses, holders, threads and storages (NodePtr, NodeRegistry,    *)
(* ThreadStorage).                                                         *)
THEOREM HandlesAreSafeCorrect == Spec => []HandlesAreSafe
<1> DEFINE Safe == (part = "pointer" => Np!Inv) /\ (part = "storage" => Ts!Inv)
<1>1. Init => Safe
  BY PointerInit, StorageInit DEF Init
<1>2. Safe /\ [Next]_vars => Safe'
  <2>1. ASSUME part = "pointer" => Np!Inv, [Next]_vars, part' = "pointer" PROVE Np!Inv'
    <3>1. Np!Inv /\ [Np!Next]_Np!pointerVars
      BY <2>1 DEF Next, vars, Np!pointerVars
    <3> QED
      BY <3>1, PointerNext
  <2>2. ASSUME part = "storage" => Ts!Inv, [Next]_vars, part' = "storage" PROVE Ts!Inv'
    <3>1. Ts!Inv /\ [Ts!Next]_Ts!storageVars
      BY <2>2 DEF Next, vars, Ts!storageVars
    <3> QED
      BY <3>1, StorageNext
  <2> QED
    BY <2>1, <2>2
<1>3. Safe => HandlesAreSafe
  BY PointerSafe, StorageSafe DEF HandlesAreSafe
<1> QED
  BY <1>1, <1>2, <1>3, PTL DEF Spec

(* The application goes down in order and forgets no quit(), in every      *)
(* behaviour and for any threads and drivers (Application).                *)
THEOREM ApplicationOrderedCorrect == Spec => []ApplicationOrdered
<1> DEFINE Ordered == part = "application" => Ap!Inv
<1>1. Init => Ordered
  BY ApplicationInit DEF Init
<1>2. Ordered /\ [Next]_vars => Ordered'
  <2> SUFFICES ASSUME Ordered, [Next]_vars, part' = "application" PROVE Ap!Inv'
    OBVIOUS
  <2>1. Ap!Inv /\ [Ap!Next]_Ap!vars
    BY DEF Next, vars, Ap!vars, Ap!loopVars, Ap!partVars
  <2> QED
    BY <2>1, ApplicationNext
<1>3. Ordered => ApplicationOrdered
  BY DEF ApplicationOrdered, Ap!Inv
<1> QED
  BY <1>1, <1>2, <1>3, PTL DEF Spec

(* A child that has ended leaves no descriptor, no zombie and no watch     *)
(* behind, and finished() comes once, in order and after its output, in    *)
(* every behaviour and for any number of children (Process::startImpl,     *)
(* handleChildExit).                                                       *)
THEOREM ProcessesReapedCorrect == Spec => []ProcessesReaped
<1> DEFINE Kept == part = "process" => Pr!Inv
<1>1. Init => Kept
  BY ProcessInit DEF Init
<1>2. Kept /\ [Next]_vars => Kept'
  <2> SUFFICES ASSUME Kept, [Next]_vars, part' = "process" PROVE Pr!Inv'
    OBVIOUS
  <2>1. Pr!Inv /\ [Pr!Next]_Pr!vars
    BY DEF Next, vars, Pr!vars
  <2> QED
    BY <2>1, ProcessNext
<1>3. Kept => ProcessesReaped
  BY ProcessReaped DEF ProcessesReaped
<1> QED
  BY <1>1, <1>2, <1>3, PTL DEF Spec

(* A socket waits for exactly what its state needs, and on the connection  *)
(* it has; it says disconnected after every connected; a server accounts   *)
(* for every client it has accepted; and a call that was given up is never *)
(* applied later, while datagrams keep their order, in every behaviour and *)
(* for any number of connections, clients, callers and datagrams           *)
(* (IOEvent.cpp, TcpSocket.cpp, LocalSocket.cpp, TcpServer.cpp,            *)
(* LocalServer.cpp, UdpSocket.cpp).                                        *)
THEOREM SocketsFollowTheirStateCorrect == Spec => []SocketsFollowTheirState
<1> DEFINE Kept == /\ part = "stream" => St!Inv
                   /\ part = "server" => Sv!Inv
                   /\ part = "udp" => Ud!Inv
<1>1. Init => Kept
  BY StreamInit, ServerInit, UdpInit DEF Init
<1>2. Kept /\ [Next]_vars => Kept'
  <2>1. ASSUME Kept, [Next]_vars, part' = "stream" PROVE St!Inv'
    <3>1. St!Inv /\ [St!Next]_St!vars
      BY <2>1 DEF Next, vars, St!vars
    <3> QED
      BY <3>1, StreamNext
  <2>2. ASSUME Kept, [Next]_vars, part' = "server" PROVE Sv!Inv'
    <3>1. Sv!Inv /\ [Sv!Next]_Sv!vars
      BY <2>2 DEF Next, vars, Sv!vars, Sv!serverVars
    <3> QED
      BY <3>1, ServerNext
  <2>3. ASSUME Kept, [Next]_vars, part' = "udp" PROVE Ud!Inv'
    <3>1. Ud!Inv /\ [Ud!Next]_Ud!vars
      BY <2>3 DEF Next, vars, Ud!vars, Ud!udpVars
    <3> QED
      BY <3>1, UdpNext
  <2> QED
    BY <2>1, <2>2, <2>3
<1>3. Kept => SocketsFollowTheirState
  BY StreamFollowsState, StreamSignalsAnswered, ServerAccounts, UdpAbandoned
     DEF SocketsFollowTheirState
<1> QED
  BY <1>1, <1>2, <1>3, PTL DEF Spec

(* Every live node hangs in the tree once, no list has a deleted one, and  *)
(* what was marked stays in a list that gets it deleted, unless run()      *)
(* skips it in a list of three or more or clears it after update(), in     *)
(* every behaviour and for any number of nodes, if none is moved after its *)
(* deleteLater() (Node.cpp, EventLoop.cpp).                                *)
THEOREM NodesAccountedCorrect == Spec => []NodesAccounted
<1> DEFINE Held == part = "tree" => Tr!Inv
<1>1. Init => Held
  BY TreeInit DEF Init
<1>2. Held /\ [Next]_vars => Held'
  <2> SUFFICES ASSUME Held, [Next]_vars, part' = "tree" PROVE Tr!Inv'
    OBVIOUS
  <2>1. Tr!Inv /\ [Tr!Next]_Tr!vars
    BY DEF Next, vars, Tr!vars, Tr!treeVars
  <2> QED
    BY <2>1, TreeNext
<1>3. Held => NodesAccounted
  BY TreeIsConsistent DEF NodesAccounted
<1> QED
  BY <1>1, <1>2, <1>3, PTL DEF Spec
=============================================================================
