---------------------------- MODULE NodePointers ----------------------------
(***************************************************************************)
(* snf::NodePtr, NodeLifetimeBlock and NodeRegistry: weak pointers to      *)
(* nodes.  A pointer keeps the address of its node and shares the control  *)
(* block that says if the node is alive; the registry leads from addresses *)
(* to blocks.  Nodes are built and torn down in several steps, during      *)
(* which other threads make and test pointers, and the address of a node   *)
(* that is gone is used again.                                             *)
(***************************************************************************)
EXTENDS Naturals

CONSTANTS Addresses, Holders, None,
          MaxNodes      \* bound: nodes that are ever built

VARIABLES object,       \* at each address: the node there, and how far it is
          block,        \* the NodeLifetimeBlock of each node
          registry,     \* NodeRegistry::m_map
          shards,       \* Application::m_aliveNodeShards
          pointer,      \* of each holder: m_node and the node whose block is m_block
          built         \* nodes built so far, the last value of s_nextGeneration

pointerVars == <<object, block, registry, shards, pointer, built>>

Null == [addr |-> None, node |-> 0]

Init ==
    /\ object = [a \in Addresses |-> [node |-> 0, stage |-> "free"]]
    /\ block = [n \in 1..MaxNodes |-> [alive |-> TRUE, marked |-> FALSE]]
    /\ registry = [a \in Addresses |-> 0]
    /\ shards = {}
    /\ pointer = [h \in Holders |-> Null]
    /\ built = 0

\* Mutant: the registry is asked for the address, as isNodeAlive() does.
IsAlive_ByAddress(p) == p.addr # None /\ registry[p.addr] # 0

\* isAlive(): the block alone is asked.
IsAlive(p) == p.node # 0 /\ block[p.node].alive

IsMarkedToDelete(p) == ~IsAlive(p) \/ block[p.node].marked

\* operator bool, operator-> and operator*.
Bool(p) == p.addr # None /\ IsAlive(p)

-----------------------------------------------------------------------------
\* Node(): a fresh block, in the registry from the first moment on.
Construct(a) ==
    /\ object[a].stage = "free" /\ built < MaxNodes
    /\ built' = built + 1
    /\ object' = [object EXCEPT ![a] = [node |-> built + 1, stage |-> "building"]]
    /\ registry' = [registry EXCEPT ![a] = built + 1]
    /\ UNCHANGED <<block, shards, pointer>>

\* The end of Node(): registerAliveNode().
Constructed(a) ==
    /\ object[a].stage = "building"
    /\ object' = [object EXCEPT ![a].stage = "live"]
    /\ shards' = shards \cup {a}
    /\ UNCHANGED <<block, registry, pointer, built>>

\* deleteLater() from any thread: the block first; markToDelete() throws for a
\* node that is not in the shards.
DeleteLater(a) ==
    /\ object[a].stage = "live"
    /\ block' = [block EXCEPT ![object[a].node].marked = TRUE]
    /\ UNCHANGED <<object, registry, shards, pointer, built>>

\* The destructors of the derived classes, before ~Node() begins.
DestroyDerived(a) ==
    /\ object[a].stage = "live"
    /\ object' = [object EXCEPT ![a].stage = "derivedGone"]
    /\ UNCHANGED <<block, registry, shards, pointer, built>>

\* ~Node(): the block, the registry, then the children and the owner.
SignalHolders(a) ==
    /\ object[a].stage = "derivedGone"
    /\ object' = [object EXCEPT ![a].stage = "dead"]
    /\ block' = [block EXCEPT ![object[a].node].alive = FALSE]
    /\ UNCHANGED <<registry, shards, pointer, built>>

Unregister(a) ==
    /\ object[a].stage = "dead"
    /\ object' = [object EXCEPT ![a].stage = "unregistered"]
    /\ registry' = [registry EXCEPT ![a] = 0]
    /\ UNCHANGED <<block, shards, pointer, built>>

\* unregisterAliveNode(), and the memory is free again.
Free(a) ==
    /\ object[a].stage = "unregistered"
    /\ object' = [object EXCEPT ![a] = [node |-> 0, stage |-> "free"]]
    /\ shards' = shards \ {a}
    /\ UNCHANGED <<block, registry, pointer, built>>

-----------------------------------------------------------------------------
\* NodePtr(raw) and reset(raw), with an address that may be dead by now.
Make(h, a) ==
    /\ pointer' = [pointer EXCEPT ![h] = [addr |-> a, node |-> registry[a]]]
    /\ UNCHANGED <<object, block, registry, shards, built>>

Reset(h) ==
    /\ pointer' = [pointer EXCEPT ![h] = Null]
    /\ UNCHANGED <<object, block, registry, shards, built>>

\* A copy, and dynamicCast(): the block is shared, the registry is not asked.
Share(h, g) ==
    /\ pointer' = [pointer EXCEPT ![h] = pointer[g]]
    /\ UNCHANGED <<object, block, registry, shards, built>>

Next ==
    \/ \E a \in Addresses : Construct(a) \/ Constructed(a) \/ DeleteLater(a)
    \/ \E a \in Addresses : DestroyDerived(a) \/ SignalHolders(a) \/ Unregister(a) \/ Free(a)
    \/ \E h \in Holders, a \in Addresses : Make(h, a)
    \/ \E h \in Holders : Reset(h)
    \/ \E h, g \in Holders : Share(h, g)

Spec == Init /\ [][Next]_pointerVars

-----------------------------------------------------------------------------
\* A pointer that can be followed leads to the node it was made for, whose
\* memory is still there: it is never fooled by a new node at the address.
LeadsToItsNode ==
    \A h \in Holders : Bool(pointer[h]) =>
        LET o == object[pointer[h].addr]
        IN  o.node = pointer[h].node /\ o.stage \notin {"free", "dead", "unregistered"}

\* The two registries know the same nodes, but for those under construction or
\* in ~Node().
RegistriesAgree ==
    \A a \in Addresses :
        /\ registry[a] # 0 => registry[a] = object[a].node
        /\ object[a].stage \in {"live", "derivedGone"} => registry[a] # 0 /\ a \in shards

\* Weak pointers tell the truth in the face of reused addresses.
PointersAreSafe == LeadsToItsNode /\ RegistriesAgree

\* "Returns true if the node is alive (not deleted and not marked for
\* deletion)", says NodePtr.h of operator bool.
BoolMeansUnmarked == \A h \in Holders : Bool(pointer[h]) => ~IsMarkedToDelete(pointer[h])

-----------------------------------------------------------------------------
\* Why PointersAreSafe holds: what every step keeps.
Stages == {"free", "building", "live", "derivedGone", "dead", "unregistered"}

TypeOK ==
    /\ object \in [Addresses -> [node : 0..MaxNodes, stage : Stages]]
    /\ block \in [1..MaxNodes -> [alive : BOOLEAN, marked : BOOLEAN]]
    /\ registry \in [Addresses -> 0..MaxNodes]
    /\ shards \subseteq Addresses
    /\ pointer \in [Holders -> [addr : Addresses \cup {None}, node : 0..MaxNodes]]
    /\ built \in 0..MaxNodes

\* A place is free or has a node.
Occupied == \A a \in Addresses : object[a].node = 0 <=> object[a].stage = "free"

\* The registry has a node from its first moment to the middle of ~Node().
Registered ==
    \A a \in Addresses :
        registry[a] = IF object[a].stage = "unregistered" THEN 0 ELSE object[a].node

\* The block of a node says that it is dead before the registry forgets it.
DeadAreSignalled ==
    \A a \in Addresses :
        object[a].stage \in {"dead", "unregistered"} => ~block[object[a].node].alive

InShards == \A a \in Addresses : object[a].stage \in {"live", "derivedGone"} => a \in shards

Inv ==
    /\ TypeOK /\ Occupied /\ Registered /\ DeadAreSignalled /\ InShards
    /\ LeadsToItsNode
=============================================================================
