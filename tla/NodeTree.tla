------------------------------ MODULE NodeTree ------------------------------
(***************************************************************************)
(* The tree of snf::Node (src/lib/Core/src/SNFCore/Node.cpp) in one        *)
(* EventLoop: creation, re-parenting, deferred deletion and the tick of a  *)
(* pass, with the registry of live nodes that snf::Application keeps.      *)
(*                                                                         *)
(* Nodes are addresses: that of a deleted node may be used again.  User    *)
(* code runs in tasks between passes and in update(), where it leaves      *)
(* alone the child lists that run() is iterating over, and the roots that  *)
(* the pass has still to tick.                                             *)
(***************************************************************************)
EXTENDS Naturals, Sequences, Functions

CONSTANTS
  Addresses, None,
  MovesMarked,   \* are nodes moved after their deleteLater()?
  TwoParents,    \* is addChild() called on a child of another node?
  MaxListed      \* bound: length of a list of children to delete

VARIABLES
  alive,         \* Application's shards and the NodeRegistry
  marked,        \* markedForDelete
  m_parent, m_children, m_childrenToDelete,
  m_rootNodes, m_nodesToDelete,   \* of the loop
  pass,          \* the roots still to tick in this pass
  walk,          \* the nested run() calls: node and next child
  forgotten      \* history: marked, but dropped from the list by run()

treeVars == <<alive, marked, m_parent, m_children, m_childrenToDelete, m_rootNodes, m_nodesToDelete>>
vars == <<treeVars, pass, walk, forgotten>>

Init ==
  /\ alive = {} /\ marked = {}
  /\ m_parent = [a \in Addresses |-> None]
  /\ m_children = [a \in Addresses |-> <<>>]
  /\ m_childrenToDelete = [a \in Addresses |-> <<>>]
  /\ m_rootNodes = <<>> /\ m_nodesToDelete = {}
  /\ pass = <<>> /\ walk = <<>> /\ forgotten = {}

InPass == pass # <<>> \/ walk # <<>>
Top == walk[Len(walk)]
Updating == walk # <<>> /\ Top.next = None
UserCode == ~InPass \/ Updating
(* run() of a is on the stack; below the top, its child loop is running.   *)
Active(a) == \E i \in DOMAIN walk : walk[i].n = a
Iterated(a) == \E i \in 1 .. Len(walk) - 1 : walk[i].n = a

(* The node and everything below it: no set with all the children of its   *)
(* members has a but not b.                                                *)
Closed(S) == \A b \in S : Range(m_children[b]) \subseteq S
IsBelow(b, a) == \A S \in SUBSET Addresses : a \in S /\ b \notin S => ~Closed(S)
Subtree(a) == {b \in Addresses : IsBelow(b, a)}

(* A list without the nodes that are gone.                                 *)
Kept(s, gone) ==
  LET kept[i \in 0 .. Len(s)] ==
        IF i = 0 THEN <<>> ELSE IF s[i] \in gone THEN kept[i - 1] ELSE Append(kept[i - 1], s[i])
  IN kept[Len(s)]
Without(s, a) == Kept(s, {a})

(* addChild(): the child leaves the root list, if it is a root, and is the *)
(* last of the parent's children; no other list of children loses it.      *)
AddChild(a, p, roots, children) ==
  /\ m_rootNodes' = Without(roots, a)
  /\ m_children' = [children EXCEPT ![p] = Append(@, a)]

Create(a, p) ==
  /\ UserCode /\ a \notin alive
  /\ p \in alive \union {None} /\ ~Iterated(p)
  /\ alive' = alive \union {a}
  /\ m_parent' = [m_parent EXCEPT ![a] = p]
  /\ IF p = None
     THEN m_rootNodes' = Append(m_rootNodes, a) /\ UNCHANGED m_children
     ELSE AddChild(a, p, m_rootNodes, m_children)
  /\ UNCHANGED <<marked, m_childrenToDelete, m_nodesToDelete, pass, walk, forgotten>>

(* User code may move a to p.                                              *)
Movable(a, p) ==
  /\ UserCode /\ a \in alive
  /\ a \in marked => MovesMarked
  /\ ~Active(a) /\ a \notin Range(pass) /\ ~Iterated(m_parent[a]) /\ ~Iterated(p)
  /\ p = None \/ (p \in alive /\ ~IsBelow(p, a))

(* The public addChild(), which leaves the child of another node in the    *)
(* list it was in.                                                         *)
AddToParent(a, p) ==
  /\ p # None /\ (m_parent[a] # None => TwoParents)
  /\ Movable(a, p)
  /\ AddChild(a, p, m_rootNodes, m_children)
  /\ m_parent' = [m_parent EXCEPT ![a] = p]
  /\ UNCHANGED <<alive, marked, m_childrenToDelete, m_nodesToDelete, pass, walk, forgotten>>

SetParent_KeepsRoot(a, p) ==
  /\ Movable(a, p)
  /\ LET out == IF m_parent[a] = None THEN m_children
                ELSE [m_children EXCEPT ![m_parent[a]] = Without(@, a)] IN
     m_children' = IF p = None THEN out ELSE [out EXCEPT ![p] = Append(@, a)]
  /\ m_rootNodes' = IF p = None THEN Append(Without(m_rootNodes, a), a) ELSE m_rootNodes
  /\ m_parent' = [m_parent EXCEPT ![a] = p]
  /\ UNCHANGED <<alive, marked, m_childrenToDelete, m_nodesToDelete, pass, walk, forgotten>>
(* What is to be deleted stays in the list of the old parent or the loop.  *)
SetParent(a, p) ==
  /\ Movable(a, p)
  /\ LET out == IF m_parent[a] = None THEN m_children
                ELSE [m_children EXCEPT ![m_parent[a]] = Without(@, a)] IN
     IF p = None THEN m_children' = out /\ m_rootNodes' = Append(Without(m_rootNodes, a), a)
     ELSE AddChild(a, p, m_rootNodes, out)
  /\ m_parent' = [m_parent EXCEPT ![a] = p]
  /\ UNCHANGED <<alive, marked, m_childrenToDelete, m_nodesToDelete, pass, walk, forgotten>>

(* pushDeleteChild().                                                      *)
PushDeleteChild(p, a) ==
  m_childrenToDelete' =
    IF a \in Range(m_children[p]) THEN [m_childrenToDelete EXCEPT ![p] = Append(@, a)]
    ELSE m_childrenToDelete

(* deleteLater(), with markToDelete(), of any node, once more too.         *)
DeleteLater(a) ==
  LET p == m_parent[a] IN
  /\ UserCode /\ a \in alive
  /\ p # None => Len(m_childrenToDelete[p]) < MaxListed
  /\ marked' = marked \union {a} /\ forgotten' = forgotten \ {a}
  /\ IF p = None
     THEN m_nodesToDelete' = m_nodesToDelete \union {a} /\ UNCHANGED m_childrenToDelete
     ELSE PushDeleteChild(p, a) /\ UNCHANGED m_nodesToDelete
  /\ UNCHANGED <<alive, m_parent, m_children, m_rootNodes, pass, walk>>

(* The destructors of the nodes in dead and of everything below them: each *)
(* takes its node out of the lists of the parent it names.                 *)
Gone(dead) == UNION {Subtree(a) : a \in dead}
Left(list, p, gone) == Kept(list, {a \in gone : m_parent[a] = p})
ListsWithout(gone) ==
  [a \in Addresses |-> IF a \in gone THEN <<>> ELSE Left(m_childrenToDelete[a], a, gone)]
Destroy(dead) ==
  LET gone == Gone(dead) IN
  /\ alive' = alive \ gone
  /\ marked' = marked \ gone
  /\ m_parent' = [a \in Addresses |-> IF a \in gone THEN None ELSE m_parent[a]]
  /\ m_children' = [a \in Addresses |-> IF a \in gone THEN <<>> ELSE Left(m_children[a], a, gone)]
  /\ m_rootNodes' = Kept(m_rootNodes, gone)

BeginPass ==
  /\ ~InPass /\ alive # {}
  /\ Destroy(m_nodesToDelete \intersect alive)
  /\ m_childrenToDelete' = ListsWithout(Gone(m_nodesToDelete \intersect alive))
  /\ m_nodesToDelete' = {}
  /\ pass' = m_rootNodes' /\ forgotten' = forgotten \intersect alive'
  /\ UNCHANGED walk

(* The loop over m_childrenToDelete of p in run().  The destructor of a    *)
(* child of p erases it from that vector: the elements behind it move down *)
(* by one, while the loop goes on over the positions of the start.         *)
Visit(p, acc, i) ==
  LET v == acc.mem[i]
      kept == IF m_parent[v] = p THEN Without(SubSeq(acc.mem, 1, acc.size), v)
              ELSE SubSeq(acc.mem, 1, acc.size) IN
  IF v \notin alive \/ v \in Gone(acc.dead) THEN acc
  ELSE [mem |-> kept \o SubSeq(acc.mem, Len(kept) + 1, Len(acc.mem)),
        size |-> Len(kept), dead |-> acc.dead \union {v}]
Swept(p, list) ==
  LET swept[i \in 0 .. Len(list)] ==
        IF i = 0 THEN [mem |-> list, size |-> Len(list), dead |-> {}]
        ELSE Visit(p, swept[i - 1], i)
  IN swept[Len(list)].dead

(* The history variable takes note of a marked child that the list loses   *)
(* undeleted, where the code loses one: a list of three or more is swept,  *)
(* or run() clears the list after update().                                *)
Skipped(p, list) == IF Len(list) > 2 THEN Range(list) \ Swept(p, list) ELSE {}

EnterRun(a) ==
  LET list == m_childrenToDelete[a]  dead == Swept(a, list) IN
  /\ Destroy(dead)
  /\ m_childrenToDelete' = [ListsWithout(Gone(dead)) EXCEPT ![a] = <<>>]
  /\ forgotten' = (forgotten \union Skipped(a, list)) \intersect alive'
  /\ UNCHANGED m_nodesToDelete

RunRoot ==
  /\ walk = <<>> /\ pass # <<>>
  /\ EnterRun(Head(pass))
  /\ pass' = Tail(pass)
  /\ walk' = <<[n |-> Head(pass), next |-> 1]>>

RunChild ==
  /\ walk # <<>> /\ ~Updating /\ Top.next <= Len(m_children[Top.n])
  /\ LET a == m_children[Top.n][Top.next] IN
       /\ EnterRun(a)
       /\ walk' = Append([walk EXCEPT ![Len(walk)].next = @ + 1], [n |-> a, next |-> 1])
  /\ UNCHANGED pass

BeginUpdate ==
  /\ walk # <<>> /\ ~Updating /\ Top.next > Len(m_children[Top.n])
  /\ walk' = [walk EXCEPT ![Len(walk)].next = None]
  /\ UNCHANGED <<treeVars, pass, forgotten>>

(* update() returns, and run() clears m_childrenToDelete once more.        *)
EndRun ==
  /\ Updating
  /\ m_childrenToDelete' = [m_childrenToDelete EXCEPT ![Top.n] = <<>>]
  /\ forgotten' = forgotten \union Range(m_childrenToDelete[Top.n])
  /\ walk' = SubSeq(walk, 1, Len(walk) - 1)
  /\ UNCHANGED <<alive, marked, m_parent, m_children, m_rootNodes, m_nodesToDelete, pass>>

Next ==
  \/ \E a \in Addresses, p \in Addresses \union {None} :
       Create(a, p) \/ SetParent(a, p) \/ AddToParent(a, p)
  \/ \E a \in Addresses : DeleteLater(a)
  \/ BeginPass \/ RunRoot \/ RunChild \/ BeginUpdate \/ EndRun

-----------------------------------------------------------------------------
(* Every live node hangs in the tree exactly once, under the parent it     *)
(* names or in the loop's root list, and no list of the tree, of the loop  *)
(* or of the pass in progress holds a deleted node or one that has come to *)
(* live at its address.                                                    *)
HangsOnce ==
  /\ \A p \in Addresses :
       IsInjective(m_children[p]) /\ \A a \in Range(m_children[p]) : a \in alive /\ m_parent[a] = p
  /\ IsInjective(m_rootNodes) /\ \A a \in Range(m_rootNodes) : a \in alive /\ m_parent[a] = None
  /\ \A a \in alive :
       IF m_parent[a] = None THEN a \in Range(m_rootNodes)
       ELSE m_parent[a] \in alive /\ a \in Range(m_children[m_parent[a]])
TreeConsistent ==
  /\ HangsOnce
  /\ \A p \in Addresses : \A a \in Range(m_childrenToDelete[p]) : a \in marked /\ m_parent[a] = p
  /\ m_nodesToDelete \subseteq marked /\ marked \subseteq alive /\ Range(pass) \subseteq alive
  /\ \A i \in DOMAIN walk : walk[i].n \in alive

(* "Schedules this node for deletion on the next event-loop iteration.     *)
(* Safe to call from within update()" (Node.h:82-85): a node on which      *)
(* deleteLater() was called stays in a list that gets it deleted.          *)
Pending(a) ==
  IF m_parent[a] = None THEN a \in m_nodesToDelete
  ELSE a \in Range(m_childrenToDelete[m_parent[a]])
MarkedArePending == \A a \in marked : Pending(a)
(* And what is so of run(): only what it skips in a list of three or more, *)
(* or clears after update(), is lost, until its next deleteLater().        *)
OthersArePending == \A a \in marked \ forgotten : Pending(a)

-----------------------------------------------------------------------------
(* The inductive invariant.  What is marked is in one list, that of its    *)
(* parent or the loop's; the pass has still to tick roots only, and its    *)
(* run() calls are a path from a root down the tree.                       *)
TypeOK ==
  /\ alive \subseteq Addresses
  /\ m_parent \in [Addresses -> Addresses \union {None}]
  /\ m_children \in [Addresses -> Seq(Addresses)]
  /\ m_childrenToDelete \in [Addresses -> Seq(Addresses)]
  /\ m_rootNodes \in Seq(Addresses) /\ pass \in Seq(Addresses)
  /\ walk \in Seq([n : Addresses, next : (Nat \ {0}) \union {None}])

DeletesListed ==
  /\ marked \subseteq alive
  /\ \A p \in Addresses :
       /\ p \notin alive => m_childrenToDelete[p] = <<>>
       /\ \A a \in Range(m_childrenToDelete[p]) : a \in marked /\ m_parent[a] = p
  /\ \A a \in m_nodesToDelete : a \in marked /\ m_parent[a] = None
  /\ OthersArePending

WalkGoesDown ==
  /\ \A a \in Range(pass) : a \in alive /\ m_parent[a] = None
  /\ \A i \in DOMAIN walk :
       /\ walk[i].n \in alive
       /\ m_parent[walk[i].n] = IF i = 1 THEN None ELSE walk[i - 1].n
  /\ \A i, j \in DOMAIN walk : walk[i].n = walk[j].n => i = j

Inv == TypeOK /\ HangsOnce /\ DeletesListed /\ WalkGoesDown
=============================================================================
