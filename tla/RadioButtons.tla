---------------------------- MODULE RadioButtons ----------------------------
(***************************************************************************)
(* RadioButton: buttons are linked into groups by exchanging weak pointers *)
(* to each other, there is no group object; selecting a button clears its  *)
(* linked peers one after the other and emits stateChanged for each, so    *)
(* that a slot sees the group half way through.  Buttons die at any time.  *)
(***************************************************************************)
EXTENDS Naturals, Sequences, Functions

CONSTANTS Buttons,
          SlotsSelect   \* TRUE: a slot of stateChanged selects another button

VARIABLES alive,        \* the buttons that are neither destroyed nor marked
          linked,       \* linked[b]: m_linkedButtons, in the order they were added
          selected,     \* the buttons whose m_selected is set
          clicks        \* the click in progress: [button, peers still to visit], <<>>: none

radioVars == <<alive, linked, selected, clicks>>

Init ==
    /\ alive = Buttons
    /\ linked = [b \in Buttons |-> <<>>]
    /\ selected = {}
    /\ clicks = <<>>

\* The buttons of a list that are among some, in their order.
Those(list, some) ==
    LET those[n \in 0..Len(list)] ==
            IF n = 0 THEN <<>>
            ELSE IF list[n] \in some THEN Append(those[n - 1], list[n]) ELSE those[n - 1]
    IN  those[Len(list)]

\* linkedPeers(): the pointers that still lead somewhere.
LinkedPeers(b) == Those(linked[b], alive)

\* addLinkedPeer() for every other member of the group.
Introduced(b, group) == linked[b] \o Those(group, Buttons \ ({b} \cup Range(LinkedPeers(b))))

\* Mutant: only the two buttons of the call learn of each other.
Group_PairOnly(a, b) == <<a, b>>

\* link(): this, its peers, other, and the peers of other, each once.
Group(a, b) ==
    LET mine == <<a>> \o LinkedPeers(a)
        both == IF b \in Range(mine) THEN mine ELSE Append(mine, b)
    IN  both \o Those(LinkedPeers(b), Buttons \ Range(both))

\* Only the first selected button of the merged group keeps its state; the
\* others lose it without a signal.
Merged(group) ==
    LET chosen == Those(group, selected)
    IN  IF chosen = <<>> THEN selected ELSE selected \ Range(Tail(chosen))

\* Called while no click is being handled.
Link(a, b) ==
    /\ a # b /\ {a, b} \subseteq alive /\ clicks = <<>>
    /\ LET group == Group(a, b)
       IN  /\ linked' = [p \in Buttons |-> IF p \in Range(group) THEN Introduced(p, group) ELSE linked[p]]
           /\ selected' = Merged(group)
    /\ UNCHANGED <<alive, clicks>>

\* setSelectedInternal(selected, false): nothing is emitted, nothing runs in
\* between.
Silently(b, on) ==
    IF on THEN (selected \ Range(LinkedPeers(b))) \cup {b} ELSE selected \ {b}

SetSelected(b, on) ==
    /\ b \in alive /\ clicks = <<>>
    /\ selected' = Silently(b, on)
    /\ UNCHANGED <<alive, linked, clicks>>

\* renderImGui(): a click on a button that is not selected; linkedPeers() is
\* a copy of the pointers.
Click(b) ==
    /\ b \in alive \ selected /\ clicks = <<>>
    /\ clicks' = <<[button |-> b, peers |-> LinkedPeers(b)]>>
    /\ UNCHANGED <<alive, linked, selected>>

\* Mutant: the peers are cleared only if one of them is the first in the list.
Cleared_First(c, p) == IF p = linked[c.button][1] THEN selected \ {p} ELSE selected

Cleared(c, p) == selected \ {p}

\* One peer of the copy; its slot may select any button.
VisitPeer ==
    /\ clicks # <<>> /\ clicks[1].peers # <<>>
    /\ LET c == clicks[1]   p == Head(c.peers)
       IN  /\ clicks' = <<[c EXCEPT !.peers = Tail(@)]>>
           /\ selected' \in {Cleared(c, p)} \cup
                   {(Cleared(c, p) \ Range(LinkedPeers(b))) \cup {b} :
                       b \in IF SlotsSelect /\ p \in selected THEN alive ELSE {}}
    /\ UNCHANGED <<alive, linked>>

\* The loop over the peers is done: the button itself.
FinishClick ==
    /\ clicks # <<>> /\ clicks[1].peers = <<>>
    /\ selected' = selected \cup {clicks[1].button}
    /\ clicks' = <<>>
    /\ UNCHANGED <<alive, linked>>

\* deleteLater() or the destructor, while no click is being handled.
Die(b) ==
    /\ b \in alive /\ clicks = <<>>
    /\ alive' = alive \ {b}
    /\ selected' = selected \ {b}
    /\ UNCHANGED <<linked, clicks>>

Next ==
    \/ \E a, b \in Buttons : Link(a, b)
    \/ \E b \in Buttons, on \in BOOLEAN : SetSelected(b, on)
    \/ \E b \in Buttons : Click(b)
    \/ VisitPeer
    \/ FinishClick
    \/ \E b \in Buttons : Die(b)

Spec == Init /\ [][Next]_radioVars

-----------------------------------------------------------------------------
\* The links of the living buttons are an equivalence relation, whatever the
\* order in which buttons were linked and died: link() has no group to look at.
LinksAreGroups ==
    \A a, b \in alive :
        b \in Range(linked[a]) =>
            /\ a # b /\ a \in Range(linked[b])
            /\ \A c \in alive \ {a} : c \in Range(linked[b]) => c \in Range(linked[a])

\* At most one button of a group is selected when nothing is being clicked.
OneSelected ==
    clicks = <<>> => \A a, b \in selected : a # b => b \notin Range(linked[a])

\* Linked radio buttons exclude each other.
GroupsExclude == LinksAreGroups /\ OneSelected

-----------------------------------------------------------------------------
(* What GroupsExclude rests on.                                            *)

Clicks == [button : Buttons, peers : Seq(Buttons)]

TypeOK ==
    /\ alive \subseteq Buttons /\ selected \subseteq alive
    /\ linked \in [Buttons -> Seq(Buttons)]
    /\ clicks \in {<<>>} \cup {<<c>> : c \in Clicks}

\* Selected buttons are not linked, and those that are linked to the button of
\* the click are still to be visited.
ClickClears ==
    /\ \A a, b \in selected : a # b => b \notin Range(linked[a])
    /\ clicks # <<>> =>
          /\ clicks[1].button \in alive
          /\ selected \cap Range(linked[clicks[1].button]) \subseteq Range(clicks[1].peers)

Inv == TypeOK /\ LinksAreGroups /\ ClickClears
=============================================================================
