---------------------------- MODULE PagedWidgets ----------------------------
(***************************************************************************)
(* The two containers that show one page at a time: Tabs, behind an ImGui  *)
(* tab bar, and StackedWidget, switched by the program only.  Both keep a  *)
(* list of weak pointers to their pages and a current index; the pages     *)
(* themselves belong to the node tree, so that a page can die, or be taken *)
(* by the other container, while an entry still points at it.              *)
(* Indices count from 1 here and 0 stands for the code's -1.               *)
(***************************************************************************)
EXTENDS Naturals, Sequences, SequencesExt

CONSTANTS Pages,     \* the page widgets of the program
          MaxTabs    \* bound: entries in the container

VARIABLES kind,      \* "tabs" or "stack": which of the two containers it is
          owner,     \* owner[p]: parent() of page p; "gone" once it is marked to delete or destroyed
          box,       \* the members of the container: [pages, current, force, told]
          bar,       \* ImGui: the tab that is selected in the bar, 0: it has to pick one
          queued     \* ImGui: the tab to select from the next frame on, 0: none

pagedVars == <<kind, owner, box, bar, queued>>

\* force is m_selectCurrentOnNextRender, told the last index the listeners of
\* currentChanged can rely on: the one emitted last, or the first page's,
\* which is selected without a signal.
Init ==
    /\ kind \in {"tabs", "stack"}
    /\ owner = [p \in Pages |-> "other"]
    /\ box = [pages |-> <<>>, current |-> 0, force |-> FALSE, told |-> 0]
    /\ bar = 0
    /\ queued = 0

\* widgetAt(): a page that is marked or destroyed is not there any more.
Live == {i \in 1..Len(box.pages) : owner[box.pages[i]] # "gone"}

\* updateCurrentIndex(): a signal only for a change.
UpdateCurrentIndex(w, i, emit) ==
    IF i > Len(w.pages) \/ w.current = i THEN w
    ELSE [w EXCEPT !.current = i, !.told = IF emit THEN i ELSE w.told]

\* addTab() and addWidget(): the first page becomes current silently.
Added(w, p) ==
    LET more == [w EXCEPT !.pages = Append(@, p)]
    IN  IF w.current # 0 THEN more
        ELSE [UpdateCurrentIndex(more, 1, FALSE) EXCEPT !.force = TRUE, !.told = 1]

\* normalizeCurrentIndexAfterRemoval(), w without the entry already.
Normalized(w, removed) ==
    LET next == CASE w.current > removed -> w.current - 1
                  [] w.current = removed -> Min({removed, Len(w.pages)})
                  [] OTHER -> w.current
    IN  IF w.pages = <<>> THEN [UpdateCurrentIndex(w, 0, TRUE) EXCEPT !.force = FALSE]
        ELSE [UpdateCurrentIndex(w, Max({next, 1}), TRUE) EXCEPT !.force = TRUE]

Without(w, i) == Normalized([w EXCEPT !.pages = RemoveAt(@, i)], i)

\* addTab() and addWidget(): setPageWidget() takes the page from its owner.
Add(p) ==
    /\ owner[p] # "gone"
    /\ Len(box.pages) < MaxTabs
    /\ owner' = [owner EXCEPT ![p] = "this"]
    /\ box' = Added(box, p)
    /\ UNCHANGED <<kind, bar, queued>>

\* A page is deleted with its entry if the container still owns it.
Released(ps) == [p \in Pages |-> IF p \in ps /\ owner[p] = "this" THEN "gone" ELSE owner[p]]

\* The bar knows a tab by its index and title: the ones behind a removed one
\* are new to it.
RemoveEntry(i) ==
    /\ owner' = Released({box.pages[i]})
    /\ box' = Without(box, i)
    /\ bar' = IF bar < i THEN bar ELSE 0
    /\ queued' = IF queued < i THEN queued ELSE 0
    /\ kind' = kind

RemoveTab(i) == kind = "tabs" /\ i <= Len(box.pages) /\ RemoveEntry(i)

\* indexOf(): the first live entry; a page that died is not found any more.
IndexOf(p) == {i \in Live : box.pages[i] = p /\ \A j \in 1..(i - 1) : box.pages[j] # p}

RemoveWidget(p) == kind = "stack" /\ \E i \in IndexOf(p) : RemoveEntry(i)

Clear ==
    /\ owner' = Released(Range(box.pages))
    /\ box' = UpdateCurrentIndex([box EXCEPT !.pages = <<>>], 0, TRUE)
    /\ bar' = 0
    /\ queued' = 0
    /\ kind' = kind

SetCurrentIndex(i) ==
    /\ i <= Len(box.pages)
    /\ box' = [UpdateCurrentIndex(box, i, TRUE) EXCEPT !.force = kind = "tabs"]
    /\ UNCHANGED <<kind, owner, bar, queued>>

SetCurrentWidget(p) == kind = "stack" /\ \E i \in IndexOf(p) : SetCurrentIndex(i)

\* BeginTabBar() of one frame: a queued tab that is submitted becomes the
\* selected one, else the old one stays, else the bar picks.
Selectable ==
    LET live == Live
    IN  CASE queued \in live -> {queued}
          [] queued \notin live /\ bar \in live -> {bar}
          [] queued \notin live /\ bar \notin live /\ live # {} -> live
          [] OTHER -> {0}

\* Mutant: the forced selection is dropped after one frame.
RenderedBar_ForcesOnce(sel) ==
    LET index == IF sel # 0 THEN sel ELSE Max({box.current, 1})
    IN  CASE box.pages = <<>> -> box
          [] box.pages # <<>> /\ box.force -> [box EXCEPT !.force = FALSE]
          [] OTHER -> UpdateCurrentIndex(box, index, TRUE)

\* renderTabBar(): while the selection is forced the bar is told what is
\* current, and is believed again once it shows that; otherwise the bar says
\* what is current.
RenderedBar(sel) ==
    LET index == IF sel # 0 THEN sel ELSE Max({box.current, 1})
    IN  CASE box.pages = <<>> -> box
          [] box.pages # <<>> /\ box.force -> [box EXCEPT !.force = index # box.current]
          [] OTHER -> UpdateCurrentIndex(box, index, TRUE)

\* One frame of Tabs, in which the user may click a tab.  What is queued last
\* counts, and the click and the forced tab come in the order of the tabs.
RenderTabBar(click) ==
    \E sel \in Selectable :
        /\ kind = "tabs"
        /\ click \in Live \cup {0}
        /\ box' = RenderedBar(sel)
        /\ bar' = sel
        /\ queued' \in {click} \cup (IF box.force THEN {box.current} \cap Live ELSE {})
        /\ UNCHANGED <<kind, owner>>

\* The page is deleted elsewhere, or another parent takes it.
PageLeaves(p) ==
    /\ owner[p] # "gone"
    /\ \E o \in {"gone", "other"} : owner' = [owner EXCEPT ![p] = o]
    /\ UNCHANGED <<kind, box, bar, queued>>

Next ==
    \/ \E p \in Pages : Add(p)
    \/ \E i \in 1..MaxTabs : RemoveTab(i)
    \/ \E p \in Pages : RemoveWidget(p)
    \/ Clear
    \/ \E i \in 1..MaxTabs : SetCurrentIndex(i)
    \/ \E p \in Pages : SetCurrentWidget(p)
    \/ \E click \in 0..MaxTabs : RenderTabBar(click)
    \/ \E p \in Pages : PageLeaves(p)

Spec == Init /\ [][Next]_pagedVars

-----------------------------------------------------------------------------
\* There is a current page as soon as there are pages, the listeners know
\* which one, and a bar that is not being forced agrees with it, whatever was
\* added, removed, clicked or deleted, as long as the current page lives.
CurrentIsKnown ==
    /\ box.current <= Len(box.pages)
    /\ box.current = 0 <=> box.pages = <<>>
    /\ box.told = box.current
    /\ (kind = "tabs" /\ ~box.force /\ box.current \in Live) => bar = box.current

\* Taking a page out never changes which of the other pages is current.
OthersStayCurrent ==
    \A i \in 1..Len(box.pages) :
        (box'.pages = RemoveAt(box.pages, i) /\ box.current # i /\ IsInjective(box.pages))
            => box'.pages[box'.current] = box.pages[box.current]

\* Tabs and StackedWidget keep their current page through every change of
\* their pages, and ImGui's bar with it.
PagesConsistent == []CurrentIsKnown /\ [][OthersStayCurrent]_pagedVars

-----------------------------------------------------------------------------
(* What CurrentIsKnown rests on.                                           *)

TypeOK ==
    /\ kind \in {"tabs", "stack"}
    /\ box \in [pages : Seq(Pages), current : Nat, force : BOOLEAN, told : Nat]
    /\ bar \in Nat

\* The current index points at a page, if there are any, and the listeners
\* know it.
Current(w) ==
    /\ w.current <= Len(w.pages)
    /\ w.current = 0 <=> w.pages = <<>>
    /\ w.told = w.current

Inv == TypeOK /\ CurrentIsKnown
=============================================================================
