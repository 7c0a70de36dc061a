----------------------------- MODULE WidgetTree -----------------------------
(***************************************************************************)
(* How a frame reaches the widgets: ApplicationNode opens the native       *)
(* window and draws its Widget children in every tick, a Window draws its  *)
(* children or, with a layout, what the layout does not hold, and a layout *)
(* draws its items wherever they are in the node tree.  The node tree and  *)
(* the layouts are two structures over the same widgets, and change        *)
(* between two frames and inside of one (frame and the slots of widgets).  *)
(***************************************************************************)
EXTENDS Naturals, FiniteSets, FiniteSetsExt

CONSTANTS Window,       \* the Window, a child of the ApplicationNode
          Outer, Inner, \* two layouts: Outer is the one setLayout() gets, Inner can be an item of it
          Leaves,       \* the other widgets
          None,         \* no parent: a widget that is not in the tree
          Foreign,      \* TRUE: a layout gets widgets of another parent or layout, or is used without setLayout()
          LayoutDies    \* TRUE: the layout of the window is deleted

Layouts == {Outer, Inner}
Nodes == {Window} \cup Layouts \cup Leaves
App == "app"

VARIABLES parent,       \* parent[n]: parent() of a widget, App for a child of the ApplicationNode
          marked,       \* the widgets that are marked to delete, until the next sweep
          gone,         \* the widgets that are destroyed
          items,        \* items[l]: the widgets of m_items
          layout,       \* Window::m_layout: a raw pointer
          hidden,       \* the widgets that are not m_visible
          phase,        \* ApplicationNode: "idle", "running", "ended", "failed"
          closing       \* glfwWindowShouldClose()

treeVars == <<parent, marked, gone, items, layout, hidden, phase, closing>>

Init ==
    /\ parent = [n \in Nodes |-> CASE n = Window -> App [] n = Outer -> Window [] OTHER -> None]
    /\ marked = {}
    /\ gone = {}
    /\ items = [l \in Layouts |-> {}]
    /\ layout = Outer
    /\ hidden = {}
    /\ phase = "idle"
    /\ closing = FALSE

Live == Nodes \ gone

\* isEffectivelyVisible(), isEffectivelyEnabled(): the widget and its parents.
\* The tree is four levels deep at most.
Up(n) == IF n \in Nodes THEN parent[n] ELSE None
Line(n) == {n, Up(n), Up(Up(n)), Up(Up(Up(n)))}
EffectivelyVisible(n) == Line(n) \cap hidden = {}

\* activeItems().
Active(l) == items[l] \ (marked \cup gone)

\* Mutant: only the items of the layout itself.
ContainsWidget_Flat(l, n) == n \in items[l] \ gone

\* containsWidget(): the items, and theirs.
ContainsWidget(l, n) ==
    n \in items[l] \ gone \/ \E k \in (items[l] \ gone) \cap Layouts : n \in items[k] \ gone

\* renderContents(): the widgets that the window draws itself.
OfWindow ==
    {n \in Live : parent[n] = Window /\ (layout = None \/ n = layout \/ ~ContainsWidget(layout, n))}

\* The widgets that m draws in a frame: ApplicationNode::renderWidgets(),
\* Window::renderContents(), and renderImGui() of the layouts.
DrawnBy(m) ==
    LET children == CASE m = App -> {n \in Live : parent[n] = App}
                      [] m = Window -> OfWindow
                      [] m \in Layouts -> Active(m)
                      [] OTHER -> {}
    IN  {n \in children : EffectivelyVisible(n)}

\* The widgets that draw n in a frame, and are drawn themselves.
Painters(n) ==
    LET drawing == {m \in Live : Window = m \/ m \in DrawnBy(Window) \/ \E k \in DrawnBy(Window) : m \in DrawnBy(k)}
    IN  {m \in {App} \cup (IF EffectivelyVisible(Window) THEN drawing ELSE {}) : n \in DrawnBy(m)}

-----------------------------------------------------------------------------
\* Layout::addWidget(): a widget without a parent becomes a child of the layout.
AddWidget(l, n) ==
    /\ {l, n} \subseteq Live \ marked /\ n \in Leaves \cup ({Inner} \ {l})
    /\ \/ Foreign
       \/ /\ l = Inner => Inner \in items[Outer]
          /\ parent[n] \in {None, Window, l}
          /\ \A k \in Layouts \ {l} : n \notin items[k]
    /\ items' = [items EXCEPT ![l] = @ \cup {n}]
    /\ parent' = IF parent[n] = None THEN [parent EXCEPT ![n] = l] ELSE parent
    /\ UNCHANGED <<marked, gone, layout, hidden, phase, closing>>

\* Layout::removeWidget(): the parent stays.
RemoveWidget(l, n) ==
    /\ l \in Live /\ n \in items[l]
    /\ Foreign \/ (n \in Layouts => items[n] = {})
    /\ items' = [items EXCEPT ![l] = @ \ {n}]
    /\ UNCHANGED <<parent, marked, gone, layout, hidden, phase, closing>>

\* setParent() by the program.
Reparent(n, p) ==
    /\ n \in (Leaves \cap Live) \ marked /\ parent[n] # p
    /\ \/ Foreign
       \/ (\E l \in Layouts : n \in items[l]) => p = Window
    /\ p \notin gone
    /\ parent' = [parent EXCEPT ![n] = p]
    /\ UNCHANGED <<marked, gone, items, layout, hidden, phase, closing>>

SetVisible(n) ==
    /\ n \in Live
    /\ hidden' = IF n \in hidden THEN hidden \ {n} ELSE hidden \cup {n}
    /\ UNCHANGED <<parent, marked, gone, items, layout, phase, closing>>

SetLayout(l) ==
    /\ l \in {Outer} \cup (IF Foreign THEN {None} ELSE {}) /\ l \notin gone
    /\ layout' = l
    /\ parent' = IF l = None THEN parent ELSE [parent EXCEPT ![l] = Window]
    /\ UNCHANGED <<marked, gone, items, hidden, phase, closing>>

\* deleteLater().
DeleteLater(n) ==
    /\ n \in (Live \ marked) \ {Window}
    /\ n = layout => LayoutDies
    /\ marked' = marked \cup {n}
    /\ UNCHANGED <<parent, gone, items, layout, hidden, phase, closing>>

\* run(): initWindow() fails, or the frames begin.
RunFails ==
    /\ phase = "idle"
    /\ phase' = "failed"
    /\ UNCHANGED <<parent, marked, gone, items, layout, hidden, closing>>

Run ==
    /\ phase = "idle"
    /\ phase' = "running"
    /\ UNCHANGED <<parent, marked, gone, items, layout, hidden, closing>>

\* tick(): the pending work of the event loop first, which destroys the marked
\* widgets with all their children, then the widgets are drawn.
Tick ==
    /\ phase = "running" /\ ~closing
    /\ gone' = gone \cup {n \in Nodes : Line(n) \cap marked # {}}
    /\ marked' = {}
    /\ UNCHANGED <<parent, items, layout, hidden, phase, closing>>

\* The user closes the native window; the loop of run() ends, shutdown is
\* emitted and destroyWindow() takes ImGui down.
CloseWindow ==
    /\ phase = "running"
    /\ closing' = TRUE
    /\ phase' = "ended"
    /\ UNCHANGED <<parent, marked, gone, items, layout, hidden>>

Next ==
    \/ \E l \in Layouts, n \in Leaves \cup {Inner} : AddWidget(l, n)
    \/ \E l \in Layouts, n \in Leaves \cup {Inner} : RemoveWidget(l, n)
    \/ \E n \in Leaves, p \in {Window, None} : Reparent(n, p)
    \/ \E n \in Nodes : SetVisible(n)
    \/ \E l \in {Outer, None} : SetLayout(l)
    \/ \E n \in Nodes : DeleteLater(n)
    \/ RunFails
    \/ Run
    \/ Tick
    \/ CloseWindow

Spec == Init /\ [][Next]_treeVars

-----------------------------------------------------------------------------
\* No widget is drawn twice in a frame, although a layout and a window may both
\* know it, and none is drawn that is destroyed.
DrawnOnce ==
    phase = "running" => \A n \in Nodes :
        /\ Cardinality(Painters(n)) <= 1
        /\ n \in gone => Painters(n) = {}

\* What a layout or the window holds is drawn, if it and what holds it can be
\* seen: nothing falls between the two.
NothingForgotten ==
    phase = "running" => \A n \in Live \ marked :
        LET holds == \E l \in Layouts : n \in items[l] /\ Painters(l) # {}
            seen == EffectivelyVisible(n) /\ EffectivelyVisible(Window)
        IN  (seen /\ (holds \/ (parent[n] = Window /\ \A l \in Layouts : n \notin items[l])))
                => Painters(n) # {}

\* m_layout is not a weak pointer: it has to be alive when a frame follows it.
LayoutIsAlive == layout # None => layout \notin gone

\* A frame draws what it should, and nothing else.
FramesDraw == LayoutIsAlive /\ DrawnOnce /\ NothingForgotten
=============================================================================
