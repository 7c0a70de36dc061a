--------------------------- MODULE WidgetGeometry ---------------------------
(***************************************************************************)
(* How the containers of SNFWidgets share out the space they get: Splitter *)
(* between two panes, the boxes between their items, ScrollArea between    *)
(* its content and the scroll bars, LineEdit between the input and its     *)
(* texts.  Pixels are whole numbers here, and a quotient is rounded down.  *)
(***************************************************************************)
EXTENDS Integers, Sequences, SequencesExt

CONSTANTS MaxSize,     \* bound: the sizes that a frame offers are 0..MaxSize
          Widgets,     \* the widgets a layout can hold
          Hint,        \* Hint[w]: the extent of its sizeHint()
          Spacing,     \* the space between two items, and the thickness of a scroll bar
          MaxItems     \* bound: the items of the layout

Sizes == 0..MaxSize

VARIABLES subject,     \* the container the run is about
          split,       \* Splitter: [part, whole: m_ratio, pMin, sMin, handle]
          panes,       \* Splitter: the geometry of the last frame
          items,       \* Layout: m_items
          dead,        \* the widgets that are marked or destroyed
          offered      \* the space that the last frame offered

geometryVars == <<subject, split, panes, items, dead, offered>>

Init ==
    /\ subject \in {"splitter", "layout", "scroll", "line"}
    /\ split = [part |-> 1, whole |-> 2, pMin |-> 0, sMin |-> 0, handle |-> 1]
    /\ panes = [primary |-> 0, secondary |-> 0, handle |-> 0, total |-> 0]
    /\ items = <<>>
    /\ dead = {}
    /\ offered = 0

-----------------------------------------------------------------------------
\* Splitter.  Mutant: the minimum of the second pane is not looked at.
ClampPrimarySize_First(s, desired, total) == Max({Min({desired, total}), Min({s.pMin, total})})

\* clampPrimarySize(): the minima, or their proportion if they do not fit.
ClampPrimarySize(s, desired, total) ==
    LET p == Min({s.pMin, total})
        q == Min({s.sMin, total})
    IN  IF total = 0 THEN 0
        ELSE IF p + q > total THEN (total * p) \div (p + q)
        ELSE Min({Max({desired, p}), Max({p, total - q})})

CalculateGeometry(s, axis) ==
    LET handle  == Min({Max({1, s.handle}), axis})
        total   == Max({0, axis - handle})
        primary == ClampPrimarySize(s, (total * s.part) \div s.whole, total)
    IN  [primary |-> primary, secondary |-> Max({0, total - primary}), handle |-> handle, total |-> total]

\* updateRatioFromPrimarySize(): the ratio is that of the clamped size.
Dragged(s, primary, total) ==
    IF total = 0 THEN [s EXCEPT !.part = 0, !.whole = 1]
    ELSE [s EXCEPT !.part = ClampPrimarySize(s, primary, total), !.whole = total]

SetSizes(p, q) ==
    /\ subject = "splitter" /\ p + q > 0
    /\ split' = [split EXCEPT !.part = p, !.whole = p + q]
    /\ UNCHANGED <<subject, panes, items, dead, offered>>

SetMinimumSizes(p, q) ==
    /\ subject = "splitter"
    /\ split' = [split EXCEPT !.pMin = p, !.sMin = q]
    /\ UNCHANGED <<subject, panes, items, dead, offered>>

\* A frame in which the handle is dragged by delta, or not.
RenderSplitter(axis, delta) ==
    /\ subject = "splitter"
    /\ panes' = CalculateGeometry(split, axis)
    /\ split' = IF delta = 0 THEN split ELSE Dragged(split, panes'.primary + delta, panes'.total)
    /\ offered' = axis
    /\ UNCHANGED <<subject, items, dead>>

-----------------------------------------------------------------------------
\* Layout.  addWidget(): a widget that is there already only gets the stretch.
AddWidget(w, stretch) ==
    /\ subject = "layout" /\ w \notin dead
    /\ LET at == {i \in 1..Len(items) : items[i].widget = w}
       IN  IF at # {} THEN items' = [i \in 1..Len(items) |->
                                        IF i \in at THEN [items[i] EXCEPT !.stretch = stretch] ELSE items[i]]
           ELSE /\ Len(items) < MaxItems
                /\ items' = Append(items, [type |-> "Widget", widget |-> w, stretch |-> stretch, fixed |-> 0])
    /\ UNCHANGED <<subject, split, panes, dead, offered>>

\* addSpacing() and addStretch(): factors below 1 become 1.
AddSpace(type, n) ==
    /\ subject = "layout" /\ Len(items) < MaxItems
    /\ items' = Append(items, [type |-> type, widget |-> type,
                               stretch |-> IF type = "StretchSpacer" THEN Max({1, n}) ELSE 0,
                               fixed |-> IF type = "FixedSpacer" THEN n ELSE 0])
    /\ UNCHANGED <<subject, split, panes, dead, offered>>

RemoveWidget(w) ==
    /\ subject = "layout"
    /\ items' = SelectSeq(items, LAMBDA item : item.widget # w)
    /\ UNCHANGED <<subject, split, panes, dead, offered>>

WidgetDies(w) ==
    /\ subject = "layout"
    /\ dead' = dead \cup {w}
    /\ UNCHANGED <<subject, split, panes, items, offered>>

\* activeItems(): the entry of a dead widget stays, but takes no part.
ActiveItems == SelectSeq(items, LAMBDA item : item.widget \notin dead)

Extent(item) == IF item.type = "Widget" THEN Hint[item.widget] ELSE item.fixed

\* Mutant: the space between the items is shared out, too.
Remaining_NoSpacing(active, space) ==
    LET fixed == FoldLeft(LAMBDA n, item : n + Extent(item), 0, active)
    IN  Max({0, space - fixed})

\* What is left for the items with a stretch, renderImGui().
Remaining(active, space) ==
    LET fixed == FoldLeft(LAMBDA n, item : n + Extent(item), 0, active)
    IN  Max({0, space - fixed - Spacing * Max({Len(active) - 1, 0})})

\* The extents of the items, in order: hint plus a share of what is left.
Shares(active, space) ==
    LET all == FoldLeft(LAMBDA n, item : n + item.stretch, 0, active)
    IN  [i \in 1..Len(active) |->
            Extent(active[i]) +
                IF all > 0 THEN (Remaining(active, space) * active[i].stretch) \div all ELSE 0]

\* sizeHint() of the box: the extents and the space between them.
BoxHint(active) ==
    FoldLeft(LAMBDA n, item : n + Extent(item), 0, active) + Spacing * Max({Len(active) - 1, 0})

RenderLayout(space) ==
    /\ subject = "layout"
    /\ offered' = space
    /\ UNCHANGED <<subject, split, panes, items, dead>>

-----------------------------------------------------------------------------
\* ScrollArea.  A bar is an axis, "h" or "v"; view and hint give the extents
\* along x and y, and policy says of each bar if it is "AlwaysOn", "AlwaysOff"
\* or "AsNeeded".  A horizontal bar takes from the height, a vertical one from
\* the width.
Available(view, bars) ==
    [x |-> Max({0, view.x - IF "v" \in bars THEN Spacing ELSE 0}),
     y |-> Max({0, view.y - IF "h" \in bars THEN Spacing ELSE 0})]

Desired(resizable, avail, hint) == IF resizable \/ hint = 0 THEN Max({avail, hint}) ELSE hint

\* The bars that are forced, or needed in the space that is available.
Needed(view, hint, policy, resizable, bars) ==
    LET a == Available(view, bars)
        over == [h |-> Desired(resizable, a.x, hint.x) > a.x, v |-> Desired(resizable, a.y, hint.y) > a.y]
    IN  {b \in {"h", "v"} : policy[b] = "AlwaysOn" \/ (policy[b] # "AlwaysOff" /\ over[b])}

\* Mutant: one pass only.
ContentBars_OnePass(view, hint, policy, resizable) == Needed(view, hint, policy, resizable, {})

\* contentMetricsForViewport(): a second pass with the space that the bars of
\* the first one leave; a bar that it adds takes its space, too.
ContentBars(view, hint, policy, resizable) ==
    LET first == Needed(view, hint, policy, resizable, {})
    IN  first \cup Needed(view, hint, policy, resizable, first)

-----------------------------------------------------------------------------
\* LineEdit, renderWithAvailableWidth(): the width of the input, and what is
\* left for the texts (label and auxiliary text, given by their widths) taken
\* together.  The input has a gap to each of them.
Gaps(texts) == Spacing * Len(texts)

LineWidths(policy, space, texts, fixed, preferred, minimum) ==
    LET natural   == FoldLeft(+, 0, texts)
        Rest(n)   == Max({0, space - n - Gaps(texts)})
        byText(b) == LET text == Min({b, Rest(minimum)})
                     IN  [input |-> Max({minimum, space - text - Gaps(texts)}), text |-> text]
        byInput(n) == [input |-> n, text |-> Min({natural, Rest(n)})]
        wanted    == Min({space, Max({minimum, preferred})})
    IN  CASE policy = "TextPriority"   -> byText(natural)
          [] policy = "FixedTextWidth" -> byText(IF fixed > 0 THEN fixed ELSE natural)
          [] policy = "InputPriority"  -> byInput(IF preferred > 0 THEN wanted ELSE space)
          [] policy = "InputExpands"   -> byInput(IF preferred > 0 THEN wanted ELSE Min({byText(natural).input, space}))

\* A frame of a scroll area or of a line edit.
Render(space) ==
    /\ subject \in {"scroll", "line"}
    /\ offered' = space
    /\ UNCHANGED <<subject, split, panes, items, dead>>

Next ==
    \/ \E p, q \in {0, 1, 3} : SetSizes(p, q)
    \/ \E p, q \in {0, 2, MaxSize} : SetMinimumSizes(p, q)
    \/ \E axis \in Sizes, delta \in {-2, 0, 2} : RenderSplitter(axis, delta)
    \/ \E w \in Widgets, stretch \in {0, 2} : AddWidget(w, stretch)
    \/ \E type \in {"FixedSpacer", "StretchSpacer"}, n \in {0, 2} : AddSpace(type, n)
    \/ \E w \in Widgets : RemoveWidget(w)
    \/ \E w \in Widgets : WidgetDies(w)
    \/ \E space \in Sizes : RenderLayout(space)
    \/ \E space \in Sizes : Render(space)

Spec == Init /\ [][Next]_geometryVars

-----------------------------------------------------------------------------
\* The panes and the handle fill the axis exactly, without a negative size or an
\* overlap, and both minima are kept whenever there is room for both, whatever
\* was dragged before (calculateGeometry cuts a negative second pane to zero,
\* so that a first pane too large shows in the sum).
PanesFill ==
    /\ panes.primary >= 0 /\ panes.secondary >= 0 /\ panes.handle >= 0
    /\ panes.primary + panes.secondary + panes.handle = offered
    /\ LET g == CalculateGeometry(split, offered)
       IN  split.pMin + split.sMin <= g.total => g.primary >= split.pMin /\ g.secondary >= split.sMin

\* The items of a box do not reach past the space it was offered if they fit at
\* all, and use it up to rounding if one of them stretches.
BoxFills ==
    LET active == ActiveItems
        shares == Shares(active, offered)
        used   == FoldLeft(+, 0, shares) + Spacing * Max({Len(active) - 1, 0})
    IN  BoxHint(active) <= offered =>
            /\ used <= offered
            /\ (\E i \in 1..Len(active) : active[i].stretch > 0) => used > offered - Len(active)

\* The scroll bars that two passes find are the least set that is enough: no
\* bar is missing and none is needless.
BarsAreEnough ==
    \A other, hx, hy \in Sizes, resizable \in BOOLEAN,
       policy \in [{"h", "v"} -> {"AlwaysOn", "AlwaysOff", "AsNeeded"}] :
        LET view == [x |-> offered, y |-> other]
            hint == [x |-> hx, y |-> hy]
            bars == ContentBars(view, hint, policy, resizable)
        IN  /\ Needed(view, hint, policy, resizable, bars) = bars
            /\ \A fewer \in SUBSET bars : Needed(view, hint, policy, resizable, fewer) = fewer => fewer = bars

\* Once there is room for the smallest input and the gaps, input and texts of a
\* line edit do not overlap and take no more than its width.  The gaps fit in,
\* too, unless the input was given a width of its own: InputPriority, and a
\* preferred width, do not leave room for them, and what the texts are drawn
\* behind reaches past the edge by as much as the gaps.
LineFits ==
    \A policy \in {"TextPriority", "FixedTextWidth", "InputPriority", "InputExpands"},
       texts \in {<<>>, <<2>>, <<1, 2>>, <<MaxSize>>}, fixed, preferred \in {0, 2, MaxSize}, minimum \in {1, 3} :
        LET w == LineWidths(policy, offered, texts, fixed, preferred, minimum)
            ownWidth == \/ policy = "InputPriority"
                        \/ policy = "InputExpands" /\ preferred > 0
        IN  offered >= minimum + Gaps(texts) =>
               /\ w.input >= minimum /\ w.text >= 0 /\ w.input + w.text <= offered
               /\ (ownWidth => w.input + Gaps(texts) <= offered)
                     => w.input + w.text + Gaps(texts) <= offered

\* Every container shares out the space it got, and no more.
SpaceIsShared ==
    CASE subject = "splitter" -> PanesFill
      [] subject = "layout" -> BoxFills
      [] subject = "scroll" -> BarsAreEnough
      [] subject = "line" -> LineFits
=============================================================================
