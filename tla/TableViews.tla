----------------------------- MODULE TableViews -----------------------------
(***************************************************************************)
(* lib/Widgets: a TableView and a DataWidgetMapper on one AbstractTable-   *)
(* Model.  The model's rows and columns come and go; the view keeps a      *)
(* selection, a current cell and its hidden columns, the mapper a current  *)
(* row and the columns its LineEdits show, all of them as indexes that are *)
(* moved along by the model's signals.                                     *)
(*                                                                         *)
(* Rows and columns have identities here, which is what the indexes stand  *)
(* for.  Indexes start at 0, -1 is none.  When Linked, the view's          *)
(* currentIndexChanged sets the mapper's current index, as in the table    *)
(* example; MapperFirst says which of the two was given the model first    *)
(* and therefore hears of a change first.                                  *)
(***************************************************************************)
EXTENDS Integers, Sequences, SequencesExt, FiniteSets

CONSTANTS Linked, MapperFirst,
          Widgets,          \* the mapped LineEdits
          Resets,     \* whether modelReset may shrink the table
          Editable,   \* the cells the model lets be edited, by identity
          MaxRows, MaxCols, MaxSel

VARIABLES rows, cols,   \* the model: identities, in order
          data,         \* cells that have been edited, by identity
          view,         \* TableView
          mapper,       \* DataWidgetMapper
          edits         \* the mapped LineEdits: the text they show
tvVars == <<rows, cols, data, view, mapper, edits>>

NoText == <<0, 0, FALSE>>
RowId(rs, r) == IF r \in 0..(Len(rs) - 1) THEN rs[r + 1] ELSE 0
ColId(cs, c) == IF c \in 0..(Len(cs) - 1) THEN cs[c + 1] ELSE 0
TextOf(rs, cs, dt, r, c) == IF RowId(rs, r) = 0 \/ ColId(cs, c) = 0 THEN NoText
                            ELSE <<RowId(rs, r), ColId(cs, c), <<RowId(rs, r), ColId(cs, c)>> \in dt>>

Init ==
    /\ rows = [i \in 1..MaxRows |-> i] /\ cols = [i \in 1..MaxCols |-> i] /\ data = {}
    /\ view = [sel |-> <<>>, row |-> -1, col |-> -1, hidden |-> {}, mode |-> "Single", behavior |-> "Cells"]
    /\ mapper = [row |-> -1, col |-> [w \in Widgets |-> MaxCols - 1]]
    /\ edits = [w \in Widgets |-> [text |-> NoText, typed |-> FALSE]]

----------------------------------------------------------------------------
(* TableView.  v are its members, nr and nc the model's dimensions.        *)

IsValidRow(r, nr) == r >= 0 /\ r < nr
IsVisibleColumn(v, c, nc) == c >= 0 /\ c < nc /\ c \notin v.hidden
IsValidSelectionKey(v, k, nr, nc) ==
    CASE k[1] >= 0 /\ k[2] >= 0 -> IsValidRow(k[1], nr) /\ IsVisibleColumn(v, k[2], nc)
      [] k[1] >= 0 /\ k[2] < 0 -> IsValidRow(k[1], nr)
      [] k[1] < 0 /\ k[2] >= 0 -> IsVisibleColumn(v, k[2], nc)
      [] OTHER -> FALSE

KeyForCell(v, r, c) ==
    CASE v.behavior = "Rows" -> <<r, -1>> [] v.behavior = "Columns" -> <<-1, c>> [] OTHER -> <<r, c>>

UpdateCurrent(v, r, c) == [v EXCEPT !.row = r, !.col = c]
ClearSelection(v) == UpdateCurrent([v EXCEPT !.sel = <<>>], -1, -1)

ApplySelection(v, k, op, nr, nc) ==
    IF v.mode = "None" \/ ~IsValidSelectionKey(v, k, nr, nc) THEN v
    ELSE IF op = "Replace" \/ v.mode = "Single" THEN [v EXCEPT !.sel = <<k>>]
    ELSE IF k \notin Range(v.sel) THEN [v EXCEPT !.sel = Append(@, k)]
    ELSE IF op = "Toggle" THEN [v EXCEPT !.sel = SelectSeq(@, LAMBDA x : x # k)] ELSE v

ValidateSelection_NotTheCurrent(v, nr, nc) ==
    [v EXCEPT !.sel = SelectSeq(@, LAMBDA k : IsValidSelectionKey(v, k, nr, nc))]

ValidateSelection(v, nr, nc) ==
    LET kept == [v EXCEPT !.sel = SelectSeq(@, LAMBDA k : IsValidSelectionKey(v, k, nr, nc))]
    IN  IF ~IsValidRow(v.row, nr) THEN UpdateCurrent(kept, -1, -1)
        ELSE IF v.col # -1 /\ ~(v.col >= 0 /\ v.col < nc) THEN UpdateCurrent(kept, v.row, -1)
        ELSE kept

\* What the view says of itself.  A key of a row or of a column stands for all
\* of its cells, hidden ones included.
VisibleColumns(v, nc) == {c \in 0..(nc - 1) : c \notin v.hidden}
SelectedRows(v, nr) ==
    UNION {IF k[1] >= 0 THEN {k[1]} ELSE IF k[2] >= 0 THEN 0..(nr - 1) ELSE {} : k \in Range(v.sel)}
SelectedColumns(v, nc) ==
    UNION {IF k[2] >= 0 THEN {k[2]} ELSE IF k[1] >= 0 THEN 0..(nc - 1) ELSE {} : k \in Range(v.sel)}
SelectedIndexes(v, nr, nc) ==
    {ix \in (0..(nr - 1)) \X (0..(nc - 1)) :
        \E k \in Range(v.sel) : k[1] \in {-1, ix[1]} /\ k[2] \in {-1, ix[2]} /\ k # <<-1, -1>>}

\* Where an index goes when `count' lines are inserted or removed at `first'.
Shifted(x, first, count) == IF x >= first THEN x + count ELSE x
Pulled(x, first, count) == IF x > first + count - 1 THEN x - count ELSE x
Gone(x, first, count) == x >= first /\ x <= first + count - 1

HandleRowsInserted_KeepsCurrent(v, first, count, nr, nc) ==
    ValidateSelection([v EXCEPT !.sel = [i \in DOMAIN @ |-> <<Shifted(@[i][1], first, count), @[i][2]>>]], nr, nc)

HandleRowsInserted(v, first, count, nr, nc) ==
    ValidateSelection([v EXCEPT !.sel = [i \in DOMAIN @ |-> <<Shifted(@[i][1], first, count), @[i][2]>>],
                                !.row = Shifted(@, first, count)], nr, nc)

HandleRowsRemoved(v, first, count, nr, nc) ==
    LET kept == SelectSeq(v.sel, LAMBDA k : ~Gone(k[1], first, count))
        w == [v EXCEPT !.sel = [i \in DOMAIN kept |-> <<Pulled(kept[i][1], first, count), kept[i][2]>>]]
    IN  ValidateSelection(IF Gone(v.row, first, count) THEN UpdateCurrent(w, -1, -1)
                          ELSE [w EXCEPT !.row = Pulled(@, first, count)], nr, nc)

HandleColumnsInserted(v, first, count, nr, nc) ==
    ValidateSelection([v EXCEPT !.sel = [i \in DOMAIN @ |-> <<@[i][1], Shifted(@[i][2], first, count)>>],
                                !.hidden = {Shifted(c, first, count) : c \in @},
                                !.col = Shifted(@, first, count)], nr, nc)

HandleColumnsRemoved(v, first, count, nr, nc) ==
    LET kept == SelectSeq(v.sel, LAMBDA k : ~Gone(k[2], first, count))
        w == [v EXCEPT !.sel = [i \in DOMAIN kept |-> <<kept[i][1], Pulled(kept[i][2], first, count)>>],
                       !.hidden = {Pulled(c, first, count) : c \in {c \in @ : ~Gone(c, first, count)}}]
    IN  ValidateSelection(IF Gone(v.col, first, count) THEN UpdateCurrent(w, -1, -1)
                          ELSE [w EXCEPT !.col = Pulled(@, first, count)], nr, nc)

----------------------------------------------------------------------------
(* DataWidgetMapper                                                        *)

\* refresh(): every mapped LineEdit shows its cell, or nothing.
Refresh(m, rs, cs, dt) ==
    [w \in Widgets |-> [text |-> TextOf(rs, cs, dt, m.row, m.col[w]), typed |-> FALSE]]

SetCurrentIndex(m, r, c, nr, nc) == [m EXCEPT !.row = IF IsValidRow(r, nr) /\ c >= 0 /\ c < nc THEN r ELSE -1]

MapperRowsInserted(m, first, count) == [m EXCEPT !.row = Shifted(@, first, count)]
MapperRowsRemoved(m, first, count) ==
    [m EXCEPT !.row = IF Gone(@, first, count) THEN -1 ELSE Pulled(@, first, count)]
MapperColumnsInserted(m, first, count) ==
    [m EXCEPT !.col = [w \in Widgets |-> Shifted(@[w], first, count)]]
MapperColumnsRemoved(m, first, count) ==
    [m EXCEPT !.col = [w \in Widgets |-> IF Gone(@[w], first, count) THEN -1 ELSE Pulled(@[w], first, count)]]

\* updateCurrent() emits currentIndexChanged when the index is another one.
Link(m, v, w, nr, nc) ==
    LET Index(x) == IF IsValidRow(x.row, nr) /\ x.col >= 0 /\ x.col < nc THEN <<x.row, x.col>> ELSE <<-1, -1>>
    IN  IF Linked /\ Index(v) # Index(w) THEN SetCurrentIndex(m, Index(w)[1], Index(w)[2], nr, nc) ELSE m

\* The signals of the model, and the slots the two have connected to them.
Signal(name, first, count) == [name |-> name, first |-> first, count |-> count]
OnView(v, sg, nr, nc) ==
    CASE sg.name = "rowsInserted"    -> HandleRowsInserted(v, sg.first, sg.count, nr, nc)
      [] sg.name = "rowsRemoved"     -> HandleRowsRemoved(v, sg.first, sg.count, nr, nc)
      [] sg.name = "columnsInserted" -> HandleColumnsInserted(v, sg.first, sg.count, nr, nc)
      [] sg.name = "columnsRemoved"  -> HandleColumnsRemoved(v, sg.first, sg.count, nr, nc)
      [] sg.name = "modelReset"      -> ValidateSelection(v, nr, nc)
OnMapper(m, sg, nr) ==
    CASE sg.name = "rowsInserted"    -> MapperRowsInserted(m, sg.first, sg.count)
      [] sg.name = "rowsRemoved"     -> MapperRowsRemoved(m, sg.first, sg.count)
      [] sg.name = "columnsInserted" -> MapperColumnsInserted(m, sg.first, sg.count)
      [] sg.name = "columnsRemoved"  -> MapperColumnsRemoved(m, sg.first, sg.count)
      [] sg.name = "modelReset"      -> IF IsValidRow(m.row, nr) THEN m ELSE [m EXCEPT !.row = -1]

\* The model changes, and tells the two, one after the other.
ModelBecomes(rs, cs, sg) ==
    LET v == OnView(view, sg, Len(rs), Len(cs))
        m == IF MapperFirst THEN Link(OnMapper(mapper, sg, Len(rs)), view, v, Len(rs), Len(cs))
                            ELSE OnMapper(Link(mapper, view, v, Len(rs), Len(cs)), sg, Len(rs))
    IN  /\ rows' = rs /\ cols' = cs /\ view' = v /\ mapper' = m
        /\ edits' = Refresh(m, rs, cs, data)
        /\ UNCHANGED data

\* A call on the view, whose current index the mapper may follow.
ViewBecomes(v) ==
    LET m == Link(mapper, view, v, Len(rows), Len(cols))
    IN  /\ Len(v.sel) <= MaxSel
        /\ view' = v /\ mapper' = m
        /\ edits' = IF m = mapper THEN edits ELSE Refresh(m, rows, cols, data)
        /\ UNCHANGED <<rows, cols, data>>

----------------------------------------------------------------------------
(* The model                                                               *)

Insert(s, at, id) == SubSeq(s, 1, at) \o <<id>> \o SubSeq(s, at + 1, Len(s))
Cut(s, first, count) == SubSeq(s, 1, first) \o SubSeq(s, first + count + 1, Len(s))
FreshId(s, n) == CHOOSE id \in 1..n : id \notin Range(s)

InsertRow ==
    /\ Len(rows) < MaxRows
    /\ \E at \in 0..Len(rows) :
          ModelBecomes(Insert(rows, at, FreshId(rows, MaxRows)), cols, Signal("rowsInserted", at, 1))

RemoveRows ==
    \E first \in 0..(Len(rows) - 1), count \in 1..2 :
       /\ first + count <= Len(rows)
       /\ ModelBecomes(Cut(rows, first, count), cols, Signal("rowsRemoved", first, count))

InsertColumn ==
    /\ Len(cols) < MaxCols
    /\ \E at \in 0..Len(cols) :
          ModelBecomes(rows, Insert(cols, at, FreshId(cols, MaxCols)), Signal("columnsInserted", at, 1))

RemoveColumns ==
    \E first \in 0..(Len(cols) - 1) :
       ModelBecomes(rows, Cut(cols, first, 1), Signal("columnsRemoved", first, 1))

\* modelReset: other rows, and if Resets other columns.
ModelReset ==
    \E n \in 0..MaxRows, cs \in {cols} \cup (IF Resets THEN {<<1>>} ELSE {}) :
       ModelBecomes([i \in 1..n |-> i], cs, Signal("modelReset", 0, 0))

\* setData() by somebody: dataChanged(row, column) reaches both.
DataChanged(r, c) ==
    LET cell == <<RowId(rows, r), ColId(cols, c)>>
        dt == (data \ {cell}) \cup ({cell} \ data)
    IN  /\ r < Len(rows) /\ c < Len(cols) /\ cell \in Editable
        /\ data' = dt
        /\ view' = ValidateSelection(view, Len(rows), Len(cols))
        /\ edits' = [w \in Widgets |-> IF mapper.row = r /\ mapper.col[w] = c
                                       THEN [text |-> TextOf(rows, cols, dt, r, c), typed |-> FALSE] ELSE edits[w]]
        /\ UNCHANGED <<rows, cols, mapper>>

----------------------------------------------------------------------------
(* Calls on the view and the mapper                                        *)

AddOrReplace(v) == IF v.mode = "Multiple" THEN "Add" ELSE "Replace"

SelectRow(r) ==
    ViewBecomes(IF ~IsValidRow(r, Len(rows)) THEN ClearSelection(view)
                ELSE ApplySelection(UpdateCurrent(view, r, -1), <<r, -1>>, AddOrReplace(view), Len(rows), Len(cols)))

\* TableView::setCurrentRow(): as selectRow(), but the column stays.
SetViewRow(r) ==
    ViewBecomes(IF ~IsValidRow(r, Len(rows)) THEN ClearSelection(view)
                ELSE ApplySelection(UpdateCurrent(view, r, IF view.col \in 0..(Len(cols) - 1) THEN view.col ELSE -1),
                                    <<r, -1>>, AddOrReplace(view), Len(rows), Len(cols)))

SelectColumn(c) ==
    ViewBecomes(IF ~IsVisibleColumn(view, c, Len(cols)) THEN ClearSelection(view)
                ELSE ApplySelection(UpdateCurrent(view, IF IsValidRow(view.row, Len(rows)) THEN view.row ELSE 0, c),
                                    <<-1, c>>, AddOrReplace(view), Len(rows), Len(cols)))

SelectCell(r, c) ==
    ViewBecomes(IF ~IsValidRow(r, Len(rows)) \/ ~IsVisibleColumn(view, c, Len(cols)) THEN ClearSelection(view)
                ELSE ApplySelection(UpdateCurrent(view, r, c), KeyForCell(view, r, c), AddOrReplace(view),
                                    Len(rows), Len(cols)))

\* renderTable(): a click on a cell it shows.
ClickCell(r, c, ctrl) ==
    /\ r < Len(rows) /\ IsVisibleColumn(view, c, Len(cols))
    /\ ViewBecomes(ApplySelection(UpdateCurrent(view, r, c), KeyForCell(view, r, c),
                                  IF view.mode = "Multiple" /\ ctrl THEN "Toggle" ELSE "Replace",
                                  Len(rows), Len(cols)))

SetColumnHidden(c) ==
    /\ c < Len(cols)
    /\ ViewBecomes(IF c \in view.hidden THEN [view EXCEPT !.hidden = @ \ {c}]
                   ELSE ValidateSelection([view EXCEPT !.hidden = @ \cup {c}], Len(rows), Len(cols)))

SetSelectionMode(mode) ==
    /\ mode # view.mode
    /\ LET v == [view EXCEPT !.mode = mode]
       IN  ViewBecomes(IF mode = "None" THEN ClearSelection(v)
                       ELSE IF mode = "Single" /\ Len(v.sel) > 1 THEN [v EXCEPT !.sel = <<Head(@)>>] ELSE v)

SetSelectionBehavior(b) ==
    /\ b # view.behavior
    /\ ViewBecomes(ClearSelection([view EXCEPT !.behavior = b]))

\* DataWidgetMapper::setCurrentRow()
SetCurrentRow(r) ==
    /\ mapper' = [mapper EXCEPT !.row = IF IsValidRow(r, Len(rows)) THEN r ELSE -1]
    /\ edits' = Refresh(mapper', rows, cols, data)
    /\ UNCHANGED <<rows, cols, data, view>>

\* The user types into a LineEdit.
Type(w) ==
    /\ ~edits[w].typed /\ edits[w].text # NoText
    /\ edits' = [edits EXCEPT ![w].typed = TRUE]
    /\ UNCHANGED <<rows, cols, data, view, mapper>>

\* submit(): the text of every LineEdit that differs is given to the model,
\* whose dataChanged refreshes the widgets of the cell; all of them are
\* refreshed only if the model took everything.
SubmitEdits ==
    /\ IsValidRow(mapper.row, Len(rows))
    /\ LET Target(w) == <<RowId(rows, mapper.row), ColId(cols, mapper.col[w])>>
           changed == {Target(w) : w \in {w \in Widgets : edits[w].typed /\ Target(w)[2] # 0}}
           taken == changed \cap Editable
       IN  /\ data' = (data \ taken) \cup (taken \ data)
           /\ edits' = [w \in Widgets |-> IF changed \subseteq Editable \/ Target(w) \in taken
                                          THEN Refresh(mapper, rows, cols, data')[w] ELSE edits[w]]
    /\ view' = ValidateSelection(view, Len(rows), Len(cols))
    /\ UNCHANGED <<rows, cols, mapper>>

RevertEdits ==
    /\ edits' = Refresh(mapper, rows, cols, data) /\ edits' # edits
    /\ UNCHANGED <<rows, cols, data, view, mapper>>

Next ==
    \/ InsertRow \/ RemoveRows \/ InsertColumn \/ RemoveColumns \/ ModelReset
    \/ \E r \in 0..(MaxRows - 1), c \in 0..(MaxCols - 1) :
          DataChanged(r, c) \/ SelectCell(r, c) \/ (\E ctrl \in BOOLEAN : ClickCell(r, c, ctrl))
    \/ \E r \in 0..(MaxRows - 1) : SelectRow(r) \/ SetViewRow(r) \/ SetCurrentRow(r)
    \/ \E c \in 0..(MaxCols - 1) : SelectColumn(c) \/ SetColumnHidden(c)
    \/ \E mode \in {"None", "Single", "Multiple"} : SetSelectionMode(mode)
    \/ \E b \in {"Rows", "Columns", "Cells"} : SetSelectionBehavior(b)
    \/ \E w \in Widgets : Type(w)
    \/ SubmitEdits \/ RevertEdits
Spec == Init /\ [][Next]_tvVars

----------------------------------------------------------------------------
(* Properties                                                              *)

\* The rows the selection is about, by identity.
Selected(v, rs, cs) == {<<RowId(rs, v.sel[i][1]), ColId(cs, v.sel[i][2])>> : i \in DOMAIN v.sel}

\* Everything the widgets remember of the model exists: selected keys and
\* hidden columns, the current cell and the current row; a mode allows no more
\* than it says; the rows, columns and cells it reports as selected agree and
\* exist, and a single cell is a visible one; and a LineEdit nobody has typed
\* into shows the cell it is mapped to.  (selectColumn() on a table without rows leaves the current row
\* at 0 until the next row comes.)  (TableView::validateSelection,
\* DataWidgetMapper::refresh).
ViewsAreConsistent ==
    /\ \A i \in DOMAIN view.sel : IsValidSelectionKey(view, view.sel[i], Len(rows), Len(cols))
    /\ rows # <<>> => view.row = -1 \/ IsValidRow(view.row, Len(rows))
    /\ view.col # -1 => view.row # -1 /\ view.col < Len(cols)
    /\ view.hidden \subseteq 0..(Len(cols) - 1)
    /\ LET cells == SelectedIndexes(view, Len(rows), Len(cols))
       IN  /\ SelectedRows(view, Len(rows)) \subseteq 0..(Len(rows) - 1)
           /\ cols # <<>> => {ix[1] : ix \in cells} = SelectedRows(view, Len(rows))
           /\ rows # <<>> => {ix[2] : ix \in cells} = SelectedColumns(view, Len(cols))
           /\ \A k \in Range(view.sel) : k[2] >= 0 => k[2] \in VisibleColumns(view, Len(cols))
    /\ view.mode = "None" => view.sel = <<>>
    /\ view.mode = "Single" => Len(view.sel) <= 1
    /\ mapper.row = -1 \/ IsValidRow(mapper.row, Len(rows))
    /\ \A w \in Widgets : edits[w].text = TextOf(rows, cols, data, mapper.row, mapper.col[w])

\* The current cell of the view, by identity.
Current(v, rs, cs) == <<RowId(rs, v.row), ColId(cs, v.col)>>

\* When rows or columns are inserted or removed, every index goes on pointing
\* at the row and the column it pointed at, or at nothing if that is gone: the
\* selection, the current row of the mapper, the mapped and the hidden columns.
\* The current cell of the view stays what it was as a whole: it has neither
\* row nor column any more when one of the two is removed.  (The row that
\* selectColumn() leaves current in a table without rows is no row.)  A mapper
\* linked to the view follows it when the two are at the same row
\* (the handle...Inserted and handle...Removed of both).
IndexesFollow ==
        LET Stays(before, after, ids) == IF before \in ids THEN after = before ELSE after = 0
            StillThere(k, rs, cs) == (k[1] = 0 \/ k[1] \in Range(rs)) /\ (k[2] = 0 \/ k[2] \in Range(cs))
            Together == Linked => mapper.row = view.row /\ view'.col # -1
        IN  <<rows, cols>>' # <<rows, cols>> /\ (InsertRow \/ RemoveRows \/ InsertColumn \/ RemoveColumns) =>
            /\ Selected(view', rows', cols') = {k \in Selected(view, rows, cols) : StillThere(k, rows', cols')}
            /\ LET cell == Current(view, rows, cols)
               IN  rows # <<>> => Current(view', rows', cols') = IF StillThere(cell, rows', cols') THEN cell ELSE <<0, 0>>
            /\ mapper.row # -1 /\ Together => Stays(RowId(rows, mapper.row), RowId(rows', mapper'.row), Range(rows'))
            /\ {ColId(cols', c) : c \in view'.hidden} = {ColId(cols, c) : c \in view.hidden} \cap Range(cols')
            /\ \A w \in Widgets : mapper.col[w] # -1 =>
                  Stays(ColId(cols, mapper.col[w]), ColId(cols', mapper'.col[w]), Range(cols'))
IndexesFollowTheModel == [][IndexesFollow]_tvVars
=============================================================================
