------------------------------ MODULE IniParser ------------------------------
(***************************************************************************)
(* IniParser: settings in sections, kept in maps with the order of their   *)
(* names beside them, written to a file line by line and parsed back.      *)
(* Files are written by others, too, loads and saves fail, and a save that *)
(* fails half way leaves a part of the file.  A value is abstracted to     *)
(* what the two conversions do with it: "a ;b" is a value with a blank and *)
(* a semicolon inside, which is read back as "a", and "a\nb" one with a    *)
(* line break, whose second line is not an entry.                          *)
(***************************************************************************)
EXTENDS Naturals, Sequences, SequencesExt

CONSTANTS Sections,    \* the named sections; "" is the global one
          Keys,
          Values,
          Written,     \* what other programs write into the file: sequences of lines
          None,        \* there is no file
          MaxKeys      \* bound: keys in all sections

VARIABLES data,        \* m_data: section |-> [keyOrder, values]
          order,       \* m_sectionOrder
          path,        \* m_filePath is set: save() knows where to write
          error,       \* m_errorText is set
          file         \* the lines of the file, None: there is no file

iniVars == <<data, order, path, error, file>>

EmptySection == [keyOrder |-> <<>>, values |-> <<>>]
\* No sections; an empty global section and none at all are the same.
NoData == [s \in {""} |-> EmptySection]

Init ==
    /\ data = NoData
    /\ order = <<>>
    /\ path = FALSE
    /\ error = FALSE
    /\ file \in Written \cup {None}

\* A function with one more pair, m[k] = v.
With(f, k, v) == [x \in DOMAIN f \cup {k} |-> IF x = k THEN v ELSE f[x]]

Drop(f, k) == [x \in DOMAIN f \ {k} |-> f[x]]

\* A section that is not there yet is created by the [] of the map.
Section(d, s) == IF s \in DOMAIN d THEN d[s] ELSE EmptySection

\* Mutant: the order of the keys grows with every assignment.
Stored_Tracks(d, s, k, v) ==
    LET old == Section(d, s)
    IN  With(d, s, [keyOrder |-> Append(old.keyOrder, k), values |-> With(old.values, k, v)])

\* One assignment, ensureKeyTracked() included.
Stored(d, s, k, v) ==
    LET old == Section(d, s)
    IN  With(d, s, [keyOrder |-> IF k \in Range(old.keyOrder) THEN old.keyOrder ELSE Append(old.keyOrder, k),
                    values |-> With(old.values, k, v)])

\* ensureSectionTracked().
Tracked(o, s) == IF s = "" \/ s \in Range(o) THEN o ELSE Append(o, s)

-----------------------------------------------------------------------------
\* The lines of a file; a broken one is neither header, entry nor comment.
Entry(k, v) == [kind |-> "entry", name |-> k, value |-> v]
Header(s) == [kind |-> "section", name |-> s, value |-> ""]
Broken == [kind |-> "broken", name |-> "", value |-> ""]
Comment == [kind |-> "comment", name |-> "", value |-> ""]

\* Lines of one section: a value with a line break becomes two lines.
LinesOf(section) ==
    FlattenSeq([i \in 1..Len(section.keyOrder) |->
        LET k == section.keyOrder[i]
            v == section.values[k]
        IN  IF v = "a\nb" THEN <<Entry(k, "a"), Broken>> ELSE <<Entry(k, v)>>])

\* toString(): the global section first, the others in the order they came.
ToText(d, o) ==
    LinesOf(Section(d, "")) \o
    FlattenSeq([i \in 1..Len(o) |-> <<Header(o[i])>> \o LinesOf(Section(d, o[i]))])

\* stripInlineComment() and trim().
Stripped(v) == IF v = "a ;b" THEN "a" ELSE v

\* One line of loadFromString().
ParseLine(st, line) ==
    CASE ~st.ok \/ line.kind = "broken" -> [st EXCEPT !.ok = FALSE]
      [] st.ok /\ line.kind = "comment" -> st
      [] st.ok /\ line.kind = "section" ->
            [st EXCEPT !.current = line.name, !.order = Tracked(@, line.name),
                       !.data = With(@, line.name, Section(@, line.name))]
      [] st.ok /\ line.kind = "entry" ->
            [st EXCEPT !.data = Stored(@, st.current, line.name, Stripped(line.value)),
                       !.order = Tracked(@, st.current)]

\* loadFromString(): the maps are built apart and taken over at the end.
Parse(lines) ==
    FoldLeft(ParseLine, [data |-> NoData, order |-> <<>>, current |-> "", ok |-> TRUE], lines)

-----------------------------------------------------------------------------
Become(d, o) == data' = d /\ order' = o

SetValue(s, k, v) ==
    /\ Become(Stored(data, s, k, v), Tracked(order, s))
    /\ FoldFunction(LAMBDA sec, n : n + Len(sec.keyOrder), 0, data') <= MaxKeys
    /\ error' = FALSE
    /\ UNCHANGED <<path, file>>

\* Mutant: the name of an emptied section stays in the order.
Removed_KeepsOrder(o, s) == o

Removed(o, s) == SelectSeq(o, LAMBDA x : x # s)

\* remove(): a named section goes with its last key.
RemoveKey(s, k) ==
    /\ s \in DOMAIN data /\ k \in DOMAIN data[s].values
    /\ LET less == [keyOrder |-> SelectSeq(data[s].keyOrder, LAMBDA x : x # k),
                    values |-> Drop(data[s].values, k)]
       IN  IF s # "" /\ DOMAIN less.values = {}
           THEN Become(Drop(data, s), Removed(order, s))
           ELSE Become(With(data, s, less), order)
    /\ UNCHANGED <<path, error, file>>

RemoveSection(s) ==
    /\ s # "" /\ s \in DOMAIN data
    /\ Become(Drop(data, s), Removed(order, s))
    /\ UNCHANGED <<path, error, file>>

Clear ==
    /\ Become(NoData, <<>>)
    /\ error' = FALSE
    /\ UNCHANGED <<path, file>>

\* load(): a file that does not open empties the parser, one that does not
\* parse leaves what was there; both forget the path.
Load ==
    LET p == Parse(file)
    IN  \/ /\ file # None /\ p.ok
           /\ Become(p.data, p.order)
           /\ path' = TRUE
           /\ error' = FALSE
           /\ UNCHANGED file
        \/ /\ file # None /\ ~p.ok
           /\ path' = FALSE
           /\ error' = TRUE
           /\ UNCHANGED <<data, order, file>>
        \/ /\ file = None
           /\ Become(NoData, <<>>)
           /\ path' = FALSE
           /\ error' = TRUE
           /\ UNCHANGED file

\* loadFromString() called by the program.
LoadFromString(lines) ==
    LET p == Parse(lines)
    IN  /\ IF p.ok THEN Become(p.data, p.order) ELSE UNCHANGED <<data, order>>
        /\ path' = IF p.ok THEN FALSE ELSE path
        /\ error' = ~p.ok
        /\ UNCHANGED file

\* save(path).
Save ==
    /\ file' = ToText(data, order)
    /\ path' = TRUE
    /\ error' = FALSE
    /\ UNCHANGED <<data, order>>

\* save() without a path.
SaveNowhere ==
    /\ ~path
    /\ error' = TRUE
    /\ UNCHANGED <<data, order, path, file>>

\* The disk is full, or the file cannot be written: a beginning of it is.
SaveFails ==
    /\ \E n \in 0..Len(ToText(data, order)) :
        file' = SubSeq(ToText(data, order), 1, n)
    /\ error' = TRUE
    /\ UNCHANGED <<data, order, path>>

\* Another program writes or removes the file.
Elsewhere ==
    /\ file' \in Written \cup {None}
    /\ UNCHANGED <<data, order, path, error>>

Next ==
    \/ \E s \in Sections \cup {""}, k \in Keys, v \in Values : SetValue(s, k, v)
    \/ \E s \in Sections \cup {""}, k \in Keys : RemoveKey(s, k)
    \/ \E s \in Sections : RemoveSection(s)
    \/ Clear
    \/ Load
    \/ \E lines \in Written : LoadFromString(lines)
    \/ Save
    \/ SaveNowhere
    \/ SaveFails
    \/ Elsewhere

Spec == Init /\ [][Next]_iniVars

-----------------------------------------------------------------------------
\* The orders name exactly what the maps hold, each name once, after any
\* sequence of assignments, removals and loads.
OrdersMatch ==
    /\ Range(order) = DOMAIN data \ {""} /\ IsInjective(order)
    /\ \A s \in DOMAIN data :
        Range(data[s].keyOrder) = DOMAIN data[s].values /\ IsInjective(data[s].keyOrder)

\* A value that the file format can hold.
Plain(v) == v \notin {"a ;b", "a\nb"}

\* What is saved is what will be loaded, order included, if the format can
\* hold it; the beginning of it that a failed save leaves is parsed, too.
SavedReadsBack ==
    (\A s \in DOMAIN data : \A k \in DOMAIN data[s].values : Plain(data[s].values[k])) =>
        LET p == Parse(ToText(data, order))
        IN  p.ok /\ p.data = data /\ p.order = order

\* The settings survive in memory and in the file.
SettingsKept == OrdersMatch /\ SavedReadsBack
=============================================================================
