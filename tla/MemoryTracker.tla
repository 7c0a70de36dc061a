--------------------------- MODULE MemoryTracker ---------------------------
(***************************************************************************)
(* lib/Profiler: MemoryTracker and the global operators new and delete     *)
(* that report to it.  Threads allocate and free at any time, addresses    *)
(* are used again as soon as they are free, and only the table inside the  *)
(* tracker is under its mutex: the allocator is not.                       *)
(***************************************************************************)
EXTENDS Naturals, FiniteSets, FiniteSetsExt, Functions

CONSTANTS Threads, Pointers, Sizes,
          MaxEnables    \* bound: calls of enable()

VARIABLES heap,      \* what malloc has given out: the size at each pointer, or 0
          job,       \* of each thread: the step it has to do next, and its pointer
          enabled,   \* g_enabled, and whether g_instance is there
          tracker,   \* *g_instance: m_map, m_live_bytes, m_live_count, m_peak_bytes
          noticed,   \* the pointers handed out by operator new while enabled
          enables
memVars == <<heap, job, enabled, tracker, noticed, enables>>

Fresh == [map |-> [p \in Pointers |-> 0], bytes |-> 0, count |-> 0, peak |-> 0]
NoJob == [step |-> "idle", ptr |-> {}]

Init ==
    /\ heap = [p \in Pointers |-> 0]
    /\ job = [t \in Threads |-> NoJob]
    /\ enabled = FALSE
    /\ tracker = Fresh
    /\ noticed = {}
    /\ enables = 0

\* recordAlloc(): a pointer that is in the table already is left as it is.
RecordAlloc(k, p, size) ==
    IF k.map[p] # 0 THEN k
    ELSE [map |-> [k.map EXCEPT ![p] = size], bytes |-> k.bytes + size, count |-> k.count + 1,
          peak |-> Max({k.peak, k.bytes + size})]

\* recordFree()
RecordFree(k, p) ==
    IF k.map[p] = 0 THEN k
    ELSE [k EXCEPT !.map[p] = 0, !.bytes = @ - k.map[p], !.count = @ - 1]

\* Mutant: delete gives the memory back before it tells the tracker.
DeleteSteps_FreeFirst == <<"free", "record free">>

\* operator delete: the two things it does, in order.
DeleteSteps == <<"record free", "free">>

----------------------------------------------------------------------------
\* operator new: malloc, then recordAlloc().
Malloc(t, p, size) ==
    /\ job[t] = NoJob /\ heap[p] = 0
    /\ heap' = [heap EXCEPT ![p] = size]
    /\ job' = [job EXCEPT ![t] = [step |-> "record alloc", ptr |-> {p}]]
    /\ UNCHANGED <<enabled, tracker, noticed, enables>>

NewReturns(t) ==
    /\ job[t].step = "record alloc"
    /\ \E p \in job[t].ptr :
          /\ tracker' = IF enabled THEN RecordAlloc(tracker, p, heap[p]) ELSE tracker
          /\ noticed' = IF enabled THEN noticed \cup {p} ELSE noticed
    /\ job' = [job EXCEPT ![t] = NoJob]
    /\ UNCHANGED <<heap, enabled, enables>>

\* A step of operator delete, on a pointer that a new has returned and nobody
\* else deletes.
Deleting(t, p, step) ==
    /\ heap' = IF step = "free" THEN [heap EXCEPT ![p] = 0] ELSE heap
    /\ tracker' = IF step = "record free" /\ enabled THEN RecordFree(tracker, p) ELSE tracker
    /\ UNCHANGED <<enabled, enables>>

Delete(t, p) ==
    /\ job[t] = NoJob /\ heap[p] # 0
    /\ \A u \in Threads : p \notin job[u].ptr
    /\ Deleting(t, p, DeleteSteps[1])
    /\ noticed' = noticed \ {p}
    /\ job' = [job EXCEPT ![t] = [step |-> DeleteSteps[2], ptr |-> {p}]]

DeleteReturns(t) ==
    /\ job[t].step = DeleteSteps[2]
    /\ \E p \in job[t].ptr : Deleting(t, p, DeleteSteps[2])
    /\ job' = [job EXCEPT ![t] = NoJob]
    /\ UNCHANGED noticed

\* detail::init(), at any time.
Enable ==
    /\ ~enabled /\ enables < MaxEnables
    /\ enabled' = TRUE /\ enables' = enables + 1
    /\ tracker' = Fresh
    /\ UNCHANGED <<heap, job, noticed>>

\* disableMemoryTracker(): "all I/O threads are guaranteed to have been joined".
Disable ==
    /\ enabled /\ \A t \in Threads : job[t] = NoJob
    /\ enabled' = FALSE
    /\ tracker' = Fresh
    /\ noticed' = {}
    /\ UNCHANGED <<heap, job, enables>>

Next ==
    \/ \E t \in Threads, p \in Pointers, n \in Sizes : Malloc(t, p, n)
    \/ \E t \in Threads, p \in Pointers : Delete(t, p)
    \/ \E t \in Threads : NewReturns(t) \/ DeleteReturns(t)
    \/ Enable \/ Disable

Spec == Init /\ [][Next]_memVars

----------------------------------------------------------------------------
\* The numbers of snapshot() are those of the table, and the table holds the
\* memory that operator new has returned since enable() and nobody deletes:
\* no thread's delete takes away the entry of the next owner of the address,
\* and no entry outlives its memory (recordAlloc, recordFree, operator delete).
TrackerExact ==
    /\ tracker.count = Cardinality({p \in Pointers : tracker.map[p] # 0})
    /\ tracker.bytes = FoldFunction(+, 0, tracker.map)
    /\ tracker.peak >= tracker.bytes
    /\ \A p \in Pointers : tracker.map[p] # 0 => heap[p] = tracker.map[p]
    /\ \A p \in noticed : tracker.map[p] = heap[p]
============================================================================
