--------------------------- MODULE ThreadStorage ---------------------------
(***************************************************************************)
(* snf::ThreadStorage<T>: a value per thread, kept in a thread_local map   *)
(* from the ids of the storages to the values.  A storage that is          *)
(* destroyed takes with it the value of the thread that destroys it; the   *)
(* values of the other threads stay in their maps until the threads end.   *)
(***************************************************************************)
EXTENDS Naturals, FiniteSetTheorems

CONSTANTS Threads,
          Storages,      \* the places where the program has a ThreadStorage
          MaxIds,        \* bound: storages constructed
          MaxValues      \* bound: values constructed

VARIABLES id,        \* m_id of each storage, 0 if it does not exist
          made,      \* the storages constructed when each of them was the last
          nextId,    \* s_nextId, counted from 1
          slots,     \* of each thread: m_slots, id |-> value, 0 for none
          ended,     \* the threads that have ended
          values,    \* the values constructed
          deleted,   \* how often each value was deleted
          home       \* of each value: the thread and the storage that it was made for

storageVars == <<id, made, nextId, slots, ended, values, deleted, home>>

Ids == 1..MaxIds
Values == 1..MaxValues

Init ==
    /\ id = [s \in Storages |-> 0]
    /\ made = [s \in Storages |-> 0]
    /\ nextId = 1
    /\ slots = [t \in Threads |-> [i \in Ids |-> 0]]
    /\ ended = {}
    /\ values = 0
    /\ deleted = [v \in Values |-> 0]
    /\ home = [v \in Values |-> <<>>]

\* ThreadLocalSlot::reset(), for a set of slots of a thread.
Deleting(t, is) ==
    [v \in Values |-> deleted[v] + IF \E i \in is : slots[t][i] = v THEN 1 ELSE 0]

\* Mutant: the ids of storages that are gone are used again.
NewId_Smallest == CHOOSE i \in Ids \ {id[s] : s \in Storages} :
                      \A j \in Ids \ {id[s] : s \in Storages} : i <= j

\* allocateThreadStorageId().
NewId == nextId

Construct(s) ==
    /\ id[s] = 0 /\ nextId \in Ids
    /\ id' = [id EXCEPT ![s] = NewId]
    /\ made' = [made EXCEPT ![s] = nextId]
    /\ nextId' = nextId + 1
    /\ UNCHANGED <<slots, ended, values, deleted, home>>

\* ~ThreadStorage() in thread t: remove(m_id) in the map of t.
Destroy(t, s) ==
    /\ id[s] # 0 /\ t \notin ended
    /\ deleted' = Deleting(t, {id[s]})
    /\ slots' = [slots EXCEPT ![t][id[s]] = 0]
    /\ id' = [id EXCEPT ![s] = 0]
    /\ UNCHANGED <<made, nextId, ended, values, home>>

\* ThreadLocalStorage::set()
Set(t, i, v) == [slots EXCEPT ![t][i] = v]

\* setLocalData(), and localData() of a thread that has no value yet: a new
\* value in the place of the old one.
SetLocalData(t, s) ==
    /\ id[s] # 0 /\ t \notin ended /\ values < MaxValues
    /\ values' = values + 1
    /\ deleted' = Deleting(t, {id[s]})
    /\ slots' = Set(t, id[s], values + 1)
    /\ home' = [home EXCEPT ![values + 1] = <<t, made[s]>>]
    /\ UNCHANGED <<id, made, nextId, ended>>

\* hasLocalData(), and what localData() returns then.
LocalData(t, s) == IF id[s] = 0 THEN 0 ELSE slots[t][id[s]]

\* ~ThreadLocalStorage(): the thread ends.
EndThread(t) ==
    /\ t \notin ended
    /\ ended' = ended \cup {t}
    /\ deleted' = Deleting(t, Ids)
    /\ slots' = [slots EXCEPT ![t] = [i \in Ids |-> 0]]
    /\ UNCHANGED <<id, made, nextId, values, home>>

Next ==
    \/ \E s \in Storages : Construct(s)
    \/ \E t \in Threads, s \in Storages : Destroy(t, s)
    \/ \E t \in Threads, s \in Storages : SetLocalData(t, s)
    \/ \E t \in Threads : EndThread(t)

Spec == Init /\ [][Next]_storageVars

-----------------------------------------------------------------------------
\* A thread finds in a storage only what it put into that very storage, also
\* when other storages, with values that still wait for their threads to end,
\* were destroyed before.
ValuesAreTheThreadsOwn ==
    \A t \in Threads, s \in Storages :
        LocalData(t, s) # 0 => home[LocalData(t, s)] = <<t, made[s]>>

\* Every value is deleted once: it is in one slot or it is gone, and none
\* outlives its thread.
DeletedOnce ==
    \A v \in 1..values :
        /\ deleted[v] + Cardinality({c \in Threads \X Ids : slots[c[1]][c[2]] = v}) = 1
        /\ home[v][1] \in ended => deleted[v] = 1

\* Per-thread values are neither mixed up nor lost.
StorageIsPerThread == ValuesAreTheThreadsOwn /\ DeletedOnce

-----------------------------------------------------------------------------
\* Why StorageIsPerThread holds: what every step keeps.
TypeOK ==
    /\ id \in [Storages -> 0..MaxIds]
    /\ made \in [Storages -> 0..MaxIds]
    /\ nextId \in 1..MaxIds + 1
    /\ slots \in [Threads -> [Ids -> 0..MaxValues]]
    /\ ended \subseteq Threads
    /\ values \in 0..MaxValues
    /\ deleted \in [Values -> Nat]
    /\ home \in [Values -> (Threads \X Ids) \cup {<<>>}]

\* Ids are never given again, so a storage is known by its id.
KnownById == \A s \in Storages : id[s] # 0 => id[s] = made[s]

\* A value is in the slot that it was made for, or nowhere; home says which.
InItsSlot ==
    \A t \in Threads, i \in Ids :
        slots[t][i] # 0 => slots[t][i] \in 1..values /\ home[slots[t][i]] = <<t, i>>

InSlot(v) == slots[home[v][1]][home[v][2]] = v

\* And it was deleted when it left that slot.
Counted ==
    \A v \in Values :
        /\ v <= values => home[v] \in Threads \X Ids /\ deleted[v] = IF InSlot(v) THEN 0 ELSE 1
        /\ v > values => deleted[v] = 0

EndedAreEmpty == \A t \in ended, i \in Ids : slots[t][i] = 0

Inv == TypeOK /\ KnownById /\ InItsSlot /\ Counted /\ EndedAreEmpty
=============================================================================
