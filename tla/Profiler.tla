------------------------------ MODULE Profiler ------------------------------
(***************************************************************************)
(* lib/Profiler: the threads push trace events into rings of their own     *)
(* (TraceBuffer), a node on the pool drains them every 16 ms into chunks   *)
(* that go to the trace file and, as queued signals, to the server, which  *)
(* broadcasts them to its WebSocket clients (ProfilerNode, ProfilerServer).*)
(* SysMonitor adds samples of the counters of /proc/net/dev.               *)
(***************************************************************************)
EXTENDS Naturals, Sequences, SequencesExt

CONSTANTS Threads, Clients,
          Capacity,     \* kCapacity, the places of a ring
          ChunkSize,    \* PROFILER_CHUNK_SIZE
          MaxEvents, MaxSamples, MaxTraffic

VARIABLES ring,       \* the TraceBuffer of each thread, and the step of its push()
          accepted,   \* of each thread: the events for which push() returned true
          events,     \* of each thread: the events it made
          registry,   \* g_registry, the threads in the order of their first event
          drain,      \* drainAll(): the rings that are left, head as loaded, and tmp
          chunk,      \* m_chunk
          file,       \* the trace file, and what was emitted
          posted,     \* the messages on their way to the server
          sent,       \* what the server has broadcast
          clients,    \* of each client: its state, and the messages it was sent
          list,       \* m_clients
          joined,     \* how many broadcasts there had been when a client came
          dev,        \* the fields of /proc/net/dev of one interface, from 1
          monitor     \* SysMonitor: m_prevNet, the last sample; and the true counters
profilerVars == <<ring, accepted, events, registry, drain, chunk, file, posted,
                  sent, clients, list, joined, dev, monitor>>

NoRing == [state |-> "none", step |-> "idle", data |-> [i \in 0..Capacity - 1 |-> <<>>], head |-> 0, tail |-> 0]
Quiet == [left |-> <<>>, head |-> 0, tmp |-> <<>>, step |-> "idle"]

Init ==
    /\ ring = [t \in Threads |-> NoRing]
    /\ accepted = [t \in Threads |-> <<>>]
    /\ events = [t \in Threads |-> 0]
    /\ registry = <<>>
    /\ drain = Quiet
    /\ chunk = <<>> /\ file = <<>> /\ posted = <<>> /\ sent = <<>>
    /\ clients = [c \in Clients |-> [state |-> "none", got |-> <<>>]]
    /\ list = <<>>
    /\ joined = [c \in Clients |-> 0]
    /\ dev = [f \in 1..9 |-> 0]
    /\ monitor = [prev |-> <<>>, rates |-> <<>>, truth |-> <<>>, was |-> <<>>, samples |-> 0]

serverVars == <<posted, sent, clients, list, joined>>
monitorVars == <<dev, monitor>>
nodeVars == <<chunk, file>>

----------------------------------------------------------------------------
(* TraceBuffer                                                             *)

Place(i) == (i + 1) % Capacity

\* Mutant: old events are overwritten when the ring is full.
Full_Never(r) == FALSE

Full(r) == Place(r.head) = r.tail

\* push(): the thread's first event makes its ring; head and tail are read.
PushBegins(t) ==
    /\ ring[t].state # "ended" /\ ring[t].step = "idle" /\ events[t] < MaxEvents
    /\ ring[t].state = "none" => drain.step = "idle"        \* g_registryMutex
    /\ registry' = IF ring[t].state = "none" THEN Append(registry, t) ELSE registry
    /\ events' = [events EXCEPT ![t] = @ + 1]
    /\ ring' = [ring EXCEPT ![t].state = "live", ![t].step = IF Full(ring[t]) THEN "idle" ELSE "write"]
    /\ UNCHANGED <<accepted, drain, nodeVars, serverVars, monitorVars>>

\* What a thread traces, here the processing of its event loop.
Event(t) == <<t, events[t]>>

\* The event is written, then head is stored.
PushWrites(t) ==
    /\ ring[t].step = "write"
    /\ ring' = [ring EXCEPT ![t].data[ring[t].head] = Event(t), ![t].step = "publish"]
    /\ UNCHANGED <<accepted, events, registry, drain, nodeVars, serverVars, monitorVars>>

PushPublishes(t) ==
    /\ ring[t].step = "publish"
    /\ ring' = [ring EXCEPT ![t].head = Place(@), ![t].step = "idle"]
    /\ accepted' = [accepted EXCEPT ![t] = Append(@, Event(t))]
    /\ UNCHANGED <<events, registry, drain, nodeVars, serverVars, monitorVars>>

\* ~TraceBuffer(): the thread ends; what is in its ring goes with it.
EndThread(t) ==
    /\ ring[t].state = "live" /\ ring[t].step = "idle" /\ drain.step = "idle"
    /\ registry' = SelectSeq(registry, LAMBDA u : u # t)
    /\ ring' = [ring EXCEPT ![t].state = "ended"]
    /\ UNCHANGED <<accepted, events, drain, nodeVars, serverVars, monitorVars>>

----------------------------------------------------------------------------
(* ProfilerNode                                                            *)

\* The timer of the node: drainAll() locks the registry.
DrainBegins ==
    /\ drain.step = "idle" /\ registry # <<>>
    /\ drain' = [left |-> registry, head |-> 0, tmp |-> <<>>, step |-> "load"]
    /\ UNCHANGED <<ring, accepted, events, registry, nodeVars, serverVars, monitorVars>>

\* drain(): head is loaded ...
DrainLoads ==
    /\ drain.step = "load" /\ drain.left # <<>>
    /\ drain' = [drain EXCEPT !.head = ring[Head(drain.left)].head, !.step = "copy"]
    /\ UNCHANGED <<ring, accepted, events, registry, nodeVars, serverVars, monitorVars>>

\* The places from tail up to head.
Between(r, tail, head) ==
    LET n == (head + Capacity - tail) % Capacity
    IN  [i \in 1..n |-> r.data[(tail + i - 1) % Capacity]]

\* ... the events are copied, and tail is stored.
DrainCopies ==
    /\ drain.step = "copy"
    /\ LET t == Head(drain.left)
       IN  /\ drain' = [drain EXCEPT !.tmp = @ \o Between(ring[t], ring[t].tail, drain.head),
                                     !.left = Tail(@), !.step = "load"]
           /\ ring' = [ring EXCEPT ![t].tail = drain.head]
    /\ UNCHANGED <<accepted, events, registry, nodeVars, serverVars, monitorVars>>

\* Mutant: the chunk is cleared after it has been emitted, with what came since.
Flushed_KeepsChunk(all) == [chunk |-> all, out |-> Append(all, <<"mem">>)]

\* flushChunk(): every event, then a snapshot of the memory.
Flushed(all) == [chunk |-> <<>>, out |-> Append(all, <<"mem">>)]

\* drainAndProcess(), after drainAll().
DrainEnds ==
    /\ drain.step = "load" /\ drain.left = <<>>
    /\ LET all == chunk \o drain.tmp
           f == IF Len(all) >= ChunkSize THEN Flushed(all) ELSE [chunk |-> all, out |-> <<>>]
       IN  /\ chunk' = f.chunk
           /\ file' = file \o f.out
           /\ posted' = posted \o f.out
    /\ drain' = Quiet
    /\ UNCHANGED <<ring, accepted, events, registry, sent, clients, list, joined, monitorVars>>

----------------------------------------------------------------------------
(* ProfilerServer                                                          *)

\* onNewConnection(): the client hears hello, and is in the list.
NewConnection(c) ==
    /\ clients[c].state = "none"
    /\ clients' = [clients EXCEPT ![c] = [state |-> "open", got |-> <<>>]]
    /\ list' = Append(list, c)
    /\ joined' = [joined EXCEPT ![c] = Len(sent)]
    /\ UNCHANGED <<ring, accepted, events, registry, drain, nodeVars, posted, sent, monitorVars>>

\* A close frame: the WebSocket is no longer open, its socket not yet closed.
ClientCloses(c) ==
    /\ clients[c].state = "open"
    /\ clients' = [clients EXCEPT ![c].state = "closing"]
    /\ UNCHANGED <<ring, accepted, events, registry, drain, nodeVars, posted, sent, list, joined, monitorVars>>

\* onClientDisconnected()
ClientDisconnected(c) ==
    /\ clients[c].state \in {"open", "closing"}
    /\ clients' = [clients EXCEPT ![c].state = "deleted"]
    /\ list' = SelectSeq(list, LAMBDA x : x # c)
    /\ UNCHANGED <<ring, accepted, events, registry, drain, nodeVars, posted, sent, joined, monitorVars>>

IsOpen(c) == clients[c].state = "open"

\* Mutant: the iterator is advanced although an element was erased.
Reached_SkipsAfterErase ==
    {list[i] : i \in {i \in 1..Len(list) : IsOpen(list[i]) /\ (i > 1 => IsOpen(list[i - 1]))}}

\* broadcast(): who is sent the message.
Reached == {list[i] : i \in {i \in 1..Len(list) : IsOpen(list[i])}}

\* A queued signal reaches the server: broadcast() of the message.
Broadcast ==
    /\ posted # <<>>
    /\ LET msg == Head(posted)
       IN  /\ clients' = [c \in Clients |-> IF c \in Reached THEN [clients[c] EXCEPT !.got = Append(@, msg)] ELSE clients[c]]
           /\ sent' = Append(sent, msg)
    /\ list' = SelectSeq(list, IsOpen)
    /\ posted' = Tail(posted)
    /\ UNCHANGED <<ring, accepted, events, registry, drain, nodeVars, joined, monitorVars>>

----------------------------------------------------------------------------
(* SysMonitor                                                              *)

\* The kernel counts received bytes, multicast packets and transmitted bytes:
\* fields 1, 8 and 9 of the line.
Traffic(f) ==
    /\ f \in {1, 8, 9} /\ dev[f] < MaxTraffic
    /\ dev' = [dev EXCEPT ![f] = @ + 1]
    /\ UNCHANGED <<ring, accepted, events, registry, drain, nodeVars, serverVars, monitor>>

\* readNetStats(): the first field, six that are skipped, and the next.
ReadNetStats(line) == <<line[1], line[1 + 6 + 1]>>

\* onTimer(): the first sample is only remembered, later ones are the
\* differences over half a second.
OnTimer ==
    /\ monitor.samples < MaxSamples
    /\ LET cur == ReadNetStats(dev)
           first == monitor.prev = <<>>
       IN  /\ monitor' = [prev |-> cur, truth |-> <<dev[1], dev[9]>>, was |-> monitor.truth,
                          rates |-> IF first THEN <<>>
                                    ELSE [i \in 1..2 |-> 2 * (cur[i] - monitor.prev[i])],
                          samples |-> monitor.samples + 1]
           /\ posted' = IF first THEN posted ELSE Append(posted, <<"sys">>)
    /\ UNCHANGED <<ring, accepted, events, registry, drain, nodeVars, sent, clients, list, joined, dev>>

Next ==
    \/ \E t \in Threads : PushBegins(t) \/ PushWrites(t) \/ PushPublishes(t) \/ EndThread(t)
    \/ DrainBegins \/ DrainLoads \/ DrainCopies \/ DrainEnds
    \/ \E c \in Clients : NewConnection(c) \/ ClientCloses(c) \/ ClientDisconnected(c)
    \/ Broadcast \/ OnTimer
    \/ \E f \in {1, 8, 9} : Traffic(f)

Spec == Init /\ [][Next]_profilerVars

----------------------------------------------------------------------------
OfThread(s, t) == SelectSeq(s, LAMBDA e : e[1] = t)

\* An event that push() took is written to the file once, after the earlier
\* events of its thread, or is still on its way: in the ring, in the hands of
\* drainAll() or in the chunk.  Only the end of its thread loses it
\* (TraceBuffer::push and drain, ProfilerNode::flushChunk).
EventsArriveOnceInOrder ==
    \A t \in Threads :
        LET seen == OfThread(file \o chunk \o drain.tmp, t)
            all == seen \o Between(ring[t], ring[t].tail, ring[t].head)
        IN  all = accepted[t]

\* The clients hear the same story: everything broadcast since they came, in
\* order, while they are open.  A client that is deleted is not in the list,
\* one that is open is.
ClientsServed ==
    /\ \A c \in Clients :
          /\ IsOpen(c) => clients[c].got = SubSeq(sent, joined[c] + 1, Len(sent)) /\ Contains(list, c)
          /\ clients[c].state = "deleted" => ~Contains(list, c)
    /\ SelectSeq(sent \o posted, LAMBDA m : m # <<"sys">>) = file

\* What is traced is what happened, for the file and for every client.
TracesComplete == EventsArriveOnceInOrder /\ ClientsServed

\* "field[9] = tx_bytes", says SysMonitor.cpp: the rates of a sample are those
\* of the bytes received and the bytes transmitted.
RatesAreOfBytes ==
    monitor.rates # <<>> => monitor.rates = [i \in 1..2 |-> 2 * (monitor.truth[i] - monitor.was[i])]
============================================================================
