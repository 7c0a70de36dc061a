# SimplyNodeFramework in TLA+

A verification development kept beside the C++ code of SimplyNodeFramework
(`src/`). Modules are translated from the source; `PROJECT.json` maps every
definition that models code to its lines. TLC checks the modules on small
instances, TLAPS proves part of the results for every instance.

Run from this directory:

    tlc -workers 2 -config TaskPool_safety.cfg TaskPool
    tlc -workers 2 -config CoreNetwork.cfg MCCoreNetwork
    tlapm TaskPoolProofs.tla

Contents: [1 The system](#1-the-system) ·
[2 Modules](#2-modules-and-the-code-they-model) · [3 Runs](#3-runs) ·
[4 Proofs](#4-proofs) · [5 Disagreements](#5-disagreements-between-code-and-documentation) ·
[6 Plan](#6-plan) · [7 Not modelled](#7-what-is-not-modelled)

## 1 The system

The framework is a tree of `Node`s with signals and slots. Each node has one
*owner*, an `Executor` (`Executor.h`): either the `EventLoop` of a thread or a
`Strand` of a `TaskPool`. All that happens to a node — its slots, timers, I/O
callbacks, deferred deletion and migration — is supposed to happen inside its
owner, so application code needs no locks. That promise rests on a small
concurrent core (`lib/Core`), on which networking, HTTP, WebSocket, database,
SNMP, profiling and widgets are built.

### Components of the core

| Component | State | Operations | What makes it correct |
|---|---|---|---|
| `EventLoop` | task queue, nodes to delete, root nodes, timers, ready descriptors, stop/retired flags | `post`, `stop`, `retire`, `run`, `runPendingWork`, `enqueueDelete`, `addRootNode`… | tasks run once and in order; no wake-up or stop is lost; only the owner touches a node |
| `TaskPool`, `Strand`, `PooledNode` | shared queue, active count, stopping/joined flags; per strand a queue, the `m_scheduled` flag, deferred deletes; a free list of strands | `start`, `waitForDone`, `shutdown`, `acquireStrand`, `Strand::post`, `drain`, recycling | a strand is serial and FIFO on any number of workers; its one drain is never lost or doubled; strands are recycled exactly when idle; `shutdown` and `waitForDone` return |
| `Node` ownership | `NodeLifetimeBlock::owner`, membership of root lists | `deleteLater`, `moveToThread`, `moveToTaskPool`, destructor | a node is on one list, its owner's; it dies inside its owner |
| `Logger` | bounded queue, counters, running flag, sinks | `log`, `flush`, `start`, `stop`, `addSink`… | every message is delivered, dropped and counted, or queued; order per thread; `flush` and `stop` mean what they say |
| `ThreadPool`, `AsyncTaskSequence` | workers with a loop each, two counters; a task graph with pending dependencies | `start`, `waitForDone`, `shutdown`; `addTask`, `addDependency`, `start`, `wait` | accepted tasks run once; dependencies first; a started sequence finishes |
| `Timer`, `TimerService` | deadlines, generation, single shot | `start`, `stop`, dispatch, migration | an active timer is armed wherever it has moved; its slots run in its owner |
| `IoService`, `EpollPoller` | watches, armed and ready marks | register, wait, mark handled | no watch goes deaf; no callback for a watch that was replaced |
| Node tree | parents, children, children to delete | `setParent`, `deleteLater`, `run` | lists agree; what is marked gets deleted, once |
| `NodePtr`, `NodeRegistry`, `ThreadStorage` | lifetime blocks by address; values by thread | construct, destroy, look up | no handle reaches a dead or a different object |
| `Connection`, `Signal` | connections, queued invocations | `connect`, `disconnect`, `emit` | no slot on a dead receiver; order; thread of the slot |
| `Application` | registry of loops, driver, pools | `run`, `quit`, destructor | orderly teardown; a `quit` is not lost |
| `Process` | child state, pipes, watches, poll timer | `start`, `write`, `waitForFinished`, `kill`, exit handling | exactly one `finished`, after all output; nothing left behind |
| `File`, `TempFile`, `IniParser`, `CommandLineParser` | stream and buffer; sections and order; options | open, read, write; load, save; parse | what was written is read; a failed call says so |

### Components above the core

| Component | State | Operations | What makes it correct |
|---|---|---|---|
| `TcpSocket`, `LocalSocket` | state, write queue, watch and generation | connect, write, close, readiness, migration | the watch follows the state; no stale readiness; `connected`/`disconnected` alternate |
| `TcpServer`, `LocalServer` | pending connections, listening descriptor | listen, accept, hand out, close from slots | accepted connections are neither lost nor doubled |
| `UdpSocket` | bound state, datagrams, calls from other threads | bind, multicast, send, receive, timed calls | a call that was given up is never applied |
| `WebSocket` (native, browser) | handshake, fragments, closing state; browser handle | connect, send, ping, close, read | no message of an open connection is lost; a close is answered |
| `HttpServer` | parser and response counters per connection | read, respond, flush, close | reads split outside a chunk change nothing; close only after the whole response |
| `MySqlDatabase`, `SqliteDatabase`, `SqlQuery`, `SqlTableModel` | handle, ping timer, flags; result; pending edits | open, close, ping, reconnect, move; exec; setData, submit, revert | a watched connection stays watched; errors are reported; edits are accounted for |
| `SnmpV3Session`, `SnmpTrapReceiver` | operations on detached threads; watched session | get, set, walk; start, stop, read | one answer per operation; complete walks |
| `Profiler` | rings per thread, chunks, clients, allocation table | push, drain, broadcast; new, delete | an accepted event arrives once and in order; the table matches the heap |
| `Widgets` | selections, indexes, pages, dialogs, groups, geometry, layout membership | user input, model changes, frames | indexes follow what they point at; listeners know the state; space is shared out exactly |

`PROJECT.json` lists all components with their sources, also those that have no
model.

### How the parts interact

Threads meet in four places. (a) *Posting*: a thread pushes a closure onto
another's queue under its mutex and notifies after unlocking. (b) *Requests
about a node*: `deleteLater()` and `moveToThread()` read the owner, post a
closure to it, and the closure re-reads the owner and forwards itself if the
node has moved on. (c) *Hand-over of a node*: `applyMoveTo()` takes it off one
root list, publishes the new owner, and enters it on the other list, in three
critical sections of three locks; sockets, timers, processes and databases then
re-register what they had with the old owner. (d) *Tear-down*: `shutdown()`,
`stop()` and `retire()` race with all of these.

Inside one thread the difficulty is re-entrance: a signal is emitted in the
middle of a function, and its slots call back into the object, close it or
destroy its neighbours.

### What is hard

Interleavings across those critical sections; lists copied under a lock and used
after it; one condition variable shared by two kinds of waiters; flags tested
under one lock and used under another; work accepted while a pool is torn down;
loops that must not sleep on work; readiness, timeouts and replies that arrive
for a registration, generation or caller that is gone; addresses and descriptor
numbers that are reused; streams cut at any byte; a statement, a write or a user
failing half way. `PROJECT.json` (`hazards`) lists these at their lines, with the
property that would catch each.

## 2 Modules and the code they model

Conventions. Variables keep the names of the C++ members (`m_queue`,
`m_scheduled`, …). One critical section is one action; what the code does after
unlocking is another. User code (a task, a slot, a thread outside any loop) may
call anything at any moment where the code lets it. Payloads are model values or
small sets. A definition `X_Something` beside `X` is a plausible bug used only to
show that a property notices it. Three forms recur:

- *calls in progress*: `call` (TaskPool, Logger, EventLoop) records which
  framework function a thread is in the middle of; `agenda` (ThreadPool,
  AsyncTaskSequence) is the list of steps a thread has still to do, so that
  functions that call each other compose;
- *handlers as functions*: where a handler runs to its end in one thread and is
  called from several places (StreamSocket, WebSocket, Database, Process, Popups),
  it is a function from the object's members to the members it leaves behind, and
  the actions apply it;
- *slots between stages*: where a handler emits half way and goes on, a variable
  says where it is (`stage` in Process, `accepting` in SocketServer, `clicks` in
  RadioButtons, `walk` in NodeTree), and other actions may come in between.

A Boolean constant such as `MoveWithPosts` or `SlotsSelect` marks a use that the
code does not survive; the runs have it `FALSE`, and section 5 says what happens
otherwise.

### SerialExecutor — `Executor.h`

The abstract specification: work is posted, begun in order when nothing is
running, ended; a torn-down executor may forget what it has not begun. Strands
and event loops are both shown to implement it.

### TaskPool — `TaskPool.cpp`, `Strand.cpp`, `PooledNode.cpp`

| State | Code |
|---|---|
| `m_queue` | the pool's queue; an entry is a job or a strand (the task that calls its `drain()`) |
| `wpc`, `cur`, `ran`, `msg` | place of a worker in `workerLoop()`/`drain()`, the strand, the batch counter, the task |
| `m_scheduled`, `m_retired`, `m_reserved` | the strands with that flag |
| `sQueue`, `m_pendingDeletes` | per strand |
| `m_strands`, `m_freeStrands` | strands created, the LIFO free list |
| `sdCaller`, `sdTodo` | holder of `m_shutdownMutex`, strands still to be torn down |
| `home` | owner of a pooled subtree: a strand, `Elsewhere` or `Dead` |

Actions: `Start`; `PostEnter`, `PostPush`/`PostPushAndSchedule`,
`EnqueueStrandDrain`/`RefuseStrandDrain`, `Unschedule` (the steps of
`Strand::post()`); `TakeJob`, `TakeDrain`, `WaitOrExit`, `JobEnd`, `TaskEnd`
(`workerLoop()`); `DrainNext`, `StrandTaskEnd`, `DrainBatchOver`,
`RunPendingDeletes`, `DrainAgain`/`DrainDone`, `RecycleStrandIfIdle`;
`MoveToTaskPool`, `ReuseStrand`/`NewStrand`, `ApplyMoveTo`,
`ReleaseStrandReservation`; `CreateNode`, `EnqueueDelete`, `MoveToThread` in a
strand's task; `WaitForDone*`; `Shutdown` to `ShutdownReturn`. The pool's timer
and I/O services are in Timer and IoWatch.

### Logger — `Logger.cpp`

The state is the class's, plus the worker's place (`wpc`), its message and what is
left of the snapshot of sinks, and two history variables: `accepted` (messages in
queue order) and `received` (what each sink consumed). `NotifyWorker`,
`NotifyFlusher` and `NotifyNobody` are the outcomes of one `notify_one()` on the
condition variable that the worker and `flush()` share. `start()` on a joinable
thread (`StartAborts`) is `std::terminate()`: every thread is dead.

### EventLoop — `EventLoop.cpp`, `Node.cpp`

A loop is identified with its owner thread. `pc` is its place in a pass:
`tasks` → `deletes` → `tick` → wait. `home` is the node's owner,
`m_rootNodes[l][n]` counts how often a loop lists a node, `batch` is the copy of
a list the pass works on. Actions: `Post`, `Push`, `NotifyOne`, `Stop`, `Retire`
and `RetireStop` (`ThreadPool::shutdown()` on a worker's loop); `CreateNode`,
`DeleteNode`, `DeleteLater`, `PostDeleteToOwner`, `MoveToThread`,
`PostMoveToOwner`, `MoveOut`, `MoveIn` (the halves of `applyMoveTo()`); `Run`,
`RunPendingWork`, `PopNextTask`, `TaskEnd`, `RequestTooLate`, `ForwardRequest`,
`RunDelete`, `RunMove`, `TakePendingDeletes`, `DeleteNext`, `SnapshotRoots`,
`TickNext`, `UpdateEnd`, `PassOver`, `WaitExit`, `WaitPass`, `WaitBlock`,
`TimerWake`. Due timers and ready descriptors have modules of their own (Timer,
IoWatch); here `TimerWake` lets them end a wait at any moment. `RunPendingWork`
starts outside `run()`, as the callers in `Application.cpp:97` and
`ApplicationNode.cpp:146` do: a task that calls it drains the queue it was taken
from, and then runs beside the tasks it drains; that nesting is not modelled, so
"one at a time" is said of loops whose tasks do not do this.

Two constants state what the code needs from its callers. `Overlap = FALSE`: two
requests about one node do not overlap, unless both delete it or the first is a
move that has not published its owner yet. `TickEffects = FALSE`: an `update()`
does not delete or move other roots of its loop on the spot. With either set to
`TRUE`, `OwnerOnly` fails (section 5). The safety results about nodes hold under
these two assumptions; the results about tasks, wake-ups and stops do not need
them.

### ThreadPool and AsyncTaskSequence — `ThreadPool.cpp`, `AsyncTaskSequence.cpp`

`AsyncTaskSequence` EXTENDS `ThreadPool`: the graph's steps and the pool's are
entries of one `agenda`. A worker's loop is reduced to what `EventLoop` shows of
it: a queue drained in order, and a wait at which a stopped loop leaves without
another look at its queue. The pool has `WorkerLoop`, `RunReady`, the steps of
`start()`, `waitForDone()` and `shutdown()`; the sequence `AddTask`,
`AddDependency` (with the cycle check), `Start`, `ScheduleTask`, `Submit`,
`SubmitRefused`, `Execute`, `OnTaskFinished`, `NotifyDone`, `WaitSequence`.

### Further modules of the core

| Module | Source | State and actions |
|---|---|---|
| Timer | `Timer.cpp`, `TimerService.cpp`, timers of `EventLoop.cpp` | one bit of time per timer (its deadline has passed); `armed` at a loop or the service, `due` batches, posted closures, the slot an owner runs. Calls from slots and other threads, dispatch, the service's take/post/stop, migration, deletion |
| IoWatch | `IoService.cpp`, `EpollPoller.cpp`, descriptors of `EventLoop.cpp` | registrations with their numbers, what epoll reports, the poller's thread (`PollerWait`, `CollectReady`, `PostReady`), the owner's batch and callback; `OneShot` tells `IoService` (one report, then rearmed) from the level-triggered poller of a loop |
| NodeTree | `Node.cpp`, sweeps of `EventLoop.cpp` | parents, child lists, lists to delete, root list; `walk` is the stack of nested `run()` calls; `forgotten` is a history variable. `Create`, `SetParent`, `AddToParent` (the public `addChild()`), `DeleteLater`, a pass in steps; addresses are reused |
| NodePointers | `NodePtr.h`, `NodeRegistry.cpp`, `NodeLifetimeBlock.h` | nodes built and torn down in steps while other threads make, share and test pointers |
| ThreadStorage | `ThreadStorage.h` | ids, slots per thread, ends of threads and storages |
| Signals | `Connection.h` | connections of the three types, emissions that visit slot after slot, and slots that emit again (`emitting` is the stack of a thread's visits), posted invocations that are forwarded after a migration, `Mark` and `Die` of receivers |
| Process | `Process.cpp` | members, pipe ends named by channel and child, watches, closures posted to the loops, `stage` of `handleChildExit()`, `wait` of `waitForFinished()` on the owner and from other threads |
| Application | `Application.cpp` | loops per thread, run and quit, the run-loop driver, the parts and the order of `~Application()` while pool tasks use them |
| Files | `File.cpp`, `TempFile.cpp` | the stdio stream with its buffer and single position, the disk, and what successful calls add up to |
| IniParser | `IniParser.cpp` | sections and keys with their order, lines of the file, failed loads and saves; values are told apart by what the two conversions do to them |
| CommandLine | `CommandLineParser.cpp` | options and arguments as records, `parse()` argument by argument, compared with a reference reading of the whole line |

### Modules above the core

| Module | Source | State and actions |
|---|---|---|
| StreamSocket | `TcpSocket.cpp`, `LocalSocket.cpp`, `IOEvent.cpp` | `kind` is the class, chosen at the start. Members, watch and generation; readiness and closures per owner; connect, partial writes, close, migration |
| SocketServer | `TcpServer.cpp`, `LocalServer.cpp` | `LocalServer` is the class, chosen at the start. Accept loop with the descriptor it started with; in a `LocalServer` slots run inside it and may close, listen again or change the limit |
| UdpSocket | `UdpSocket.cpp` | `invokeOnOwnerThreadAndWait()` step by step: a caller times out, abandons, or waits for an owner that has started; binding, multicast, datagrams |
| WebSocket | `WebSocketImplNative.cpp`, `WebSocketServer.cpp` | two ends of this library over streams of items, or a foreign client that sends anything; handshake, fragments, pings, the write queue of the sockets, closing. Both properties are about two ends of this library: the foreign client is there for the paths that only its requests and frames reach |
| WebSocketFrame | `WebSocketFrame.cpp` | the three encodings of a length and the incremental parser fed in pieces around every boundary |
| HandshakeKeys | `WebSocketHandshake.cpp` | Base64 in both directions, client keys, the blocks that SHA-1 cuts its input into |
| WebSocketImplEmscripten | `WebSocketImplEmscripten.cpp` | handles of the browser and their events |
| HttpServer | `HttpRequestParser.cpp`, `HttpServer.cpp` | the parser over tokens, response counters, close after `bytesWritten` |
| Database | `MySqlDatabase.cpp`, `SqliteDatabase.cpp`, `SqlQuery.cpp` | handle, ping timer, flags, reconnection, migration; a query on each |
| SqlTableModel | `SqlTableModel.cpp` | the cache, pending edits, `submit()` that stops at the first failure; literals modelled by what they do to a value |
| TableViews | `TableView.cpp`, `DataWidgetMapper.cpp` | selection, current cell, hidden columns, mapped rows and texts as indexes over rows and columns with identities |
| Snmp | `SnmpV3Session.cpp`, `SnmpTrapReceiver.cpp` | two machines: detached threads per operation, posted answers, walks over an agent that changes; and the receiver's session, watch, users, the read that calls back |
| PagedWidgets | `Tabs.cpp`, `StackedWidget.cpp` | entries, current index, the tab bar of the rendering library one frame behind |
| Popups | `Window.cpp`, `MessageBox.cpp` | open flag and open request against the popup stack; slots that reopen |
| RadioButtons | `RadioButton.cpp` | links exchanged between buttons, a click that visits its peers |
| TextInputs | `SpinBox.cpp`, `LineEdit.cpp`, `TextEdit.cpp` | value, text and edit buffer in every frame; `int` of a small width |
| WidgetGeometry | `Splitter.cpp`, `Layout.cpp`, `ScrollArea.cpp`, `LineEdit.cpp` | how a size is divided, in whole pixels |
| WidgetTree | `ApplicationNode.cpp`, `Window.cpp`, `Widget.cpp`, `Layout.cpp` | the node tree and the layouts as two structures over the same widgets; a frame draws both |
| Profiler | `TraceBuffer.h`, `ProfilerNode.cpp`, `ProfilerServer.cpp`, `SysMonitor.cpp` | rings with the steps of `push()` and `drainAll()`, chunks, broadcast, counters of `/proc/net/dev` |
| MemoryTracker | `MemoryTracker.cpp` | allocator and table apart: only the table is under the mutex |

MCCoreNetwork and MCDataWidgets instantiate these modules for TLC (section 3).

## 3 Runs

| Run | Module | Checks | Instance |
|---|---|---|---|
| `pool_safety` | TaskPool | `TypeOK`, `PoolSafe`, `StrandsRecycled`, `StrandsImplementExecutor` | 2 workers, 2 clients, one of which may shut the pool down, 2 strands, 2 nodes, 2 messages, 1 job, batches of 1 |
| `pool_liveness` | TaskPool | `PoolGetsDone` | 2 workers, 1 client, 1 strand, 1 node that slots may move after its `deleteLater()`, 2 messages, 1 job |
| `pool_late_move` | TaskPool | violates `NoNodeSurvivesShutdown` | 2 clients, one shuts down |
| `logger_safety` | Logger | `TypeOK`, `CountersServeFlush`, `DeliveryFaithful`, `StopDrains` | 2 clients that log, flush, start and stop, 2 sinks that come and go, capacity 2, 3 messages |
| `logger_liveness` | Logger | `LoggerGetsDone` | 2 clients, no `flush()` |
| `logger_lost_wakeup` | Logger | violates `AcceptedIsDelivered` | 1 logging and 1 flushing client |
| `eventloop_safety` | EventLoop | `TypeOK`, `NoLostWakeup`, `NodesAtHome`, `LoopsImplementExecutor` | 2 loops, 1 client, 2 tasks, 1 node |
| `eventloop_liveness` | EventLoop | `LoopGetsDone` | 1 loop, 2 clients, 2 tasks, 1 node |
| `threads` | AsyncTaskSequence | `RunsOnceAndInOrder`, `CountersExact`, `SequenceFinishes` | 2 workers, 1 client, 3 tasks, 2 starts |
| `core_network` | MCCoreNetwork | twelve properties, see below | eighteen parts |
| `data_widgets` | MCDataWidgets | nine properties, see below | nineteen parts |
| `node_delete_later` | MCCoreNetwork | violates `DeleteLaterDeletes` | the part `tree` |

### The two runs over many components

The modules of the last two tables of section 2 do not share state, and each is
small. MCCoreNetwork and MCDataWidgets instantiate all of them: the variable
`part` is chosen in the initial state and says which component the behaviour is
about; that component has `v1`, `v2`, … as its variables, the rest are 0. The
state graph is the disjoint union of the components' graphs, and a property is a
conjunction of implications `part = "x" => …`. To look at one component alone,
set `Checked` to the set of its part. The constants of the instances, with their
bounds, stand in the two modules; those that theorems leave open in
`CoreNetwork.cfg` (Timer, NodePointers, ThreadStorage, Application, Process, the
sockets, NodeTree) and `DataWidgets.cfg` (Database, SqlTableModel, PagedWidgets,
Popups, RadioButtons, TextInputs).

| Property | Parts | Instance |
|---|---|---|
| `TimersFire`, `CallbacksRunAtHome` | timer | 2 timers, a loop and a strand between which they move |
| `CallbacksRunAtHome`, `EmissionsInOrder` | signal | an automatic and a queued connection to one receiver that moves between 2 owners, 2 emissions, one inside the other or not |
| `WatchesHold` | service, watch | 2 descriptors, 3 registrations one-shot, 2 level triggered |
| `NodesAccounted` | tree | 4 addresses, 3 entries in a list of children to delete |
| `HandlesAreSafe` | pointer, storage | 2 addresses, 2 holders, 3 nodes; 2 threads, 2 storages, 3 ids |
| `ProcessesReaped` | process | 2 children one after the other, one chunk per channel, one call in flight |
| `ApplicationOrdered` | application | 2 threads, 2 driver owners, 3 pool tasks |
| `SocketsFollowTheirState` | stream, server, udp | a TcpSocket with 2 connections or with data, a LocalSocket with 2 connections and data, one move while connected; a server of either class, 3 clients, 2 calls of `listen()`; 2 callers, 3 binds |
| `WebSocketsAgree` | websocket, congested, foreign, browser | 2 connections, a message each way; a connection with 2 messages each way of which 1 item waits for room; a foreign client with 3 items; 3 handles |
| `WireFormatsAgree`, `HttpFlushed` | frame, key, http | payloads of 0, 125, 126, 65535 and 65536 bytes; keys up to 5 bytes, blocks of 8; requests with no body, a length, chunks, and broken ones |
| `SettingsFaithful` | file, ini, cli | 2 paths, 3 bytes; 2 sections; 3 arguments, 2 parses |
| `DataAccounted` | database, tablemodel | 2 outages; 3 keys, 2 values, 2 rejected statements |
| `ViewsConsistent`, `IndexesStayInPlace` | rows, columns | up to 2 rows or 2 columns, a mapper linked to the view |
| `SnmpAnswered` | snmp, traps | 2 operations, an agent of 5 OIDs of which one comes and goes; 2 loops, 2 traps, 2 users |
| `ControlsConsistent`, `IndexesStayInPlace` | pages, popups, radio, inputs | 3 pages; a window and 2 boxes; 4 buttons; an `int` of 3 bits |
| `SpaceIsShared` | geometry | sizes 0 to 7, 3 items |
| `FramesDraw` | tree | a window, 2 layouts, a widget |
| `ProfilerExact` | trace, serve, sample, memory | rings of 3 and 2 places, 2 threads; 2 clients; 2 samples; 2 threads, 2 addresses |

### Bounds

Why they are enough to be interesting. Two workers and two strands are what a
strand that migrates between workers, a doubled drain or a strand given to two
subtrees needs; a batch of one with two messages makes every drain end with work
left, the path on which a drain reschedules itself. A logger of capacity 2 with
three messages fills, drops and drains; two clients are enough for one to take
the other's notification. Two loops and a client are the three threads of a
request that races a migration: owner, target, requester. Two tasks tell orders
apart. Three tasks are a diamond's half: two dependencies that finish at once on
two workers and one dependent. A second child, connection, registration,
generation or node at the same address is what stale readiness, timeouts, replies
and pointers need to be mistaken for current ones; a third adds nothing that the
code could tell from the second. Payload lengths and integer widths sit on both
sides of each boundary in the code. Rings of three with three events wrap around
and fill. `MaxQueue = 1` in EventLoop keeps *requests* from piling up; posted
tasks are each posted once and have no further bound. Bounds the code does not
have are constants named `Max…`, each with a comment saying what it bounds.

Symmetry is used in the safety runs of TaskPool, Logger and EventLoop only, over
elements that no configuration treats differently. Deadlock is not checked: a
program whose clients make no more calls, or a logger that is terminated, stops.

### Fairness

Nobody has to call anything. A thread inside a framework function goes on, a
worker or loop with something to do does it (weak fairness of those steps): the
operating system runs every thread, and `std::mutex` is held only for bounded
critical sections. Timers need not fire, and no wake-up is spurious. User code
returns: a `TaskPool` task ends by weak fairness of `WorkerStep`, a runnable of a
`ThreadPool` by that of `Execute`; on a loop the user code may first make any
number of calls, so `TaskEnd` and `UpdateEnd` are strongly fair. Threads blocked
on a condition variable have no enabled step until somebody wakes them, so a lost
wake-up shows as a liveness violation.

`processTasks()` drains its queue until it is empty, so a loop whose tasks keep
coming reaches neither its deletes nor its wait: `RequestedDeletesHappen` and
`StopEndsRun`, conjuncts of `LoopGetsDone`, have the premise that the queue is
eventually always empty (`WorkCeases`). `StopEndsRun` accepts that a request to
stop is consumed by the next `run()`, as the comment in `run()` intends.
`WaitForDoneReturns`, a conjunct of `PoolGetsDone`, and `SequenceFinishes` are
about a pool that nobody shuts down: a drain or a runnable accepted while
`shutdown()` is under way may come after the last worker has left.

The components of the two union runs are checked for safety only. What must
happen eventually there is stated as a safety property of where the next step is
recorded: an active timer is armed or its timeout is under way, a watched
descriptor is with epoll or its callback is, a marked node is in a list that will
be swept, an exited child has the poll timer or the handler, an SNMP operation has
its thread or its posted answer.

## 4 Proofs

TLC shows a property on a small instance, a theorem here for every value of the
constants: any number of threads, strands, tasks, messages, nodes or connections,
any capacity, any bound. The modules' named assumptions are that kinds of
identifiers are disjoint, that the workers of TaskPool and the workers and clients
of AsyncTaskSequence are finitely many, that a batch is positive. What a theorem asks beyond that it says itself (`ASSUME … PROVE`):
these hypotheses are the constants of section 2 that mark a use the code does not
survive, and section 5 has the counterexample for each (`Descriptors` only says
what the constants are). The proofs of a component are in a module of its own or,
for the components of the two union runs that have none, in MCCoreNetwork and
MCDataWidgets, which draw the consequences for their unions.

| Module | Properties of the runs | Hypothesis |
|---|---|---|
| TaskPoolProofs | `TypeOK`, `PoolSafe` | — |
| | `StrandsImplementExecutor` | — |
| | `StrandsRecycled` | `~MoveAfterDelete` |
| LoggerProofs | `TypeOK`, `CountersServeFlush`, `StopDrains` | — |
| | `DeliveryFaithful` | `RegisteredOnce`: permanent sinks were added once |
| EventLoopProofs | `TypeOK`, `NoLostWakeup`, `LoopsImplementExecutor` | — |
| | `NodesAtHome` | `~Overlap`, `~TickEffects` |
| AsyncTaskSequenceProofs | `CountersExact`, `RunsOnceAndInOrder` | — |
| SignalsProofs | the signal part of `EmissionsInOrder`, `CallbacksRunAtHome` | `Type` has the three values of `ConnectionType` |
| IoWatchProofs | both parts of `WatchesHold` | `Descriptors`: finitely many, `None` is no callback |
| MCCoreNetwork | `TimersFire`, `CallbacksRunAtHome`, `EmissionsInOrder`, `WatchesHold`, `HandlesAreSafe`, `ApplicationOrdered`, `ProcessesReaped`, `SocketsFollowTheirState`, `NodesAccounted` | — |
| MCDataWidgets | `DataAccounted`, `ControlsConsistent` | — |

**TaskPoolProofs.** The inductive invariant `PoolInv` is
`Inv ∧ ActiveTasksExact ∧ OneDrainPerStrand ∧ QueuedWorkHasADrain`, where `Inv`
adds to the types which calls carry which arguments (`CallsOK`), what a worker
holds at each place (`WorkersOK`) and in what order a shutdown tears down
(`TeardownOK`). The pieces need one another: a decrement of `m_activeTasks` stays
in `Nat` only because the count is exact; a strand is serial because a worker
inside it is *the* drain of that strand; queued work keeps its drain because
resetting `m_scheduled` and looking at the queue is one critical section.
`PoolSafeCorrect` joins the four.

Recycling has an invariant on top, `RecycleInv`: only strands that exist are
scheduled or reserved, a strand in the hands of a thread is reserved for it alone,
and the free list holds each strand at most once, unused. That a free strand has
no nodes also takes `MovesInv`: a node is moved by one thread at a time, its
owner, and awaits no deletion there; this is where `~MoveAfterDelete` enters.
`FreeStrandsCorrect` (no strand is ever handed out twice) needs no hypothesis;
that idle strands return to the list does. `StrandsImplementExecutorCorrect` is the refinement, step by step: a
strand's queue and the message its worker runs are the queue and the current work
of a `SerialExecutor`; all steps but the push, the pop, the end of a task and
`shutdown()`'s clearing map to stutters.

**LoggerProofs.** `Accounting` needs `WorkerOK` (what the worker holds where).
`ThreadOrderCorrect` follows a message from the thread that has its number to the
sinks (`OrderInv`: the queue, the worker's hand and every sink are in order, and
what a thread is about to push is newer than all it has logged).
`FanOutCorrect` says for each sink that stays what an invariant can say in one
equation: *accepted = consumed ∘ in the worker's hand ∘ queued* (`FanInv`), where
the hand is empty once this sink has had the message. `addSink()` does not look
for a sink it already has, so a sink registered twice consumes twice; hence
`RegisteredOnce`. `removeSink()` filters the list, and what a filter keeps is
proved by induction over its length (the library's theorem on induction cannot
be instantiated here; lemma `SetInduction` obtains it from the least element of
a set of numbers). `StopInv` says of the one `stop()` that joins that the worker
has left only with everything accepted before it processed; it holds for any
number of stoppers, because a second `stop()` finds `m_running` false.

**EventLoopProofs.** `NoLostWakeup` holds for any `Overlap` and `TickEffects`. Its
invariant is `TypeOK ∧ CallsFromUserCode ∧ NoLostWakeup`: an owner thread inside a
framework function is between two tasks, in a task, in an `update()` or outside
its loop, so it is not the thread asleep, and does not fall asleep before it has
notified. Lemma `WakeupKept` reduces an action that keeps a loop awake, or keeps
its queues and the pending notifications, to that fact.

`NodesAtHomeCorrect` has two hypotheses about the program, `~Overlap` and
`~TickEffects`, and says nothing of one that breaks them. It needs an account of where closures about a node are:
`Places` are the queues, the hands of threads about to push and of loops that
execute. `HomeInv` says that a move starts at the node's owner and once the new
owner is published no other move of it is in progress (`MovesFromHome`), that all
closures about a node that is being moved are at the loop that moves it
(`RequestsAtMover`), that a request to move is the only closure about its node
(`MoveIsAlone`), that a node listed for deletion is not moved any more
(`DoomedStay`), and that the copy of the root list a tick works on has only nodes
of its loop (`TickAtHome`). `LoopsImplementExecutorCorrect` maps the tasks among
the entries of `m_tasks` to the executor's queue; what that filter does at an
append and at a pop is again by induction.

**AsyncTaskSequenceProofs.** The type invariant gives the shape of an agenda: one
thing to do now and, behind it, only tasks to schedule, waiters to notify, loops
to stop and join. `CountersExact` needs the set of queued jobs to be finite, so that
one more or one less is counted. `RunsOnceAndInOrder` follows from three facts at
once: every scheduled task that is not done is in exactly one *place* (an agenda,
a worker's queue, a worker), every other task in none (`Placed`); the sequence's
books agree with the graph — `pending` is the number of dependencies not done,
`m_remainingTasks` that of tasks not done, what is scheduled has its dependencies
done (`Books`); and the jobs on their way carry the results of the dependencies
(`InputsRight`). No one of them is inductive: a task is scheduled once because its
`pending` reaches zero once, which it does because its dependencies finish once,
which they do because they are in one place.

**SignalsProofs.** `EmissionsOnceAndInOrder` is about a history; the invariant has to
say why nothing that is under way can spoil it. `Books` relates the posted
invocations, queue by queue, to each other and to the calls made (the same
emission is in one place, the later of one thread behind the earlier unless the
receiver has moved, or unless it was emitted inside a slot of it); `NotYet` says that
what an emission in progress will still visit is in no queue and no call, and that
what is there of this thread is older or nested in it, which `Nested` carries along
the stack of emissions; `AtHome` that the invocations for a receiver
that never moved are all with its owner, which is why their order is the queue's;
`ListOnce` that a connection is in `m_slots` once. `pruneDisconnectedLocked()` is a
filter, treated as in the other modules.

**IoWatchProofs.** A callback passes from `toPost` through `readyIO` and `batch` to
`running`. `Line` is these four in one sequence, the one that runs first: most
steps only move callbacks along it, collecting adds at its end, the end of a
callback takes its first, and `unregisterIO()` of a loop takes out those of one
descriptor (`Others`, a recursive function; what it keeps is shown by induction).
Over it the invariant says that a watch is marked as queued only while a callback
of its registration is in the line (`QueuedIsComing`), with `OneShot` also
conversely (`UnqueuedIsQuiet`), that then nothing is in the line twice
(`NoneTwice`), that a watch that wants to read and is not marked is with epoll
or about to be collected (`StillArmed`), and that registrations are numbered
upwards (`Numbered`): that is why a descriptor registered again has no callback
of its own yet, and why the end of an old one leaves the new mark alone.

**MCCoreNetwork.** The instances of Signals and IoWatch are instances of
their proof modules, whose lemmas (`InitInv`, `NextKeepsInv` or `NextInv`,
`NextAtHome`) are cited with the instances' constants; a step of the union is a
step of the part that is chosen. Its assumption `NoneAssumption` is what
`Descriptors` asks of `None`. The other components have their proofs in
MCCoreNetwork itself.

`TimersFire` and the timer part of `CallbacksRunAtHome` are proved for any timers,
loops and strands, in the instance with `MoveDue = FALSE`. Timer's `Inv` says that
what a loop or the service has armed belongs to the timer's owner, alive
(`ArmedAtHome`), the same for a due batch (`DueAtHome`), and that an active timer has
something pending of its *present* generation with its owner — armed, at the
service, in the due batch, or a posted timeout — unless it is on a strand whose
pool has stopped its timers (`ActivePending`). With `MoveDue` a slot may move a timer
out from under the batch, and `DueAtHome` fails.

For `HandlesAreSafe` the constants of NodePointers
and ThreadStorage are constants of MCCoreNetwork, about which it only assumes that
`None` is no address and the bounds are numbers (`HandlesAssumption`). A pointer
cannot be fooled because the block of a node says that it is dead before the
registry forgets it (`DeadAreSignalled`, `Registered`): whoever asks the registry
in between gets a pointer that is dead from the start, and while a pointer is alive
its address is not free for another node. A value of a thread is in the slot that
it was made for or nowhere (`InItsSlot`), which ids that are never given again make
a matter of the storage (`KnownById`); so there is one slot to look at, and it was
deleted exactly if it is not there (`Counted`).

`ApplicationOrdered` is proved there in the same way, for any threads, drivers and
tasks (`TeardownAssumption`: `None` is none of the lists of what to take down). What
is still there is what the destructor has still to take down, and a pool that is
gone has none that could still run (`TasksHaveTheirPool`); the order `taskPool`, `threadPool`,
`logger`, `loops` makes what a task uses outlive the task's pool.

`ProcessesReaped` is proved for any number of children (`ProcessAssumption`).
Between the exit of a child and its `finished()` the members of Process pass
through a sequence of states in which neither "running" nor "nothing left" is
true. The invariant says for each stage of `handleChildExit()` what is still
there: which pipe ends are open, that exactly those are watched and by the
present owner (`Wired`), that the only child nobody has reaped is the one the
members name (`Kids`), and what the caller of `waitForFinished()` may find
(`WaitsForBorn`). `finished()` comes once and after the output because output
and end of one child are in the queues in that order, and those of an older child
before those of a younger (`ExitInOrder`, `Outputs`).

`SocketsFollowTheirState` has three parts. *A stream socket* is settled between
two handlers (`Settled`): it has a watch exactly while it is connected or
connecting, and the watch has the descriptor, generation and interest the members
have, because every change of one of these goes through `SyncRegistration`; inside a
handler only a weaker fact holds (`Watched`), and each helper is proved to lead from
one to the other. A readiness that was collected is of a generation not later than the
present one, and if it is of the present one then of the present connection
(`ReadyIsKnown`), although descriptors are reused: this is all that
`isRegistrationCurrent()` needs. That `disconnected` answers `connected` is a
statement on the closures still posted (`SignalsInOrder`), which are all at home
when the socket moves. *A server* has each client in one place, the kernel's queue
or the pending list, and none while it does not listen (`InOnePlace`,
`NoneWithoutListening`); a slot that closes the server inside the accept loop leaves
it so. *A datagram socket* gives a call up only if the owner has not started it
(`CallsInStep`), and the three stretches of the way of a datagram rise one after the
other (`DatagramsInOrder`). The assumptions: `None` is no watch
(`StreamAssumption`), 0 is no caller (`UdpAssumption`). The kinds of sockets are
`SocketKinds`, in which the numbers of connections are open.

`NodesAccounted` is proved for any set of places for nodes without `None`
(`TreeAssumption`) and lists of any length. It says of a marked node that it is in the
list that gets it deleted unless it is `forgotten`, and what enters that history
variable are the two losses of section 5, exactly: what the sweep skips in a list of
three or more, and what `run()` clears after `update()`; the next `deleteLater()` of a
forgotten node takes it out. The instance has `MovesMarked` and `TwoParents` `FALSE`
(section 5). `HangsOnce` makes `m_parent` and the lists two views of
one relation; what a destructor deletes is the smallest set closed downwards
(`Subtree`), so whatever is outside some closed set stays (`GoneIs`). That the nodes
whose `run()` is on the stack survive the sweeps of those below them does not need
that the tree has no cycles: the nested calls are a path from a root, no node twice
(`WalkGoesDown`), and what is not on that path is closed. `DeletesListed` says that
a node marked and not forgotten is in the list of the parent it has, and that a dead
node has an empty list. The sweep, which erases from the vector it goes over, deletes
nothing that was not in the list (`SweptFromList`) and all of a list of at most two
(`SweptIsAll`).

**MCDataWidgets.** `DataInv` and `ControlsInv` are the conjunctions, over the parts, of
the invariants `Inv` that the six component modules state beside their properties.

`DataAccounted` is proved for any keys and values and any number of result rows,
outages and rejected statements; the model's table has two rows. *A database*: every handler of MySqlDatabase turns
the members from one state in which the connection is watched into another (`Watched`;
the lemmas `DatabaseCloses`, `DatabaseConfigures`, `DatabaseConnects` … follow the
calls it makes), where between the two halves of a migration it is enough that the
configuration is posted. That a failed query says so rests on the query's own
error code: `next()` clears that of the driver, so the driver's code may be set only
while the other is (`QueryErrs`). *A table*: `submit()` meets the edited rows in an
unknown order, each one changes table and cache alike or goes into the failed
edits. The invariant of the loop, over the number of rows done, says that the cache
is the table, that rows not yet reached are as they were, and that `failed` has
exactly the rows reached and not written; hence what the views were told stays what
`data()` answers. Keys are unique in the instance (`UniqueKeys = TRUE`): a row that is
written is then the only one its statement writes, which is where a table with a
repeated key fails. `DataAssumption` keeps colours and doubles out of the cells,
which `variantToSqlLiteral()` does not write back as they are (section 5).

`ControlsConsistent` is proved for any pages, windows, boxes, buttons, widths of `int`
and buffers (`PopupsAssumption`: a window is no box; `InputsAssumption`: `int` holds the
numbers a user types in the model, the margin of a buffer is at most its initial
capacity). For *pages*, *popups* and the *spin box* the property needs little more than
types to be inductive: the current index, the flags of a dialog, and the value with
its buffer and what listeners heard, are brought in line by the same helpers on every
path, and the lemmas say so helper by helper (`PagesUpdates`, `PopupsSound`,
`InputsHeard`, `InputsCommits`). *A text*
fits because the buffer grows before the rendering library gets it, by more than the
margin that one frame may add (`TextFits`, `InputsTruncation`). *Radio buttons* are the
one case with a history: `LinksAreGroups` makes links an equivalence among live
buttons (shown for the union of two groups, whose lists are merged by a filter,
treated as in the other modules), and a click selects its button only after the loop
over a copy of its peers: `ClickClears` says that whatever is still selected in the
group meanwhile is among the peers still to be visited. The slots of a button do not
select another one here (`SlotsSelect = FALSE` in the instance, section 5).

Left to TLC: every liveness property (`PoolGetsDone`, `LoggerGetsDone`,
`LoopGetsDone`, `SequenceFinishes`), because the proof system has no rules for
fairness; of `core_network`, `WebSocketsAgree`, `WireFormatsAgree` and `HttpFlushed`;
of `data_widgets`, all but `DataAccounted` and `ControlsConsistent`. `WireFormatsAgree`,
`HttpFlushed`, `SettingsFaithful` and `SpaceIsShared` compare computations with reference
definitions over bounded inputs, where exploring them all is the natural argument,
and their parsers are inductions over the input; `SnmpAnswered`, `ViewsConsistent`,
`FramesDraw` and `ProfilerExact` compare the outcome of a walk over lists (an agent's
OIDs, the rows of a view, the widgets of a frame, the events of a ring) with what was
there, for which an inductive invariant has not been worked out, nor for
`WebSocketsAgree` (section 6). `IndexesStayInPlace`, an action property over every index
of a view, is model-checked only.

## 5 Disagreements between code and documentation

Three are the counterexample of a run; the lines quoted are in `PROJECT.json`.

- `pool_late_move`: `acquireStrand()` tests `m_stopping` under one mutex and takes
  the strand under another; a node moved in between survives `shutdown()`.
- `logger_lost_wakeup`: the `notify_one()` of `log()` wakes a `flush()` instead of
  the worker, and the message waits for the next `log()`. That of `stop()` can be
  lost the same way; `logger_liveness` therefore has no `flush()` callers.
- `node_delete_later`: `Node::run()` clears `m_childrenToDelete` after `update()`,
  so a child marked by that `update()` is not deleted.

The others are met by setting a constant of the module, or by checking a property
that the module states and no run lists. The runs keep these uses out, so their
results are about programs that avoid them.

| Constant or property | What happens | Source |
|---|---|---|
| TaskPool `MoveAfterDelete` | a strand deletes a node that was moved away after its `deleteLater()`, on its own thread (`DeletesStayHome`); the delete "follows the node if it migrates before the delete runs" (`docs/guides/thread-affinity.md:319-320`). The strand it came from may stay out of the free list (`IdleStrandsAreFree`) | `Strand.cpp:140`, `Node.cpp:25` |
| EventLoop `Overlap` | the same on a loop; overlapping moves leave a node on two root lists, a delete in between leaves a destroyed node on one (`OwnerOnly`, `RegisteredOnce`) | `EventLoop.cpp:139` |
| EventLoop `TickEffects` | the tick runs a root that an earlier `update()` of the same tick deleted (`OwnerOnly`) | `EventLoop.cpp:168` |
| Timer `MoveDue` | a slot that moves or deletes another timer of the same due batch leaves it in the batch (`TimeoutAtHome`, `ActiveTimersArmed`) | `EventLoop.cpp:147` |
| NodeTree, `Len(list) > 2` in `Skipped` | the sweep in `run()` erases from the vector it iterates: of three children marked before a pass the second is skipped and forgotten (`MarkedArePending`) | `Node.cpp:178-187` |
| NodeTree `MovesMarked` | `setParent()` leaves a node on which `deleteLater()` was called in the list of its old parent or of the loop: it is deleted in its new place, while the pass has still to run it or its own `run()` is on the stack (`TreeConsistent`) | `Node.cpp:197-224` |
| NodeTree `TwoParents` | the public `addChild()` leaves the child of another node in the list of that node too (`HangsOnce`); in the repository only roots and sockets without a parent are given to it (`WebSocketImplNative.cpp:52`, `HttpServer.cpp:19`) | `Node.cpp:67-82` |
| NodePointers `BoolMeansUnmarked` | `operator bool` is true for a node that is marked for deletion | `NodePtr.h:146` |
| Process `OverlappingStarts` | a posted `start()` is not tested again in its closure: two children, one of them never reaped | `Process.cpp:118-123` |
| Process `MoveWithCalls` | closures other than `closeWriteChannel()` do not look at the owner again and run on the thread the node has left; the model gives them no meaning there | `Process.cpp:118-276` |
| StreamSocket, slots that connect | `handleEvents()` emits `error`, `hangUp`, `readable` and `writable` at once, before the socket handles the readiness. A slot may close the socket here; one that connects it again has the old readiness applied to the new connection, which the generation test, made before the signals, does not see. Left out | `IOEvent.cpp:220-236`, `TcpSocket.cpp:302-342` |
| StreamSocket `IoErrors` | a failed `send()` or `recv()` sets `Error` before it disconnects: no `disconnected` is emitted | `TcpSocket.cpp`, `LocalSocket.cpp` |
| StreamSocket `MoveWithPosts` (one move more) | signals posted to the former owner and to the new one are emitted in any order | `TcpSocket.cpp:521-549` |
| StreamSocket `LongPaths` | a path that is too long puts a connected socket into `Error` without closing it | `LocalSocket.cpp:89-96` |
| WebSocketImplEmscripten `Reconnects` | the late close event of a replaced handle closes the new one | `WebSocketImplEmscripten.cpp:144`, `:329` |
| HttpServer `cut` | a read that ends inside a chunk loses its size line, the rest of the chunk is taken for a size (the request is answered 400, or with a body cut short if the bytes read as `0`); `RequestsUnderstood` speaks of requests to which this has not happened | `HttpRequestParser.cpp:244-270` |
| HttpServer `MaxRequests` | what arrives on a connection after an answer (a second request, the rest of a malformed one) is answered too and resets the byte counts of the response under way, so that the connection closes early; `ResponseFlushed` speaks of connections answered once | `HttpServer.cpp:196-201` |
| HttpServer `CloseEndsThem` | `close()` "Stops the server and closes all connections" (`HttpServer.h:120`), but leaves accepted connections open | `HttpServer.cpp:69-75` |
| TableViews `Linked` with `MapperFirst = FALSE` | the view moves the mapper's index, which then moves itself again | `DataWidgetMapper.cpp:255-267`, `TableView.cpp:446-471` |
| TableViews `Resets` | a reset that shrinks the columns leaves hidden and mapped columns outside the table | `DataWidgetMapper.cpp:214-220` |
| Database, slots of `connectionChanged` | the slots of the model do not call `open()` or `close()`. One that reopens the database inside the `closeHandle(true)` of `open()` has its new handle closed by the `closeHandle(false)` that follows, which tells nobody: `ConnectionWatched` would fail where the second attempt then fails | `MySqlDatabase.cpp:411-414`, `521-532` |
| SqlTableModel `UniqueKeys = FALSE` | an `UPDATE` by key writes both rows of a key, the cache only one | `SqlTableModel.cpp` |
| SqlTableModel `Values` with `"color"`, `"double"` | the database stores NULL or six digits, the cache the value itself (`EditsAccounted`) | `SqlTableModel.cpp:326-344` |
| Snmp `NoUseAfterEnd` | a thread has found the session alive and asks it for its loop after its end: nothing holds the session between the two | `SnmpV3Session.cpp:447-448` |
| Snmp `AnsweredOnItsThread` | "The result is delivered on the session's owner thread" (`SnmpV3Session.h:31-33`, `160-170`): an answer posted before the session migrates is emitted on the former thread | `SnmpV3Session.cpp:447-460` |
| Snmp `StopInSlot` | `stop()` in a slot of `trapReceived` frees the session inside its own read | `SnmpTrapReceiver.cpp:443-455` |
| WidgetGeometry `LineFits` | an input with a width of its own (`InputPriority`, or a preferred width) leaves no room for the gaps, and the last text reaches past the edge by as much as them; the property says so | `LineEdit.cpp:331-343` |
| RadioButtons `SlotsSelect` | a slot that selects another button during a click leaves two selected | `RadioButton.cpp:164-185` |
| TextInputs `SpinBoxConsistent` | Enter on a text that is no `int` leaves it in the buffer beside the old value, and a setter emits no signal; the property allows both | `SpinBox.cpp:359-361`, `126-144` |
| WidgetTree `Foreign`, `LayoutDies` | a widget of two layouts is drawn twice; the window's raw pointer to a deleted layout is used | `Window.h:222` |
| Files `FullDisk` | a `close()` whose buffer cannot be written reports nothing | `File.cpp:189-199` |
| Files `Redirects` | `setFilePath()` on a temporary file leaves that file behind, and the destructor removes the file of the new path | `TempFile.cpp` |
| Profiler `RatesAreOfBytes` | field 8 of `/proc/net/dev` (multicast) is read as transmitted bytes | `SysMonitor.cpp:78-84` |

Read while modelling, without a property: a `stop()` that finds another one at
work returns at once (`Logger.cpp:32`), while `Logger.h:92-96` lets every `stop()`
"Block until all messages currently in the queue have been delivered" and be
"Safe to call from any thread"; `StopDrains` is about the one that joins.
`waitForFinished()` called from a slot
of `handleChildExit()` finds no child to wait for and closes the standard error
pipe before it is read (`Process.cpp:189-193`, `610-626`; the model does not let
slots make this call). `HttpServer::listen()` connects its slots again on every
call. `SysMonitor` divides by a fixed 0.5 s. `quit()` is documented as
safe in a signal handler (`Application.h:99-102`) and locks a mutex; it stops the
loops that exist at that moment. `isRetired()` is tested before a move is queued or applied, so a node
may land on a loop that retires in the meantime. The notification of
`addRootNode()` does not satisfy the predicate of the wait, so a loop does not
tick a new root before it has other work. `NodeLifetimeBlock.h` says a pointer
"sees the node as dead as soon as destruction starts"; the destructors of derived
classes have run by then.

## 6 Plan

Done: the core (`SerialExecutor`, `TaskPool`, `Logger`, `EventLoop`) with its
proofs, the thread pool and task graphs, and one module for each component of the
remaining libraries that keeps state of its own.

Also done: theorems for all safety properties of `pool_*`, `logger_*`,
`eventloop_*` and `threads`, for those of `core_network` but the WebSocket and
the two formats, and for the databases, tables and controls of `data_widgets`.

Next: `WebSocketsAgree`, for any number of messages; it needs an invariant that
follows the fragments of a message through the streams of both directions.

Models worth extending: the other selection policies of `ThreadPool`; liveness of
`Timer` and `IoWatch` under fair owners; the idle clock of `HttpServer`.

## 7 What is not modelled

External, modelled by how the code uses them: the scheduler, `std::mutex` and
`std::condition_variable` (by their contract), `epoll`, kernel sockets and pipes,
child processes, stdio, MySQL, SQLite, net-snmp, the browser, ImGui and GLFW.

Left out: log sinks (formatting and output); `Json` (value types over a
third-party parser); `Variant`, `ByteArray`, `Span`, `TimeLapse` and other values
without interaction; widgets that only draw; measuring and drawing of text;
program arguments, environments and signal handlers of `Application` and
`Process`; the rounds of SHA-1 and the text of header lines; the clock of idle
HTTP connections; reading of `/proc`; build files, examples and tests. Where a
component is `partly` modelled, its note in `PROJECT.json` says what is missing.

In the modelled parts: a pool's workers and strands catch what a task throws, so
such a task ends like any other; an event loop and a sink do not, and there an
exception is taken to end the program. Memory is sequentially consistent: nearly
all shared state is guarded by a mutex, and the atomics outside one (the owner
pointer, `alive`, the retired flags, head and tail of a ring) are written with
release and read with acquire order; the relaxed ones (the logger's level and
sequence counter) are not used to order anything else.
