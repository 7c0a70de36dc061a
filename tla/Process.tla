------------------------------ MODULE Process -------------------------------
(***************************************************************************)
(* snf::Process (src/lib/Core/src/SNFCore/Process.cpp): a child process,   *)
(* its pipes, the descriptor watches of those pipes and the poll timer     *)
(* that reaps it.  Children are numbered in the order of their forks, and  *)
(* a pipe end is named by the channel and the child it belongs to.         *)
(*                                                                         *)
(* handleChildExit() emits signals half way through: `stage` is the next   *)
(* thing it does, and slots may call back into the object between stages.  *)
(* startImpl() is one step; its slots are taken to do nothing.             *)
(***************************************************************************)
EXTENDS Naturals, Sequences, FiniteSets, SequencesExt

CONSTANTS
  OverlappingStarts,  \* may start() be posted while a start is pending or a child runs?
  MoveWithCalls,      \* may the node migrate while calls posted to it are in flight?
  MaxChildren,        \* bound: successful forks
  MaxOutput,          \* bound: chunks a child writes to one channel
  MaxQueue,           \* bound: buffers waiting for the child's stdin
  MaxCalls            \* bound: calls posted and not run yet

Outputs == {"out", "err"}
Channels == Outputs \union {"in"}
Kids == 1 .. MaxChildren
Loops == {0, 1}

VARIABLES
  p,        \* the members, and the node's registrations with its loop (io)
  kid,      \* what the system knows of every child
  pipe,     \* chunks in the output pipes, per channel and child
  calls,    \* closures posted to the loops
  stage,    \* of handleChildExit(): its next step
  dying,    \* the child that handleChildExit() is about
  home,     \* the loop that owns the node
  heard,    \* chunks read per channel and child: the output delivered
  finished, \* the children finished() was emitted for, in order
  wait      \* waitForFinished(): who blocks the owner, and the child that a
            \* caller on another thread waits for; the children reported ended

vars == <<p, kid, pipe, calls, stage, dying, home, heard, finished, wait>>

Closed == 0

Init ==
  /\ p = [state |-> "NotRunning", pid |-> 0, fd |-> [c \in Channels |-> Closed],
          watched |-> {}, io |-> {}, wantOut |-> FALSE, queue |-> 0, polling |-> FALSE,
          merged |-> FALSE]
  /\ kid = [k \in Kids |-> "unborn"]
  /\ pipe = [c \in Outputs |-> [k \in Kids |-> 0]]
  /\ calls = [l \in Loops |-> <<>>] /\ stage = "none" /\ dying = 0 /\ home = 0
  /\ heard = [c \in Outputs |-> [k \in Kids |-> 0]]
  /\ finished = <<>> /\ wait = [by |-> "none", kid |-> 0, told |-> {}]

OwnerFree == stage = "none" /\ wait.by = "none"

Born == {k \in Kids : kid[k] # "unborn"}

RegisterOutputs(m) ==
  LET new == {c \in Outputs : m.fd[c] # Closed} \ m.watched IN
  [m EXCEPT !.watched = @ \union new, !.io = @ \union {<<c, m.fd[c]>> : c \in new}]

RefreshStdinWatch_Once(m) ==
  IF m.fd["in"] = Closed \/ "in" \in m.watched THEN m
  ELSE [m EXCEPT !.watched = @ \union {"in"}, !.io = @ \union {<<"in", m.fd["in"]>>},
                 !.wantOut = m.queue > 0]
RefreshStdinWatch(m) ==
  IF m.fd["in"] = Closed THEN [m EXCEPT !.watched = @ \ {"in"}]
  ELSE [m EXCEPT !.watched = @ \union {"in"}, !.io = @ \union {<<"in", m.fd["in"]>>},
                 !.wantOut = m.queue > 0]

RegisterIOWatches(m) == RefreshStdinWatch(RegisterOutputs(m))

UnregisterIOWatches(m) ==
  [m EXCEPT !.io = @ \ {<<c, m.fd[c]>> : c \in m.watched}, !.watched = {}]

ClosePipeRead(m, c) ==
  [m EXCEPT !.io = @ \ {<<c, m.fd[c]>>}, !.watched = @ \ {c}, !.fd[c] = Closed]
ClosePipeWrite(m) ==
  [m EXCEPT !.io = @ \ {<<"in", m.fd["in"]>>}, !.watched = @ \ {"in"}, !.queue = 0,
            !.fd["in"] = Closed]

CleanupProcessResources(m) == ClosePipeRead(ClosePipeRead(ClosePipeWrite(m), "out"), "err")

(* flushWriteQueue(): it may write some or all of the queue, meet a full   *)
(* pipe, or find that the child has closed its end.                        *)
Flushed(m) ==
  IF m.fd["in"] = Closed THEN {m}
  ELSE {[m EXCEPT !.queue = n] : n \in 0 .. m.queue}
       \union (IF m.queue > 0 THEN {ClosePipeWrite(m)} ELSE {})

-----------------------------------------------------------------------------
StartFails ==
  /\ p' = [p EXCEPT !.state = "NotRunning"]
  /\ UNCHANGED kid

StartSucceeds ==
  \E k \in Kids :
    /\ kid[k] = "unborn" /\ Born = 1 .. k - 1
    /\ kid' = [kid EXCEPT ![k] = "running"]
    /\ p' = RegisterIOWatches(
              [p EXCEPT !.state = "Running", !.pid = k, !.polling = TRUE, !.queue = 0,
                        !.fd = [c \in Channels |-> IF c = "err" /\ p.merged THEN Closed ELSE k]])

StartImpl ==
  /\ StartFails \/ StartSucceeds
  /\ UNCHANGED <<pipe, heard, finished>>

(* SIGKILL ends the child; a child may ignore SIGTERM.  The signal goes to *)
(* m_pid, whether or not that child has been reaped already.               *)
TerminateImpl ==
  /\ \/ /\ p.state = "Running" /\ p.pid > 0 /\ kid[p.pid] = "running"
        /\ kid' = [kid EXCEPT ![p.pid] = "zombie"]
     \/ UNCHANGED kid
  /\ UNCHANGED <<p, pipe, heard, finished>>

WriteImpl ==
  /\ IF p.state # "Running" \/ p.fd["in"] = Closed THEN UNCHANGED p
     ELSE /\ p.queue < MaxQueue
          /\ \E m \in Flushed([p EXCEPT !.queue = @ + 1]) : p' = RefreshStdinWatch(m)
  /\ UNCHANGED <<kid, pipe, heard, finished>>

CloseWriteChannel ==
  /\ p' = ClosePipeWrite(p)
  /\ UNCHANGED <<kid, pipe, heard, finished>>

(* The four setters of what the next start() uses are refused unless the *)
(* process is NotRunning; of their values only the merged channels matter  *)
(* to the pipes.                                                           *)
SetMergedChannels ==
  /\ stage # "destroyed"
  /\ p' = IF p.state = "NotRunning" THEN [p EXCEPT !.merged = ~@] ELSE p
  /\ UNCHANGED <<kid, pipe, heard, finished>>

Apply(op) ==
  \/ op = "start" /\ StartImpl
  \/ op = "kill" /\ TerminateImpl
  \/ op = "write" /\ WriteImpl
  \/ op = "close" /\ CloseWriteChannel
Ops == {"start", "kill", "write", "close"}

Starting(q) == \E l \in Loops : \E i \in DOMAIN q[l] : q[l][i] = "start"
StartPending == Starting(calls)

(* A call of the owner's thread, from a task or from a slot.               *)
Call(op) ==
  /\ stage # "destroyed" /\ (stage = "none" => wait.by = "none")
  /\ op = "start" => p.state = "NotRunning" /\ (OverlappingStarts \/ ~StartPending)
  /\ Apply(op)
  /\ UNCHANGED <<calls, stage, dying, home>>

(* A call from a thread that does not own the node: checked at once where  *)
(* the code does, then posted to the owner.                                *)
PostCall(op) ==
  /\ stage # "destroyed" /\ Len(calls[home]) < MaxCalls
  /\ op = "write" => p.state = "Running" /\ p.fd["in"] # Closed
  /\ op = "start" /\ ~OverlappingStarts =>
       p.state = "NotRunning" /\ stage = "none" /\ ~StartPending
  /\ calls' = [calls EXCEPT ![home] = Append(@, op)]
  /\ UNCHANGED <<p, kid, pipe, stage, dying, home, heard, finished>>

(* The closure: start() is not tested again; closeWriteChannel() is called *)
(* again in full, and so is posted again if the node has moved.            *)
RunCall(l) ==
  /\ OwnerFree /\ calls[l] # <<>> /\ Head(calls[l]) # "wait"
  /\ LET op == Head(calls[l])
         popped == [calls EXCEPT ![l] = Tail(@)] IN
     IF op = "close" /\ l # home
     THEN /\ calls' = [popped EXCEPT ![home] = Append(@, op)]
          /\ UNCHANGED <<p, kid, pipe, heard, finished>>
     ELSE Apply(op) /\ calls' = popped
  /\ UNCHANGED <<stage, dying, home>>

(* onAboutToMoveToThread() and onMovedToThread().                          *)
Move ==
  /\ OwnerFree /\ (MoveWithCalls \/ calls[home] = <<>>)
  /\ home' = 1 - home
  /\ p' = RegisterIOWatches(UnregisterIOWatches(p))
  /\ UNCHANGED <<kid, pipe, calls, stage, dying, heard, finished>>

(* The destructor kills the child and waits for it; closures that are      *)
(* still posted find a dead NodePtr.                                       *)
Destroy ==
  /\ OwnerFree /\ stage' = "destroyed"
  /\ kid' = [k \in Kids |-> IF k = p.pid THEN "reaped" ELSE kid[k]]
  /\ p' = CleanupProcessResources([UnregisterIOWatches(p) EXCEPT !.polling = FALSE, !.pid = 0])
  /\ calls' = [l \in Loops |-> <<>>]
  /\ UNCHANGED <<pipe, dying, home, heard, finished>>

-----------------------------------------------------------------------------
(* readFromPipe(): everything there is; open unless no writer is left.     *)
Drain(c, k) ==
  /\ pipe' = [pipe EXCEPT ![c][k] = 0]
  /\ heard' = [heard EXCEPT ![c][k] = @ + pipe[c][k]]

HandleOutputEvents(c) ==
  LET k == p.fd[c] IN
  /\ OwnerFree /\ <<c, k>> \in p.io /\ k # Closed
  /\ pipe[c][k] > 0 \/ kid[k] # "running"
  /\ Drain(c, k)
  /\ p' = IF kid[k] = "running" THEN p ELSE ClosePipeRead(p, c)
  /\ UNCHANGED <<kid, calls, stage, dying, home, finished>>

HandleStdinEvents ==
  LET k == p.fd["in"] IN
  /\ OwnerFree /\ <<"in", k>> \in p.io /\ k # Closed
  /\ p.wantOut \/ kid[k] # "running"
  /\ \E m \in (IF p.wantOut THEN Flushed(p) ELSE {p}) :
       p' = RefreshStdinWatch(IF kid[k] = "running" THEN m ELSE ClosePipeWrite(m))
  /\ UNCHANGED <<kid, pipe, calls, stage, dying, home, heard, finished>>

(* waitpid() in pollChildExit() or waitForFinished() takes the child, and  *)
(* handleChildExit() begins.                                               *)
Reap ==
  /\ stage = "none" /\ p.pid > 0 /\ kid[p.pid] = "zombie"
  /\ p.polling \/ p.state # "NotRunning"
  /\ kid' = [kid EXCEPT ![p.pid] = "reaped"]
  /\ p' = ClosePipeWrite([p EXCEPT !.polling = FALSE])
  /\ dying' = p.pid /\ stage' = "out"
  /\ UNCHANGED <<pipe, calls, home, heard, finished>>

DrainThenClose_ClosesFirst(c) ==
  IF p.fd[c] = Closed THEN UNCHANGED <<p, pipe, heard>>
  ELSE p' = ClosePipeRead(p, c) /\ UNCHANGED <<pipe, heard>>
DrainThenClose(c) ==
  IF p.fd[c] = Closed THEN UNCHANGED <<p, pipe, heard>>
  ELSE Drain(c, p.fd[c]) /\ p' = ClosePipeRead(p, c)

ExitDrain(c) ==
  /\ stage = c /\ DrainThenClose(c)
  /\ stage' = IF c = "out" THEN "err" ELSE "state"
  /\ UNCHANGED <<kid, calls, dying, home, finished>>

ExitState ==
  /\ stage = "state" /\ stage' = "finished"
  /\ p' = [p EXCEPT !.pid = 0, !.state = "NotRunning"]
  /\ UNCHANGED <<kid, pipe, calls, dying, home, heard, finished>>

ExitFinished ==
  /\ stage = "finished" /\ stage' = "none"
  /\ finished' = Append(finished, dying) /\ dying' = 0
  /\ UNCHANGED <<p, kid, pipe, calls, home, heard>>

-----------------------------------------------------------------------------
(* waitForFinished() on the owner's thread: it blocks the loop and looks   *)
(* for the child itself (Reap), until its time is over.  It is not called  *)
(* from the slots of handleChildExit(), where waitpid() finds no child any *)
(* more and the pipes are closed before they are read.                     *)
WaitForFinished ==
  /\ OwnerFree /\ p.state # "NotRunning"
  /\ wait' = [wait EXCEPT !.by = "owner"]
  /\ UNCHANGED <<p, kid, pipe, calls, stage, dying, home, heard, finished>>

(* On another thread, one at a time: it posts the wait and blocks on the   *)
(* result, for ever or until its own time is over.                         *)
PostWait ==
  /\ p.state # "NotRunning" /\ stage # "destroyed" /\ Len(calls[home]) < MaxCalls
  /\ wait.kid = 0 /\ wait.by # "caller" /\ \A l \in Loops : "wait" \notin Range(calls[l])
  /\ calls' = [calls EXCEPT ![home] = Append(@, "wait")]
  /\ wait' = [wait EXCEPT !.kid = p.pid]
  /\ UNCHANGED <<p, kid, pipe, stage, dying, home, heard, finished>>

CallerGivesUp ==
  /\ wait.kid # 0 /\ wait' = [wait EXCEPT !.kid = 0]
  /\ UNCHANGED <<p, kid, pipe, calls, stage, dying, home, heard, finished>>

(* The promise is set to true; nobody may be looking at it any more.       *)
Answered(w) == [by |-> "none", kid |-> 0, told |-> w.told \union ({w.kid} \ {0})]

RunWait(l) ==
  /\ OwnerFree /\ calls[l] # <<>> /\ Head(calls[l]) = "wait"
  /\ LET popped == [calls EXCEPT ![l] = Tail(@)] IN
     IF l # home THEN calls' = [popped EXCEPT ![home] = Append(@, "wait")] /\ UNCHANGED wait
     ELSE /\ calls' = popped
          /\ wait' = IF p.state = "NotRunning" THEN Answered(wait) ELSE [wait EXCEPT !.by = "caller"]
  /\ UNCHANGED <<p, kid, pipe, stage, dying, home, heard, finished>>

WaitTimesOut ==
  /\ stage = "none" /\ wait.by # "none"
  /\ wait' = [wait EXCEPT !.by = "none", !.kid = IF wait.by = "caller" THEN 0 ELSE @]
  /\ UNCHANGED <<p, kid, pipe, calls, stage, dying, home, heard, finished>>

(* handleChildExit() returns to whoever called it.                         *)
AfterExit ==
  wait' = CASE wait.by = "caller" -> Answered(wait)
            [] wait.by = "owner" -> [wait EXCEPT !.by = "none"]
            [] wait.by = "none" -> wait

-----------------------------------------------------------------------------
(* A child with merged channels has one pipe for both.                     *)
ChildWrites(c, k) ==
  /\ kid[k] = "running" /\ p.fd[c] = k /\ heard[c][k] + pipe[c][k] < MaxOutput
  /\ pipe' = [pipe EXCEPT ![c][k] = @ + 1]
  /\ UNCHANGED <<p, kid, calls, stage, dying, home, heard, finished>>

ChildExits(k) ==
  /\ kid[k] = "running" /\ kid' = [kid EXCEPT ![k] = "zombie"]
  /\ UNCHANGED <<p, pipe, calls, stage, dying, home, heard, finished>>

HandleChildExit == ExitState \/ \E c \in Outputs : ExitDrain(c)

Next ==
  \/ /\ \/ \E op \in Ops : Call(op) \/ PostCall(op)
        \/ \E l \in Loops : RunCall(l)
        \/ Move
        \/ SetMergedChannels /\ UNCHANGED <<calls, stage, dying, home>>
        \/ HandleStdinEvents \/ Reap \/ HandleChildExit
        \/ \E c \in Outputs : HandleOutputEvents(c)
        \/ \E c \in Outputs, k \in Kids : ChildWrites(c, k)
        \/ \E k \in Kids : ChildExits(k)
     /\ UNCHANGED wait
  \/ ExitFinished /\ AfterExit
  \/ Destroy /\ wait' = [wait EXCEPT !.kid = 0]
  \/ WaitForFinished \/ PostWait \/ CallerGivesUp \/ WaitTimesOut
  \/ \E l \in Loops : RunWait(l)

-----------------------------------------------------------------------------
(* No child and no descriptor is left behind, whatever slots call while an *)
(* exit is handled: a child that was forked is the one m_pid names, or has *)
(* been reaped; an open pipe belongs to that child, or to the one whose    *)
(* exit is being handled; exactly the open pipes are watched, and stdin is *)
(* watched for room whenever something is queued for it.                   *)
NothingLeftBehind ==
  /\ \A k \in Born : kid[k] = "reaped" \/ (k = p.pid /\ p.state = "Running" /\ p.polling)
  /\ p.io = {<<c, p.fd[c]>> : c \in {d \in Channels : p.fd[d] # Closed}}
  /\ \A c \in Channels : p.fd[c] # Closed => p.fd[c] = p.pid
  /\ p.queue > 0 => p.fd["in"] # Closed /\ p.wantOut

(* finished() is emitted once for every child, in the order they were      *)
(* started, and by then everything the child has written was delivered; a  *)
(* waitForFinished() posted from another thread answers true only when     *)
(* that has happened for the child that was running when it was called.    *)
FinishedOnceWithOutput ==
  /\ \A i \in DOMAIN finished : finished[i] = i
  /\ \A k \in Born : kid[k] = "reaped" => k = dying \/ k <= Len(finished) \/ stage = "destroyed"
  /\ \A i \in DOMAIN finished, c \in Outputs : pipe[c][finished[i]] = 0
  /\ \A k \in wait.told : k <= Len(finished)

-----------------------------------------------------------------------------
(* What every step keeps, and what makes these two properties true.        *)

Stages == {"none", "out", "err", "state", "finished", "destroyed"}
Exiting == stage \in {"out", "err", "state", "finished"}

Members ==
  [state : {"NotRunning", "Running"}, pid : 0 .. MaxChildren,
   fd : [Channels -> 0 .. MaxChildren], watched : SUBSET Channels,
   io : SUBSET (Channels \X (0 .. MaxChildren)), wantOut : BOOLEAN, queue : Nat,
   polling : BOOLEAN, merged : BOOLEAN]

TypeOK ==
  /\ p \in Members
  /\ kid \in [Kids -> {"unborn", "running", "zombie", "reaped"}]
  /\ pipe \in [Outputs -> [Kids -> Nat]] /\ heard \in [Outputs -> [Kids -> Nat]]
  /\ calls \in [Loops -> Seq(Ops \union {"wait"})]
  /\ stage \in Stages /\ dying \in 0 .. MaxChildren /\ home \in Loops
  /\ finished \in Seq(Kids)
  /\ wait \in [by : {"none", "owner", "caller"}, kid : 0 .. MaxChildren, told : SUBSET Kids]

Open(m) == {c \in Channels : m.fd[c] # Closed}

(* The watches of the pipes follow them, when nothing waits for stdin or   *)
(* stdin is watched for room.                                              *)
Watched(m) ==
  /\ m.io = {<<c, m.fd[c]>> : c \in Open(m)} /\ m.watched = Open(m)
  /\ \A c \in Open(m) : m.fd[c] = m.pid
  /\ m.queue > 0 => "in" \in Open(m)
Wired(m) == Watched(m) /\ (m.queue > 0 => m.wantOut)

(* The last child that was forked.                                         *)
Youngest == IF p.pid # 0 THEN p.pid ELSE IF dying # 0 THEN dying ELSE Len(finished)

(* Children are forked, reaped and reported in one order, and there is at  *)
(* most one that runs: that of m_pid.                                      *)
InOrder ==
  /\ stage # "destroyed" => Born = 1 .. Youngest /\ (p.pid = 0 <=> p.state = "NotRunning")
  /\ p.pid # 0 => p.pid = (IF stage = "finished" THEN dying ELSE Len(finished)) + 1
  /\ dying = (IF Exiting THEN Len(finished) + 1 ELSE 0)
  /\ Len(finished) <= MaxChildren /\ \A i \in DOMAIN finished : finished[i] = i
  /\ \A k \in Kids : k <= Len(finished) => kid[k] = "reaped"
  /\ stage = "destroyed" => p.pid = 0 /\ \A k \in Born : kid[k] = "reaped"

(* The stages of handleChildExit().                                        *)
ExitInOrder ==
  /\ Exiting => kid[dying] = "reaped"
  /\ stage \in {"out", "err", "state"} => p.pid = dying /\ p.fd["in"] = Closed
  /\ stage \in {"err", "state"} => p.fd["out"] = Closed
  /\ stage = "state" => p.fd["err"] = Closed
  /\ stage \in {"none", "finished"} /\ p.pid # 0 => p.polling /\ kid[p.pid] \in {"running", "zombie"}

(* Only one start() is pending, and it is still one that may go on.        *)
StartsOnce(q) ==
  \A l, m \in Loops : \A i \in DOMAIN q[l], j \in DOMAIN q[m] :
    q[l][i] = "start" /\ q[m][j] = "start" => l = m /\ i = j
OneStart ==
  /\ StartPending => stage = "none" /\ p.state = "NotRunning"
  /\ StartsOnce(calls)

(* What is left in a pipe can still be read, until the process object is   *)
(* destroyed.                                                              *)
Readable ==
  \A c \in Outputs, k \in Kids :
    pipe[c][k] > 0 => (p.fd[c] = k \/ stage = "destroyed") /\ k > Len(finished)

WaitsForBorn ==
  /\ wait.kid # 0 => wait.kid \in Born
  /\ wait.by = "caller" /\ Exiting => wait.kid <= dying
  /\ \A k \in wait.told : k <= Len(finished)

Inv ==
  TypeOK /\ Wired(p) /\ InOrder /\ ExitInOrder /\ OneStart /\ Readable /\ WaitsForBorn
=============================================================================
