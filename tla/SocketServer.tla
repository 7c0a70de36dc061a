---------------------------- MODULE SocketServer ----------------------------
(***************************************************************************)
(* snf::TcpServer and snf::LocalServer (src/lib/Network/src/SNFNetwork):   *)
(* listening, the accept loop, the bounded list of pending connections     *)
(* and their handover.  The accept loop keeps the listening descriptor it  *)
(* started with; in LocalServer the slots of newConnection run inside it.  *)
(* Which of the two classes a behaviour is about is chosen at its start.   *)
(***************************************************************************)
EXTENDS Naturals, Sequences, FiniteSets, SequencesExt

CONSTANTS
  MaxClients,    \* bound: clients that connect
  MaxListens     \* bound: calls of listen()

Clients == 1 .. MaxClients

VARIABLES
  LocalServer,   \* newConnection is emitted at once, not posted; never changes
  m_listening, listenFd,     \* 0, or the number of the listen() it is from
  m_maxPendingConnections,
  m_pendingConnections,      \* accepted sockets, children of the server
  backlog,                   \* clients the kernel has queued for the listening socket
  accepting,                 \* the descriptor of the accept loop in progress, or 0
  inSlot,                    \* a newConnection slot is running inside the loop
  announced,                 \* newConnection signals posted and not emitted
  client,                    \* what has become of every client
  listens,
  path                       \* LocalServer: the listen() whose socket file exists, or 0

serverVars == <<m_listening, listenFd, m_maxPendingConnections, m_pendingConnections, path>>
vars == <<LocalServer, serverVars, backlog, accepting, inSlot, announced, client, listens>>

Init ==
  /\ LocalServer \in BOOLEAN
  /\ m_listening = FALSE /\ listenFd = 0 /\ m_maxPendingConnections = 2
  /\ m_pendingConnections = <<>> /\ backlog = <<>> /\ accepting = 0 /\ inSlot = FALSE
  /\ announced = 0 /\ client = [c \in Clients |-> "new"] /\ listens = 0 /\ path = 0

(* User code runs in tasks, or in the slot.                                *)
UserCode == accepting = 0 \/ inSlot

Fate(cs, f) == [c \in Clients |-> IF c \in cs THEN f ELSE client[c]]

CloseDropsPending_Keeps == client' = Fate(Range(backlog), "refused") /\ UNCHANGED m_pendingConnections
CloseDropsPending ==
  /\ client' = [c \in Clients |-> IF c \in Range(m_pendingConnections) THEN "deleted"
                                  ELSE IF c \in Range(backlog) THEN "refused" ELSE client[c]]
  /\ m_pendingConnections' = <<>>

(* close(), which the destructor and listen() call as well.                *)
CloseServer ==
  /\ m_listening' = FALSE /\ listenFd' = 0 /\ backlog' = <<>> /\ path' = 0
  /\ IF LocalServer /\ ~m_listening
     THEN client' = Fate(Range(backlog), "refused") /\ UNCHANGED m_pendingConnections
     ELSE CloseDropsPending
Close ==
  /\ UserCode /\ m_listening /\ CloseServer
  /\ UNCHANGED <<m_maxPendingConnections, accepting, inSlot, announced, listens>>

ListenFails ==
  /\ UserCode /\ listens < MaxListens /\ listens' = listens + 1 /\ CloseServer
  /\ UNCHANGED <<m_maxPendingConnections, accepting, inSlot, announced>>

(* The new descriptor has the lowest free number, that of the one that was *)
(* just closed: an accept loop in progress goes on with it.                *)
Listen ==
  /\ UserCode /\ listens < MaxListens /\ listens' = listens + 1
  /\ m_listening' = TRUE /\ listenFd' = listens + 1 /\ backlog' = <<>>
  /\ path' = IF LocalServer THEN listens + 1 ELSE 0
  /\ accepting' = IF accepting = 0 THEN 0 ELSE listens + 1
  /\ CloseDropsPending
  /\ UNCHANGED <<m_maxPendingConnections, inSlot, announced>>

SetMaxPendingConnections(n) ==
  /\ UserCode /\ m_maxPendingConnections' = n
  /\ UNCHANGED <<m_listening, listenFd, m_pendingConnections, path, backlog, accepting, inSlot,
                 announced, client, listens>>

NextPendingConnection ==
  /\ UserCode /\ m_pendingConnections # <<>>
  /\ client' = Fate({Head(m_pendingConnections)}, "handed out")
  /\ m_pendingConnections' = Tail(m_pendingConnections)
  /\ UNCHANGED <<m_listening, listenFd, m_maxPendingConnections, path, backlog, accepting, inSlot,
                 announced, listens>>

(* handleEvents() with EPOLLIN.                                            *)
HandleEvents ==
  /\ accepting = 0 /\ m_listening /\ backlog # <<>>
  /\ accepting' = listenFd
  /\ UNCHANGED <<serverVars, backlog, inSlot, announced, client, listens>>

AcceptOne ==
  /\ accepting # 0 /\ ~inSlot /\ accepting = listenFd /\ backlog # <<>>
  /\ backlog' = Tail(backlog)
  /\ IF Len(m_pendingConnections) < m_maxPendingConnections
     THEN /\ m_pendingConnections' = Append(m_pendingConnections, Head(backlog))
          /\ client' = Fate({Head(backlog)}, "pending")
          /\ inSlot' = LocalServer /\ announced' = IF LocalServer THEN 0 ELSE announced + 1
     ELSE client' = Fate({Head(backlog)}, "refused") /\ UNCHANGED <<m_pendingConnections, inSlot, announced>>
  /\ UNCHANGED <<m_listening, listenFd, m_maxPendingConnections, path, accepting, listens>>

SlotReturns ==
  /\ inSlot /\ inSlot' = FALSE
  /\ UNCHANGED <<serverVars, backlog, accepting, announced, client, listens>>

(* EAGAIN, or an error because the descriptor is closed.                   *)
AcceptEnds ==
  /\ accepting # 0 /\ ~inSlot /\ (accepting # listenFd \/ backlog = <<>>)
  /\ accepting' = 0
  /\ UNCHANGED <<serverVars, backlog, inSlot, announced, client, listens>>

EmitNewConnection ==
  /\ announced > 0 /\ accepting = 0 /\ announced' = announced - 1
  /\ UNCHANGED <<serverVars, backlog, accepting, inSlot, client, listens>>

ClientConnects(c) ==
  /\ client[c] = "new" /\ m_listening
  /\ client' = Fate({c}, "backlog") /\ backlog' = Append(backlog, c)
  /\ UNCHANGED <<serverVars, accepting, inSlot, announced, listens>>

Next ==
  /\ UNCHANGED LocalServer
  /\ \/ Close \/ Listen \/ ListenFails \/ NextPendingConnection
     \/ \E n \in 1 .. 2 : SetMaxPendingConnections(n)
     \/ HandleEvents \/ AcceptOne \/ AcceptEnds \/ SlotReturns \/ EmitNewConnection
     \/ \E c \in Clients : ClientConnects(c)

-----------------------------------------------------------------------------
(* Whatever the slots do to the server inside its accept loop: a           *)
(* connection that was accepted is pending exactly once until it is handed *)
(* out or deleted, none stays pending with a server that does not listen,  *)
(* and the socket file of a LocalServer is there exactly while it listens. *)
AcceptedAreAccounted ==
  /\ IsInjective(m_pendingConnections)
  /\ \A c \in Clients : client[c] = "pending" <=> c \in Range(m_pendingConnections)
  /\ ~m_listening => m_pendingConnections = <<>> /\ backlog = <<>>
  /\ LocalServer => path = listenFd

-----------------------------------------------------------------------------
(* What every step keeps: a client is in one place, and only a server that *)
(* listens has any.                                                        *)
TypeOK ==
  /\ LocalServer \in BOOLEAN /\ m_listening \in BOOLEAN /\ inSlot \in BOOLEAN
  /\ m_pendingConnections \in Seq(Clients) /\ backlog \in Seq(Clients)
  /\ client \in [Clients -> {"new", "backlog", "pending", "handed out", "refused", "deleted"}]

InOnePlace ==
  /\ IsInjective(m_pendingConnections) /\ IsInjective(backlog)
  /\ \A c \in Clients : client[c] = "pending" <=> c \in Range(m_pendingConnections)
  /\ \A c \in Clients : client[c] = "backlog" <=> c \in Range(backlog)

NoneWithoutListening ==
  /\ ~m_listening => m_pendingConnections = <<>> /\ backlog = <<>>
  /\ LocalServer => path = listenFd

Inv == TypeOK /\ InOnePlace /\ NoneWithoutListening
=============================================================================
