----------------------- MODULE WebSocketImplEmscripten -----------------------
(***************************************************************************)
(* The browser build's WebSocket backend: a handle of the browser's        *)
(* WebSocket API, whose events call back with the same `this' whichever    *)
(* handle they are for.  Reconnects = TRUE lets connectToHost() be called  *)
(* while the previous handle still has its close event to come: the new    *)
(* handle replaces it in m_socket without deleting it.                     *)
(***************************************************************************)
EXTENDS Naturals, FiniteSets

CONSTANTS Reconnects,
          MaxHandles   \* emscripten_websocket_new() calls that succeed

Handles == 1..MaxHandles

VARIABLES st,        \* m_state
          handle,    \* m_socket, 0 when there is none
          browser,   \* the browser's state of every handle
          last       \* the signal the last step emitted
emVars == <<st, handle, browser, last>>

Init == /\ st = "Closed" /\ handle = 0
        /\ browser = [h \in Handles |-> "none"]
        /\ last = "none"

Live(h) == browser[h] \in {"connecting", "open", "closing"}

\* close(): the close event comes later.
StateAfterClose == IF handle = 0 THEN "Closed"
                   ELSE IF st \in {"Open", "Connecting"} THEN "Closing" ELSE st
BrowserAfterClose == [h \in Handles |->
    IF h = handle /\ st \in {"Open", "Connecting"} /\ browser[h] # "closed" THEN "closing" ELSE browser[h]]

Close == /\ st' = StateAfterClose /\ browser' = BrowserAfterClose
         /\ last' = "none" /\ UNCHANGED handle

\* connectToHost(): close() first; an invalid or a wildcard address, or no
\* WebSocket support, is an error that leaves m_socket as it is.
ConnectToHost ==
    /\ Reconnects \/ handle = 0
    /\ \/ /\ st' = "Error" /\ browser' = BrowserAfterClose /\ UNCHANGED handle
       \/ /\ st' = "Error" /\ browser' = BrowserAfterClose /\ handle' = 0   \* new() fails
       \/ \E h \in Handles :
             /\ browser[h] = "none" /\ \A i \in 1..(h - 1) : browser[i] # "none"
             /\ handle' = h /\ st' = "Connecting"
             /\ browser' = [BrowserAfterClose EXCEPT ![h] = "connecting"]
    /\ last' = (IF st' = "Error" THEN "errorOccurred" ELSE "none")

\* connectToCurrentOrigin(), connectToCurrentHost(): no usable location.
ConnectToCurrentOriginFails ==
    /\ Reconnects \/ handle = 0
    /\ st' = "Error" /\ browser' = BrowserAfterClose /\ last' = "errorOccurred"
    /\ UNCHANGED handle

\* The events of handle h.
OnOpen(h) ==
    /\ browser[h] = "connecting"
    /\ browser' = [browser EXCEPT ![h] = "open"]
    /\ st' = "Open" /\ last' = "connected"
    /\ UNCHANGED handle

\* onError: the browser's close event follows.
OnError(h) ==
    /\ Live(h)
    /\ browser' = [browser EXCEPT ![h] = "closing"] /\ st' = "Error"
    /\ last' = "errorOccurred"
    /\ UNCHANGED handle

\* handleClose() deletes m_socket, whichever handle the event was for.
OnClose_KeepsHandle(h) ==
    /\ Live(h)
    /\ browser' = [browser EXCEPT ![h] = "closed"]
    /\ st' = "Closed"
    /\ last' = IF st \in {"Connecting", "Open", "Closing"} THEN "disconnected" ELSE "none"
    /\ UNCHANGED handle

OnClose(h) ==
    /\ Live(h)
    /\ browser' = [i \in Handles |-> IF i = handle THEN "deleted"
                                     ELSE IF i = h THEN "closed" ELSE browser[i]]
    /\ handle' = 0 /\ st' = "Closed"
    /\ last' = IF st \in {"Connecting", "Open", "Closing"} THEN "disconnected" ELSE "none"

Next == \/ ConnectToHost \/ ConnectToCurrentOriginFails \/ Close
        \/ \E h \in Handles : OnOpen(h) \/ OnError(h) \/ OnClose(h)
Spec == Init /\ [][Next]_emVars

\* The backend's state is about the handle it holds: no handle but m_socket
\* is alive or left undeleted, and Connecting and Open are what the browser
\* says of it; a handle that is replaced, or whose event ends another one,
\* breaks this (connectToHost, handleClose).
StateIsTheHandles ==
    /\ \A h \in Handles : browser[h] # "closed" /\ (Live(h) => h = handle)
    /\ st = "Open" => handle # 0 /\ browser[handle] = "open"
    /\ st = "Connecting" => handle # 0 /\ browser[handle] = "connecting"
    /\ handle = 0 => st \in {"Closed", "Error"}
=============================================================================
