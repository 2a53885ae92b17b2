---------------------------- MODULE AlertChannel ----------------------------
(***************************************************************************)
(* The alert socket from end to end: the hook useAlertsWebSocket of the    *)
(* alerts panel (frontend/src/hooks/useAlertsWebSocket.ts), the endpoint   *)
(* /ws/alerts (backend/main.py) and the AlertWebSocketManager it registers *)
(* with (backend/services/websocket_manager.py), for one browser tab.      *)
(*                                                                         *)
(* The tab and the server each run on one thread: an action of the hook is *)
(* one callback or one commit of React, an action of the server what a     *)
(* coroutine does between two awaits.  The lock of the manager guards      *)
(* sections without an await, so nobody ever waits for it.                 *)
(***************************************************************************)
EXTENDS FiniteSets

CONSTANTS
  Socket,   \* WebSocket objects and their endpoints, used again once both ended
  Url,      \* addresses of the socket: one for each token
  Nil       \* no socket, no address

ASSUME NilAssumption == Nil \notin Socket /\ Nil \notin Url

VARIABLES
  url,      \* what the last render computed: an address, Nil when not enabled
  hook,     \* the refs and the status of the hook
  sock,     \* the WebSocket objects in the browser
  server,   \* the endpoint of each socket
  conns,    \* _connections of the manager
  todo      \* the recipients a running broadcast has yet to send to

channel == <<url, hook, sock, server, conns, todo>>

\* deaf is a history flag: the socket in wsRef lost its handlers to reconnect().
HookState == [ref : Socket \cup {Nil}, timer : Url \cup {Nil},
              manual : BOOLEAN, deaf : BOOLEAN,
              status : {"connecting", "open", "closed"}]

\* heard: the handlers are attached.
SocketState == [url : Url \cup {Nil}, heard : BOOLEAN,
                ready : {"connecting", "open", "closing", "closed"}]

ChannelTypeOK ==
  /\ url \in Url \cup {Nil}
  /\ hook \in HookState
  /\ sock \in [Socket -> SocketState]
  /\ server \in [Socket -> {"none", "checking", "accepted", "greeting", "serving"}]
  /\ conns \subseteq Socket
  /\ todo \subseteq Socket

\* The panel is mounted, not enabled yet.
ChannelInit ==
  /\ url = Nil
  /\ hook = [ref |-> Nil, timer |-> Nil, manual |-> TRUE, deaf |-> FALSE,
             status |-> "closed"]
  /\ sock = [s \in Socket |-> [url |-> Nil, heard |-> FALSE, ready |-> "closed"]]
  /\ server = [s \in Socket |-> "none"]
  /\ conns = {}
  /\ todo = {}

-----------------------------------------------------------------------------
(* The hook                                                                *)

Active(s) == s # Nil /\ sock[s].ready \in {"connecting", "open"}

\* A socket that nobody refers to any more stands for a new one.
Unused == {s \in Socket \ (todo \cup {hook.ref}) :
            sock[s].ready = "closed" /\ server[s] = "none"}

\* Deliberately wrong: the handlers stay on the socket that is closed.
DetachedHearing ==
  [s \in Socket |->
     IF s = hook.ref /\ sock[s].ready # "closed"
       THEN [sock[s] EXCEPT !.ready = "closing"] ELSE sock[s]]

\* The sockets after cleanup() and close() of the current one.
Detached ==
  [s \in Socket |->
     IF s = hook.ref
       THEN [sock[s] EXCEPT !.heard = FALSE,
                            !.ready = IF @ = "closed" THEN @ ELSE "closing"]
       ELSE sock[s]]

\* The refs after cleanup() and close(), and the status disconnect() sets.
Released(h) == [h EXCEPT !.ref = Nil, !.timer = Nil, !.manual = TRUE,
                         !.deaf = FALSE, !.status = "closed"]

\* connect() of the closure that captured u, with the refs h and the sockets k
\* that its caller left.
Connect(u, h, k) ==
  \E s \in Unused :
    /\ hook' = [h EXCEPT !.ref = s, !.manual = FALSE, !.deaf = FALSE,
                         !.status = "connecting"]
    /\ sock' = [k EXCEPT ![s] = [url |-> u, heard |-> TRUE, ready |-> "connecting"]]
    /\ server' = [server EXCEPT ![s] = "checking"]

\* A render with another token, with other callbacks, or not enabled: React
\* runs the cleanup of the effect and then the effect.
Render(u) ==
  /\ url' = u
  /\ IF u = Nil
       THEN hook' = Released(hook) /\ sock' = Detached /\ UNCHANGED server
       ELSE Connect(u, Released(hook), Detached)
  /\ UNCHANGED <<conns, todo>>

\* disconnect() of the hook's result.
Disconnect ==
  /\ hook' = Released(hook)
  /\ sock' = Detached
  /\ UNCHANGED <<url, server, conns, todo>>

\* reconnect() of the hook's result: connect() returns early when the socket
\* is active or there is no address.
Reconnect ==
  LET h == [hook EXCEPT !.manual = FALSE, !.timer = Nil, !.deaf = hook.ref # Nil]
      k == [s \in Socket |->
              IF s = hook.ref THEN [sock[s] EXCEPT !.heard = FALSE] ELSE sock[s]]
  IN  /\ IF url = Nil \/ Active(hook.ref)
           THEN hook' = h /\ sock' = k /\ UNCHANGED server
           ELSE Connect(url, h, k)
      /\ UNCHANGED <<url, conns, todo>>

\* The timer set by a close event calls connect() of the closure that set it.
TimerFires ==
  /\ hook.timer # Nil
  /\ LET h == [hook EXCEPT !.timer = Nil]
     IN  IF Active(hook.ref)
           THEN hook' = h /\ UNCHANGED <<sock, server>>
           ELSE Connect(hook.timer, h, sock)
  /\ UNCHANGED <<url, conns, todo>>

\* The handshake is answered.
Opened(s) ==
  /\ sock[s].ready = "connecting"
  /\ server[s] \in {"accepted", "greeting", "serving"}
  /\ sock' = [sock EXCEPT ![s].ready = "open"]
  /\ hook' = IF sock[s].heard THEN [hook EXCEPT !.status = "open"] ELSE hook
  /\ UNCHANGED <<url, server, conns, todo>>

\* Deliberately wrong: only a close after an error is followed by a new attempt.
OnCloseOnce(s) ==
  [hook EXCEPT !.status = "closed", !.ref = Nil,
               !.timer = IF hook.manual \/ sock[s].ready = "closing"
                           THEN @ ELSE sock[s].url]

\* onclose: the attempts are counted for the delay alone.
OnClose(s) ==
  [hook EXCEPT !.status = "closed", !.ref = Nil,
               !.timer = IF hook.manual THEN @ ELSE sock[s].url]

\* A socket ends: after the closing handshake, or without an answer to the
\* opening one (then onerror runs first and onclose overwrites its status).
Closed(s) ==
  /\ sock[s].ready \in {"connecting", "closing"}
  /\ sock' = [sock EXCEPT ![s].ready = "closed", ![s].heard = FALSE]
  /\ hook' = IF sock[s].heard THEN OnClose(s) ELSE hook
  /\ UNCHANGED <<url, server, conns, todo>>

\* The network or the server begins to close an open socket.
Drop(s) ==
  /\ sock[s].ready = "open"
  /\ sock' = [sock EXCEPT ![s].ready = "closing"]
  /\ UNCHANGED <<url, hook, server, conns, todo>>

-----------------------------------------------------------------------------
(* The server                                                              *)

\* The token is looked up in a thread: a bad one ends the endpoint before the
\* socket is accepted.
Check(s) ==
  /\ server[s] = "checking"
  /\ \E answer \in {"none", "accepted"} : server' = [server EXCEPT ![s] = answer]
  /\ UNCHANGED <<url, hook, sock, conns, todo>>

\* Deliberately wrong: the connection is added before accept() is awaited.
RegisterFirst(s) ==
  /\ server[s] = "accepted"
  /\ conns' = conns \cup {s}
  /\ server' = [server EXCEPT ![s] = IF Active(s) THEN "greeting" ELSE "none"]
  /\ UNCHANGED <<url, hook, sock, todo>>

\* The rest of connect() after accept(), which may raise when the client is
\* gone; the greeting is under way.
Register(s) ==
  /\ server[s] = "accepted"
  /\ \/ /\ conns' = conns \cup {s}
        /\ server' = [server EXCEPT ![s] = "greeting"]
     \/ /\ ~Active(s)
        /\ server' = [server EXCEPT ![s] = "none"]
        /\ UNCHANGED conns
  /\ UNCHANGED <<url, hook, sock, todo>>

\* The greeting is sent and the endpoint listens.
Greet(s) ==
  /\ server[s] = "greeting"
  /\ server' = [server EXCEPT ![s] = "serving"]
  /\ UNCHANGED <<url, hook, sock, conns, todo>>

\* A send or a receive of the endpoint fails as the client is gone: finally.
Leave(s) ==
  /\ server[s] \in {"greeting", "serving"}
  /\ ~Active(s)
  /\ server' = [server EXCEPT ![s] = "none"]
  /\ conns' = conns \ {s}
  /\ UNCHANGED <<url, hook, sock, todo>>

\* broadcast() of an alert takes a copy of the connections.
Snapshot ==
  /\ todo = {}
  /\ todo' = conns
  /\ UNCHANGED <<url, hook, sock, server, conns>>

\* One send of the broadcast: to a client that is gone it may fail, which
\* removes the connection, or be swallowed by the transport.
Send(s) ==
  /\ s \in todo
  /\ todo' = todo \ {s}
  /\ \/ UNCHANGED conns
     \/ ~Active(s) /\ conns' = conns \ {s}
  /\ UNCHANGED <<url, hook, sock, server>>

\* The server stops and comes back: every open socket begins to close.
Restart ==
  /\ server' = [s \in Socket |-> "none"]
  /\ conns' = {}
  /\ todo' = {}
  /\ sock' = [s \in Socket |-> IF sock[s].ready = "open"
                                 THEN [sock[s] EXCEPT !.ready = "closing"]
                                 ELSE sock[s]]
  /\ UNCHANGED <<url, hook>>

-----------------------------------------------------------------------------
Browser(s) == Opened(s) \/ Closed(s) \/ Drop(s)

Endpoint(s) == Check(s) \/ Register(s) \/ Greet(s) \/ Leave(s)

ChannelNext ==
  \/ \E u \in Url \cup {Nil} : Render(u)
  \/ Disconnect \/ Reconnect \/ TimerFires
  \/ \E s \in Socket : Browser(s) \/ Endpoint(s) \/ Send(s)
  \/ Snapshot \/ Restart

ChannelSpec == ChannelInit /\ [][ChannelNext]_channel

-----------------------------------------------------------------------------
(* Properties                                                              *)

\* The hook listens to one socket at most, the one it refers to, and that one
\* carries the token of the last render: the alerts of a socket that was left
\* behind, for a token that is no longer the user's, are never shown.  The same
\* holds for the attempt a timer is about to make.
OneSocket ==
  /\ \A s \in Socket :
       sock[s].heard => s = hook.ref /\ sock[s].url = url /\ ~hook.manual
  /\ hook.timer # Nil => hook.timer = url /\ hook.ref = Nil

\* A hook that is enabled and was not disconnected by hand has a socket it
\* listens to or is about to try again.  The exception is reconnect() on a
\* socket that is still active: it takes the handlers off and connects nothing,
\* and neither its alerts nor its end are noticed any more.
KeepsTrying ==
  url # Nil /\ ~hook.manual =>
    \/ hook.timer # Nil
    \/ hook.ref # Nil /\ (sock[hook.ref].heard \/ hook.deaf)

\* The status the panel shows is true: "open" stands for a socket whose end has
\* not been reported yet, "connecting" for one under way (the same exception).
StatusIsTrue ==
  \/ hook.deaf
  \/ hook.status = "closed" /\ hook.ref = Nil
  \/ /\ hook.ref # Nil
     /\ sock[hook.ref].ready \in
          IF hook.status = "open" THEN {"open", "closing"} ELSE {"connecting", "closing"}

\* Whatever broadcasts meet sockets that come and go: the manager holds no
\* connection whose endpoint is over, and an open socket is missing from it only
\* until its endpoint has resumed after accept().
ManagerKnowsTheLive ==
  /\ \A s \in conns : server[s] \in {"greeting", "serving"}
  /\ \A s \in Socket : server[s] \in {"greeting", "serving"} /\ Active(s) => s \in conns
=============================================================================
