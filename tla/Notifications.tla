---------------------------- MODULE Notifications ----------------------------
(***************************************************************************)
(* The live notifications from a broadcast to the screen: the endpoints    *)
(* that make one (backend/routers/notifications.py), the legs of the       *)
(* NotificationDispatcher and the ConnectionManager                        *)
(* (backend/services/notification_dispatcher.py), the endpoint             *)
(* /ws/notifications (backend/routers/notifications_ws.py), and the hook   *)
(* useLiveNotifications of one tab (frontend/src/hooks), which reads the   *)
(* log of the last events whenever it has no socket.                       *)
(*                                                                         *)
(* The server and the tab each run on one thread; an action of the server  *)
(* is what a coroutine does between two awaits that suspend (the lock of   *)
(* the manager guards sections without one), an action of the tab one      *)
(* callback or one commit of React.  The manager keeps its sockets by      *)
(* user; the ones here are all of one user.                                *)
(***************************************************************************)
EXTENDS Naturals, Sequences, FiniteSets, SequencesExt

CONSTANTS
  Socket,      \* WebSocket objects and their endpoints, used again once both ended
  MaxEvents,   \* bound on the events of a behaviour
  Keep,        \* how many events the log keeps: 100
  Nil          \* no socket, no data

ASSUME EventAssumption == MaxEvents \in Nat /\ Keep \in Nat

ASSUME SocketAssumption == Nil \notin Socket

VARIABLES
  hook,     \* the ref of the hook and its status
  shown,    \* events, what the hook returns
  swr,      \* fallbackData as SWR has cached it, and the request under way
  sock,     \* Socket -> state of the WebSocket object in the browser
  wire,     \* Socket -> what was sent and not yet received
  server,   \* Socket -> its endpoint
  conns,    \* the sockets of active_connections
  log,      \* _LAST_EVENTS
  count,    \* events so far; an event is its number
  todo,     \* event -> sockets that its broadcast has yet to send to
  since,    \* history: Socket -> events that were there before it registered
  polled    \* history: the events of the last log that was put on the screen

browser == <<hook, shown, swr, sock, polled>>
backend == <<server, conns, log, count, todo, since>>
live == <<browser, wire, backend>>

Event == 1 .. MaxEvents

LiveTypeOK ==
  /\ hook \in [ref : Socket \cup {Nil}, status : {"connected", "fallback"}]
  /\ shown \in Seq(Event)
  /\ swr \in [data : Seq(Event) \cup {Nil}, poll : {"none", "asked", "answered"},
              answer : Seq(Event)]
  /\ sock \in [Socket -> {"connecting", "open", "closing", "closed"}]
  /\ wire \in [Socket -> Seq(Event)]
  /\ server \in [Socket -> {"none", "checking", "accepted", "serving"}]
  /\ conns \subseteq Socket
  /\ log \in Seq(Event) /\ Len(log) <= Keep
  /\ count \in 0 .. MaxEvents
  /\ todo \in [Event -> SUBSET Socket]
  /\ since \in [Socket -> 0 .. MaxEvents]
  /\ polled \subseteq Event

\* The tab has no token yet.
LiveInit ==
  /\ hook = [ref |-> Nil, status |-> "fallback"]
  /\ shown = <<>>
  /\ swr = [data |-> Nil, poll |-> "none", answer |-> <<>>]
  /\ sock = [s \in Socket |-> "closed"]
  /\ wire = [s \in Socket |-> <<>>]
  /\ server = [s \in Socket |-> "none"]
  /\ conns = {}
  /\ log = <<>>
  /\ count = 0
  /\ todo = [e \in Event |-> {}]
  /\ since = [s \in Socket |-> 0]
  /\ polled = {}

-----------------------------------------------------------------------------
(* The hook                                                                *)

Alive(s) == sock[s] \in {"connecting", "open"}

\* A socket that nobody refers to any more stands for a new one.
Fresh ==
  {s \in Socket : /\ sock[s] = "closed" /\ server[s] = "none" /\ s # hook.ref
                  /\ \A e \in Event : s \notin todo[e]}

\* The events change to those of a list.
Put(list) ==
  /\ shown' = list
  /\ polled' = ToSet(list)

\* setStatus("fallback"): if that is a change, the log read last is shown again
\* until the next one arrives.
FallBack ==
  IF hook.status = "connected" /\ swr.data # Nil THEN Put(swr.data)
  ELSE UNCHANGED <<shown, polled>>

\* Deliberately wrong: without a token the status stays what it was.
SignOutQuietly ==
  /\ hook' = [hook EXCEPT !.ref = Nil]
  /\ sock' = [s \in Socket |-> IF s = hook.ref /\ Alive(s) THEN "closing" ELSE sock[s]]
  /\ UNCHANGED <<shown, polled, swr, wire, backend>>

\* The effect of a render without a token, after the cleanup of the last one.
SignOut ==
  /\ hook' = [ref |-> Nil, status |-> "fallback"]
  /\ sock' = [s \in Socket |-> IF s = hook.ref /\ Alive(s) THEN "closing" ELSE sock[s]]
  /\ FallBack
  /\ UNCHANGED <<swr, wire, backend>>

\* The same with a new token.  The status stays until the socket opens or ends.
SignIn(s) ==
  /\ s \in Fresh
  /\ hook' = [hook EXCEPT !.ref = s]
  /\ sock' = [t \in Socket |-> IF t = s THEN "connecting"
                               ELSE IF t = hook.ref /\ Alive(t) THEN "closing" ELSE sock[t]]
  /\ server' = [server EXCEPT ![s] = "checking"]
  /\ wire' = [wire EXCEPT ![s] = <<>>]
  /\ UNCHANGED <<shown, polled, swr, conns, log, count, todo, since>>

\* onopen
Opened(s) ==
  /\ sock[s] = "connecting" /\ server[s] \in {"accepted", "serving"}
  /\ sock' = [sock EXCEPT ![s] = "open"]
  /\ hook' = IF s = hook.ref THEN [hook EXCEPT !.status = "connected"] ELSE hook
  /\ UNCHANGED <<shown, polled, swr, wire, backend>>

\* onmessage: the flag active in its closure tells whether it is still wanted.
Receive(s) ==
  /\ sock[s] \in {"open", "closing"} /\ wire[s] # <<>>
  /\ shown' = IF s = hook.ref THEN Append(shown, Head(wire[s])) ELSE shown
  /\ wire' = [wire EXCEPT ![s] = Tail(@)]
  /\ UNCHANGED <<hook, polled, swr, sock, backend>>

\* onclose, also after onerror: the hook falls back and does not try again.
Closed(s) ==
  /\ sock[s] \in {"connecting", "closing"}
  /\ sock' = [sock EXCEPT ![s] = "closed"]
  /\ wire' = [wire EXCEPT ![s] = <<>>]
  /\ IF s = hook.ref
       THEN FallBack /\ hook' = [hook EXCEPT !.status = "fallback"]
       ELSE UNCHANGED <<hook, shown, polled>>
  /\ UNCHANGED <<swr, backend>>

\* The network or the server begins to close an open socket; what was on its way
\* may be lost.
Drop(s) ==
  /\ sock[s] = "open"
  /\ sock' = [sock EXCEPT ![s] = "closing"]
  /\ wire' \in {wire, [wire EXCEPT ![s] = <<>>]}
  /\ UNCHANGED <<hook, shown, polled, swr, backend>>

\* While the status is "fallback" SWR reads the log every five seconds.
Ask ==
  /\ hook.status = "fallback" /\ swr.poll = "none"
  /\ swr' = [swr EXCEPT !.poll = "asked"]
  /\ UNCHANGED <<hook, shown, polled, sock, wire, backend>>

\* GET /api/notifications/logs
GetRecentLogs ==
  /\ swr.poll = "asked"
  /\ swr' = [swr EXCEPT !.poll = "answered", !.answer = log]
  /\ UNCHANGED <<hook, shown, polled, sock, wire, backend>>

PollFails ==
  /\ swr.poll # "none"
  /\ swr' = [swr EXCEPT !.poll = "none", !.answer = <<>>]
  /\ UNCHANGED <<hook, shown, polled, sock, wire, backend>>

\* Deliberately wrong: an answer that comes late is shown all the same.
PollArrivesLate ==
  /\ swr.poll = "answered"
  /\ swr' = [data |-> swr.answer, poll |-> "none", answer |-> <<>>]
  /\ Put(swr.answer)
  /\ UNCHANGED <<hook, sock, wire, backend>>

\* An answer goes to the cache of SWR in any case, and to the screen while the
\* status is "fallback".
PollArrives ==
  /\ swr.poll = "answered"
  /\ swr' = [data |-> swr.answer, poll |-> "none", answer |-> <<>>]
  /\ IF hook.status = "fallback" THEN Put(swr.answer) ELSE UNCHANGED <<shown, polled>>
  /\ UNCHANGED <<hook, sock, wire, backend>>

-----------------------------------------------------------------------------
(* The server                                                              *)

\* The token is decoded; without a good one the socket is not accepted.
ResolveUser(s) ==
  /\ server[s] = "checking"
  /\ server' \in {[server EXCEPT ![s] = answer] : answer \in {"none", "accepted"}}
  /\ UNCHANGED <<browser, wire, conns, log, count, todo, since>>

\* ConnectionManager.connect after accept().
Connect(s) ==
  /\ server[s] = "accepted"
  /\ server' = [server EXCEPT ![s] = "serving"]
  /\ conns' = conns \cup {s}
  /\ since' = [since EXCEPT ![s] = count]
  /\ UNCHANGED <<browser, wire, log, count, todo>>

\* If the client has gone, accept() may notice and raise.
AcceptFails(s) ==
  /\ server[s] = "accepted" /\ ~Alive(s)
  /\ server' = [server EXCEPT ![s] = "none"]
  /\ UNCHANGED <<browser, wire, conns, log, count, todo, since>>

\* receive_text() fails, and disconnect() runs on either way out.
Disconnect(s) ==
  /\ server[s] = "serving" /\ ~Alive(s)
  /\ server' = [server EXCEPT ![s] = "none"]
  /\ conns' = conns \ {s}
  /\ UNCHANGED <<browser, wire, log, count, todo, since>>

\* _append_event, and broadcast() up to its first send: no await in between.
Announce ==
  LET longer == Append(log, count + 1) IN
  /\ count < MaxEvents
  /\ count' = count + 1
  /\ log' = IF Len(longer) > Keep THEN Tail(longer) ELSE longer
  /\ todo' = [todo EXCEPT ![count + 1] = conns]
  /\ UNCHANGED <<browser, wire, server, conns, since>>

\* POST /test/broadcast
TestBroadcast == Announce

\* POST /broadcast, once it has waited for the dispatcher: whatever the three
\* legs of broadcast_event raise is logged and forgotten, and none of them
\* reaches the sockets of the manager.
ManualBroadcast == Announce

\* One send of a broadcast.  A failure is passed over, and the socket stays
\* registered until its endpoint notices.
Send(e, s) ==
  /\ s \in todo[e]
  /\ todo' = [todo EXCEPT ![e] = @ \ {s}]
  /\ wire' = IF Alive(s) THEN [wire EXCEPT ![s] = Append(@, e)] ELSE wire
  /\ UNCHANGED <<browser, server, conns, log, count, since>>

\* The server stops and comes back: connections and log are gone.
Restart ==
  /\ server' = [s \in Socket |-> "none"]
  /\ conns' = {}
  /\ log' = <<>>
  /\ todo' = [e \in Event |-> {}]
  /\ sock' = [s \in Socket |-> IF sock[s] = "open" THEN "closing" ELSE sock[s]]
  /\ UNCHANGED <<hook, shown, polled, swr, wire, count, since>>

-----------------------------------------------------------------------------
Tab ==
  \/ SignOut \/ Ask \/ GetRecentLogs \/ PollFails \/ PollArrives
  \/ \E s \in Socket : SignIn(s) \/ Opened(s) \/ Receive(s) \/ Closed(s) \/ Drop(s)

Backend ==
  \/ \E s \in Socket :
       ResolveUser(s) \/ Connect(s) \/ AcceptFails(s) \/ Disconnect(s)
       \/ \E e \in Event : Send(e, s)
  \/ TestBroadcast \/ ManualBroadcast \/ Restart

LiveNext == Tab \/ Backend

LiveSpec == LiveInit /\ [][LiveNext]_live

-----------------------------------------------------------------------------
(* Properties                                                              *)

Sightings(e) == Cardinality({i \in DOMAIN shown : shown[i] = e})

\* While the tab is served, whatever was announced since then is on the screen
\* or on its way: neither broadcasts that overlap, nor dead sockets among their
\* recipients, nor polls that come in late take an event away.
AtLeastOnce ==
  \A s \in Socket : s = hook.ref /\ sock[s] = "open" /\ server[s] = "serving" =>
    \A e \in since[s] + 1 .. count :
      s \in todo[e] \/ e \in ToSet(wire[s]) \/ e \in ToSet(shown)

\* However often the token changes, an event comes from one socket only.  It is
\* seen twice when the log that was shown before had it already.
AtMostOnce ==
  \A e \in 1 .. count : Sightings(e) <= IF e \in polled THEN 2 ELSE 1

DeliveredOnce == AtLeastOnce /\ AtMostOnce

\* The tab never waits for nothing: it reads the log, or it has a socket whose
\* opening or end it will be told of.
PollsOrListens ==
  hook.status = "connected" => hook.ref # Nil /\ sock[hook.ref] # "closed"
=============================================================================
