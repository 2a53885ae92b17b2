-------------------------- MODULE RealtimeGateway --------------------------
(***************************************************************************)
(* The realtime gateway: the handler of /api/realtime/ws                   *)
(* (routers/realtime.py), the set of connections it shares with everyone   *)
(* who broadcasts (services/realtime_service.py), and the two background   *)
(* loops that handlers start on demand and stop when nobody is left.       *)
(*                                                                         *)
(* Everything runs on one asyncio event loop, so an action is the code     *)
(* between two awaits that suspend.  The lock of the service is never held *)
(* across an await, so acquiring it does not suspend.  What does suspend   *)
(* is a send, a receive, a sleep, the AI stream, and the wait for a        *)
(* cancelled task.                                                         *)
(*                                                                         *)
(* A Client is a slot for a connection: it may connect again once nothing  *)
(* refers to its previous socket.  Of the messages a client may send, only *)
(* those that touch shared state matter: subscribe and unsubscribe on the  *)
(* channel "insights".  Their reply, like that of every other message, is  *)
(* a send that fails if the peer has gone.                                 *)
(***************************************************************************)
EXTENDS Naturals, FiniteSets

CONSTANTS
  Client,         \* slots for connections
  PriceTask,      \* supply of price loops (bounds a run)
  InsightsTask,   \* supply of insights loops (bounds a run)
  Notifier,       \* coroutines that broadcast through the dispatcher
  MaxCount,       \* subscriptions are counted up to here (bounds a run)
  None            \* no task

ASSUME ClientAssumption == IsFiniteSet(Client)

ASSUME CountAssumption == MaxCount \in Nat

ASSUME TaskAssumption ==
  /\ None \notin PriceTask \cup InsightsTask \cup Notifier
  /\ PriceTask \cap InsightsTask = {}
  /\ Notifier \cap (PriceTask \cup InsightsTask) = {}

VARIABLES
  conns,        \* RealtimeService._connections
  alive,        \* clients whose socket is still open
  handler,      \* the coroutine serving each client
  subscribers,  \* app.state.realtime_insights_subscribers
  ref,          \* app.state.realtime_price_task and realtime_insights_task
  task,         \* the coroutines that broadcast
  late          \* history: clients that asked for a loop while one was stopping

vars == <<conns, alive, handler, subscribers, ref, task, late>>

Loop == {"price", "insights"}

LoopTask(k) == IF k = "price" THEN PriceTask ELSE InsightsTask

Task == PriceTask \cup InsightsTask \cup Notifier

Stage == {"off",
          "greeting",  \* registered, sending the greeting     (line 143)
          "open",      \* in the receive loop                  (line 150)
          "closing",   \* the reply failed, about to clean up  (line 198)
          "price",     \* waiting for the cancelled price loop (line 216)
          "insights"}  \* the same for the insights loop       (line 227)

HandlerState == [stage : Stage, subscribed : BOOLEAN, awaits : Task \cup {None}]

NoHandler == [stage |-> "off", subscribed |-> FALSE, awaits |-> None]

\* "thinking" stands for the AI stream; "cancelled" for the time from cancel()
\* until the task gets to run; "done" also for a task not made.
TaskState ==
  [state : {"done", "asleep", "thinking", "sending", "cancelled"},
   todo : SUBSET Client]   \* recipients not served: in the end, those that failed

Now(s) == [state |-> s, todo |-> {}]

Running(t) == task[t].state \in {"asleep", "thinking", "sending"}

\* Somebody is waiting for a loop of kind k to stop.
Stopping(k) == \E c \in Client : handler[c].stage = k

TypeOK ==
  /\ conns \subseteq Client
  /\ alive \subseteq Client
  /\ handler \in [Client -> HandlerState]
  /\ subscribers \in 0 .. MaxCount
  /\ ref \in [Loop -> Task \cup {None}]
  /\ \A k \in Loop : ref[k] # None => ref[k] \in LoopTask(k)
  /\ task \in [Task -> TaskState]
  /\ late \in [Loop -> SUBSET Client]

Init ==
  /\ conns = {}
  /\ alive = {}
  /\ handler = [c \in Client |-> NoHandler]
  /\ subscribers = 0
  /\ ref = [k \in Loop |-> None]
  /\ task = [t \in Task |-> Now(IF t \in Notifier THEN "asleep" ELSE "done")]
  /\ late = [k \in Loop |-> {}]

-----------------------------------------------------------------------------
(* Helpers                                                                 *)

\* A task object nobody refers to: its name may be used for a new one.
Unused(t) ==
  /\ task[t].state = "done"
  /\ \A k \in Loop : ref[k] # t
  /\ \A c \in Client : handler[c].awaits # t

NewTask(k) == CHOOSE t \in LoopTask(k) : Unused(t)

\* _ensure_price_task, _ensure_insights_task: a new loop unless there is one
\* that is not done, for client c.
Ensure(k, c) ==
  /\ IF ref[k] = None \/ task[ref[k]].state = "done"
     THEN /\ \E t \in LoopTask(k) : Unused(t)
          /\ task' = [task EXCEPT ![NewTask(k)] = Now("asleep")]
          /\ ref' = [ref EXCEPT ![k] = NewTask(k)]
     ELSE UNCHANGED <<task, ref>>
  /\ late' = [late EXCEPT ![k] = IF Stopping(k) THEN @ \cup {c} ELSE @ \ {c}]

\* Somebody has to wait for r, the reference to a loop.
Unfinished(r) == r # None /\ task[r].state # "done"

\* cancel() and await.
Await(c, k) ==
  /\ handler' = [handler EXCEPT ![c] =
       [stage |-> k, subscribed |-> FALSE, awaits |-> ref[k]]]
  /\ task' = [task EXCEPT ![ref[k]] = Now("cancelled")]

\* Where the handler of c goes on after a reply.
AfterReply(c) == IF c \in alive THEN "open" ELSE "closing"

\* The second half of the finally block: n subscribers are left, and refs are
\* the references.  Waiting for a finished task does not suspend.
StopInsights(c, n, refs) ==
  IF n = 0 /\ Unfinished(refs["insights"])
  THEN Await(c, "insights") /\ ref' = refs
  ELSE /\ handler' = [handler EXCEPT ![c] = NoHandler]
       /\ ref' = IF n = 0 THEN [refs EXCEPT !["insights"] = None] ELSE refs
       /\ UNCHANGED task

-----------------------------------------------------------------------------
(* Deliberately wrong variants of the definitions below, for checking that *)
(* the properties notice.  No specification uses them.                     *)

\* The price loop is stopped although somebody is left.
DepartStoppingPrices(c) ==
  LET n == IF handler[c].subscribed /\ subscribers > 0
           THEN subscribers - 1 ELSE subscribers
  IN
  /\ handler[c].stage = "closing" \/ (handler[c].stage = "open" /\ c \notin alive)
  /\ subscribers' = n
  /\ conns' = conns \ {c}
  /\ IF Unfinished(ref["price"])
     THEN Await(c, "price") /\ UNCHANGED ref
     ELSE StopInsights(c, n, [ref EXCEPT !["price"] = None])
  /\ late' = [k \in Loop |-> late[k] \ {c}]
  /\ UNCHANGED alive

\* Whoever leaves decrements the counter, subscribed or not.
DepartAnyway(c) ==
  LET n == IF subscribers > 0 THEN subscribers - 1 ELSE 0
      rest == conns \ {c}
  IN
  /\ handler[c].stage = "closing" \/ (handler[c].stage = "open" /\ c \notin alive)
  /\ subscribers' = n
  /\ conns' = rest
  /\ IF rest = {} /\ Unfinished(ref["price"])
     THEN Await(c, "price") /\ UNCHANGED ref
     ELSE StopInsights(c, n, IF rest = {} THEN [ref EXCEPT !["price"] = None] ELSE ref)
  /\ late' = [k \in Loop |-> late[k] \ {c}]
  /\ UNCHANGED alive

\* The sockets that failed are not unregistered.
PruneNobody(t) ==
  /\ task[t].state = "sending"
  /\ task[t].todo \cap alive = {}
  /\ task' = [task EXCEPT ![t] = Now("asleep")]
  /\ UNCHANGED <<conns, alive, handler, subscribers, ref, late>>

\* The loop takes the cancellation for one more error and goes on.
StopSwallowed(t) ==
  /\ task[t].state = "cancelled"
  /\ task' = [task EXCEPT ![t] = Now("asleep")]
  /\ UNCHANGED <<conns, alive, handler, subscribers, ref, late>>

-----------------------------------------------------------------------------
(* The handler                                                             *)

\* accept, register, _ensure_price_task; then the greeting is being sent.
Connect(c) ==
  /\ handler[c].stage = "off"
  /\ c \notin conns
  /\ \A t \in Task : c \notin task[t].todo
  /\ conns' = conns \cup {c}
  /\ alive' = alive \cup {c}
  /\ handler' = [handler EXCEPT ![c].stage = "greeting"]
  /\ Ensure("price", c)
  /\ UNCHANGED subscribers

\* The greeting is sent outside the try block: if it fails the handler ends
\* there and its connection stays registered.
Greet(c) ==
  /\ handler[c].stage = "greeting"
  /\ handler' = [handler EXCEPT ![c].stage = IF c \in alive THEN "open" ELSE "off"]
  /\ UNCHANGED <<conns, alive, subscribers, ref, task, late>>

\* A message sent before the client left may still be read afterwards.
Subscribe(c) ==
  /\ handler[c].stage = "open"
  /\ subscribers < MaxCount
  /\ handler' = [handler EXCEPT ![c] =
       [stage |-> AfterReply(c), subscribed |-> TRUE, awaits |-> None]]
  /\ subscribers' = subscribers + 1
  /\ Ensure("insights", c)
  /\ UNCHANGED <<conns, alive>>

Unsubscribe(c) ==
  /\ handler[c].stage = "open"
  /\ handler[c].subscribed
  /\ handler' = [handler EXCEPT ![c] =
       [stage |-> AfterReply(c), subscribed |-> FALSE, awaits |-> None]]
  /\ subscribers' = IF subscribers > 0 THEN subscribers - 1 ELSE 0
  /\ late' = [late EXCEPT !["insights"] = @ \ {c}]
  /\ UNCHANGED <<conns, alive, ref, task>>

\* The finally block up to its first wait: decrement, unregister, and cancel
\* the price loop when nobody is left.
Depart(c) ==
  LET n == IF handler[c].subscribed /\ subscribers > 0
           THEN subscribers - 1 ELSE subscribers
      rest == conns \ {c}
  IN
  /\ handler[c].stage = "closing" \/ (handler[c].stage = "open" /\ c \notin alive)
  /\ subscribers' = n
  /\ conns' = rest
  /\ IF rest = {} /\ Unfinished(ref["price"])
     THEN Await(c, "price") /\ UNCHANGED ref
     ELSE StopInsights(c, n, IF rest = {} THEN [ref EXCEPT !["price"] = None] ELSE ref)
  /\ late' = [k \in Loop |-> late[k] \ {c}]
  /\ UNCHANGED alive

\* The price loop has stopped: drop the reference, whatever it now refers to.
PriceStopped(c) ==
  /\ handler[c].stage = "price"
  /\ task[handler[c].awaits].state = "done"
  /\ StopInsights(c, subscribers, [ref EXCEPT !["price"] = None])
  /\ UNCHANGED <<conns, alive, subscribers, late>>

InsightsStopped(c) ==
  /\ handler[c].stage = "insights"
  /\ task[handler[c].awaits].state = "done"
  /\ handler' = [handler EXCEPT ![c] = NoHandler]
  /\ ref' = [ref EXCEPT !["insights"] = None]
  /\ UNCHANGED <<conns, alive, subscribers, task, late>>

-----------------------------------------------------------------------------
(* The loops, and the broadcast they share with the dispatcher             *)

\* The insights loop finds a subscriber and asks the AI.
Think(t) ==
  /\ t \in InsightsTask
  /\ task[t].state = "asleep"
  /\ subscribers > 0
  /\ task' = [task EXCEPT ![t] = Now("thinking")]
  /\ UNCHANGED <<conns, alive, handler, subscribers, ref, late>>

\* The AI says nothing or fails, or nobody is connected any more.
ThinkInVain(t) ==
  /\ task[t].state = "thinking"
  /\ task' = [task EXCEPT ![t] = Now("asleep")]
  /\ UNCHANGED <<conns, alive, handler, subscribers, ref, late>>

\* Time for a message (an insight goes to whoever is connected by then,
\* subscribed or not): the snapshot of the recipients.
Wake(t) ==
  /\ task[t].state = IF t \in InsightsTask THEN "thinking" ELSE "asleep"
  /\ conns # {}
  /\ task' = [task EXCEPT ![t] = [state |-> "sending", todo |-> conns]]
  /\ UNCHANGED <<conns, alive, handler, subscribers, ref, late>>

\* A send succeeds while the socket is open.
SendTo(t, c) ==
  /\ task[t].state = "sending"
  /\ c \in task[t].todo \cap alive
  /\ task' = [task EXCEPT ![t].todo = @ \ {c}]
  /\ UNCHANGED <<conns, alive, handler, subscribers, ref, late>>

\* All other sends have failed: unregister their sockets.
Prune(t) ==
  /\ task[t].state = "sending"
  /\ task[t].todo \cap alive = {}
  /\ conns' = conns \ task[t].todo
  /\ task' = [task EXCEPT ![t] = Now("asleep")]
  /\ UNCHANGED <<alive, handler, subscribers, ref, late>>

\* The CancelledError arrives: break, whatever the loop was waiting for.
Stop(t) ==
  /\ task[t].state = "cancelled"
  /\ task' = [task EXCEPT ![t] = Now("done")]
  /\ UNCHANGED <<conns, alive, handler, subscribers, ref, late>>

\* The client closes the connection, or the network does.
HangUp(c) ==
  /\ c \in alive
  /\ alive' = alive \ {c}
  /\ UNCHANGED <<conns, handler, subscribers, ref, task, late>>

Next ==
  \/ \E c \in Client :
       \/ Connect(c) \/ Greet(c) \/ Subscribe(c) \/ Unsubscribe(c)
       \/ Depart(c) \/ PriceStopped(c) \/ InsightsStopped(c) \/ HangUp(c)
  \/ \E t \in Task :
       \/ Think(t) \/ ThinkInVain(t) \/ Wake(t) \/ Prune(t) \/ Stop(t)
       \/ \E c \in Client : SendTo(t, c)

Spec == Init /\ [][Next]_vars

\* The event loop runs whatever is ready.  Clients do as they please, and
\* nothing is assumed of the AI or of the dispatcher.
Fairness ==
  /\ \A c \in Client : WF_vars(Greet(c) \/ Depart(c) \/ PriceStopped(c) \/ InsightsStopped(c))
  /\ \A t \in PriceTask : WF_vars(Wake(t))
  /\ \A t \in Task : WF_vars(Prune(t) \/ Stop(t) \/ \E c \in Client : SendTo(t, c))

FairSpec == Spec /\ Fairness

-----------------------------------------------------------------------------
(* Properties                                                              *)

\* The counter may drift upwards (a client that subscribes twice is counted
\* twice and leaves once) but never below the number of subscribed clients:
\* nobody's insights are stopped by the departure of somebody else.
SubscribersCounted ==
  Cardinality({c \in Client : handler[c].subscribed}) <= subscribers

\* The failure of one socket costs nobody else his registration: as long as a
\* client is connected and served, broadcasts reach it.
ServedIsRegistered ==
  \A c \in alive : handler[c].stage \in {"greeting", "open"} => c \in conns

\* Neither who leaves nor a socket that fails takes anything from the others.
OthersKeepTheirs == SubscribersCounted /\ ServedIsRegistered

\* Stopping a loop waits for it, and the world moves on meanwhile.  A
\* registered client is without a price loop only if it registered while the
\* last one to leave was waiting for the loop to stop; the same for subscribed
\* clients and the insights loop.  No other order of events starves a client.
StarvedOnlyWhenLate ==
  /\ \A c \in conns \ late["price"] : \E t \in PriceTask : Running(t)
  /\ \A c \in Client \ late["insights"] :
       handler[c].subscribed => \E t \in InsightsTask : Running(t)

\* Every dead socket is unregistered in the end, also the one whose handler
\* died with the greeting, as long as a price loop is there to find it.
DeadIsUnregistered ==
  \A c \in Client :
    c \in conns \ alive ~> c \notin conns \/ ~ \E t \in PriceTask : Running(t)

\* Once told to stop, a loop stops, and the handler that waits for it ends.
LeavingEnds ==
  \A c \in Client : handler[c].stage \in {"price", "insights"} ~> handler[c].stage = "off"

\* What tests/test_realtime_endpoint.py:107-108 expects of a connection: a
\* client that stays gets a price.
PricesReachClients ==
  \A c \in Client :
    handler[c].stage = "open" ~>
      c \notin alive \/ \E t \in PriceTask : c \in task[t].todo
=============================================================================
