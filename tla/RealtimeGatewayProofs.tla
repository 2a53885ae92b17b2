----------------------- MODULE RealtimeGatewayProofs -----------------------
(***************************************************************************)
(* Proofs of the type invariant of RealtimeGateway and of what its clients *)
(* are promised, for any clients, loops and notifiers: neither a departure *)
(* nor a socket that fails takes anything from the clients who stay, and   *)
(* only those who came while a loop was stopping are left without one.     *)
(* Nor can others delay a handler that is being left, or a broadcaster     *)
(* that is to find a dead socket: each has a measure that its own steps    *)
(* lower and theirs do not raise.                                          *)
(***************************************************************************)
EXTENDS RealtimeGateway, FiniteSetTheorems, TLAPS

RefsOK(r) ==
  /\ r \in [Loop -> Task \cup {None}]
  /\ \A k \in Loop : r[k] # None => r[k] \in LoopTask(k)

Subscribed == {c \in Client : handler[c].subscribed}

GatewayInv == TypeOK /\ OthersKeepTheirs

LEMMA HandlerBecomes ==
  ASSUME TypeOK, NEW c \in Client, NEW h \in HandlerState,
         handler' = [handler EXCEPT ![c] = h]
  PROVE  /\ handler' \in [Client -> HandlerState]
         /\ handler'[c] = h
         /\ \A d \in Client \ {c} : handler'[d] = handler[d]
         /\ Subscribed' = IF h.subscribed THEN Subscribed \cup {c} ELSE Subscribed \ {c}
<1>1. handler' \in [Client -> HandlerState] /\ handler'[c] = h
      /\ \A d \in Client \ {c} : handler'[d] = handler[d]
  BY DEF TypeOK
<1>2. Subscribed' = IF h.subscribed THEN Subscribed \cup {c} ELSE Subscribed \ {c}
  BY <1>1 DEF Subscribed
<1> QED
  BY <1>1, <1>2

LEMMA LoopFacts ==
  /\ "price" \in Loop /\ "insights" \in Loop
  /\ \A k \in Loop : LoopTask(k) \subseteq Task
  /\ None \notin Task
BY TaskAssumption DEF Loop, LoopTask, Task

LEMMA TaskStates ==
  /\ \A s \in {"done", "asleep", "thinking", "sending", "cancelled"} : Now(s) \in TaskState
  /\ \A S \in SUBSET Client : [state |-> "sending", todo |-> S] \in TaskState
BY DEF Now, TaskState

LEMMA EnsureTypes ==
  ASSUME TypeOK, NEW k \in Loop, NEW c \in Client, Ensure(k, c)
  PROVE  task' \in [Task -> TaskState] /\ RefsOK(ref') /\ late' \in [Loop -> SUBSET Client]
<1>1. late' \in [Loop -> SUBSET Client]
  BY DEF Ensure, TypeOK
<1>2. CASE UNCHANGED <<task, ref>>
  BY <1>1, <1>2 DEF TypeOK, RefsOK
<1>3. CASE /\ \E t \in LoopTask(k) : Unused(t)
           /\ task' = [task EXCEPT ![NewTask(k)] = Now("asleep")]
           /\ ref' = [ref EXCEPT ![k] = NewTask(k)]
  <2>1. NewTask(k) \in LoopTask(k) /\ NewTask(k) \in Task
    BY <1>3, LoopFacts DEF NewTask
  <2>2. task' \in [Task -> TaskState]
    BY <1>3, <2>1, TaskStates DEF TypeOK
  <2>3. RefsOK(ref')
    BY <1>3, <2>1 DEF TypeOK, RefsOK
  <2> QED
    BY <1>1, <2>2, <2>3
<1> QED
  BY <1>2, <1>3 DEF Ensure

\* A handler that waits for a loop to stop, and one that is through.
LEMMA AwaitTypes ==
  ASSUME TypeOK, NEW c \in Client, NEW k \in Loop, Unfinished(ref[k]), Await(c, k)
  PROVE  /\ task' \in [Task -> TaskState]
         /\ \E h \in HandlerState :
              /\ handler' = [handler EXCEPT ![c] = h]
              /\ ~h.subscribed /\ h.stage \notin {"greeting", "open"}
<1> DEFINE h == [stage |-> k, subscribed |-> FALSE, awaits |-> ref[k]]
<1>1. ref[k] \in Task
  BY DEF Unfinished, TypeOK
<1>2. h \in HandlerState /\ ~h.subscribed /\ h.stage \notin {"greeting", "open"}
  BY <1>1 DEF HandlerState, Stage, Loop
<1>3. task' \in [Task -> TaskState]
  BY <1>1, TaskStates DEF Await, TypeOK
<1>4. handler' = [handler EXCEPT ![c] = h]
  BY DEF Await
<1> QED
  BY <1>2, <1>3, <1>4

LEMMA OffState ==
  NoHandler \in HandlerState /\ ~NoHandler.subscribed /\ NoHandler.stage = "off"
BY DEF NoHandler, HandlerState, Stage

LEMMA StopInsightsTypes ==
  ASSUME TypeOK, NEW c \in Client, NEW n, NEW refs, RefsOK(refs),
         refs["insights"] = ref["insights"], StopInsights(c, n, refs)
  PROVE  /\ task' \in [Task -> TaskState]
         /\ RefsOK(ref')
         /\ \E h \in HandlerState :
              /\ handler' = [handler EXCEPT ![c] = h]
              /\ ~h.subscribed /\ h.stage \notin {"greeting", "open"}
<1>1. CASE n = 0 /\ Unfinished(refs["insights"])
  BY <1>1, AwaitTypes, LoopFacts DEF StopInsights
<1>2. CASE ~(n = 0 /\ Unfinished(refs["insights"]))
  <2>1. /\ handler' = [handler EXCEPT ![c] = NoHandler]
        /\ ref' = IF n = 0 THEN [refs EXCEPT !["insights"] = None] ELSE refs
        /\ UNCHANGED task
    BY <1>2 DEF StopInsights
  <2>2. RefsOK(ref')
    BY <2>1 DEF RefsOK
  <2>3. task' \in [Task -> TaskState]
    BY <2>1 DEF TypeOK
  <2> QED
    BY <2>1, <2>2, <2>3, OffState
<1> QED
  BY <1>1, <1>2

\* A set of clients that changes by one: the counter may follow.
LEMMA Counting ==
  ASSUME NEW S \in SUBSET Client, NEW c
  PROVE  /\ Cardinality(S) \in Nat
         /\ Cardinality(S \cup {c}) <= Cardinality(S) + 1
         /\ Cardinality(S \ {c}) <= Cardinality(S)
         /\ c \in S => Cardinality(S \ {c}) = Cardinality(S) - 1
<1>1. IsFiniteSet(S)
  BY ClientAssumption, FS_Subset
<1>2. Cardinality(S) \in Nat
  BY <1>1, FS_CardinalityType
<1>3. Cardinality(S \cup {c}) = IF c \in S THEN Cardinality(S) ELSE Cardinality(S) + 1
  BY <1>1, FS_AddElement
<1>4. Cardinality(S \ {c}) = IF c \in S THEN Cardinality(S) - 1 ELSE Cardinality(S)
  BY <1>1, FS_RemoveElement
<1> QED
  BY <1>2, <1>3, <1>4

LEMMA InitGateway == Init => GatewayInv
<1> SUFFICES ASSUME Init PROVE GatewayInv
  OBVIOUS
<1>1. handler \in [Client -> HandlerState] /\ \A c \in Client : ~handler[c].subscribed
  BY OffState DEF Init
<1>2. task \in [Task -> TaskState]
  BY TaskStates DEF Init
<1>3. TypeOK
  BY <1>1, <1>2, CountAssumption DEF Init, TypeOK
<1>4. {c \in Client : handler[c].subscribed} = {}
  BY <1>1
<1>5. Cardinality({c \in Client : handler[c].subscribed}) = 0
  BY <1>4, FS_EmptySet
<1>6. SubscribersCounted
  BY <1>5 DEF SubscribersCounted, Init
<1>7. ServedIsRegistered
  BY DEF Init, ServedIsRegistered
<1> QED
  BY <1>3, <1>6, <1>7 DEF GatewayInv, OthersKeepTheirs

-----------------------------------------------------------------------------
\* The parts of the invariant that a step may leave alone.
LEMMA Unsubscribing ==
  ASSUME GatewayInv, NEW c \in Client, NEW n \in Nat,
         n = IF handler[c].subscribed /\ subscribers > 0
             THEN subscribers - 1 ELSE subscribers
  PROVE  Cardinality(Subscribed \ {c}) <= n /\ n \in 0 .. MaxCount
<1>1. Cardinality(Subscribed) <= subscribers /\ subscribers \in 0 .. MaxCount
  BY DEF GatewayInv, OthersKeepTheirs, SubscribersCounted, Subscribed, TypeOK
<1>2. Subscribed \in SUBSET Client /\ (c \in Subscribed <=> handler[c].subscribed)
  BY DEF Subscribed
<1>3. /\ Cardinality(Subscribed) \in Nat
      /\ Cardinality(Subscribed \ {c}) <= Cardinality(Subscribed)
      /\ c \in Subscribed => Cardinality(Subscribed \ {c}) = Cardinality(Subscribed) - 1
      /\ Cardinality(Subscribed \ {c}) \in Nat
  BY <1>2, Counting
<1> QED
  BY <1>1, <1>2, <1>3, CountAssumption

LEMMA NotServing ==
  ASSUME GatewayInv, NEW c \in Client, NEW h \in HandlerState,
         handler' = [handler EXCEPT ![c] = h],
         ~h.subscribed, h.stage \notin {"greeting", "open"},
         alive' = alive, conns \ {c} \subseteq conns',
         subscribers' \in Nat, Cardinality(Subscribed \ {c}) <= subscribers'
  PROVE  OthersKeepTheirs'
<1>1. TypeOK /\ ServedIsRegistered
  BY DEF GatewayInv, OthersKeepTheirs
<1>2. /\ handler'[c] = h /\ Subscribed' = Subscribed \ {c}
      /\ \A d \in Client \ {c} : handler'[d] = handler[d]
  BY <1>1, HandlerBecomes
<1>3. SubscribersCounted'
  BY <1>2 DEF SubscribersCounted, Subscribed
<1>4. alive \subseteq Client
  BY <1>1 DEF TypeOK
<1>5. ASSUME NEW d \in alive', handler'[d].stage \in {"greeting", "open"}
      PROVE  d \in conns'
  <2>1. d # c
    BY <1>2, <1>5
  <2>2. handler[d].stage \in {"greeting", "open"}
    BY <2>1, <1>2, <1>4, <1>5
  <2> QED
    BY <2>1, <2>2, <1>1 DEF ServedIsRegistered
<1> QED
  BY <1>3, <1>5 DEF OthersKeepTheirs, ServedIsRegistered

LEMMA DepartKeeps ==
  ASSUME GatewayInv, NEW c \in Client, Depart(c)
  PROVE  GatewayInv'
<1> DEFINE n == IF handler[c].subscribed /\ subscribers > 0
                THEN subscribers - 1 ELSE subscribers
           rest == conns \ {c}
           refs == IF rest = {} THEN [ref EXCEPT !["price"] = None] ELSE ref
<1>1. /\ subscribers' = n /\ conns' = rest
      /\ IF rest = {} /\ Unfinished(ref["price"])
         THEN Await(c, "price") /\ UNCHANGED ref
         ELSE StopInsights(c, n, refs)
      /\ late' = [k \in Loop |-> late[k] \ {c}]
      /\ UNCHANGED alive
  BY DEF Depart
<1>2. TypeOK
  BY DEF GatewayInv
<1>3. n \in Nat
  BY <1>2, CountAssumption DEF TypeOK
<1>4. Cardinality(Subscribed \ {c}) <= n /\ n \in 0 .. MaxCount
  BY <1>3, Unsubscribing
<1>5. RefsOK(refs) /\ refs["insights"] = ref["insights"]
  BY <1>2, LoopFacts DEF RefsOK, TypeOK
<1> HIDE DEF refs, n
<1>6. /\ task' \in [Task -> TaskState] /\ RefsOK(ref')
      /\ \E h \in HandlerState :
           /\ handler' = [handler EXCEPT ![c] = h]
           /\ ~h.subscribed /\ h.stage \notin {"greeting", "open"}
  <2>1. CASE rest = {} /\ Unfinished(ref["price"])
    <3>1. Await(c, "price") /\ UNCHANGED ref
      BY <1>1, <2>1
    <3>2. RefsOK(ref')
      BY <3>1, <1>2 DEF RefsOK, TypeOK
    <3> QED
      BY <2>1, <3>1, <3>2, <1>2, AwaitTypes, LoopFacts
  <2>2. CASE ~(rest = {} /\ Unfinished(ref["price"]))
    BY <1>1, <1>2, <1>5, <2>2, StopInsightsTypes
  <2> QED
    BY <2>1, <2>2
<1>7. PICK h \in HandlerState :
        /\ handler' = [handler EXCEPT ![c] = h]
        /\ ~h.subscribed /\ h.stage \notin {"greeting", "open"}
  BY <1>6
<1>8. OthersKeepTheirs'
  BY <1>1, <1>3, <1>4, <1>7, NotServing
<1>9. handler' \in [Client -> HandlerState]
  BY <1>2, <1>7, HandlerBecomes
<1>10. conns' \subseteq Client /\ alive' \subseteq Client
         /\ late' \in [Loop -> SUBSET Client]
  BY <1>1, <1>2 DEF TypeOK
<1>11. TypeOK'
  BY <1>1, <1>4, <1>6, <1>9, <1>10 DEF TypeOK, RefsOK
<1> QED
  BY <1>8, <1>11 DEF GatewayInv

\* The handler that waited for a loop drops its reference.
LEMMA StoppedKeeps ==
  ASSUME GatewayInv, NEW c \in Client, PriceStopped(c) \/ InsightsStopped(c)
  PROVE  GatewayInv'
<1>1. TypeOK /\ RefsOK(ref)
  BY DEF GatewayInv, TypeOK, RefsOK
<1>2. /\ task' \in [Task -> TaskState] /\ RefsOK(ref')
      /\ \E h \in HandlerState :
           /\ handler' = [handler EXCEPT ![c] = h]
           /\ ~h.subscribed /\ h.stage \notin {"greeting", "open"}
  <2>1. CASE PriceStopped(c)
    <3> DEFINE refs == [ref EXCEPT !["price"] = None]
    <3>1. StopInsights(c, subscribers, refs)
      BY <2>1 DEF PriceStopped
    <3>2. RefsOK(refs) /\ refs["insights"] = ref["insights"]
      BY <1>1, LoopFacts DEF RefsOK
    <3> HIDE DEF refs
    <3> QED
      BY <1>1, <3>1, <3>2, StopInsightsTypes
  <2>2. CASE InsightsStopped(c)
    BY <1>1, <2>2, OffState DEF InsightsStopped, RefsOK, TypeOK
  <2> QED
    BY <2>1, <2>2
<1>3. PICK h \in HandlerState :
        /\ handler' = [handler EXCEPT ![c] = h]
        /\ ~h.subscribed /\ h.stage \notin {"greeting", "open"}
  BY <1>2
<1>4. UNCHANGED <<conns, alive, subscribers, late>>
  BY DEF PriceStopped, InsightsStopped
<1>5. subscribers \in 0 .. MaxCount
  BY <1>1 DEF TypeOK
<1>6. Subscribed \in SUBSET Client
  BY DEF Subscribed
<1>7. /\ Cardinality(Subscribed \ {c}) <= Cardinality(Subscribed)
      /\ Cardinality(Subscribed) \in Nat /\ Cardinality(Subscribed \ {c}) \in Nat
  BY <1>6, Counting
<1>8. Cardinality(Subscribed) <= subscribers
  BY DEF GatewayInv, OthersKeepTheirs, SubscribersCounted, Subscribed
<1>9. Cardinality(Subscribed \ {c}) <= subscribers' /\ subscribers' \in Nat
  BY <1>4, <1>5, <1>7, <1>8, CountAssumption
<1>10. OthersKeepTheirs'
  BY <1>3, <1>4, <1>9, NotServing
<1>11. handler' \in [Client -> HandlerState]
  BY <1>1, <1>3, HandlerBecomes
<1>12. TypeOK'
  BY <1>1, <1>2, <1>4, <1>11 DEF TypeOK, RefsOK
<1> QED
  BY <1>10, <1>12 DEF GatewayInv

-----------------------------------------------------------------------------
LEMMA ConnectKeeps ==
  ASSUME GatewayInv, NEW c \in Client, Connect(c)
  PROVE  GatewayInv'
<1>1. TypeOK /\ SubscribersCounted /\ ServedIsRegistered
  BY DEF GatewayInv, OthersKeepTheirs
<1>2. /\ task' \in [Task -> TaskState] /\ RefsOK(ref') /\ late' \in [Loop -> SUBSET Client]
  BY <1>1, EnsureTypes, LoopFacts DEF Connect
<1>3. /\ conns' = conns \cup {c} /\ alive' = alive \cup {c}
      /\ handler' = [handler EXCEPT ![c].stage = "greeting"]
      /\ subscribers' = subscribers
  BY DEF Connect
<1>4. handler' \in [Client -> HandlerState]
  BY <1>1, <1>3 DEF TypeOK, HandlerState, Stage
<1>5. /\ \A d \in Client : handler'[d].subscribed = handler[d].subscribed
      /\ \A d \in Client \ {c} : handler'[d] = handler[d]
  BY <1>1, <1>3 DEF TypeOK, HandlerState
<1>6. {d \in Client : handler'[d].subscribed} = {d \in Client : handler[d].subscribed}
  BY <1>5
<1>7. SubscribersCounted'
  BY <1>1, <1>3, <1>6 DEF SubscribersCounted
<1>8. ServedIsRegistered'
  BY <1>1, <1>3, <1>5 DEF ServedIsRegistered, TypeOK
<1>9. TypeOK'
  BY <1>1, <1>2, <1>3, <1>4 DEF TypeOK, RefsOK
<1> QED
  BY <1>7, <1>8, <1>9 DEF GatewayInv, OthersKeepTheirs

\* A greeting that is sent opens the connection, one that fails ends the handler.
LEMMA GreetKeeps ==
  ASSUME GatewayInv, NEW c \in Client, Greet(c)
  PROVE  GatewayInv'
<1>1. TypeOK /\ SubscribersCounted /\ ServedIsRegistered
  BY DEF GatewayInv, OthersKeepTheirs
<1>2. /\ handler[c].stage = "greeting"
      /\ handler' = [handler EXCEPT ![c].stage = IF c \in alive THEN "open" ELSE "off"]
      /\ UNCHANGED <<conns, alive, subscribers, ref, task, late>>
  BY DEF Greet
<1>3. handler' \in [Client -> HandlerState]
  BY <1>1, <1>2 DEF TypeOK, HandlerState, Stage
<1>4. /\ \A d \in Client : handler'[d].subscribed = handler[d].subscribed
      /\ \A d \in Client \ {c} : handler'[d] = handler[d]
  BY <1>1, <1>2 DEF TypeOK, HandlerState
<1>5. {d \in Client : handler'[d].subscribed} = {d \in Client : handler[d].subscribed}
  BY <1>4
<1>6. SubscribersCounted'
  BY <1>1, <1>2, <1>5 DEF SubscribersCounted
<1>7. ServedIsRegistered'
  BY <1>1, <1>2, <1>4 DEF ServedIsRegistered, TypeOK
<1>8. TypeOK'
  BY <1>1, <1>2, <1>3 DEF TypeOK
<1> QED
  BY <1>6, <1>7, <1>8 DEF GatewayInv, OthersKeepTheirs

\* What a client that is served asks for, and the reply to it.
LEMMA RequestKeeps ==
  ASSUME GatewayInv, NEW c \in Client, Subscribe(c) \/ Unsubscribe(c)
  PROVE  GatewayInv'
<1>1. TypeOK /\ SubscribersCounted /\ ServedIsRegistered
  BY DEF GatewayInv, OthersKeepTheirs
<1>2. Subscribed \in SUBSET Client /\ (c \in Subscribed <=> handler[c].subscribed)
  BY DEF Subscribed
<1>3. /\ Cardinality(Subscribed) <= subscribers /\ subscribers \in 0 .. MaxCount
      /\ Cardinality(Subscribed) \in Nat
  BY <1>1, <1>2, Counting DEF SubscribersCounted, Subscribed, TypeOK
<1>4. UNCHANGED <<conns, alive>> /\ handler[c].stage = "open"
  BY DEF Subscribe, Unsubscribe
<1>5. /\ task' \in [Task -> TaskState] /\ RefsOK(ref') /\ late' \in [Loop -> SUBSET Client]
  <2>1. CASE Subscribe(c)
    BY <1>1, <2>1, EnsureTypes, LoopFacts DEF Subscribe
  <2>2. CASE Unsubscribe(c)
    BY <1>1, <2>2 DEF Unsubscribe, TypeOK, RefsOK
  <2> QED
    BY <2>1, <2>2
<1>6. PICK h \in HandlerState :
        /\ handler' = [handler EXCEPT ![c] = h]
        /\ subscribers' \in 0 .. MaxCount
        /\ Cardinality(IF h.subscribed THEN Subscribed \cup {c} ELSE Subscribed \ {c})
             <= subscribers'
  <2> DEFINE next(b) == [stage |-> AfterReply(c), subscribed |-> b, awaits |-> None]
  <2>1. \A b \in BOOLEAN : next(b) \in HandlerState /\ next(b).subscribed = b
    BY DEF HandlerState, Stage, AfterReply
  <2>2. /\ Cardinality(Subscribed \cup {c}) <= Cardinality(Subscribed) + 1
        /\ Cardinality(Subscribed \cup {c}) \in Nat
        /\ Cardinality(Subscribed \ {c}) \in Nat
        /\ c \in Subscribed => Cardinality(Subscribed \ {c}) = Cardinality(Subscribed) - 1
    BY <1>2, Counting
  <2>3. CASE Subscribe(c)
    <3>1. /\ handler' = [handler EXCEPT ![c] = next(TRUE)]
          /\ subscribers < MaxCount /\ subscribers' = subscribers + 1
      BY <2>3 DEF Subscribe
    <3> HIDE DEF next
    <3>2. subscribers' \in 0 .. MaxCount /\ Cardinality(Subscribed \cup {c}) <= subscribers'
      BY <1>3, <2>2, <3>1, CountAssumption
    <3> QED
      BY <2>1, <3>1, <3>2
  <2>4. CASE Unsubscribe(c)
    <3>1. /\ handler' = [handler EXCEPT ![c] = next(FALSE)] /\ handler[c].subscribed
          /\ subscribers' = IF subscribers > 0 THEN subscribers - 1 ELSE 0
      BY <2>4 DEF Unsubscribe
    <3> HIDE DEF next
    <3>2. subscribers' \in 0 .. MaxCount /\ Cardinality(Subscribed \ {c}) <= subscribers'
      BY <1>2, <1>3, <2>2, <3>1, CountAssumption
    <3> QED
      BY <2>1, <3>1, <3>2
  <2> QED
    BY <2>3, <2>4
<1>7. /\ handler' \in [Client -> HandlerState]
      /\ \A d \in Client \ {c} : handler'[d] = handler[d]
      /\ Subscribed' = IF h.subscribed THEN Subscribed \cup {c} ELSE Subscribed \ {c}
  BY <1>1, <1>6, HandlerBecomes
<1>8. SubscribersCounted'
  BY <1>6, <1>7 DEF SubscribersCounted, Subscribed
<1>9. ServedIsRegistered'
  BY <1>1, <1>4, <1>7 DEF ServedIsRegistered, TypeOK
<1>10. TypeOK'
  BY <1>1, <1>4, <1>5, <1>6, <1>7 DEF TypeOK, RefsOK
<1> QED
  BY <1>8, <1>9, <1>10 DEF GatewayInv, OthersKeepTheirs

\* What the loops do, and a client that goes: no handler takes a step.
LEMMA OthersKeep ==
  ASSUME GatewayInv, UNCHANGED <<handler, subscribers, ref, late>>,
         conns' \subseteq Client, task' \in [Task -> TaskState],
         alive' \subseteq alive, conns \cap alive' \subseteq conns'
  PROVE  GatewayInv'
<1>1. TypeOK /\ SubscribersCounted /\ ServedIsRegistered
  BY DEF GatewayInv, OthersKeepTheirs
<1>2. TypeOK'
  BY <1>1 DEF TypeOK
<1>3. SubscribersCounted' /\ ServedIsRegistered'
  BY <1>1 DEF SubscribersCounted, ServedIsRegistered
<1> QED
  BY <1>2, <1>3 DEF GatewayInv, OthersKeepTheirs

LEMMA BroadcastKeeps ==
  ASSUME GatewayInv, NEW t \in Task,
         \/ Think(t) \/ ThinkInVain(t) \/ Wake(t) \/ Prune(t) \/ Stop(t)
         \/ \E c \in Client : SendTo(t, c)
  PROVE  GatewayInv'
<1>1. TypeOK
  BY DEF GatewayInv
<1>2. conns \subseteq Client /\ task[t].todo \subseteq Client
  BY <1>1 DEF TypeOK, TaskState
<1>3. CASE Wake(t)
  <2>1. task' \in [Task -> TaskState]
    BY <1>1, <1>2, <1>3, TaskStates DEF Wake, TypeOK
  <2> QED
    BY <1>2, <1>3, <2>1, OthersKeep DEF Wake
<1>4. CASE Prune(t)
  <2>1. task' \in [Task -> TaskState]
    BY <1>1, <1>4, TaskStates DEF Prune, TypeOK
  <2>2. conns' = conns \ task[t].todo /\ task[t].todo \cap alive = {} /\ alive' = alive
    BY <1>4 DEF Prune
  <2> QED
    BY <1>2, <1>4, <2>1, <2>2, OthersKeep DEF Prune
<1>5. CASE Think(t) \/ ThinkInVain(t) \/ Stop(t)
  <2>1. task' \in [Task -> TaskState]
    BY <1>1, <1>5, TaskStates DEF Think, ThinkInVain, Stop, TypeOK
  <2> QED
    BY <1>2, <1>5, <2>1, OthersKeep DEF Think, ThinkInVain, Stop
<1>6. ASSUME NEW c \in Client, SendTo(t, c) PROVE GatewayInv'
  <2>1. task' \in [Task -> TaskState]
    BY <1>1, <1>6 DEF SendTo, TypeOK, TaskState
  <2> QED
    BY <1>2, <1>6, <2>1, OthersKeep DEF SendTo
<1> QED
  BY <1>3, <1>4, <1>5, <1>6

LEMMA HangUpKeeps ==
  ASSUME GatewayInv, NEW c \in Client, HangUp(c)
  PROVE  GatewayInv'
<1>1. conns \subseteq Client /\ task \in [Task -> TaskState]
  BY DEF GatewayInv, TypeOK
<1> QED
  BY <1>1, OthersKeep DEF HangUp

LEMMA GatewayStep ==
  ASSUME GatewayInv, [Next]_vars
  PROVE  GatewayInv'
<1>1. ASSUME NEW c \in Client,
             \/ Connect(c) \/ Greet(c) \/ Subscribe(c) \/ Unsubscribe(c)
             \/ Depart(c) \/ PriceStopped(c) \/ InsightsStopped(c) \/ HangUp(c)
      PROVE  GatewayInv'
  BY <1>1, ConnectKeeps, GreetKeeps, RequestKeeps, DepartKeeps, StoppedKeeps, HangUpKeeps
<1>2. ASSUME NEW t \in Task,
             \/ Think(t) \/ ThinkInVain(t) \/ Wake(t) \/ Prune(t) \/ Stop(t)
             \/ \E c \in Client : SendTo(t, c)
      PROVE  GatewayInv'
  BY <1>2, BroadcastKeeps
<1>3. CASE UNCHANGED vars
  <2>1. conns \subseteq Client /\ task \in [Task -> TaskState]
    BY DEF GatewayInv, TypeOK
  <2> QED
    BY <1>3, <2>1, OthersKeep DEF vars
<1> QED
  BY <1>1, <1>2, <1>3 DEF Next

\* Type correctness together with the two counts: what a handler may be found in,
\* and that a loop's reference is to a loop of its kind.
THEOREM GatewayIsSound == Spec => []GatewayInv
<1>1. Init => GatewayInv
  BY InitGateway
<1>2. GatewayInv /\ [Next]_vars => GatewayInv'
  BY GatewayStep
<1> QED
  BY <1>1, <1>2, PTL DEF Spec

\* Nobody's insights are stopped because somebody else leaves, and nobody who is
\* connected and served is unregistered because another socket fails.
THEOREM ThoseWhoStayKeepTheirs == Spec => []OthersKeepTheirs
<1>1. GatewayInv => OthersKeepTheirs
  BY DEF GatewayInv
<1> QED
  BY <1>1, GatewayIsSound, PTL

-----------------------------------------------------------------------------
(* Who is without a loop                                                   *)

\* Whom the loop of kind k runs for.
Wants(k) == IF k = "price" THEN conns ELSE Subscribed

\* A cancelled loop has somebody who waits for it.
Waited(k) ==
  \A t \in LoopTask(k) :
    task[t].state = "cancelled" =>
      \E c \in Client : handler[c].stage = k /\ handler[c].awaits = t

\* While somebody waits, those who want the loop have come too late.
LateOnly(k) == Stopping(k) => Wants(k) \subseteq late[k]

\* Who came in time has the loop that is referred to.
InTime(k) == \A c \in Wants(k) \ late[k] : ref[k] # None /\ Running(ref[k])

LoopInv(k) == Waited(k) /\ LateOnly(k) /\ InTime(k)

ServiceInv == GatewayInv /\ \A k \in Loop : LoopInv(k)

\* No handler begins or ends to wait for k.
SameWaiters(k) ==
  \A c \in Client :
    /\ handler'[c].stage = k <=> handler[c].stage = k
    /\ handler[c].stage = k => handler'[c].awaits = handler[c].awaits

\* No loop of kind k is cancelled, and none that runs stops.
SameLoops(k) ==
  \A t \in LoopTask(k) :
    /\ task'[t].state = "cancelled" => task[t].state = "cancelled"
    /\ Running(t) => Running(t)'

LEMMA QuietKeeps ==
  ASSUME NEW k \in Loop, TypeOK, LoopInv(k), SameWaiters(k), SameLoops(k),
         ref'[k] = ref[k], Wants(k)' \subseteq Wants(k),
         Wants(k)' \cap late[k] \subseteq late'[k]
  PROVE  LoopInv(k)'
<1>1. Waited(k)'
  BY DEF LoopInv, Waited, SameWaiters, SameLoops
<1>2. LateOnly(k)'
  BY DEF LoopInv, LateOnly, Stopping, SameWaiters
<1>3. ref[k] # None => ref[k] \in LoopTask(k)
  BY DEF TypeOK
<1>4. InTime(k)'
  BY <1>3 DEF LoopInv, InTime, SameLoops
<1> QED
  BY <1>1, <1>2, <1>4 DEF LoopInv

\* A loop is cancelled by one who waits for it, and nobody leaves before it stops.
LEMMA WaitedKeeps ==
  ASSUME NEW k \in Loop, Waited(k),
         \A t \in LoopTask(k) :
           task'[t].state = "cancelled" =>
             \/ task[t].state = "cancelled"
             \/ \E c \in Client : handler'[c].stage = k /\ handler'[c].awaits = t,
         \A c \in Client :
           handler[c].stage = k =>
             \/ handler'[c] = handler[c]
             \/ handler[c].awaits \in LoopTask(k) =>
                  task'[handler[c].awaits].state # "cancelled"
  PROVE  Waited(k)'
BY DEF Waited

\* Nobody is left who came in time.
LEMMA NobodyInTime ==
  ASSUME NEW k \in Loop, Waited(k)', Wants(k)' \subseteq late'[k]
  PROVE  LoopInv(k)'
BY DEF LoopInv, LateOnly, InTime

LEMMA EnsureKeeps ==
  ASSUME NEW k \in Loop, NEW c \in Client, TypeOK, LoopInv(k), SameWaiters(k),
         Ensure(k, c), Wants(k)' = Wants(k) \cup {c}
  PROVE  LoopInv(k)'
<1>1. /\ ref[k] # None => ref[k] \in LoopTask(k) /\ ref[k] \in Task
      /\ \A t \in LoopTask(k) : t \in Task /\ task[t] \in TaskState
      /\ ref \in [Loop -> Task \cup {None}] /\ task \in [Task -> TaskState]
      /\ late \in [Loop -> SUBSET Client]
  BY LoopFacts DEF TypeOK
<1>2. late'[k] = IF Stopping(k) THEN late[k] \cup {c} ELSE late[k] \ {c}
  BY <1>1 DEF Ensure
<1>3. Stopping(k)' = Stopping(k)
  BY DEF Stopping, SameWaiters
<1>4. LateOnly(k)'
  BY <1>2, <1>3 DEF LoopInv, LateOnly
<1>5. CASE ref[k] = None \/ task[ref[k]].state = "done"
  <2> DEFINE n == NewTask(k)
  <2>1. /\ n \in LoopTask(k) /\ Unused(n)
        /\ task' = [task EXCEPT ![n] = Now("asleep")] /\ ref' = [ref EXCEPT ![k] = n]
    BY <1>5 DEF Ensure, NewTask
  <2> HIDE DEF n
  <2>2. /\ task'[n] = Now("asleep") /\ \A t \in Task \ {n} : task'[t] = task[t]
        /\ ref'[k] = n
    BY <1>1, <2>1
  <2>3. Waited(k)'
    BY <1>1, <2>1, <2>2 DEF Now, LoopInv, Waited, SameWaiters
  <2>4. InTime(k)'
    BY <1>1, <2>1, <2>2, LoopFacts DEF Now, Running, InTime
  <2> QED
    BY <1>4, <2>3, <2>4 DEF LoopInv
<1>6. CASE ~(ref[k] = None \/ task[ref[k]].state = "done")
  <2>1. UNCHANGED <<task, ref>>
    BY <1>6 DEF Ensure
  <2>2. Waited(k)'
    BY <2>1 DEF LoopInv, Waited, SameWaiters
  <2>3. ~Stopping(k) => Running(ref[k])
    BY <1>1, <1>6 DEF LoopInv, Waited, Stopping, Running, TaskState
  <2>4. InTime(k)'
    BY <1>2, <1>6, <2>1, <2>3 DEF LoopInv, LateOnly, InTime, Running
  <2> QED
    BY <1>4, <2>2, <2>4 DEF LoopInv
<1> QED
  BY <1>5, <1>6

\* A step of one handler that neither begins nor ends to wait for k.
LEMMA OneHandler ==
  ASSUME TypeOK, NEW k \in Loop, NEW c \in Client, NEW h,
         handler' = [handler EXCEPT ![c] = h], handler[c].stage # k, h.stage # k
  PROVE  SameWaiters(k)
BY DEF TypeOK, SameWaiters

\* What is done to one task leaves those of another kind alone.
LEMMA OtherTasks ==
  ASSUME TypeOK, NEW k \in Loop, NEW t, t \notin LoopTask(k), NEW s,
         task' = [task EXCEPT ![t] = s]
  PROVE  SameLoops(k)
BY LoopFacts DEF TypeOK, SameLoops, Running

LEMMA SameTasks ==
  ASSUME NEW k \in Loop, UNCHANGED task
  PROVE  SameLoops(k)
BY DEF SameLoops, Running

LEMMA EnsureElsewhere ==
  ASSUME TypeOK, NEW k \in Loop, NEW m \in Loop \ {k}, NEW c \in Client, Ensure(k, c)
  PROVE  SameLoops(m) /\ ref'[m] = ref[m] /\ late'[m] = late[m]
<1>1. ref \in [Loop -> Task \cup {None}] /\ late \in [Loop -> SUBSET Client]
  BY DEF TypeOK
<1>2. late'[m] = late[m]
  BY <1>1 DEF Ensure
<1>3. CASE UNCHANGED <<task, ref>>
  BY <1>2, <1>3, SameTasks
<1>4. CASE /\ \E t \in LoopTask(k) : Unused(t)
           /\ task' = [task EXCEPT ![NewTask(k)] = Now("asleep")]
           /\ ref' = [ref EXCEPT ![k] = NewTask(k)]
  <2>1. NewTask(k) \in LoopTask(k)
    BY <1>4 DEF NewTask
  <2>2. NewTask(k) \notin LoopTask(m)
    BY <2>1, TaskAssumption DEF LoopTask, Loop
  <2>3. SameLoops(m)
    BY <1>4, <2>2, OtherTasks
  <2> QED
    BY <1>1, <1>2, <1>4, <2>3
<1> QED
  BY <1>3, <1>4 DEF Ensure

\* What the second half of the finally block does to the two loops.
LEMMA StopInsightsDoes ==
  ASSUME TypeOK, NEW c \in Client, NEW n, NEW refs, RefsOK(refs),
         refs["insights"] = ref["insights"], StopInsights(c, n, refs)
  PROVE  /\ ref'["price"] = refs["price"]
         /\ SameLoops("price")
         /\ n # 0 => ref'["insights"] = ref["insights"] /\ SameLoops("insights")
         /\ \E h :
              /\ handler' = [handler EXCEPT ![c] = h]
              /\ ~h.subscribed /\ h.stage \in {"off", "insights"}
              /\ n # 0 => h.stage = "off"
              /\ \A t \in InsightsTask :
                   task'[t].state = "cancelled" =>
                     \/ task[t].state = "cancelled"
                     \/ h.stage = "insights" /\ h.awaits = t
<1>1. /\ refs \in [Loop -> Task \cup {None}] /\ task \in [Task -> TaskState]
      /\ refs["insights"] # None => refs["insights"] \in InsightsTask
  BY LoopFacts DEF RefsOK, TypeOK, LoopTask
<1>2. CASE n = 0 /\ Unfinished(refs["insights"])
  <2> DEFINE h == [stage |-> "insights", subscribed |-> FALSE, awaits |-> ref["insights"]]
  <2>1. /\ ref' = refs /\ handler' = [handler EXCEPT ![c] = h]
        /\ task' = [task EXCEPT ![ref["insights"]] = Now("cancelled")]
    BY <1>2 DEF StopInsights, Await
  <2>2. ref["insights"] \in InsightsTask /\ ref["insights"] \notin LoopTask("price")
    BY <1>1, <1>2, TaskAssumption DEF Unfinished, LoopTask
  <2>3. SameLoops("price")
    BY <2>1, <2>2, OtherTasks, LoopFacts
  <2>4. \A t \in InsightsTask : t # ref["insights"] => task'[t] = task[t]
    BY <1>1, <2>1 DEF Task
  <2>5. ~h.subscribed /\ h.stage = "insights" /\ h.awaits = ref["insights"]
    OBVIOUS
  <2> HIDE DEF h
  <2>6. \A t \in InsightsTask :
          task'[t].state = "cancelled" =>
            \/ task[t].state = "cancelled"
            \/ h.stage = "insights" /\ h.awaits = t
    BY <2>4, <2>5
  <2> QED
    BY <1>2, <2>1, <2>3, <2>5, <2>6
<1>3. CASE ~(n = 0 /\ Unfinished(refs["insights"]))
  <2>1. /\ handler' = [handler EXCEPT ![c] = NoHandler]
        /\ ref' = IF n = 0 THEN [refs EXCEPT !["insights"] = None] ELSE refs
        /\ UNCHANGED task
    BY <1>3 DEF StopInsights
  <2>2. SameLoops("price") /\ SameLoops("insights")
    BY <2>1, SameTasks, LoopFacts
  <2>3. ref'["price"] = refs["price"] /\ (n # 0 => ref' = refs)
    BY <1>1, <2>1
  <2> QED
    BY <2>1, <2>2, <2>3, OffState
<1> QED
  BY <1>2, <1>3

\* The insights loop when one handler leaves: it is stopped only for the last
\* one to be counted.
LEMMA LeavingInsights ==
  ASSUME GatewayInv, LoopInv("insights"), NEW c \in Client, NEW n \in Nat, NEW refs,
         RefsOK(refs), refs["insights"] = ref["insights"], StopInsights(c, n, refs),
         handler[c].stage # "insights",
         Cardinality(Subscribed \ {c}) <= n,
         late["insights"] \ {c} \subseteq late'["insights"]
  PROVE  LoopInv("insights")'
<1>1. TypeOK /\ "insights" \in Loop /\ LoopTask("insights") = InsightsTask
  BY LoopFacts DEF GatewayInv, LoopTask
<1>2. PICK h :
        /\ handler' = [handler EXCEPT ![c] = h]
        /\ ~h.subscribed /\ h.stage \in {"off", "insights"}
        /\ n # 0 => h.stage = "off"
        /\ \A t \in InsightsTask :
             task'[t].state = "cancelled" =>
               \/ task[t].state = "cancelled"
               \/ h.stage = "insights" /\ h.awaits = t
  BY <1>1, StopInsightsDoes
<1>3. handler \in [Client -> HandlerState]
  BY <1>1 DEF TypeOK
<1>4. Subscribed' = Subscribed \ {c} /\ Subscribed \in SUBSET Client
  BY <1>2, <1>3 DEF Subscribed
<1>5. Wants("insights") = Subscribed /\ Wants("insights")' = Subscribed'
  BY DEF Wants
<1>6. CASE n = 0
  <2>1. Subscribed' = {}
    <3>1. IsFiniteSet(Subscribed \ {c})
      BY <1>4, ClientAssumption, FS_Subset
    <3>2. Cardinality(Subscribed \ {c}) = 0
      BY <1>4, <1>6, <3>1, FS_CardinalityType
    <3> QED
      BY <1>4, <3>1, <3>2, FS_EmptySet
  <2>2. Waited("insights")'
    BY <1>1, <1>2, <1>3, WaitedKeeps DEF LoopInv
  <2> QED
    BY <1>1, <1>5, <2>1, <2>2, NobodyInTime
<1>7. CASE n # 0
  <2>1. ref'["insights"] = ref["insights"] /\ SameLoops("insights")
    BY <1>1, <1>7, StopInsightsDoes
  <2>2. SameWaiters("insights")
    BY <1>1, <1>2, <1>7, OneHandler
  <2> QED
    BY <1>1, <1>4, <1>5, <2>1, <2>2, QuietKeeps
<1> QED
  BY <1>6, <1>7

LEMMA ConnectServes ==
  ASSUME ServiceInv, NEW c \in Client, Connect(c)
  PROVE  \A k \in Loop : LoopInv(k)'
<1>1. TypeOK /\ LoopInv("price") /\ LoopInv("insights")
  BY LoopFacts DEF ServiceInv, GatewayInv
<1>2. /\ handler[c].stage = "off" /\ conns' = conns \cup {c}
      /\ handler' = [handler EXCEPT ![c].stage = "greeting"] /\ Ensure("price", c)
  BY DEF Connect
<1>3. /\ SameWaiters("price") /\ SameWaiters("insights")
      /\ Subscribed' = Subscribed
  BY <1>1, <1>2 DEF TypeOK, HandlerState, SameWaiters, Subscribed
<1>4. LoopInv("price")'
  BY <1>1, <1>2, <1>3, EnsureKeeps, LoopFacts DEF Wants
<1>5. LoopInv("insights")'
  <2>1. /\ SameLoops("insights") /\ ref'["insights"] = ref["insights"]
        /\ late'["insights"] = late["insights"]
    BY <1>1, <1>2, EnsureElsewhere, LoopFacts
  <2>2. Wants("insights")' = Wants("insights")
    BY <1>3 DEF Wants
  <2> QED
    BY <1>1, <1>3, <2>1, <2>2, QuietKeeps, LoopFacts
<1> QED
  BY <1>4, <1>5 DEF Loop

LEMMA SubscribeServes ==
  ASSUME ServiceInv, NEW c \in Client, Subscribe(c)
  PROVE  \A k \in Loop : LoopInv(k)'
<1> DEFINE h == [stage |-> AfterReply(c), subscribed |-> TRUE, awaits |-> None]
<1>1. TypeOK /\ LoopInv("price") /\ LoopInv("insights")
  BY LoopFacts DEF ServiceInv, GatewayInv
<1>2. /\ handler[c].stage = "open" /\ conns' = conns
      /\ handler' = [handler EXCEPT ![c] = h] /\ Ensure("insights", c)
  BY DEF Subscribe
<1>3. h \in HandlerState /\ h.stage \notin Loop /\ h.subscribed
  BY DEF HandlerState, Stage, AfterReply, Loop
<1> HIDE DEF h
<1>4. /\ SameWaiters("price") /\ SameWaiters("insights")
      /\ Subscribed' = Subscribed \cup {c}
  BY <1>1, <1>2, <1>3, OneHandler, HandlerBecomes, LoopFacts
<1>5. LoopInv("insights")'
  BY <1>1, <1>2, <1>4, EnsureKeeps, LoopFacts DEF Wants
<1>6. LoopInv("price")'
  <2>1. /\ SameLoops("price") /\ ref'["price"] = ref["price"]
        /\ late'["price"] = late["price"]
    BY <1>1, <1>2, EnsureElsewhere, LoopFacts
  <2>2. Wants("price")' = Wants("price")
    BY <1>2 DEF Wants
  <2> QED
    BY <1>1, <1>4, <2>1, <2>2, QuietKeeps, LoopFacts
<1> QED
  BY <1>5, <1>6 DEF Loop

\* Steps of one handler that concern no loop.
LEMMA QuietServes ==
  ASSUME ServiceInv, NEW c \in Client, Greet(c) \/ Unsubscribe(c)
  PROVE  \A k \in Loop : LoopInv(k)'
<1> SUFFICES ASSUME NEW k \in Loop PROVE LoopInv(k)'
  OBVIOUS
<1>1. TypeOK /\ LoopInv(k)
  BY DEF ServiceInv, GatewayInv
<1>2. SameLoops(k) /\ ref' = ref /\ conns' = conns
  BY SameTasks DEF Greet, Unsubscribe
<1>3. CASE Greet(c)
  <2>1. SameWaiters(k) /\ Subscribed' = Subscribed /\ late' = late
    BY <1>1, <1>3 DEF Greet, TypeOK, HandlerState, SameWaiters, Subscribed, Loop
  <2> QED
    BY <1>1, <1>2, <2>1, QuietKeeps DEF Wants
<1>4. CASE Unsubscribe(c)
  <2> DEFINE h == [stage |-> AfterReply(c), subscribed |-> FALSE, awaits |-> None]
  <2>1. /\ handler[c].stage = "open" /\ handler' = [handler EXCEPT ![c] = h]
        /\ late' = [late EXCEPT !["insights"] = @ \ {c}]
    BY <1>4 DEF Unsubscribe
  <2>2. h \in HandlerState /\ h.stage \notin Loop /\ ~h.subscribed
    BY DEF HandlerState, Stage, AfterReply, Loop
  <2> HIDE DEF h
  <2>3. SameWaiters(k) /\ Subscribed' = Subscribed \ {c}
    BY <1>1, <2>1, <2>2, OneHandler, HandlerBecomes DEF Loop
  <2>4. Wants(k)' \subseteq Wants(k) /\ Wants(k)' \cap late[k] \subseteq late'[k]
    BY <1>1, <1>2, <2>1, <2>3 DEF Wants, TypeOK, Loop
  <2> QED
    BY <1>1, <1>2, <2>3, <2>4, QuietKeeps
<1> QED
  BY <1>3, <1>4

\* The loops, those who listen to them, and a client that goes.
LEMMA BroadcastServes ==
  ASSUME ServiceInv, UNCHANGED <<handler, ref, late>>, conns' \subseteq conns,
         \A t \in Task :
           /\ task'[t].state = "cancelled" => task[t].state = "cancelled"
           /\ Running(t) => Running(t)'
  PROVE  \A k \in Loop : LoopInv(k)'
<1> SUFFICES ASSUME NEW k \in Loop PROVE LoopInv(k)'
  OBVIOUS
<1>1. TypeOK /\ LoopInv(k)
  BY DEF ServiceInv, GatewayInv
<1>2. SameLoops(k)
  BY LoopFacts DEF SameLoops
<1>3. SameWaiters(k)
  BY DEF SameWaiters
<1>4. Wants(k)' \subseteq Wants(k)
  BY DEF Wants, Subscribed
<1> QED
  BY <1>1, <1>2, <1>3, <1>4, QuietKeeps

LEMMA DepartServes ==
  ASSUME ServiceInv, NEW c \in Client, Depart(c)
  PROVE  \A k \in Loop : LoopInv(k)'
<1> DEFINE n == IF handler[c].subscribed /\ subscribers > 0
                THEN subscribers - 1 ELSE subscribers
           rest == conns \ {c}
           refs == IF rest = {} THEN [ref EXCEPT !["price"] = None] ELSE ref
<1>1. /\ subscribers' = n /\ conns' = rest
      /\ IF rest = {} /\ Unfinished(ref["price"])
         THEN Await(c, "price") /\ UNCHANGED ref
         ELSE StopInsights(c, n, refs)
      /\ late' = [k \in Loop |-> late[k] \ {c}]
      /\ handler[c].stage \in {"closing", "open"}
  BY DEF Depart
<1>2. GatewayInv /\ TypeOK /\ LoopInv("price") /\ LoopInv("insights")
  BY LoopFacts DEF ServiceInv, GatewayInv
<1>3. /\ n \in Nat /\ handler \in [Client -> HandlerState]
      /\ ref \in [Loop -> Task \cup {None}] /\ task \in [Task -> TaskState]
  BY <1>2, CountAssumption DEF TypeOK
<1>4. Cardinality(Subscribed \ {c}) <= n
  BY <1>2, <1>3, Unsubscribing
<1>5. RefsOK(refs) /\ refs["insights"] = ref["insights"]
  BY <1>2, LoopFacts DEF RefsOK, TypeOK
<1>6. (rest # {} => refs = ref) /\ late'["price"] = late["price"] \ {c}
      /\ late'["insights"] = late["insights"] \ {c}
  BY <1>1, LoopFacts
<1> HIDE DEF refs, n
<1>7. CASE rest = {} /\ Unfinished(ref["price"])
  <2> DEFINE h == [stage |-> "price", subscribed |-> FALSE, awaits |-> ref["price"]]
  <2>1. /\ handler' = [handler EXCEPT ![c] = h] /\ ref' = ref
        /\ task' = [task EXCEPT ![ref["price"]] = Now("cancelled")]
    BY <1>1, <1>7 DEF Await
  <2>2. ref["price"] \in PriceTask /\ ref["price"] \notin LoopTask("insights")
    BY <1>2, <1>7, TaskAssumption, LoopFacts DEF TypeOK, Unfinished, LoopTask
  <2>3. h.stage = "price" /\ h.awaits = ref["price"] /\ ~h.subscribed
    OBVIOUS
  <2> HIDE DEF h
  <2>4. LoopInv("price")'
    <3>1. \A t \in PriceTask : t # ref["price"] => task'[t] = task[t]
      BY <1>3, <2>1 DEF Task
    <3>2. Waited("price")'
      BY <1>1, <1>2, <1>3, <2>1, <2>3, <3>1, WaitedKeeps, LoopFacts DEF LoopInv, LoopTask
    <3>3. Wants("price")' = {}
      BY <1>1, <1>7 DEF Wants
    <3> QED
      BY <3>2, <3>3, NobodyInTime, LoopFacts
  <2>5. LoopInv("insights")'
    <3>1. SameLoops("insights")
      BY <1>2, <2>1, <2>2, OtherTasks, LoopFacts
    <3>2. SameWaiters("insights")
      BY <1>1, <1>2, <2>1, <2>3, OneHandler, LoopFacts
    <3>3. Wants("insights") = Subscribed /\ Wants("insights")' = Subscribed \ {c}
      BY <1>3, <2>1, <2>3 DEF Wants, Subscribed
    <3> QED
      BY <1>2, <1>6, <2>1, <3>1, <3>2, <3>3, QuietKeeps, LoopFacts
  <2> QED
    BY <2>4, <2>5 DEF Loop
<1>8. CASE ~(rest = {} /\ Unfinished(ref["price"]))
  <2>1. StopInsights(c, n, refs)
    BY <1>1, <1>8
  <2>2. LoopInv("insights")'
    BY <1>1, <1>2, <1>3, <1>4, <1>5, <1>6, <2>1, LeavingInsights
  <2>3. LoopInv("price")'
    <3>1. /\ ref'["price"] = refs["price"] /\ SameLoops("price")
          /\ \E h : handler' = [handler EXCEPT ![c] = h] /\ h.stage \in {"off", "insights"}
      BY <1>2, <1>5, <2>1, StopInsightsDoes
    <3>2. SameWaiters("price")
      BY <1>1, <1>2, <3>1, OneHandler, LoopFacts
    <3>3. Wants("price") = conns /\ Wants("price")' = rest
      BY <1>1 DEF Wants
    <3>4. CASE rest = {}
      <4>1. Waited("price")'
        BY <1>2, <3>1, <3>2 DEF LoopInv, Waited, SameWaiters, SameLoops
      <4> QED
        BY <3>3, <3>4, <4>1, NobodyInTime, LoopFacts
    <3>5. CASE rest # {}
      BY <1>2, <1>6, <3>1, <3>2, <3>3, <3>5, QuietKeeps, LoopFacts
    <3> QED
      BY <3>4, <3>5
  <2> QED
    BY <2>2, <2>3 DEF Loop
<1> QED
  BY <1>7, <1>8

\* Whoever connects while a loop is stopping is late, so nobody else is left
\* when the reference to it is dropped.
LEMMA PriceStoppedServes ==
  ASSUME ServiceInv, NEW c \in Client, PriceStopped(c)
  PROVE  \A k \in Loop : LoopInv(k)'
<1> DEFINE refs == [ref EXCEPT !["price"] = None]
<1>1. /\ handler[c].stage = "price" /\ task[handler[c].awaits].state = "done"
      /\ StopInsights(c, subscribers, refs)
      /\ UNCHANGED <<conns, alive, subscribers, late>>
  BY DEF PriceStopped
<1>2. GatewayInv /\ TypeOK /\ LoopInv("price") /\ LoopInv("insights")
  BY LoopFacts DEF ServiceInv, GatewayInv
<1>3. RefsOK(refs) /\ refs["insights"] = ref["insights"]
  BY <1>2, LoopFacts DEF RefsOK, TypeOK
<1>4. Cardinality(Subscribed \ {c}) <= subscribers /\ subscribers \in Nat
  <2>1. subscribers \in Nat /\ Subscribed \in SUBSET Client
    BY <1>2, CountAssumption DEF TypeOK, Subscribed
  <2>2. Cardinality(Subscribed) <= subscribers
    BY <1>2 DEF GatewayInv, OthersKeepTheirs, SubscribersCounted, Subscribed
  <2>3. /\ Cardinality(Subscribed \ {c}) <= Cardinality(Subscribed)
        /\ Cardinality(Subscribed) \in Nat /\ Cardinality(Subscribed \ {c}) \in Nat
    BY <2>1, Counting
  <2> QED
    BY <2>1, <2>2, <2>3
<1> HIDE DEF refs
<1>5. LoopInv("insights")'
  BY <1>1, <1>2, <1>3, <1>4, LeavingInsights
<1>6. LoopInv("price")'
  <2>1. /\ SameLoops("price")
        /\ \E h : handler' = [handler EXCEPT ![c] = h]
    BY <1>1, <1>2, <1>3, StopInsightsDoes
  <2>2. \A d \in Client \ {c} : handler'[d] = handler[d]
    BY <1>2, <2>1 DEF TypeOK
  <2>3. Waited("price")'
    BY <1>1, <1>2, <2>1, <2>2, WaitedKeeps, LoopFacts DEF LoopInv, SameLoops
  <2>4. Wants("price")' \subseteq late'["price"]
    BY <1>1, <1>2 DEF Wants, LoopInv, LateOnly, Stopping
  <2> QED
    BY <2>3, <2>4, NobodyInTime, LoopFacts
<1> QED
  BY <1>5, <1>6 DEF Loop

LEMMA InsightsStoppedServes ==
  ASSUME ServiceInv, NEW c \in Client, InsightsStopped(c)
  PROVE  \A k \in Loop : LoopInv(k)'
<1>1. /\ handler[c].stage = "insights" /\ task[handler[c].awaits].state = "done"
      /\ handler' = [handler EXCEPT ![c] = NoHandler]
      /\ ref' = [ref EXCEPT !["insights"] = None]
      /\ UNCHANGED <<conns, task, late>>
  BY DEF InsightsStopped
<1>2. TypeOK /\ LoopInv("price") /\ LoopInv("insights")
  BY LoopFacts DEF ServiceInv, GatewayInv
<1>3. /\ handler'[c] = NoHandler /\ \A d \in Client \ {c} : handler'[d] = handler[d]
      /\ Subscribed' = Subscribed \ {c}
  BY <1>1, <1>2, OffState DEF TypeOK, Subscribed
<1>4. LoopInv("insights")'
  <2>1. Waited("insights")'
    BY <1>1, <1>2, <1>3, WaitedKeeps, LoopFacts DEF LoopInv
  <2>2. Wants("insights")' \subseteq late'["insights"]
    BY <1>1, <1>2, <1>3 DEF Wants, LoopInv, LateOnly, Stopping
  <2> QED
    BY <2>1, <2>2, NobodyInTime, LoopFacts
<1>5. LoopInv("price")'
  <2>1. SameLoops("price") /\ ref'["price"] = ref["price"]
    BY <1>1, <1>2, SameTasks, LoopFacts DEF TypeOK
  <2>2. SameWaiters("price")
    BY <1>1, <1>2, OneHandler, OffState, LoopFacts
  <2>3. Wants("price")' = Wants("price")
    BY <1>1 DEF Wants
  <2> QED
    BY <1>1, <1>2, <2>1, <2>2, <2>3, QuietKeeps, LoopFacts
<1> QED
  BY <1>4, <1>5 DEF Loop

LEMMA ServiceStep ==
  ASSUME ServiceInv, [Next]_vars
  PROVE  ServiceInv'
<1>1. GatewayInv'
  BY GatewayStep DEF ServiceInv
<1>2. TypeOK /\ task \in [Task -> TaskState] /\ conns \subseteq Client
  BY DEF ServiceInv, GatewayInv, TypeOK
<1>3. ASSUME NEW c \in Client,
             \/ Connect(c) \/ Greet(c) \/ Subscribe(c) \/ Unsubscribe(c)
             \/ Depart(c) \/ PriceStopped(c) \/ InsightsStopped(c)
      PROVE  \A k \in Loop : LoopInv(k)'
  BY <1>3, ConnectServes, QuietServes, SubscribeServes, DepartServes,
     PriceStoppedServes, InsightsStoppedServes
<1>4. ASSUME NEW c \in Client, HangUp(c)
      PROVE  \A k \in Loop : LoopInv(k)'
  BY <1>4, BroadcastServes DEF HangUp, Running
<1>5. ASSUME UNCHANGED vars PROVE \A k \in Loop : LoopInv(k)'
  <2>1. UNCHANGED <<handler, ref, late, conns, task>>
    BY <1>5 DEF vars
  <2>2. \A t \in Task : Running(t)' = Running(t)
    BY <2>1 DEF Running
  <2> QED
    BY <2>1, <2>2, BroadcastServes
<1>6. ASSUME NEW t \in Task, Think(t) \/ ThinkInVain(t) \/ Wake(t) \/ Prune(t) \/ Stop(t)
      PROVE  \A k \in Loop : LoopInv(k)'
  <2>1. UNCHANGED <<handler, ref, late>> /\ conns' \subseteq conns
    BY <1>6 DEF Think, ThinkInVain, Wake, Prune, Stop
  <2>2. \A u \in Task \ {t} : task'[u] = task[u]
    BY <1>2, <1>6 DEF Think, ThinkInVain, Wake, Prune, Stop
  <2>3. /\ task'[t].state = "cancelled" => task[t].state = "cancelled"
        /\ Running(t) => Running(t)'
    BY <1>2, <1>6 DEF Think, ThinkInVain, Wake, Prune, Stop, Running, Now
  <2> QED
    BY <2>1, <2>2, <2>3, BroadcastServes DEF Running
<1>7. ASSUME NEW t \in Task, NEW c \in Client, SendTo(t, c)
      PROVE  \A k \in Loop : LoopInv(k)'
  <2>1. UNCHANGED <<handler, ref, late, conns>>
    BY <1>7 DEF SendTo
  <2>2. \A u \in Task : task'[u].state = task[u].state
    BY <1>2, <1>7 DEF SendTo, TaskState
  <2> QED
    BY <2>1, <2>2, BroadcastServes DEF Running
<1> QED
  BY <1>1, <1>3, <1>4, <1>5, <1>6, <1>7 DEF Next, ServiceInv

\* A client is without a price loop only if it connected while a handler was
\* waiting for the previous one to stop, and a subscribed one without an insights
\* loop only if it subscribed during such a wait: the finally block, which drops
\* the reference after the wait, starves nobody else.
THEOREM OnlyTheLateStarve == Spec => []StarvedOnlyWhenLate
<1>1. Init => ServiceInv
  <2> SUFFICES ASSUME Init PROVE ServiceInv
    OBVIOUS
  <2>1. GatewayInv
    BY InitGateway
  <2>2. \A t \in Task : task[t].state # "cancelled"
    BY DEF Init, Now
  <2>3. Subscribed = {} /\ conns = {} /\ \A c \in Client : handler[c].stage = "off"
    BY DEF Init, NoHandler, Subscribed
  <2>4. \A k \in Loop : LoopInv(k)
    BY <2>2, <2>3, LoopFacts
       DEF LoopInv, Waited, LateOnly, InTime, Wants, Stopping, Loop
  <2> QED
    BY <2>1, <2>4 DEF ServiceInv
<1>2. ServiceInv /\ [Next]_vars => ServiceInv'
  BY ServiceStep
<1>3. ServiceInv => StarvedOnlyWhenLate
  <2> SUFFICES ASSUME ServiceInv PROVE StarvedOnlyWhenLate
    OBVIOUS
  <2>1. /\ ref["price"] # None => ref["price"] \in PriceTask
        /\ ref["insights"] # None => ref["insights"] \in InsightsTask
    BY LoopFacts DEF ServiceInv, GatewayInv, TypeOK, LoopTask
  <2>2. InTime("price") /\ InTime("insights")
    BY LoopFacts DEF ServiceInv, LoopInv
  <2> QED
    BY <2>1, <2>2 DEF StarvedOnlyWhenLate, InTime, Wants, Subscribed
<1> QED
  BY <1>1, <1>2, <1>3, PTL DEF Spec

-----------------------------------------------------------------------------
(* Who waits for a loop to stop                                            *)

\* Whoever waits, waits for a loop that has been told to stop.
AwaitInv ==
  \A c \in Client : handler[c].stage \in Loop =>
    /\ handler[c].awaits \in Task
    /\ task[handler[c].awaits].state \in {"cancelled", "done"}

\* The steps that the handler of c has yet to wait for or to take.
ToGo(c) ==
  LET stopping == task[handler[c].awaits].state = "cancelled" IN
  CASE handler[c].stage = "price"    -> IF stopping THEN 4 ELSE 3
    [] handler[c].stage = "insights" -> IF stopping THEN 2 ELSE 1
    [] OTHER -> 0

\* A loop with a new task is not one that somebody waits for.
LEMMA EnsureSpares ==
  ASSUME TypeOK, NEW k \in Loop, NEW c \in Client, Ensure(k, c),
         NEW t \in Task, (\E d \in Client : handler[d].awaits = t) \/ Running(t)
  PROVE  task'[t] = task[t]
<1>1. task \in [Task -> TaskState] /\ LoopTask(k) \subseteq Task
  BY LoopFacts DEF TypeOK
<1>2. CASE UNCHANGED <<task, ref>>
  BY <1>2
<1>3. CASE /\ \E u \in LoopTask(k) : Unused(u)
           /\ task' = [task EXCEPT ![NewTask(k)] = Now("asleep")]
  <2>1. Unused(NewTask(k))
    BY <1>3 DEF NewTask
  <2>2. NewTask(k) # t
    BY <2>1 DEF Unused, Running
  <2> QED
    BY <1>1, <1>3, <2>2
<1> QED
  BY <1>2, <1>3 DEF Ensure

\* Whoever goes on to wait has the loop cancelled.
LEMMA StopInsightsAwaits ==
  ASSUME TypeOK, NEW c \in Client, NEW n, NEW refs, RefsOK(refs), StopInsights(c, n, refs),
         refs["insights"] = ref["insights"]
  PROVE  /\ \A d \in Client \ {c} : handler'[d] = handler[d]
         /\ \/ handler'[c] = NoHandler /\ task' = task
            \/ /\ handler'[c].stage = "insights" /\ handler'[c].awaits \in Task
               /\ task[handler'[c].awaits].state # "done"
               /\ task' = [task EXCEPT ![handler'[c].awaits] = Now("cancelled")]
<1>1. handler \in [Client -> HandlerState]
  BY DEF TypeOK
<1>2. CASE n = 0 /\ Unfinished(refs["insights"])
  BY <1>1, <1>2, LoopFacts DEF StopInsights, Await, Unfinished, RefsOK
<1>3. CASE ~(n = 0 /\ Unfinished(refs["insights"]))
  BY <1>1, <1>3 DEF StopInsights
<1> QED
  BY <1>2, <1>3

LEMMA DepartAwaits ==
  ASSUME TypeOK, NEW c \in Client, Depart(c) \/ PriceStopped(c)
  PROVE  /\ \A d \in Client \ {c} : handler'[d] = handler[d]
         /\ \/ handler'[c] = NoHandler /\ task' = task
            \/ /\ handler'[c].stage = "insights" \/ (handler'[c].stage = "price" /\ Depart(c))
               /\ handler'[c].awaits \in Task
               /\ task[handler'[c].awaits].state # "done"
               /\ task' = [task EXCEPT ![handler'[c].awaits] = Now("cancelled")]
<1>1. handler \in [Client -> HandlerState] /\ RefsOK(ref)
  BY DEF TypeOK, RefsOK
<1>2. RefsOK([ref EXCEPT !["price"] = None])
      /\ [ref EXCEPT !["price"] = None]["insights"] = ref["insights"]
  BY <1>1, LoopFacts DEF RefsOK
<1>3. CASE Unfinished(ref["price"]) /\ Await(c, "price") /\ Depart(c)
  BY <1>1, <1>3, LoopFacts DEF Await, Unfinished, RefsOK
<1>4. CASE \E n : StopInsights(c, n, [ref EXCEPT !["price"] = None]) \/ StopInsights(c, n, ref)
  BY <1>1, <1>2, <1>4, StopInsightsAwaits
<1> QED
  BY <1>3, <1>4 DEF Depart, PriceStopped

\* What becomes of one who waits, and of the loop he waits for.
LEMMA WaiterMoves ==
  ASSUME TypeOK, AwaitInv, [Next]_vars, NEW c \in Client, handler[c].stage \in Loop
  PROVE  /\ \/ handler'[c] = handler[c]
            \/ PriceStopped(c) \/ InsightsStopped(c)
         /\ task'[handler[c].awaits].state \in {"cancelled", "done"}
         /\ task[handler[c].awaits].state = "done" => task'[handler[c].awaits].state = "done"
         /\ Stop(handler[c].awaits) => task'[handler[c].awaits].state = "done"
<1> DEFINE t == handler[c].awaits
<1>1. /\ t \in Task /\ task[t].state \in {"cancelled", "done"}
      /\ task \in [Task -> TaskState] /\ handler \in [Client -> HandlerState]
      /\ handler[c].stage \in {"price", "insights"}
  BY DEF AwaitInv, TypeOK, Loop
<1> DEFINE Fine == /\ handler'[c] = handler[c] \/ PriceStopped(c) \/ InsightsStopped(c)
                   /\ task'[t].state \in {"cancelled", "done"}
                   /\ task[t].state = "done" => task'[t].state = "done"
                   /\ Stop(t) => task'[t].state = "done"
<1>2. Stop(t) => task'[t].state = "done"
  BY <1>1 DEF Stop, Now
<1>3. ASSUME NEW d \in Client, Depart(d) \/ PriceStopped(d) \/ InsightsStopped(d)
      PROVE  Fine
  <2>1. CASE InsightsStopped(d)
    BY <1>1, <1>2, <2>1 DEF InsightsStopped
  <2>2. CASE Depart(d) \/ PriceStopped(d)
    <3>1. handler'[c] = handler[c] \/ PriceStopped(c)
      BY <1>1, <2>2, DepartAwaits DEF Depart
    <3>2. \/ task' = task
          \/ \E u \in Task : task[u].state # "done" /\ task' = [task EXCEPT ![u] = Now("cancelled")]
      BY <2>2, DepartAwaits
    <3> QED
      BY <1>1, <1>2, <3>1, <3>2 DEF Now
  <2> QED
    BY <1>3, <2>1, <2>2
<1>4. ASSUME NEW d \in Client, Connect(d) \/ Subscribe(d)
      PROVE  Fine
  <2>1. handler'[c] = handler[c]
    BY <1>1, <1>4 DEF Connect, Subscribe
  <2>2. task'[t] = task[t]
    BY <1>1, <1>4, EnsureSpares, LoopFacts DEF Connect, Subscribe
  <2> QED
    BY <1>1, <1>2, <2>1, <2>2
<1>5. ASSUME NEW d \in Client, Greet(d) \/ Unsubscribe(d) \/ HangUp(d)
      PROVE  Fine
  BY <1>1, <1>2, <1>5 DEF Greet, Unsubscribe, HangUp
<1>6. ASSUME NEW u \in Task,
             \/ Think(u) \/ ThinkInVain(u) \/ Wake(u) \/ Prune(u) \/ Stop(u)
             \/ \E d \in Client : SendTo(u, d)
      PROVE  Fine
  <2>1. handler' = handler
    BY <1>6 DEF Think, ThinkInVain, Wake, Prune, Stop, SendTo
  <2>2. CASE Stop(u)
    BY <1>1, <1>2, <2>1, <2>2 DEF Stop, Now
  <2>3. CASE Think(u) \/ ThinkInVain(u) \/ Wake(u) \/ Prune(u) \/ \E d \in Client : SendTo(u, d)
    <3>1. u # t
      BY <1>1, <2>3 DEF Think, ThinkInVain, Wake, Prune, SendTo
    <3>2. task'[t] = task[t]
      BY <1>1, <2>3, <3>1 DEF Think, ThinkInVain, Wake, Prune, SendTo
    <3> QED
      BY <1>1, <1>2, <2>1, <3>2
  <2> QED
    BY <1>6, <2>2, <2>3
<1>7. CASE UNCHANGED vars
  BY <1>1, <1>2, <1>7 DEF vars
<1> QED
  BY <1>3, <1>4, <1>5, <1>6, <1>7 DEF Next

LEMMA AwaitStep ==
  ASSUME TypeOK, AwaitInv, [Next]_vars
  PROVE  AwaitInv'
<1> SUFFICES ASSUME NEW c \in Client, handler'[c].stage \in Loop
             PROVE  /\ handler'[c].awaits \in Task
                    /\ task'[handler'[c].awaits].state \in {"cancelled", "done"}
  BY DEF AwaitInv, Loop
<1>1. task \in [Task -> TaskState] /\ handler \in [Client -> HandlerState]
  BY DEF TypeOK
<1>2. CASE Depart(c) \/ PriceStopped(c)
  BY <1>1, <1>2, DepartAwaits DEF NoHandler, Loop, Now
<1>3. CASE InsightsStopped(c)
  BY <1>1, <1>3 DEF InsightsStopped, NoHandler, Loop
<1>4. CASE handler'[c] = handler[c]
  BY <1>4, WaiterMoves DEF AwaitInv
<1>5. \/ Depart(c) \/ PriceStopped(c) \/ InsightsStopped(c) \/ handler'[c] = handler[c]
      \/ Connect(c) \/ Greet(c) \/ Subscribe(c) \/ Unsubscribe(c)
  <2>1. ASSUME NEW d \in Client \ {c}, Depart(d) \/ PriceStopped(d)
        PROVE  handler'[c] = handler[c]
    BY <2>1, DepartAwaits
  <2>2. ASSUME NEW d \in Client \ {c},
               Connect(d) \/ Greet(d) \/ Subscribe(d) \/ Unsubscribe(d) \/ InsightsStopped(d)
        PROVE  handler'[c] = handler[c]
    BY <1>1, <2>2 DEF Connect, Greet, Subscribe, Unsubscribe, InsightsStopped
  <2>3. ASSUME \/ UNCHANGED vars
               \/ \E d \in Client : HangUp(d)
               \/ \E u \in Task :
                    \/ Think(u) \/ ThinkInVain(u) \/ Wake(u) \/ Prune(u) \/ Stop(u)
                    \/ \E d \in Client : SendTo(u, d)
        PROVE  handler'[c] = handler[c]
    BY <2>3 DEF vars, HangUp, Think, ThinkInVain, Wake, Prune, Stop, SendTo
  <2> QED
    BY <2>1, <2>2, <2>3 DEF Next
<1>6. CASE Connect(c) \/ Greet(c) \/ Subscribe(c) \/ Unsubscribe(c)
  <2>1. handler'[c].stage \in {"greeting", "open", "off", "closing"}
    BY <1>1, <1>6 DEF Connect, Greet, Subscribe, Unsubscribe, AfterReply, HandlerState
  <2> QED
    BY <2>1 DEF Loop
<1> QED
  BY <1>2, <1>3, <1>4, <1>5, <1>6

LEMMA ToGoStep ==
  ASSUME TypeOK, AwaitInv, [Next]_vars, NEW c \in Client, handler[c].stage \in Loop
  PROVE  /\ handler'[c].stage \in Loop \cup {"off"}
         /\ ToGo(c)' <= ToGo(c)
         /\ Stop(handler[c].awaits) \/ PriceStopped(c) \/ InsightsStopped(c) => ToGo(c)' < ToGo(c)
<1> DEFINE t == handler[c].awaits
<1>1. /\ task \in [Task -> TaskState] /\ handler \in [Client -> HandlerState]
      /\ handler[c].stage \in {"price", "insights"} /\ t \in Task
      /\ task[t].state \in {"cancelled", "done"}
  BY DEF TypeOK, Loop, AwaitInv
<1>2. /\ ToGo(c) = IF handler[c].stage = "price"
                   THEN IF task[t].state = "cancelled" THEN 4 ELSE 3
                   ELSE IF task[t].state = "cancelled" THEN 2 ELSE 1
  BY <1>1 DEF ToGo
<1>3. CASE PriceStopped(c)
  <2>1. handler[c].stage = "price" /\ task[t].state = "done"
    BY <1>3 DEF PriceStopped
  <2>2. handler'[c].stage \in {"insights", "off"}
    BY <1>3, <2>1, DepartAwaits DEF NoHandler, Depart
  <2>3. ToGo(c)' \in {0, 1, 2}
    BY <2>2 DEF ToGo
  <2> QED
    BY <1>2, <2>1, <2>2, <2>3 DEF Loop
<1>4. CASE InsightsStopped(c)
  <2>1. handler'[c].stage = "off"
    BY <1>1, <1>4 DEF InsightsStopped, NoHandler
  <2>2. ToGo(c)' = 0
    BY <2>1 DEF ToGo
  <2> QED
    BY <1>2, <2>1, <2>2 DEF Loop
<1>5. CASE handler'[c] = handler[c] /\ ~PriceStopped(c) /\ ~InsightsStopped(c)
  <2>1. ToGo(c)' = IF handler[c].stage = "price"
                   THEN IF task'[t].state = "cancelled" THEN 4 ELSE 3
                   ELSE IF task'[t].state = "cancelled" THEN 2 ELSE 1
    BY <1>1, <1>5 DEF ToGo
  <2>2. Stop(t) => task[t].state = "cancelled"
    BY DEF Stop
  <2>3. /\ task'[t].state \in {"cancelled", "done"}
        /\ task[t].state = "done" => task'[t].state = "done"
        /\ Stop(t) => task'[t].state = "done"
    BY WaiterMoves
  <2> HIDE DEF t
  <2> QED
    BY <1>1, <1>2, <1>5, <2>1, <2>2, <2>3 DEF t, Loop
<1> QED
  BY <1>3, <1>4, <1>5, WaiterMoves

\* A handler that is being left waits for loops that have been told to stop, and
\* each step of such a loop, or of the handler, brings it nearer to its end; no
\* other handler and no new loop delays it.  It takes four steps at most.  With an
\* event loop that runs what is ready, this is LeavingEnds.
THEOREM LeaversGetAway ==
  Spec => /\ []AwaitInv
          /\ [][\A c \in Client : handler[c].stage \in Loop =>
                  /\ handler'[c].stage \in Loop \cup {"off"}
                  /\ ToGo(c)' <= ToGo(c)
                  /\ (Stop(handler[c].awaits) \/ PriceStopped(c) \/ InsightsStopped(c))
                       => ToGo(c)' < ToGo(c)]_vars
<1>1. Init => AwaitInv
  BY DEF Init, AwaitInv, NoHandler, Loop
<1>2. GatewayInv /\ AwaitInv /\ [Next]_vars => AwaitInv'
  BY AwaitStep DEF GatewayInv
<1>3. GatewayInv /\ AwaitInv /\ [Next]_vars =>
        [\A c \in Client : handler[c].stage \in Loop =>
           /\ handler'[c].stage \in Loop \cup {"off"}
           /\ ToGo(c)' <= ToGo(c)
           /\ (Stop(handler[c].awaits) \/ PriceStopped(c) \/ InsightsStopped(c))
                => ToGo(c)' < ToGo(c)]_vars
  BY ToGoStep DEF GatewayInv
<1> QED
  BY <1>1, <1>2, <1>3, GatewayIsSound, PTL DEF Spec

-----------------------------------------------------------------------------
(* How a dead socket is found                                              *)

\* Whom t has yet to send to, and one more than the longest broadcast takes.
Unsent(t) == Cardinality(task[t].todo \cap alive)

Longest == Cardinality(Client) + 2

\* The steps of t until it unregisters c: those of this broadcast if c is one of
\* its recipients, and otherwise those of this one and the next.
Rounds(c, t) ==
  IF task[t].state # "sending" THEN Longest
  ELSE Unsent(t) + 1 + (IF c \in task[t].todo THEN 0 ELSE Longest)

LEMMA Counted ==
  ASSUME NEW S \in SUBSET Client
  PROVE  /\ Cardinality(S) \in Nat /\ Cardinality(S) <= Cardinality(Client)
         /\ Cardinality(Client) \in Nat
         /\ \A T \in SUBSET S : Cardinality(T) <= Cardinality(S)
         /\ \A d \in S : Cardinality(S \ {d}) = Cardinality(S) - 1
<1>1. IsFiniteSet(S)
  BY ClientAssumption, FS_Subset
<1>2. Cardinality(S) <= Cardinality(Client)
  BY ClientAssumption, FS_Subset
<1>3. \A T \in SUBSET S : Cardinality(T) <= Cardinality(S)
  BY <1>1, FS_Subset
<1>4. \A d \in S : Cardinality(S \ {d}) = Cardinality(S) - 1
  BY <1>1, FS_RemoveElement
<1> QED
  BY <1>1, <1>2, <1>3, <1>4, ClientAssumption, FS_CardinalityType

\* The steps of others, and those of t between its broadcasts: t sends to the same
\* clients as before, and some of them may go.
LEMMA OthersWhileSending ==
  ASSUME TypeOK, [Next]_vars, NEW c \in Client, c \in conns \ alive,
         NEW t \in Task, Running(t), Running(t)',
         ~Wake(t), ~Prune(t), \A d \in Client : ~SendTo(t, d)
  PROVE  /\ c \notin alive' /\ task[t].todo \cap alive' \subseteq alive
         /\ task'[t] = task[t] \/ {task[t].state, task'[t].state} = {"asleep", "thinking"}
<1> DEFINE Fine ==
             /\ c \notin alive' /\ task[t].todo \cap alive' \subseteq alive
             /\ task'[t] = task[t] \/ {task[t].state, task'[t].state} = {"asleep", "thinking"}
<1>1. /\ task \in [Task -> TaskState] /\ task[t].state \in {"asleep", "thinking", "sending"}
      /\ task'[t].state \in {"asleep", "thinking", "sending"}
  BY DEF TypeOK, Running
<1>2. ASSUME NEW d \in Client, Connect(d)
      PROVE  Fine
  <2>1. d # c /\ d \notin task[t].todo /\ alive' = alive \cup {d}
    BY <1>2 DEF Connect
  <2>2. task'[t] = task[t]
    BY <1>2, EnsureSpares, LoopFacts DEF Connect
  <2> QED
    BY <2>1, <2>2
<1>3. ASSUME NEW d \in Client, Subscribe(d)
      PROVE  Fine
  BY <1>3, EnsureSpares, LoopFacts DEF Subscribe
<1>4. ASSUME NEW d \in Client, Depart(d) \/ PriceStopped(d)
      PROVE  Fine
  <2>1. \/ task' = task
        \/ \E u \in Task : task' = [task EXCEPT ![u] = Now("cancelled")]
    BY <1>4, DepartAwaits
  <2>2. task'[t] = task[t]
    BY <1>1, <2>1 DEF Now
  <2> QED
    BY <1>4, <2>2 DEF Depart, PriceStopped
<1>5. ASSUME NEW d \in Client, Greet(d) \/ Unsubscribe(d) \/ InsightsStopped(d) \/ HangUp(d)
      PROVE  Fine
  BY <1>5 DEF Greet, Unsubscribe, InsightsStopped, HangUp
<1>6. ASSUME NEW u \in Task,
             Wake(u) \/ Prune(u) \/ Stop(u) \/ \E d \in Client : SendTo(u, d)
      PROVE  Fine
  <2>1. u # t
    BY <1>1, <1>6 DEF Stop
  <2> QED
    BY <1>1, <1>6, <2>1 DEF Wake, Prune, Stop, SendTo
<1>7. ASSUME NEW u \in Task, Think(u) \/ ThinkInVain(u)
      PROVE  Fine
  <2>1. alive' = alive /\ \A v \in Task \ {u} : task'[v] = task[v]
    BY <1>1, <1>7 DEF Think, ThinkInVain
  <2>2. {task[u].state, task'[u].state} = {"asleep", "thinking"}
    BY <1>1, <1>7 DEF Think, ThinkInVain, Now
  <2> QED
    BY <2>1, <2>2
<1>8. CASE UNCHANGED vars
  BY <1>8 DEF vars
<1> QED
  BY <1>2, <1>3, <1>4, <1>5, <1>6, <1>7, <1>8 DEF Next

LEMMA RoundsStep ==
  ASSUME TypeOK, [Next]_vars, NEW c \in Client, c \in conns \ alive, c \in conns',
         NEW t \in Task, Running(t), Running(t)'
  PROVE  /\ c \notin alive'
         /\ Rounds(c, t)' <= Rounds(c, t)
         /\ (Wake(t) \/ Prune(t) \/ \E d \in Client : SendTo(t, d))
              => Rounds(c, t)' < Rounds(c, t)
<1> DEFINE todo == task[t].todo
           n == Cardinality(Client)
<1>1. /\ task \in [Task -> TaskState] /\ todo \in SUBSET Client /\ conns \in SUBSET Client
      /\ task[t].state \in {"asleep", "thinking", "sending"}
  BY DEF TypeOK, TaskState, Running
<1>2. /\ Rounds(c, t) = IF task[t].state # "sending" THEN n + 2
                        ELSE Cardinality(todo \cap alive) + 1 + (IF c \in todo THEN 0 ELSE n + 2)
      /\ Rounds(c, t)' = IF task'[t].state # "sending" THEN n + 2
                         ELSE Cardinality(task'[t].todo \cap alive') + 1
                                + (IF c \in task'[t].todo THEN 0 ELSE n + 2)
  BY DEF Rounds, Unsent, Longest
<1>3. n \in Nat /\ \A S \in SUBSET Client : Cardinality(S) \in Nat /\ Cardinality(S) <= n
  BY Counted
<1> HIDE DEF n
<1>4. CASE Wake(t)
  <2>1. /\ task[t].state # "sending" /\ task'[t].state = "sending" /\ task'[t].todo = conns
        /\ alive' = alive
    BY <1>1, <1>4 DEF Wake
  <2>2. Cardinality(conns \cap alive) <= n /\ Cardinality(conns \cap alive) \in Nat
    BY <1>1, <1>3
  <2>3. Rounds(c, t)' = Cardinality(conns \cap alive) + 1
    BY <1>2, <2>1, <2>2
  <2>4. Rounds(c, t) = n + 2
    BY <1>2, <2>1
  <2> QED
    BY <1>3, <2>1, <2>2, <2>3, <2>4
<1>5. CASE Prune(t)
  <2>1. /\ task[t].state = "sending" /\ todo \cap alive = {} /\ c \notin todo
        /\ task'[t].state = "asleep" /\ alive' = alive
    BY <1>1, <1>5 DEF Prune, Now
  <2>2. Rounds(c, t) = Cardinality({}) + 1 + (n + 2) /\ Rounds(c, t)' = n + 2
    BY <1>2, <2>1
  <2>3. Cardinality({}) \in Nat
    BY <1>3
  <2> QED
    BY <1>3, <2>1, <2>2, <2>3
<1>6. CASE \E d \in Client : SendTo(t, d)
  <2>1. PICK d \in Client : SendTo(t, d)
    BY <1>6
  <2>2. /\ task[t].state = "sending" /\ task'[t].state = "sending"
        /\ task'[t].todo = todo \ {d} /\ d \in todo \cap alive /\ d # c /\ alive' = alive
    BY <1>1, <2>1 DEF SendTo, TaskState
  <2>3. /\ (todo \ {d}) \cap alive = (todo \cap alive) \ {d}
        /\ todo \cap alive \in SUBSET Client
    BY <1>1
  <2>4. /\ Cardinality((todo \cap alive) \ {d}) = Cardinality(todo \cap alive) - 1
        /\ Cardinality(todo \cap alive) \in Nat
    BY <2>2, <2>3, Counted
  <2>5. c \in todo \ {d} <=> c \in todo
    BY <2>2
  <2>6. /\ Rounds(c, t) = Cardinality(todo \cap alive) + 1 + (IF c \in todo THEN 0 ELSE n + 2)
        /\ Rounds(c, t)' = Cardinality((todo \cap alive) \ {d}) + 1
                             + (IF c \in todo THEN 0 ELSE n + 2)
    BY <1>2, <2>2, <2>3, <2>5
  <2> HIDE DEF todo
  <2>7. Rounds(c, t)' < Rounds(c, t)
    BY <1>3, <2>4, <2>6
  <2>8. Rounds(c, t)' <= Rounds(c, t)
    BY <1>3, <2>4, <2>6
  <2> QED
    BY <2>2, <2>7, <2>8
<1>7. CASE ~(Wake(t) \/ Prune(t) \/ \E d \in Client : SendTo(t, d))
  <2>1. /\ c \notin alive' /\ todo \cap alive' \in SUBSET (todo \cap alive)
        /\ task'[t] = task[t] \/ {task[t].state, task'[t].state} = {"asleep", "thinking"}
    BY <1>7, OthersWhileSending
  <2>2. /\ Cardinality(todo \cap alive') <= Cardinality(todo \cap alive)
        /\ Cardinality(todo \cap alive') \in Nat /\ Cardinality(todo \cap alive) \in Nat
    <3>1. todo \cap alive \in SUBSET Client /\ todo \cap alive' \in SUBSET Client
      BY <1>1
    <3> QED
      BY <2>1, <3>1, Counted
  <2>3. Rounds(c, t)' = IF task[t].state # "sending" THEN n + 2
                        ELSE Cardinality(todo \cap alive') + 1 + (IF c \in todo THEN 0 ELSE n + 2)
    BY <1>2, <2>1
  <2> HIDE DEF todo
  <2>4. Rounds(c, t)' <= Rounds(c, t)
    BY <1>2, <1>3, <2>2, <2>3
  <2> QED
    BY <1>7, <2>1, <2>4
<1> QED
  BY <1>4, <1>5, <1>6, <1>7

\* A socket that is dead and still registered stays dead, and a coroutine that
\* broadcasts comes nearer to unregistering it with each of its own steps: it
\* finishes the broadcast it is in and, if that went out before the socket was
\* registered, makes another one.  Clients that come and go, and other broadcasts,
\* never delay it.  It takes twice the number of clients and three steps at most.
\* With price loops that wake up, this is DeadIsUnregistered.
THEOREM DeadAreFound ==
  Spec => /\ [](\A c \in Client, t \in Task : Rounds(c, t) \in 0 .. 2 * Cardinality(Client) + 3)
          /\ [][\A c \in conns \ alive, t \in Task :
                  c \in conns' /\ Running(t) /\ Running(t)' =>
                    /\ c \notin alive'
                    /\ Rounds(c, t)' <= Rounds(c, t)
                    /\ (Wake(t) \/ Prune(t) \/ \E d \in Client : SendTo(t, d))
                         => Rounds(c, t)' < Rounds(c, t)]_vars
<1>1. GatewayInv =>
        \A c \in Client, t \in Task : Rounds(c, t) \in 0 .. 2 * Cardinality(Client) + 3
  <2> SUFFICES ASSUME GatewayInv, NEW c \in Client, NEW t \in Task
               PROVE  Rounds(c, t) \in 0 .. 2 * Cardinality(Client) + 3
    OBVIOUS
  <2> DEFINE n == Cardinality(Client)
             m == Unsent(t)
  <2>1. task[t].todo \cap alive \in SUBSET Client
    BY DEF GatewayInv, TypeOK, TaskState
  <2>2. n \in Nat /\ m \in Nat /\ m <= n
    BY <2>1, Counted DEF Unsent
  <2>3. Rounds(c, t) \in {n + 2, m + 1 + 0, m + 1 + (n + 2)}
    BY DEF Rounds, Longest
  <2> HIDE DEF n, m
  <2>4. Rounds(c, t) \in 0 .. 2 * n + 3
    BY <2>2, <2>3
  <2> QED
    BY <2>4 DEF n
<1>2. GatewayInv /\ [Next]_vars =>
        [\A c \in conns \ alive, t \in Task :
           c \in conns' /\ Running(t) /\ Running(t)' =>
             /\ c \notin alive'
             /\ Rounds(c, t)' <= Rounds(c, t)
             /\ (Wake(t) \/ Prune(t) \/ \E d \in Client : SendTo(t, d))
                  => Rounds(c, t)' < Rounds(c, t)]_vars
  BY RoundsStep DEF GatewayInv, TypeOK
<1> QED
  BY <1>1, <1>2, GatewayIsSound, PTL DEF Spec
=============================================================================
