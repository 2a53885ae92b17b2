------------------------- MODULE NotificationsProofs -------------------------
(***************************************************************************)
(* Proofs of the properties of Notifications, for any sockets, any number  *)
(* of events and any length of the log.                                    *)
(*                                                                         *)
(* Each event is on one way to the tab at most: still to be sent, on the   *)
(* wire, or on the screen (Wires, Unseen).  While a socket is served no    *)
(* list read from the server can replace the screen, because the status of *)
(* an open socket is "connected" (Status), and what is sent to a socket    *)
(* that is still connecting waits on the wire (Served).                    *)
(***************************************************************************)
EXTENDS Notifications, FiniteSetTheorems, TLAPS

Known == 1 .. count

Distinct(list) == \A i, j \in 1 .. Len(list) : list[i] = list[j] => i = j

Screen == shown \in Seq(Known) /\ polled \subseteq Known /\ AtMostOnce

\* What the server has listed, and what the tab has read of it.
Lists ==
  /\ log \in Seq(Known) /\ Distinct(log)
  /\ swr.answer \in Seq(Known) /\ Distinct(swr.answer)
  /\ swr.data # Nil => swr.data \in Seq(Known) /\ Distinct(swr.data)

\* An event is sent to a socket once.
Wires ==
  \A s \in Socket :
    /\ wire[s] \in Seq(Known) /\ Distinct(wire[s])
    /\ \A e \in Event : s \in todo[e] => e \in Known /\ e \notin ToSet(wire[s])

\* What is on its way to the tab has come from no other socket.
Unseen ==
  \A s \in Socket, e \in Event :
    s = hook.ref /\ (s \in todo[e] \/ e \in ToSet(wire[s])) =>
      Sightings(e) <= IF e \in polled THEN 1 ELSE 0

Registered == \A s \in Socket : server[s] = "serving" => s \in conns

\* AtLeastOnce, before the browser has noticed that the socket is open too.
Served ==
  \A s \in Socket : s = hook.ref /\ Alive(s) /\ server[s] = "serving" =>
    \A e \in since[s] + 1 .. count :
      \/ s \in todo[e] \/ e \in ToSet(wire[s])
      \/ sock[s] = "open" /\ e \in ToSet(shown)

Status ==
  /\ PollsOrListens
  /\ \A s \in Socket : s = hook.ref /\ sock[s] = "open" => hook.status = "connected"

LiveInv ==
  LiveTypeOK /\ Screen /\ Lists /\ Wires /\ Unseen /\ Registered /\ Served /\ Status

-----------------------------------------------------------------------------
(* Lists of events                                                         *)

LEMMA EmptyList ==
  /\ ToSet(<<>>) = {}
  /\ Distinct(<<>>)
  /\ \A S : <<>> \in Seq(S)
BY DEF ToSet, Distinct

LEMMA Appended ==
  ASSUME NEW S, NEW list \in Seq(S), NEW e \in S
  PROVE  /\ Append(list, e) \in Seq(S)
         /\ ToSet(Append(list, e)) = ToSet(list) \cup {e}
         /\ Distinct(list) /\ e \notin ToSet(list) => Distinct(Append(list, e))
<1> DEFINE n == Len(list) + 1
           longer == Append(list, e)
<1>1. /\ longer \in Seq(S) /\ Len(list) \in Nat /\ Len(longer) = n
      /\ DOMAIN list = 1 .. Len(list) /\ DOMAIN longer = 1 .. n
      /\ longer[n] = e /\ \A i \in 1 .. Len(list) : longer[i] = list[i]
  OBVIOUS
<1> HIDE DEF longer
<1>2. 1 .. n = (1 .. Len(list)) \cup {n} /\ n \notin 1 .. Len(list)
  BY <1>1
<1> HIDE DEF n
<1>3. ToSet(longer) = ToSet(list) \cup {e}
  BY <1>1, <1>2 DEF ToSet
<1>4. ASSUME Distinct(list), e \notin ToSet(list) PROVE Distinct(longer)
  <2>1. \A i \in 1 .. Len(list) : list[i] # e
    BY <1>1, <1>4 DEF ToSet
  <2> QED
    BY <1>1, <1>2, <1>4, <2>1 DEF Distinct
<1> QED
  BY <1>1, <1>3, <1>4 DEF longer

LEMMA Tailed ==
  ASSUME NEW S, NEW list \in Seq(S), list # <<>>
  PROVE  /\ Head(list) \in S /\ Tail(list) \in Seq(S)
         /\ ToSet(list) = ToSet(Tail(list)) \cup {Head(list)}
         /\ Distinct(list) => Distinct(Tail(list)) /\ Head(list) \notin ToSet(Tail(list))
<1>1. /\ Head(list) = list[1] /\ Tail(list) \in Seq(S) /\ Len(list) \in Nat
      /\ Len(Tail(list)) = Len(list) - 1 /\ Len(list) >= 1
      /\ \A i \in 1 .. Len(list) - 1 : Tail(list)[i] = list[i + 1]
      /\ Head(list) \in S
      /\ DOMAIN list = 1 .. Len(list) /\ DOMAIN Tail(list) = 1 .. Len(list) - 1
  OBVIOUS
<1>2. \A i \in 1 .. Len(list) : i = 1 \/ (i - 1 \in 1 .. Len(list) - 1 /\ i = (i - 1) + 1)
  BY <1>1
<1>3. \A i \in 1 .. Len(list) - 1 : i + 1 \in 1 .. Len(list) /\ i + 1 # 1
  BY <1>1
<1>4. ToSet(list) = ToSet(Tail(list)) \cup {Head(list)}
  <2>1. \A i \in 1 .. Len(list) : i = 1 \/ list[i] = Tail(list)[i - 1]
    BY <1>1, <1>2
  <2>2. ASSUME NEW x \in ToSet(list) PROVE x = Head(list) \/ x \in ToSet(Tail(list))
    <3>1. PICK i \in 1 .. Len(list) : x = list[i]
      BY <1>1 DEF ToSet
    <3>2. CASE i = 1
      BY <1>1, <3>1, <3>2
    <3>3. CASE i # 1
      BY <1>1, <1>2, <2>1, <3>1, <3>3 DEF ToSet
    <3> QED
      BY <3>2, <3>3
  <2>3. \A x \in ToSet(Tail(list)) : x \in ToSet(list)
    BY <1>1, <1>3 DEF ToSet
  <2>4. Head(list) \in ToSet(list)
    BY <1>1 DEF ToSet
  <2> QED
    BY <2>2, <2>3, <2>4
<1>5. Distinct(list) => Distinct(Tail(list))
  BY <1>1, <1>3 DEF Distinct
<1>6. Distinct(list) => Head(list) \notin ToSet(Tail(list))
  BY <1>1, <1>3 DEF Distinct, ToSet
<1> QED
  BY <1>1, <1>4, <1>5, <1>6

LEMMA ListOf ==
  ASSUME NEW S, NEW list \in Seq(S)
  PROVE  ToSet(list) \subseteq S
BY DEF ToSet

LEMMA LongerList ==
  ASSUME NEW S, NEW T, S \subseteq T, NEW list \in Seq(S)
  PROVE  list \in Seq(T)
OBVIOUS

-----------------------------------------------------------------------------
(* What is on the screen                                                   *)

LEMMA SightingsAreCounted ==
  ASSUME NEW e, shown \in Seq(Event)
  PROVE  Sightings(e) \in Nat /\ (e \notin ToSet(shown) => Sightings(e) = 0)
<1> DEFINE S == {i \in DOMAIN shown : shown[i] = e}
<1>1. S \subseteq 1 .. Len(shown) /\ Len(shown) \in Nat
  OBVIOUS
<1>2. IsFiniteSet(S)
  BY <1>1, FS_Interval, FS_Subset
<1>3. e \notin ToSet(shown) => S = {}
  BY DEF ToSet
<1> QED
  BY <1>2, <1>3, FS_CardinalityType, FS_EmptySet DEF Sightings

\* A list without repetitions shows each event once.
LEMMA PutShows ==
  ASSUME NEW S, NEW list \in Seq(S), Distinct(list), Put(list), NEW e
  PROVE  Sightings(e)' = IF e \in polled' THEN 1 ELSE 0
<1> DEFINE I == {i \in DOMAIN list : list[i] = e}
<1>1. Sightings(e)' = Cardinality(I) /\ polled' = ToSet(list)
  BY DEF Sightings, Put
<1>2. CASE e \in ToSet(list)
  <2>1. PICK i \in DOMAIN list : list[i] = e
    BY <1>2 DEF ToSet
  <2>2. I = {i}
    BY <2>1 DEF Distinct
  <2>3. Cardinality(I) = 1
    BY <2>2, FS_Singleton
  <2> QED
    BY <1>1, <1>2, <2>3
<1>3. CASE e \notin ToSet(list)
  <2>1. I = {}
    BY <1>3 DEF ToSet
  <2>2. Cardinality(I) = 0
    BY <2>1, FS_EmptySet
  <2> QED
    BY <1>1, <1>3, <2>2
<1> QED
  BY <1>2, <1>3

LEMMA AppendShows ==
  ASSUME shown \in Seq(Event), NEW e \in Event, shown' = Append(shown, e), NEW f
  PROVE  Sightings(f)' = IF f = e THEN Sightings(f) + 1 ELSE Sightings(f)
<1> DEFINE S == {i \in DOMAIN shown : shown[i] = f}
           n == Len(shown) + 1
<1>1. S \subseteq 1 .. Len(shown) /\ Len(shown) \in Nat /\ n \notin S
  OBVIOUS
<1>2. IsFiniteSet(S)
  BY <1>1, FS_Interval, FS_Subset
<1>3. DOMAIN shown' = 1 .. n /\ shown'[n] = e /\ \A i \in 1 .. Len(shown) : shown'[i] = shown[i]
  BY <1>1
<1>4. {i \in DOMAIN shown' : shown'[i] = f} = IF f = e THEN S \cup {n} ELSE S
  BY <1>1, <1>3
<1>5. Cardinality(S \cup {n}) = Cardinality(S) + 1
  BY <1>1, <1>2, FS_AddElement
<1> QED
  BY <1>4, <1>5 DEF Sightings

LEMMA InitLive == LiveInit => LiveInv
<1> SUFFICES ASSUME LiveInit PROVE LiveInv
  OBVIOUS
<1>1. LiveTypeOK
  BY EventAssumption DEF LiveInit, LiveTypeOK, Event
<1>2. \A e : Sightings(e) = 0
  BY <1>1, SightingsAreCounted, EmptyList DEF LiveInit, LiveTypeOK
<1>3. Screen /\ Unseen
  BY <1>2, EmptyList DEF LiveInit, Screen, Unseen, AtMostOnce
<1>4. Lists /\ Wires /\ Registered /\ Served /\ Status
  BY EmptyList, SocketAssumption
     DEF LiveInit, Lists, Wires, Registered, Served, Status, PollsOrListens, Alive
<1> QED
  BY <1>1, <1>3, <1>4 DEF LiveInv

\* The screen that shows a list of the server, whatever was there before.
LEMMA PutKeeps ==
  ASSUME LiveInv, NEW list \in Seq(Known), Distinct(list), Put(list), UNCHANGED count
  PROVE  /\ Screen'
         /\ shown' \in Seq(Event) /\ polled' \subseteq Event
         /\ \A e \in Event : Sightings(e)' <= IF e \in polled' THEN 1 ELSE 0
<1>1. Known' = Known /\ Known \subseteq Event
  BY EventAssumption DEF Known, LiveInv, LiveTypeOK, Event
<1>2. shown' = list /\ polled' = ToSet(list) /\ polled' \subseteq Known
  BY ListOf DEF Put
<1>3. list \in Seq(Event)
  BY <1>1, LongerList
<1>4. \A e : Sightings(e)' = IF e \in polled' THEN 1 ELSE 0
  BY PutShows
<1>5. AtMostOnce'
  BY <1>4 DEF AtMostOnce
<1> QED
  BY <1>1, <1>2, <1>3, <1>4, <1>5 DEF Screen

LEMMA SameScreen ==
  ASSUME LiveInv, UNCHANGED <<shown, polled, count>>
  PROVE  /\ Screen'
         /\ shown' \in Seq(Event) /\ polled' \subseteq Event
         /\ \A e : Sightings(e)' = Sightings(e)
<1>1. \A e : Sightings(e)' = Sightings(e)
  BY DEF Sightings
<1> QED
  BY <1>1 DEF LiveInv, LiveTypeOK, Screen, AtMostOnce, Known

LEMMA FallBackKeeps ==
  ASSUME LiveInv, FallBack, UNCHANGED count
  PROVE  /\ Screen'
         /\ shown' \in Seq(Event) /\ polled' \subseteq Event
         /\ \A s \in Socket, e \in Event :
              s = hook.ref /\ (s \in todo[e] \/ e \in ToSet(wire[s])) =>
                Sightings(e)' <= IF e \in polled' THEN 1 ELSE 0
<1>1. CASE hook.status = "connected" /\ swr.data # Nil
  BY <1>1, PutKeeps DEF FallBack, LiveInv, Lists
<1>2. CASE ~(hook.status = "connected" /\ swr.data # Nil)
  <2>1. UNCHANGED <<shown, polled>>
    BY <1>2 DEF FallBack
  <2> QED
    BY <2>1, SameScreen DEF LiveInv, Unseen
<1> QED
  BY <1>1, <1>2

\* The lists and the wires, for steps that do not touch them.
LEMMA SameLists ==
  ASSUME LiveInv, UNCHANGED <<log, swr, count>>
  PROVE  Lists'
BY DEF LiveInv, Lists, Known

LEMMA SameWires ==
  ASSUME LiveInv, UNCHANGED <<todo, wire, count>>
  PROVE  Wires'
BY DEF LiveInv, Wires, Known

\* A wire that is cut carries nothing more.
LEMMA CutWire ==
  ASSUME LiveInv, NEW s \in Socket, wire' = [wire EXCEPT ![s] = <<>>],
         UNCHANGED <<todo, count>>
  PROVE  /\ Wires' /\ wire' \in [Socket -> Seq(Event)]
         /\ ToSet(wire'[s]) = {} /\ \A t \in Socket \ {s} : wire'[t] = wire[t]
<1>1. wire \in [Socket -> Seq(Event)]
  BY DEF LiveInv, LiveTypeOK
<1>2. /\ wire' \in [Socket -> Seq(Event)]
      /\ wire'[s] = <<>> /\ \A t \in Socket \ {s} : wire'[t] = wire[t]
  BY <1>1, EmptyList
<1>3. Wires'
  BY <1>2, EmptyList DEF LiveInv, Wires, Known
<1> QED
  BY <1>2, <1>3, EmptyList

-----------------------------------------------------------------------------
(* The hook                                                                *)

LEMMA SignOutKeeps ==
  ASSUME LiveInv, SignOut
  PROVE  LiveInv'
<1>1. /\ hook' = [ref |-> Nil, status |-> "fallback"] /\ FallBack
      /\ sock' = [s \in Socket |-> IF s = hook.ref /\ Alive(s) THEN "closing" ELSE sock[s]]
      /\ UNCHANGED <<swr, wire, server, conns, log, count, todo, since>>
  BY DEF SignOut, backend
<1>2. Screen' /\ shown' \in Seq(Event) /\ polled' \subseteq Event
  BY <1>1, FallBackKeeps
<1>3. Lists' /\ Wires'
  BY <1>1, SameLists, SameWires
<1>4. LiveTypeOK'
  BY <1>1, <1>2 DEF LiveInv, LiveTypeOK
<1>5. Registered'
  BY <1>1 DEF LiveInv, Registered
<1>6. Unseen' /\ Served' /\ Status'
  BY <1>1, SocketAssumption DEF Unseen, Served, Status, PollsOrListens
<1> QED
  BY <1>2, <1>3, <1>4, <1>5, <1>6 DEF LiveInv

LEMMA SignInKeeps ==
  ASSUME LiveInv, NEW s \in Socket, SignIn(s)
  PROVE  LiveInv'
<1>1. /\ s \in Fresh /\ hook' = [hook EXCEPT !.ref = s]
      /\ sock' = [t \in Socket |-> IF t = s THEN "connecting"
                                   ELSE IF t = hook.ref /\ Alive(t) THEN "closing" ELSE sock[t]]
      /\ server' = [server EXCEPT ![s] = "checking"]
      /\ wire' = [wire EXCEPT ![s] = <<>>]
      /\ UNCHANGED <<shown, polled, swr, conns, log, count, todo, since>>
  BY DEF SignIn
<1>2. LiveTypeOK
  BY DEF LiveInv
<1>3. /\ hook'.ref = s /\ hook'.status = hook.status
      /\ hook' \in [ref : Socket \cup {Nil}, status : {"connected", "fallback"}]
  BY <1>1, <1>2 DEF LiveTypeOK
<1>4. /\ server'[s] = "checking" /\ \A t \in Socket \ {s} : server'[t] = server[t]
      /\ server' \in [Socket -> {"none", "checking", "accepted", "serving"}]
  BY <1>1, <1>2 DEF LiveTypeOK
<1>5. Screen'
  BY <1>1, SameScreen
<1>6. /\ Wires' /\ Lists' /\ wire' \in [Socket -> Seq(Event)] /\ ToSet(wire'[s]) = {}
  BY <1>1, CutWire, SameLists
<1>7. LiveTypeOK'
  BY <1>1, <1>2, <1>3, <1>4, <1>6 DEF LiveTypeOK
<1>8. \A e \in Event : s \notin todo[e]
  BY <1>1 DEF Fresh
<1>9. Unseen'
  BY <1>1, <1>3, <1>6, <1>8 DEF Unseen
<1>10. Registered' /\ Served'
  BY <1>1, <1>3, <1>4 DEF LiveInv, Registered, Served
<1>11. Status'
  BY <1>1, <1>3, SocketAssumption DEF Status, PollsOrListens
<1> QED
  BY <1>5, <1>6, <1>7, <1>9, <1>10, <1>11 DEF LiveInv

LEMMA OpenedKeeps ==
  ASSUME LiveInv, NEW s \in Socket, Opened(s)
  PROVE  LiveInv'
<1>1. /\ sock[s] = "connecting" /\ sock' = [sock EXCEPT ![s] = "open"]
      /\ hook' = IF s = hook.ref THEN [hook EXCEPT !.status = "connected"] ELSE hook
      /\ UNCHANGED <<shown, polled, swr, wire, server, conns, log, count, todo, since>>
  BY DEF Opened, backend
<1>2. LiveTypeOK
  BY DEF LiveInv
<1>3. /\ hook'.ref = hook.ref
      /\ hook'.status = IF s = hook.ref THEN "connected" ELSE hook.status
      /\ hook' \in [ref : Socket \cup {Nil}, status : {"connected", "fallback"}]
  BY <1>1, <1>2 DEF LiveTypeOK
<1>4. /\ sock'[s] = "open" /\ \A t \in Socket \ {s} : sock'[t] = sock[t]
      /\ sock' \in [Socket -> {"connecting", "open", "closing", "closed"}]
  BY <1>1, <1>2 DEF LiveTypeOK
<1>5. Screen' /\ \A e : Sightings(e)' = Sightings(e)
  BY <1>1, SameScreen
<1>6. Lists' /\ Wires'
  BY <1>1, SameLists, SameWires
<1>7. LiveTypeOK'
  BY <1>1, <1>2, <1>3, <1>4 DEF LiveTypeOK
<1>8. Unseen' /\ Registered'
  BY <1>1, <1>3, <1>5 DEF LiveInv, Unseen, Registered
<1>9. Served'
  BY <1>1, <1>3, <1>4 DEF LiveInv, Served, Alive
<1>10. Status'
  BY <1>3, <1>4, SocketAssumption DEF LiveInv, Status, PollsOrListens
<1> QED
  BY <1>5, <1>6, <1>7, <1>8, <1>9, <1>10 DEF LiveInv

LEMMA ReceiveKeeps ==
  ASSUME LiveInv, NEW s \in Socket, Receive(s)
  PROVE  LiveInv'
<1> DEFINE e == Head(wire[s])
           rest == Tail(wire[s])
<1>1. /\ sock[s] \in {"open", "closing"} /\ wire[s] # <<>>
      /\ shown' = IF s = hook.ref THEN Append(shown, e) ELSE shown
      /\ wire' = [wire EXCEPT ![s] = rest]
      /\ UNCHANGED <<hook, polled, swr, sock, server, conns, log, count, todo, since>>
  BY DEF Receive, backend
<1>2. LiveTypeOK /\ Known' = Known /\ Known \subseteq Event
  BY <1>1, EventAssumption DEF LiveInv, LiveTypeOK, Known, Event
<1>3. wire[s] \in Seq(Known) /\ Distinct(wire[s])
  BY DEF LiveInv, Wires
<1>4. /\ e \in Known /\ rest \in Seq(Known)
      /\ ToSet(wire[s]) = ToSet(rest) \cup {e}
      /\ Distinct(rest) /\ e \notin ToSet(rest)
  BY <1>1, <1>3, Tailed
<1> HIDE DEF e, rest
<1>5. /\ wire'[s] = rest /\ \A t \in Socket \ {s} : wire'[t] = wire[t]
      /\ wire' \in [Socket -> Seq(Event)]
  <2>1. rest \in Seq(Event)
    BY <1>2, <1>4, LongerList
  <2> QED
    BY <1>1, <1>2, <2>1 DEF LiveTypeOK
<1>6. Wires'
  BY <1>1, <1>2, <1>4, <1>5 DEF LiveInv, Wires
<1>7. Lists'
  BY <1>1, SameLists
<1>8. s \notin todo[e] /\ e \in Event /\ shown \in Seq(Event)
  BY <1>2, <1>4 DEF LiveInv, Wires, LiveTypeOK
<1>9. CASE s # hook.ref
  <2>1. Screen' /\ \A f : Sightings(f)' = Sightings(f)
    BY <1>1, <1>9, SameScreen
  <2>2. Unseen' /\ Served'
    BY <1>1, <1>5, <1>9, <2>1 DEF LiveInv, Unseen, Served, Alive
  <2>3. LiveTypeOK' /\ Registered' /\ Status'
    BY <1>1, <1>2, <1>5, <1>9
       DEF LiveInv, LiveTypeOK, Registered, Status, PollsOrListens
  <2> QED
    BY <1>6, <1>7, <2>1, <2>2, <2>3 DEF LiveInv
<1>10. CASE s = hook.ref
  <2>1. shown' = Append(shown, e)
    BY <1>1, <1>10
  <2>2. \A f : Sightings(f)' = IF f = e THEN Sightings(f) + 1 ELSE Sightings(f)
    BY <1>8, <2>1, AppendShows
  <2>3. \A f : Sightings(f) \in Nat
    BY <1>8, SightingsAreCounted
  <2>4. Sightings(e) <= IF e \in polled THEN 1 ELSE 0
    BY <1>4, <1>8, <1>10 DEF LiveInv, Unseen
  <2>5. /\ shown' \in Seq(Known) /\ shown' \in Seq(Event)
        /\ ToSet(shown') = ToSet(shown) \cup {e}
    BY <1>4, <1>8, <2>1, Appended DEF LiveInv, Screen
  <2>6. AtMostOnce'
    BY <1>1, <2>2, <2>3, <2>4 DEF LiveInv, Screen, AtMostOnce
  <2>7. Screen'
    BY <1>1, <1>2, <2>5, <2>6 DEF LiveInv, Screen
  <2>8. Unseen'
    BY <1>1, <1>4, <1>5, <1>8, <1>10, <2>2 DEF LiveInv, Unseen
  <2>9. Served'
    BY <1>1, <1>4, <1>5, <1>10, <2>5 DEF LiveInv, Served, Alive
  <2>10. LiveTypeOK' /\ Registered' /\ Status'
    BY <1>1, <1>2, <1>5, <2>5
       DEF LiveInv, LiveTypeOK, Registered, Status, PollsOrListens
  <2> QED
    BY <1>6, <1>7, <2>7, <2>8, <2>9, <2>10 DEF LiveInv
<1> QED
  BY <1>9, <1>10

LEMMA ClosedKeeps ==
  ASSUME LiveInv, NEW s \in Socket, Closed(s)
  PROVE  LiveInv'
<1>1. /\ sock' = [sock EXCEPT ![s] = "closed"] /\ wire' = [wire EXCEPT ![s] = <<>>]
      /\ IF s = hook.ref
           THEN FallBack /\ hook' = [hook EXCEPT !.status = "fallback"]
           ELSE UNCHANGED <<hook, shown, polled>>
      /\ UNCHANGED <<swr, server, conns, log, count, todo, since>>
  BY DEF Closed, backend
<1>2. LiveTypeOK
  BY DEF LiveInv
<1>3. /\ hook'.ref = hook.ref
      /\ hook'.status = IF s = hook.ref THEN "fallback" ELSE hook.status
      /\ hook' \in [ref : Socket \cup {Nil}, status : {"connected", "fallback"}]
  BY <1>1, <1>2 DEF LiveTypeOK
<1>4. /\ sock'[s] = "closed" /\ \A t \in Socket \ {s} : sock'[t] = sock[t]
      /\ sock' \in [Socket -> {"connecting", "open", "closing", "closed"}]
  BY <1>1, <1>2 DEF LiveTypeOK
<1>5. /\ Wires' /\ Lists' /\ wire' \in [Socket -> Seq(Event)] /\ ToSet(wire'[s]) = {}
      /\ \A t \in Socket \ {s} : wire'[t] = wire[t]
  BY <1>1, CutWire, SameLists
<1>6. /\ Screen' /\ shown' \in Seq(Event) /\ polled' \subseteq Event
      /\ \A t \in Socket, e \in Event :
           t = hook.ref /\ (t \in todo[e] \/ e \in ToSet(wire[t])) =>
             Sightings(e)' <= IF e \in polled' THEN 1 ELSE 0
  <2>1. CASE s = hook.ref
    BY <1>1, <2>1, FallBackKeeps
  <2>2. CASE s # hook.ref
    BY <1>1, <2>2, SameScreen DEF LiveInv, Unseen
  <2> QED
    BY <2>1, <2>2
<1>7. Unseen'
  BY <1>1, <1>3, <1>5, <1>6 DEF Unseen
<1>8. LiveTypeOK'
  BY <1>1, <1>2, <1>3, <1>4, <1>5, <1>6 DEF LiveTypeOK
<1>9. Registered'
  BY <1>1 DEF LiveInv, Registered
<1>10. Served'
  <2>1. CASE s = hook.ref
    BY <1>3, <1>4, <2>1 DEF Served, Alive
  <2>2. CASE s # hook.ref
    BY <1>1, <1>3, <1>4, <1>5, <2>2 DEF LiveInv, Served, Alive
  <2> QED
    BY <2>1, <2>2
<1>11. Status'
  BY <1>3, <1>4 DEF LiveInv, Status, PollsOrListens
<1> QED
  BY <1>5, <1>6, <1>7, <1>8, <1>9, <1>10, <1>11 DEF LiveInv

LEMMA DropKeeps ==
  ASSUME LiveInv, NEW s \in Socket, Drop(s)
  PROVE  LiveInv'
<1>1. /\ sock[s] = "open" /\ sock' = [sock EXCEPT ![s] = "closing"]
      /\ wire' = wire \/ wire' = [wire EXCEPT ![s] = <<>>]
      /\ UNCHANGED <<hook, shown, polled, swr, server, conns, log, count, todo, since>>
  BY DEF Drop, backend
<1>2. LiveTypeOK
  BY DEF LiveInv
<1>3. /\ sock'[s] = "closing" /\ \A t \in Socket \ {s} : sock'[t] = sock[t]
      /\ sock' \in [Socket -> {"connecting", "open", "closing", "closed"}]
  BY <1>1, <1>2 DEF LiveTypeOK
<1>4. Screen' /\ \A e : Sightings(e)' = Sightings(e)
  BY <1>1, SameScreen
<1>5. /\ Wires' /\ wire' \in [Socket -> Seq(Event)]
      /\ ToSet(wire'[s]) \subseteq ToSet(wire[s])
      /\ \A t \in Socket \ {s} : wire'[t] = wire[t]
  <2>1. CASE wire' = wire
    BY <1>1, <1>2, <2>1, SameWires DEF LiveTypeOK
  <2>2. CASE wire' = [wire EXCEPT ![s] = <<>>]
    BY <1>1, <2>2, CutWire
  <2> QED
    BY <1>1, <2>1, <2>2
<1>6. Lists'
  BY <1>1, SameLists
<1>7. LiveTypeOK'
  BY <1>1, <1>2, <1>3, <1>5 DEF LiveTypeOK
<1>8. Unseen' /\ Registered'
  BY <1>1, <1>4, <1>5 DEF LiveInv, Unseen, Registered
<1>9. Served' /\ Status'
  BY <1>1, <1>3, <1>5 DEF LiveInv, Served, Alive, Status, PollsOrListens
<1> QED
  BY <1>4, <1>5, <1>6, <1>7, <1>8, <1>9 DEF LiveInv

\* A poll asks, is answered and fails without touching the screen.
LEMMA PollKeeps ==
  ASSUME LiveInv, Ask \/ GetRecentLogs \/ PollFails
  PROVE  LiveInv'
<1>1. UNCHANGED <<hook, shown, polled, sock, wire, server, conns, log, count, todo, since>>
  BY DEF Ask, GetRecentLogs, PollFails, backend
<1>2. LiveTypeOK /\ Lists
  BY DEF LiveInv
<1>3. /\ swr' \in [data : Seq(Event) \cup {Nil}, poll : {"none", "asked", "answered"},
                     answer : Seq(Event)]
      /\ swr'.data = swr.data
      /\ swr'.answer \in {swr.answer, log, <<>>}
  <2>1. CASE Ask
    BY <1>2, <2>1 DEF LiveTypeOK, Ask
  <2>2. CASE GetRecentLogs
    BY <1>2, <2>2 DEF LiveTypeOK, GetRecentLogs
  <2>3. CASE PollFails
    BY <1>2, <2>3, EmptyList DEF LiveTypeOK, PollFails
  <2> QED
    BY <2>1, <2>2, <2>3
<1>4. Lists'
  BY <1>1, <1>2, <1>3, EmptyList DEF Lists, Known
<1>5. Screen' /\ Wires' /\ \A e : Sightings(e)' = Sightings(e)
  BY <1>1, SameScreen, SameWires
<1>6. LiveTypeOK'
  BY <1>1, <1>2, <1>3 DEF LiveTypeOK
<1>7. Unseen' /\ Registered' /\ Served' /\ Status'
  BY <1>1, <1>5 DEF LiveInv, Unseen, Registered, Served, Alive, Status, PollsOrListens
<1> QED
  BY <1>4, <1>5, <1>6, <1>7 DEF LiveInv

\* A poll that arrives replaces the screen only while no socket is open.
LEMMA PollArrivesKeeps ==
  ASSUME LiveInv, PollArrives
  PROVE  LiveInv'
<1>1. /\ swr' = [data |-> swr.answer, poll |-> "none", answer |-> <<>>]
      /\ IF hook.status = "fallback" THEN Put(swr.answer) ELSE UNCHANGED <<shown, polled>>
      /\ UNCHANGED <<hook, sock, wire, server, conns, log, count, todo, since>>
  BY DEF PollArrives, backend
<1>2. LiveTypeOK /\ Lists
  BY DEF LiveInv
<1>3. Lists' /\ swr' \in [data : Seq(Event) \cup {Nil}, poll : {"none", "asked", "answered"},
                           answer : Seq(Event)]
  BY <1>1, <1>2, EmptyList DEF Lists, LiveTypeOK, Known
<1>4. /\ Screen' /\ shown' \in Seq(Event) /\ polled' \subseteq Event
      /\ \A t \in Socket, e \in Event :
           t = hook.ref /\ (t \in todo[e] \/ e \in ToSet(wire[t])) =>
             Sightings(e)' <= IF e \in polled' THEN 1 ELSE 0
  <2>1. CASE hook.status = "fallback"
    BY <1>1, <1>2, <2>1, PutKeeps DEF Lists
  <2>2. CASE hook.status # "fallback"
    BY <1>1, <2>2, SameScreen DEF LiveInv, Unseen
  <2> QED
    BY <2>1, <2>2
<1>5. Unseen'
  BY <1>1, <1>4 DEF Unseen
<1>6. LiveTypeOK'
  BY <1>1, <1>2, <1>3, <1>4 DEF LiveTypeOK
<1>7. Served'
  <2>1. hook.status = "fallback" => \A s \in Socket : s = hook.ref => sock[s] # "open"
    BY DEF LiveInv, Status
  <2> QED
    BY <1>1, <2>1 DEF LiveInv, Served, Alive
<1>8. Wires' /\ Registered' /\ Status'
  BY <1>1, SameWires DEF LiveInv, Registered, Status, PollsOrListens
<1> QED
  BY <1>3, <1>4, <1>5, <1>6, <1>7, <1>8 DEF LiveInv

-----------------------------------------------------------------------------
(* The server                                                              *)

\* An endpoint that is not yet serving, or no longer.
LEMMA EndpointKeeps ==
  ASSUME LiveInv, NEW s \in Socket,
         \/ ResolveUser(s) \/ AcceptFails(s) \/ Disconnect(s)
  PROVE  LiveInv'
<1>1. /\ UNCHANGED <<hook, shown, polled, swr, sock, wire, log, count, todo, since>>
      /\ server' = [server EXCEPT ![s] = "none"] \/ server' = [server EXCEPT ![s] = "accepted"]
      /\ conns' = conns \/ conns' = conns \ {s}
  BY DEF ResolveUser, AcceptFails, Disconnect, browser
<1>2. LiveTypeOK
  BY DEF LiveInv
<1>3. /\ server'[s] # "serving" /\ \A t \in Socket \ {s} : server'[t] = server[t]
      /\ server' \in [Socket -> {"none", "checking", "accepted", "serving"}]
  <2>1. server \in [Socket -> {"none", "checking", "accepted", "serving"}]
    BY <1>2 DEF LiveTypeOK
  <2>2. CASE server' = [server EXCEPT ![s] = "none"]
    BY <2>1, <2>2
  <2>3. CASE server' = [server EXCEPT ![s] = "accepted"]
    BY <2>1, <2>3
  <2> QED
    BY <1>1, <2>2, <2>3
<1>4. Screen' /\ Lists' /\ Wires' /\ \A e : Sightings(e)' = Sightings(e)
  BY <1>1, SameScreen, SameLists, SameWires
<1>5. LiveTypeOK'
  BY <1>1, <1>2, <1>3 DEF LiveTypeOK
<1>6. Registered' /\ Served'
  BY <1>1, <1>3 DEF LiveInv, Registered, Served, Alive
<1>7. Unseen' /\ Status'
  BY <1>1, <1>4 DEF LiveInv, Unseen, Status, PollsOrListens
<1> QED
  BY <1>4, <1>5, <1>6, <1>7 DEF LiveInv

LEMMA ConnectKeeps ==
  ASSUME LiveInv, NEW s \in Socket, Connect(s)
  PROVE  LiveInv'
<1>1. /\ UNCHANGED <<hook, shown, polled, swr, sock, wire, log, count, todo>>
      /\ server' = [server EXCEPT ![s] = "serving"] /\ conns' = conns \cup {s}
      /\ since' = [since EXCEPT ![s] = count]
  BY DEF Connect, browser
<1>2. LiveTypeOK
  BY DEF LiveInv
<1>3. /\ \A t \in Socket \ {s} : server'[t] = server[t] /\ since'[t] = since[t]
      /\ since'[s] = count /\ count \in Nat
      /\ server' \in [Socket -> {"none", "checking", "accepted", "serving"}]
      /\ since' \in [Socket -> 0 .. MaxEvents]
  BY <1>1, <1>2, EventAssumption DEF LiveTypeOK
<1>4. Screen' /\ Lists' /\ Wires' /\ \A e : Sightings(e)' = Sightings(e)
  BY <1>1, SameScreen, SameLists, SameWires
<1>5. LiveTypeOK'
  BY <1>1, <1>2, <1>3 DEF LiveTypeOK
<1>6. Registered' /\ Served'
  BY <1>1, <1>3 DEF LiveInv, Registered, Served, Alive
<1>7. Unseen' /\ Status'
  BY <1>1, <1>4 DEF LiveInv, Unseen, Status, PollsOrListens
<1> QED
  BY <1>4, <1>5, <1>6, <1>7 DEF LiveInv

\* A new event: nobody has seen it, and everybody who is served is to get it.
LEMMA AnnounceKeeps ==
  ASSUME LiveInv, Announce
  PROVE  LiveInv'
<1> DEFINE n == count + 1
           longer == Append(log, n)
<1>1. /\ count < MaxEvents /\ count' = n
      /\ log' = IF Len(longer) > Keep THEN Tail(longer) ELSE longer
      /\ todo' = [todo EXCEPT ![n] = conns]
      /\ UNCHANGED <<hook, shown, polled, swr, sock, wire, server, conns, since>>
  BY DEF Announce, browser
<1>2. LiveTypeOK /\ count \in Nat
  BY EventAssumption DEF LiveInv, LiveTypeOK
<1>3. /\ n \in Event /\ n \notin Known /\ n \in Known' /\ Known \subseteq Known'
      /\ Known' \subseteq Event /\ count' \in 0 .. MaxEvents
      /\ Known' = Known \cup {n}
  BY <1>1, <1>2, EventAssumption DEF Known, Event
<1> HIDE DEF n
<1>4. /\ todo'[n] = conns /\ \A e \in Event \ {n} : todo'[e] = todo[e]
      /\ todo' \in [Event -> SUBSET Socket]
  BY <1>1, <1>2, <1>3 DEF LiveTypeOK
<1>5. \A list \in Seq(Known) : n \notin ToSet(list)
  BY <1>3, ListOf
<1>6. /\ log' \in Seq(Known') /\ log' \in Seq(Event) /\ Distinct(log') /\ Len(log') <= Keep
  <2>1. log \in Seq(Known') /\ Distinct(log) /\ Len(log) \in Nat /\ Len(log) <= Keep
    BY <1>2, <1>3, LongerList DEF LiveInv, Lists, LiveTypeOK
  <2>2. /\ longer \in Seq(Known') /\ Distinct(longer)
        /\ Len(longer) = Len(log) + 1 /\ longer # <<>>
    BY <1>3, <1>5, <2>1, Appended DEF LiveInv, Lists
  <2> HIDE DEF longer
  <2>3. Tail(longer) \in Seq(Known') /\ Distinct(Tail(longer)) /\ Len(Tail(longer)) = Len(log)
    BY <2>1, <2>2, Tailed
  <2>4. log' \in Seq(Known') /\ Distinct(log') /\ Len(log') <= Keep
    BY <1>1, <2>1, <2>2, <2>3, EventAssumption
  <2> QED
    BY <1>3, <2>4, LongerList
<1>7. Lists'
  BY <1>1, <1>3, <1>6, LongerList DEF LiveInv, Lists
<1>8. Wires'
  <2> SUFFICES ASSUME NEW s \in Socket
               PROVE  /\ wire[s] \in Seq(Known') /\ Distinct(wire[s])
                      /\ \A e \in Event : s \in todo'[e] => e \in Known' /\ e \notin ToSet(wire[s])
    BY <1>1 DEF Wires
  <2>1. wire[s] \in Seq(Known) /\ Distinct(wire[s])
    BY DEF LiveInv, Wires
  <2>2. wire[s] \in Seq(Known') /\ n \notin ToSet(wire[s])
    BY <1>3, <1>5, <2>1, LongerList
  <2> QED
    BY <1>3, <1>4, <2>1, <2>2 DEF LiveInv, Wires
<1>9. LiveTypeOK'
  BY <1>1, <1>2, <1>3, <1>4, <1>6 DEF LiveTypeOK
<1>10. Sightings(n) = 0 /\ n \notin polled /\ \A e : Sightings(e)' = Sightings(e)
  <2>1. shown \in Seq(Event) /\ shown \in Seq(Known) /\ polled \subseteq Known
    BY <1>2 DEF LiveInv, LiveTypeOK, Screen
  <2>2. n \notin ToSet(shown)
    BY <1>5, <2>1
  <2>3. n \notin polled
    BY <1>3, <2>1
  <2>4. \A e : Sightings(e)' = Sightings(e)
    BY <1>1 DEF Sightings
  <2>5. Sightings(n) = 0
    BY <1>3, <2>1, <2>2, SightingsAreCounted
  <2> QED
    BY <2>3, <2>4, <2>5
<1>11. Screen'
  <2>1. AtMostOnce'
    <3> SUFFICES ASSUME NEW e \in Known'
                 PROVE  Sightings(e) <= IF e \in polled THEN 2 ELSE 1
      BY <1>1, <1>10 DEF AtMostOnce, Known
    <3>1. e = n \/ e \in Known
      BY <1>3
    <3> QED
      BY <1>10, <3>1 DEF LiveInv, Screen, AtMostOnce, Known
  <2> QED
    BY <1>1, <1>3, <2>1, LongerList DEF LiveInv, Screen
<1>12. Unseen'
  <2> SUFFICES ASSUME NEW s \in Socket, NEW e \in Event, s = hook.ref,
                      s \in todo'[e] \/ e \in ToSet(wire[s])
               PROVE  Sightings(e) <= IF e \in polled THEN 1 ELSE 0
    BY <1>1, <1>10 DEF Unseen
  <2>1. CASE e = n
    BY <1>10, <2>1
  <2>2. CASE e # n
    BY <1>4, <2>2 DEF LiveInv, Unseen
  <2> QED
    BY <2>1, <2>2
<1>13. Served'
  <2> SUFFICES ASSUME NEW s \in Socket, s = hook.ref, Alive(s), server[s] = "serving",
                      NEW e \in since[s] + 1 .. n
               PROVE  \/ s \in todo'[e] \/ e \in ToSet(wire[s])
                      \/ sock[s] = "open" /\ e \in ToSet(shown)
    BY <1>1 DEF Served, Alive
  <2>1. CASE e = n
    BY <1>4, <2>1 DEF LiveInv, Registered
  <2>2. CASE e # n
    <3>1. since[s] \in 0 .. MaxEvents
      BY <1>2 DEF LiveTypeOK
    <3>2. e \in since[s] + 1 .. count /\ e \in Event
      BY <1>1, <1>2, <2>2, <3>1, EventAssumption DEF n, Event
    <3> QED
      BY <1>4, <2>2, <3>2 DEF LiveInv, Served
  <2> QED
    BY <2>1, <2>2
<1>14. Registered' /\ Status'
  BY <1>1 DEF LiveInv, Registered, Status, PollsOrListens
<1> QED
  BY <1>7, <1>8, <1>9, <1>11, <1>12, <1>13, <1>14 DEF LiveInv

LEMMA SendKeeps ==
  ASSUME LiveInv, NEW s \in Socket, NEW e \in Event, Send(e, s)
  PROVE  LiveInv'
<1>1. /\ s \in todo[e] /\ todo' = [todo EXCEPT ![e] = @ \ {s}]
      /\ wire' = IF Alive(s) THEN [wire EXCEPT ![s] = Append(@, e)] ELSE wire
      /\ UNCHANGED <<hook, shown, polled, swr, sock, server, conns, log, count, since>>
  BY DEF Send, browser
<1>2. LiveTypeOK /\ Known' = Known
  BY <1>1 DEF LiveInv, Known
<1>3. /\ todo'[e] = todo[e] \ {s} /\ \A f \in Event \ {e} : todo'[f] = todo[f]
      /\ todo' \in [Event -> SUBSET Socket]
  BY <1>1, <1>2 DEF LiveTypeOK
<1>4. /\ wire[s] \in Seq(Known) /\ wire[s] \in Seq(Event) /\ Distinct(wire[s])
      /\ e \in Known /\ e \notin ToSet(wire[s])
  BY <1>1, <1>2 DEF LiveInv, Wires, LiveTypeOK
<1>5. /\ wire'[s] = IF Alive(s) THEN Append(wire[s], e) ELSE wire[s]
      /\ \A t \in Socket \ {s} : wire'[t] = wire[t]
      /\ wire' \in [Socket -> Seq(Event)]
  BY <1>1, <1>2, <1>4, Appended DEF LiveTypeOK
<1>6. /\ wire'[s] \in Seq(Known) /\ Distinct(wire'[s])
      /\ ToSet(wire'[s]) = IF Alive(s) THEN ToSet(wire[s]) \cup {e} ELSE ToSet(wire[s])
  <2>1. /\ Append(wire[s], e) \in Seq(Known) /\ Distinct(Append(wire[s], e))
        /\ ToSet(Append(wire[s], e)) = ToSet(wire[s]) \cup {e}
    BY <1>4, Appended
  <2> QED
    BY <1>4, <1>5, <2>1
<1>7. Wires'
  BY <1>2, <1>3, <1>5, <1>6 DEF LiveInv, Wires
<1>8. Screen' /\ Lists' /\ \A f : Sightings(f)' = Sightings(f)
  BY <1>1, SameScreen, SameLists
<1>9. LiveTypeOK'
  BY <1>1, <1>2, <1>3, <1>5 DEF LiveTypeOK
<1>10. Unseen'
  BY <1>1, <1>3, <1>5, <1>6, <1>8 DEF LiveInv, Unseen
<1>11. Served'
  <2> SUFFICES ASSUME NEW t \in Socket, t = hook.ref, Alive(t), server[t] = "serving",
                      NEW f \in since[t] + 1 .. count
               PROVE  \/ t \in todo'[f] \/ f \in ToSet(wire'[t])
                      \/ sock[t] = "open" /\ f \in ToSet(shown)
    BY <1>1 DEF Served, Alive
  <2>1. f \in Event
    BY <1>2, EventAssumption DEF LiveTypeOK, Event
  <2>2. \/ t \in todo[f] \/ f \in ToSet(wire[t])
        \/ sock[t] = "open" /\ f \in ToSet(shown)
    BY DEF LiveInv, Served
  <2> QED
    BY <1>3, <1>5, <1>6, <2>1, <2>2
<1>12. Registered' /\ Status'
  BY <1>1 DEF LiveInv, Registered, Status, PollsOrListens
<1> QED
  BY <1>7, <1>8, <1>9, <1>10, <1>11, <1>12 DEF LiveInv

LEMMA RestartKeeps ==
  ASSUME LiveInv, Restart
  PROVE  LiveInv'
<1>1. /\ server' = [s \in Socket |-> "none"] /\ conns' = {} /\ log' = <<>>
      /\ todo' = [e \in Event |-> {}]
      /\ sock' = [s \in Socket |-> IF sock[s] = "open" THEN "closing" ELSE sock[s]]
      /\ UNCHANGED <<hook, shown, polled, swr, wire, count, since>>
  BY DEF Restart
<1>2. LiveTypeOK /\ Known' = Known
  BY <1>1 DEF LiveInv, Known
<1>3. Screen' /\ \A e : Sightings(e)' = Sightings(e)
  BY <1>1, SameScreen
<1>4. Lists' /\ Wires'
  BY <1>1, <1>2, EmptyList DEF LiveInv, Lists, Wires
<1>5. LiveTypeOK'
  BY <1>1, <1>2, EmptyList, EventAssumption DEF LiveTypeOK
<1>6. Unseen' /\ Registered' /\ Served'
  BY <1>1, <1>3 DEF LiveInv, Unseen, Registered, Served
<1>7. Status'
  BY <1>1, <1>2 DEF LiveInv, Status, PollsOrListens, LiveTypeOK
<1> QED
  BY <1>3, <1>4, <1>5, <1>6, <1>7 DEF LiveInv

LEMMA LiveStep ==
  ASSUME LiveInv, [LiveNext]_live
  PROVE  LiveInv'
<1>1. CASE Tab
  BY <1>1, SignOutKeeps, PollKeeps, PollArrivesKeeps, SignInKeeps, OpenedKeeps,
     ReceiveKeeps, ClosedKeeps, DropKeeps DEF Tab
<1>2. CASE Backend
  BY <1>2, EndpointKeeps, ConnectKeeps, SendKeeps, AnnounceKeeps, RestartKeeps
     DEF Backend, TestBroadcast, ManualBroadcast
<1>3. ASSUME UNCHANGED live PROVE LiveInv'
  <2>1. /\ UNCHANGED <<hook, shown, polled, swr, sock, wire>>
        /\ UNCHANGED <<server, conns, log, count, todo, since>>
    BY <1>3 DEF live, browser, backend
  <2>2. Screen' /\ Lists' /\ Wires' /\ \A e : Sightings(e)' = Sightings(e)
    BY <2>1, SameScreen, SameLists, SameWires
  <2>3. LiveTypeOK' /\ Registered' /\ Served' /\ Unseen' /\ Status'
    BY <2>1, <2>2
       DEF LiveInv, LiveTypeOK, Registered, Served, Alive, Unseen, Status, PollsOrListens
  <2> QED
    BY <2>2, <2>3 DEF LiveInv
<1> QED
  BY <1>1, <1>2, <1>3 DEF LiveNext

\* Type correctness, and the ways of each event to the tab: what holds of the
\* lists, the wires and the screen while sockets drop, polls come in late and the
\* server restarts.
THEOREM LiveIsSound == LiveSpec => []LiveInv
<1>1. LiveInv /\ [LiveNext]_live => LiveInv'
  BY LiveStep
<1> QED
  BY <1>1, InitLive, PTL DEF LiveSpec

\* Whatever is announced while the tab is served is on its way to the screen or on
\* it, and no event comes to the tab from more than one socket, however broadcasts
\* overlap, tokens change, and polls arrive late.
THEOREM EventsArriveOnce == LiveSpec => []DeliveredOnce
<1>1. LiveInv => DeliveredOnce
  BY DEF LiveInv, Served, Alive, DeliveredOnce, AtLeastOnce, Screen
<1> QED
  BY <1>1, LiveIsSound, PTL

\* The hook never waits for nothing: while it does not poll it has a socket of
\* whose end it will be told.
THEOREM TabNeverIdles == LiveSpec => []PollsOrListens
<1>1. LiveInv => PollsOrListens
  BY DEF LiveInv, Status
<1> QED
  BY <1>1, LiveIsSound, PTL
=============================================================================
