------------------------- MODULE MCRealtimeGateway -------------------------
(***************************************************************************)
(* RealtimeGateway with two clients that come and go, and three choices of *)
(* what they share: two names for insights loops, or two for price loops   *)
(* and a notifier, or one of each and two subscriptions to count.          *)
(***************************************************************************)
EXTENDS RealtimeGateway

CONSTANTS p1, p2, i1, n1

VARIABLE crew

\* The coroutines of each choice; the others stay as they are.
Crew == [insights |-> {p1} \cup InsightsTask,
         prices   |-> {p1, p2, n1},
         counts   |-> {p1, i1}]

MCInit == Init /\ crew \in DOMAIN Crew

MCNext ==
  /\ Next
  /\ UNCHANGED crew
  /\ \A t \in Task \ Crew[crew] : task'[t] = task[t]
  /\ crew # "counts" => subscribers' <= 1

Insights(A) == crew = "insights" /\ A /\ UNCHANGED crew

\* The fairness of FairSpec.
MCSpec ==
  /\ MCInit /\ [][MCNext]_<<crew, vars>>
  /\ \A c \in Client :
       WF_<<crew, vars>>(Insights(Greet(c) \/ Depart(c) \/ PriceStopped(c)
                                    \/ InsightsStopped(c)))
  /\ WF_<<crew, vars>>(Insights(Wake(p1)))
  /\ \A t \in {p1} \cup InsightsTask :
       WF_<<crew, vars>>(Insights(Prune(t) \/ Stop(t) \/ \E c \in Client : SendTo(t, c)))

\* The liveness properties, where the fairness is assumed.
MCDeadIsUnregistered == crew = "insights" => DeadIsUnregistered
MCLeavingEnds == crew = "insights" => LeavingEnds
=============================================================================
