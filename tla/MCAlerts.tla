------------------------------ MODULE MCAlerts ------------------------------
(***************************************************************************)
(* Alerts and, beside it, the channel that carries them, on small          *)
(* instances.  The evaluation and the scheduler share nothing but the      *)
(* rows, which the scheduler only reads, and the channel shares nothing    *)
(* with either: a behaviour is of one of the three.  The second alert is a *)
(* plain one or the twin of the first, and only the first is edited.       *)
(***************************************************************************)
EXTENDS Alerts, AlertChannel, TLC

CONSTANTS u1, a1, a2

VARIABLE crew   \* "evaluation", "scheduler" or "channel"

Above == [op |-> "leaf", metric |-> "close", cmp |-> "gt"]
Below == [op |-> "leaf", metric |-> "rsi", cmp |-> "lt"]
Cross == [op |-> "leaf", metric |-> "close", cmp |-> "crosses"]

Rules == {Above, [op |-> "and", parts |-> <<Below, Cross>>],
          [op |-> "or", parts |-> <<Above, Cross>>]}

\* A PUT of a condition, and a toggle.
Nothing == [rule |-> None, push |-> None, active |-> None]
Payloads == {[Nothing EXCEPT !.rule = r] : r \in Rules}
              \cup {[Nothing EXCEPT !.active = b] : b \in BOOLEAN}

Data == {[close |-> "high", rsi |-> "high"], [close |-> "low", rsi |-> "low"],
         [close |-> "high", rsi |-> "missing"]}

MCInit == Init /\ ChannelInit /\ crew \in {"evaluation", "scheduler", "channel"}

AlertsNext ==
  /\ Next
  /\ crew = "evaluation" => UNCHANGED sched
  /\ crew = "scheduler" => UNCHANGED pass
  /\ said'[a2] # said[a2] =>
       said'[a2].rule = Twin \/ said'[a2] = NewRow(u1, Above, TRUE, TRUE)
  /\ \A w \in Worker : request'[w].at = "update" => request'[w].alert = a1

MCNext ==
  /\ UNCHANGED crew
  /\ IF crew = "channel" THEN ChannelNext /\ UNCHANGED vars
                         ELSE AlertsNext /\ UNCHANGED channel

MCSpec == MCInit /\ [][MCNext]_<<vars, crew, channel>>
=============================================================================
