------------------------------- MODULE Alerts -------------------------------
(***************************************************************************)
(* The alerts of the users: the rows of table alerts, the endpoints that   *)
(* edit them (routers/alerts.py over services/alerts_service.py), the      *)
(* evaluation of all active alerts against market data                     *)
(* (AlertsService.evaluate_alerts), and the periodic job of the older      *)
(* scheduler (AlertService in services/alert_service.py) over the same     *)
(* rows.                                                                   *)
(*                                                                         *)
(* A handler runs in a thread.  It loads a row, changes its copy, and      *)
(* commits: the UPDATE writes the columns that differ from what was        *)
(* loaded, whatever the row holds by then.  An evaluation does the same    *)
(* with all active rows at once and sends push messages in between, so     *)
(* that edits fall between its SELECT and its UPDATEs.                     *)
(***************************************************************************)
EXTENDS Integers, Sequences, FiniteSets

CONSTANTS
  None,     \* no row, no value
  Alert,    \* ids of alerts, each used once
  User,     \* the users
  Worker,   \* handler threads: requests under way at a time
  Metric,   \* what a condition may refer to: close, rsi, vwap, ...
  Market,   \* the market data of the calls: Metric -> low, high, missing
  Rule,     \* the conditions that clients submit
  Edit      \* the changes they send, see Edits

VARIABLES
  rows,     \* Alert -> the row of the alert, or None
  request,  \* Worker -> the request it is serving
  pass,     \* the evaluation under way
  sched,    \* the scheduler and its job
  said,     \* history: what its owner last wrote into each alert
  gone,     \* history: the alerts that were deleted
  fired,    \* history: the alerts whose present rule was found to hold
  raced,    \* history: rows a pass wrote for another rule than they now have
  silenced, \* history: rows that a pass turned off
  gap       \* history: rows that a pass turned off for want of market data

vars ==
  <<rows, request, pass, sched, said, gone, fired, raced, silenced, gap>>

-----------------------------------------------------------------------------
(* Conditions.                                                             *)

Verdict == {"true", "false", "malformed"}

Negation(v) == CASE v = "true" -> "false" [] v = "false" -> "true" [] OTHER -> v

\* One comparison.  "crosses" is what the schema accepts and the evaluator
\* does not know; a metric that the market data lack is an error as well.
Leaf(r, m) ==
  IF m[r.metric] = "missing" \/ r.cmp \notin {"gt", "lt"} THEN "malformed"
  ELSE IF (m[r.metric] = "high") <=> (r.cmp = "gt") THEN "true" ELSE "false"

\* all() and any() stop at the first part that decides, before the others
\* are looked at, malformed or not.
FirstOther(parts, v, m) ==
  LET others == {i \in DOMAIN parts : Leaf(parts[i], m) # v}
  IN  IF others = {} THEN v
      ELSE Leaf(parts[CHOOSE i \in others : \A j \in others : i <= j], m)

Evaluate(r, m) ==
  CASE r.op = "leaf" -> Leaf(r, m)
    [] r.op = "and"  -> FirstOther(r.parts, "true", m)
    [] r.op = "or"   -> FirstOther(r.parts, "false", m)
    [] r.op = "not"  -> Negation(Leaf(r.parts[1], m))
    [] OTHER         -> "malformed"

\* What the create endpoint stores a second time for a legacy condition: an
\* object of three keys, which is not a condition of the evaluator.
Twin == [op |-> "legacy"]

-----------------------------------------------------------------------------
(* Rows and requests.                                                      *)

Row == [owner : User, rule : Rule \cup {Twin}, push : BOOLEAN,
        active : BOOLEAN, pending : BOOLEAN]

NewRow(u, r, p, on) ==
  [owner |-> u, rule |-> r, push |-> p, active |-> on, pending |-> TRUE]

\* What a change does to a row that is read as old, written as new, and is
\* cur by the time of the UPDATE.
Merge(cur, old, new) ==
  [f \in DOMAIN cur |-> IF new[f] # old[f] THEN new[f] ELSE cur[f]]

\* The fields a PUT or a toggle may carry, None where the payload has none.
Edits == [rule : Rule \cup {None}, push : BOOLEAN \cup {None},
          active : BOOLEAN \cup {None}]

\* Deliberately wrong: a new rule inherits that the old one was delivered.
EditedSettled(row, e) ==
  [row EXCEPT !.rule    = IF e.rule = None THEN @ ELSE e.rule,
              !.push    = IF e.push = None THEN @ ELSE e.push,
              !.active  = IF e.active = None THEN @ ELSE e.active]

Edited(row, e) ==
  [owner   |-> row.owner,
   rule    |-> IF e.rule = None THEN row.rule ELSE e.rule,
   push    |-> IF e.push = None THEN row.push ELSE e.push,
   active  |-> IF e.active = None THEN row.active ELSE e.active,
   pending |-> row.pending \/ e.rule # None]

ASSUME NoneAssumption == None \notin Row
ASSUME EditAssumption == Edit \subseteq Edits
ASSUME MarketAssumption == Market \subseteq [Metric -> {"low", "high", "missing"}]

Idle == [at |-> "idle"]
Quiet == [at |-> "idle"]
NoRows == [a \in Alert |-> None]

Init ==
  /\ rows = NoRows
  /\ request = [w \in Worker |-> Idle]
  /\ pass = Quiet
  /\ sched = [at |-> "off", batch |-> NoRows, todo |-> {}, due |-> {},
               price |-> [a \in Alert |-> "missing"]]
  /\ said = NoRows
  /\ gone = {} /\ fired = {} /\ raced = {} /\ silenced = {} /\ gap = {}

Fresh(a) == rows[a] = None /\ said[a] = None

\* The row of an alert, to its owner only; to others it is not found.
Finds(u, a) == rows[a] # None /\ rows[a].owner = u

Insert(a, row) ==
  /\ rows' = [rows EXCEPT ![a] = row]
  /\ said' = [said EXCEPT ![a] = row]

history == <<gone, fired, raced, silenced, gap>>

\* POST /alerts.  For a condition in the old notation, an operator with a
\* value, the endpoint goes on to store the twin.
Create(w, u, a) ==
  /\ request[w] = Idle /\ Fresh(a)
  /\ \E r \in Rule, p, on, legacy \in BOOLEAN :
       /\ legacy => r.op = "leaf"
       /\ Insert(a, NewRow(u, r, p, on))
       /\ request' = [request EXCEPT ![w] =
            IF legacy THEN [at |-> "twin", user |-> u, active |-> on] ELSE Idle]
  /\ UNCHANGED <<pass, sched, history>>

CreateTwin(w, a) ==
  /\ request[w].at = "twin" /\ Fresh(a)
  /\ Insert(a, NewRow(request[w].user, Twin, TRUE, request[w].active))
  /\ request' = [request EXCEPT ![w] = Idle]
  /\ UNCHANGED <<pass, sched, history>>

\* Any failure of the second insert is logged and forgotten.
SkipTwin(w) ==
  /\ request[w].at = "twin"
  /\ request' = [request EXCEPT ![w] = Idle]
  /\ UNCHANGED <<rows, pass, sched, said, history>>

\* PUT, and PATCH .../toggle with e.active alone: the SELECT.
LoadForUpdate(w, u, a, e) ==
  /\ request[w] = Idle /\ Finds(u, a)
  /\ request' = [request EXCEPT ![w] =
       [at |-> "update", alert |-> a, old |-> rows[a], new |-> Edited(rows[a], e)]]
  /\ UNCHANGED <<rows, pass, sched, said, history>>

\* The UPDATE.  A new rule starts a new life of the alert.
CommitUpdate(w) ==
  LET r == request[w]
      a == r.alert
      row == Merge(rows[a], r.old, r.new)
  IN  /\ r.at = "update" /\ rows[a] # None
      /\ rows' = [rows EXCEPT ![a] = row]
      /\ said' = [said EXCEPT ![a] =
           [Merge(@, r.old, r.new) EXCEPT !.pending = row.pending]]
      /\ silenced' = IF r.new.active # r.old.active THEN silenced \ {a} ELSE silenced
      /\ IF r.new.rule # r.old.rule
         THEN /\ fired' = fired \ {a}
              /\ raced' = IF a \in silenced' \/ (r.old.pending /\ ~row.pending)
                          THEN raced \cup {a} ELSE raced \ {a}
         ELSE UNCHANGED <<fired, raced>>
      /\ request' = [request EXCEPT ![w] = Idle]
      /\ UNCHANGED <<pass, sched, gone, gap>>

\* The row was deleted since: the UPDATE matches none and the request fails.
LoseUpdate(w) ==
  /\ request[w].at = "update" /\ rows[request[w].alert] = None
  /\ request' = [request EXCEPT ![w] = Idle]
  /\ UNCHANGED <<rows, pass, sched, said, history>>

\* DELETE of one alert, and of all alerts of a user when there are several.
Remove(A) ==
  /\ rows' = [a \in Alert |-> IF a \in A THEN None ELSE rows[a]]
  /\ gone' = gone \cup A
  /\ UNCHANGED <<request, pass, sched, said, fired, raced, silenced, gap>>

Delete(u, a) == Finds(u, a) /\ Remove({a})

DeleteAll(u) ==
  LET own == {a \in Alert : Finds(u, a)}
  IN  Cardinality(own) > 1 /\ Remove(own)

-----------------------------------------------------------------------------
(* AlertsService.evaluate_alerts                                           *)

\* SELECT ... WHERE active.  The market data come with the call.
Select(m) ==
  LET batch == [a \in Alert |-> IF rows[a] # None /\ rows[a].active
                                THEN rows[a] ELSE None]
  IN  /\ pass = Quiet
      /\ pass' = [at |-> "running", market |-> m, old |-> batch, new |-> batch,
                  todo |-> {a \in Alert : batch[a] # None}, met |-> {}]
      /\ UNCHANGED <<rows, request, sched, said, history>>

\* Deliberately wrong: an alert is turned off once its condition holds.
JudgedOnce(a, v, delivered) ==
  [pass.new[a] EXCEPT
     !.active  = @ /\ v = "false",
     !.pending = IF v = "true" THEN pass.old[a].push /\ delivered ELSE @]

Judged(a, v, delivered) ==
  [pass.new[a] EXCEPT
     !.active  = @ /\ v # "malformed",
     !.pending = IF v = "true" THEN pass.old[a].push /\ delivered ELSE @]

\* One alert of the pass: a malformed condition turns it off; one that holds
\* is pushed to the subscriptions of its owner, if they exist and that is its
\* channel, and pending keeps whether any message went out.
EvaluateOne(a, delivered) ==
  LET v == Evaluate(pass.old[a].rule, pass.market)
  IN  /\ pass.at = "running" /\ a \in pass.todo
      /\ delivered => v = "true" /\ pass.old[a].push
      /\ pass' = [pass EXCEPT !.todo = @ \ {a}, !.new[a] = Judged(a, v, delivered),
                              !.met = IF v = "true" THEN @ \cup {a} ELSE @]
      /\ UNCHANGED <<rows, request, sched, said, history>>

Touched == {a \in Alert : pass.new[a] # pass.old[a]}

\* Deliberately wrong: the UPDATE writes all columns.
WrittenWhole(a) == IF a \in Touched THEN pass.new[a] ELSE rows[a]

Written(a) ==
  IF a \in Touched THEN Merge(rows[a], pass.old[a], pass.new[a]) ELSE rows[a]

\* The one commit at the end: an UPDATE for each row the pass has changed.
CommitPass ==
  LET off == {a \in Touched : pass.old[a].active /\ ~pass.new[a].active}
      replaced == {a \in Touched : rows[a] # None /\ rows[a].rule # pass.old[a].rule}
  IN  /\ pass.at = "running" /\ pass.todo = {}
      /\ \A a \in Touched : rows[a] # None
      /\ rows' = [a \in Alert |-> Written(a)]
      /\ fired' = fired \cup {a \in pass.met : rows[a] # None /\ rows[a].rule = pass.old[a].rule}
      /\ raced' = raced \cup replaced
      /\ silenced' = silenced \cup off
      /\ gap' = (gap \ off) \cup
           {a \in off : \E k \in Metric : pass.market[k] = "missing"}
      /\ pass' = Quiet
      /\ UNCHANGED <<request, sched, said, gone>>

\* An exception other than ValueError, from a push or from an UPDATE of a row
\* that is gone, ends the pass: nothing is recorded of what was sent.
AbortPass ==
  /\ pass.at = "running"
  /\ \/ \E a \in pass.todo : Evaluate(pass.old[a].rule, pass.market) = "true"
     \/ pass.todo = {} /\ \E a \in Touched : rows[a] = None
  /\ pass' = Quiet
  /\ UNCHANGED <<rows, request, sched, said, history>>

-----------------------------------------------------------------------------
(* AlertService: APScheduler runs evaluate_alerts once a minute.           *)

StartScheduler ==
  /\ sched.at = "off"
  /\ sched' = [sched EXCEPT !.at = "idle"]
  /\ UNCHANGED <<rows, request, pass, said, history>>

\* The job is removed; one that is running runs on.
StopScheduler ==
  /\ sched.at = "idle"
  /\ sched' = [sched EXCEPT !.at = "off"]
  /\ UNCHANGED <<rows, request, pass, said, history>>

\* Detached copies of the active alerts.
Fetch ==
  LET batch == [a \in Alert |-> IF rows[a] # None /\ rows[a].active
                                THEN rows[a] ELSE None]
  IN  /\ sched.at = "idle" /\ batch # NoRows
      /\ sched' = [sched EXCEPT !.at = "resolving", !.batch = batch, !.due = {},
                                !.todo = {a \in Alert : batch[a] # None}]
      /\ UNCHANGED <<rows, request, pass, said, history>>

\* The condition of a row is an object and is compared with the operators of
\* the old notation; only one of those is met or missed by the price.
ShouldTrigger(row, close) ==
  CASE row.rule.op = ">" -> close = "high"
    [] row.rule.op = "<" -> close = "low"
    [] OTHER             -> FALSE

\* The price of one alert's asset, if a source has it, and its condition.
Resolve(a, close) ==
  /\ sched.at = "resolving" /\ a \in sched.todo
  /\ sched' = [sched EXCEPT !.todo = @ \ {a}, !.price[a] = close,
       !.due = IF close # "missing" /\ ShouldTrigger(sched.batch[a], close)
               THEN @ \cup {a} ELSE @]
  /\ UNCHANGED <<rows, request, pass, said, history>>

\* The alerts that are due have been notified and the job ends.
EndJob ==
  /\ sched.at = "resolving" /\ sched.todo = {}
  /\ sched' = [sched EXCEPT !.at = "idle", !.batch = NoRows, !.due = {},
                            !.price = [a \in Alert |-> "missing"]]
  /\ UNCHANGED <<rows, request, pass, said, history>>

-----------------------------------------------------------------------------
Serve ==
  \/ \E w \in Worker, u \in User, a \in Alert :
       Create(w, u, a) \/ \E e \in Edit : LoadForUpdate(w, u, a, e)
  \/ \E w \in Worker : CommitUpdate(w) \/ LoseUpdate(w) \/ SkipTwin(w)
  \/ \E w \in Worker, a \in Alert : CreateTwin(w, a)
  \/ \E u \in User : DeleteAll(u) \/ \E a \in Alert : Delete(u, a)

Evaluation ==
  \/ CommitPass \/ AbortPass \/ \E m \in Market : Select(m)
  \/ \E a \in Alert, delivered \in BOOLEAN : EvaluateOne(a, delivered)

Scheduler ==
  \/ StartScheduler \/ StopScheduler \/ Fetch \/ EndJob
  \/ \E a \in Alert, close \in {"low", "high", "missing"} : Resolve(a, close)

Next == Serve \/ Evaluation \/ Scheduler

Spec == Init /\ [][Next]_vars

-----------------------------------------------------------------------------
(* Type invariant: a row exists for no alert that was never created or was *)
(* deleted, and the histories speak of created alerts.                     *)
TypeOK ==
  /\ rows \in [Alert -> Row \cup {None}]
  /\ said \in [Alert -> Row \cup {None}]
  /\ \A w \in Worker : request[w].at \in {"idle", "twin", "update"}
  /\ pass.at \in {"idle", "running"}
  /\ \A a \in Alert : said[a] = None => rows[a] = None
  /\ fired \cup raced \cup silenced \cup gap \subseteq {a \in Alert : said[a] # None}

(* Evaluations write whole passes of stale copies back, and edits overlap: *)
(* still a row's condition and channel are the last that its owner wrote,  *)
(* no alert that its owner turned off is turned on, and none that its      *)
(* owner deleted comes back.                                               *)
RowSaysWhatOwnerSaid ==
  \A a \in Alert : rows[a] # None =>
    /\ a \notin gone
    /\ rows[a].owner = said[a].owner
    /\ rows[a].rule = said[a].rule
    /\ rows[a].push = said[a].push
    /\ rows[a].active => said[a].active

(* A rule that can be evaluated when the market data are complete.         *)
Sound(r) ==
  \A m \in [Metric -> {"low", "high"}] : Evaluate(r, m) # "malformed"

(* Without its owner an alert goes silent only because its rule cannot be  *)
(* evaluated, or because a metric was missing from the market data of that *)
(* pass, or because its rule was replaced since the pass had read it.      *)
SilencedForCause ==
  \A a \in silenced :
    rows[a] # None /\ Sound(rows[a].rule) => a \in gap \/ a \in raced

(* An alert that no longer waits for delivery has met its condition: the   *)
(* condition it has now, unless it was replaced while a pass was running.  *)
SettledRuleFired ==
  \A a \in Alert :
    rows[a] # None /\ ~rows[a].pending => a \in fired \/ a \in raced

(* "Consulta alertas activas y envía notificaciones cuando procede": when  *)
(* a job of the scheduler ends, the alerts on the price whose condition    *)
(* holds, and that were active all along, are among those notified.        *)
MetAlertsNotify ==
  [][sched.at = "resolving" /\ sched'.at = "idle" =>
       \A a \in Alert :
         sched.batch[a] # None /\ sched.batch[a] = rows[a]
           /\ rows[a].rule.op = "leaf" /\ rows[a].rule.metric = "close"
           /\ Evaluate(rows[a].rule, [k \in Metric |-> sched.price[a]]) = "true"
         => a \in sched.due]_vars
=============================================================================
