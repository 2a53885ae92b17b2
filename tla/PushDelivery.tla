---------------------------- MODULE PushDelivery ----------------------------
(***************************************************************************)
(* Web push: the broadcasts of PushService (services/push_service.py) over *)
(* the table push_subscriptions, next to the handlers that subscribe and   *)
(* unsubscribe (routers/push.py) and the script that deletes stale rows    *)
(* (scripts/prune_stale_push_subs.py, a process of its own).               *)
(*                                                                         *)
(* The dispatcher, POST /notifications/test and the test script broadcast  *)
(* from threads; /send-test does it on the event loop, where subscribing   *)
(* and unsubscribing run too.  Atomic is one statement of a transaction:   *)
(* under READ COMMITTED a row may change between the SELECT and the UPDATE *)
(* of the same transaction.  The UPDATE writes only the columns whose      *)
(* value differs from the one that was read, and raises StaleDataError if  *)
(* the row has gone.                                                       *)
(*                                                                         *)
(* A Row is a slot for a row of the table: a new row may take it once      *)
(* nothing refers to the previous one.  The endpoint is looked up by       *)
(* Subscribe only, which finds its row or inserts one.  Users and their    *)
(* preferences are left out: every broadcast is for all rows.              *)
(***************************************************************************)
EXTENDS Naturals, FiniteSets

CONSTANTS
  Row,                  \* slots for rows of push_subscriptions
  Thread,               \* threads that may broadcast
  EventLoop,            \* the thread of the event loop
  PRUNE_FAIL_THRESHOLD, \* failures that make a row stale after a day
  MaxRetries,           \* attempts >= 3 ends the retries
  Schedule,             \* the number of delays for each kind of failure
  None                  \* no row

ASSUME ThreadAssumption == EventLoop \notin Thread

ASSUME CountAssumption == PRUNE_FAIL_THRESHOLD \in Nat \ {0} /\ MaxRetries \in Nat

Worker == Thread \cup {EventLoop}

\* What can come of a send: 404 or 410, 429, 5xx, anything else.
Failure == {"gone", "busy", "down", "other"}

ASSUME ScheduleAssumption ==
  Schedule \in [Failure -> Nat] /\ Schedule["gone"] = 0 /\ Schedule["other"] = 0

VARIABLES
  table,     \* the row in each slot
  worker,    \* the broadcast each thread is busy with
  loop,      \* the row a subscription is about to update, as it was read
  doomed     \* the rows the script has selected and is about to delete

vars == <<table, worker, loop, doomed>>

\* fails stops at the threshold, beyond which it makes no difference; last is
\* last_fail_at: never, less than PRUNE_GRACE_HOURS ago, longer ago.
RowState ==
  [fails : 0 .. PRUNE_FAIL_THRESHOLD, last : {"never", "recent", "old"}, marked : BOOLEAN]

ASSUME NoneAssumption == None \notin Row \cup RowState

Clean == [fails |-> 0, last |-> "never", marked |-> FALSE]

Stage == {"idle",
          "next",     \* take the next subscription       (line 291)
          "send",     \* webpush                          (line 182)
          "mark",     \* SELECT in _mark_delivery_failure (line 105)
          "marking",  \* its UPDATE                       (line 117)
          "reset",    \* SELECT in _reset_subscription_state (line 125)
          "resetting"}  \* its UPDATE                     (line 131)

\* What a failed send asks for: a mark, and at most so many retries.
Result == [gone : BOOLEAN, delays : Nat]

Good == [gone |-> FALSE, delays |-> 0]

WorkerState ==
  [stage : Stage,
   category : BOOLEAN,             \* whether a category was asked for
   todo : SUBSET Row,              \* not taken yet, and not stale when listed
   row : Row \cup {None},
   attempts : 0 .. MaxRetries,
   result : Result,                \* of the last send
   seen : RowState \cup {None},    \* the row as the SELECT found it
   bereft : BOOLEAN]               \* history: a row was deleted meanwhile

Resting ==
  [stage |-> "idle", category |-> FALSE, todo |-> {}, row |-> None,
   attempts |-> 0, result |-> Good, seen |-> None, bereft |-> FALSE]

Rows == {r \in Row : table[r] # None}

\* should_prune_subscription
ShouldPrune(e) == e.marked \/ (e.fails >= PRUNE_FAIL_THRESHOLD /\ e.last = "old")

NoUpdate == [row |-> None, seen |-> None]

TypeOK ==
  /\ table \in [Row -> RowState \cup {None}]
  /\ worker \in [Worker -> WorkerState]
  /\ loop \in [row : Row \cup {None}, seen : RowState \cup {None}]
  /\ doomed \subseteq Row

Init ==
  /\ table = [r \in Row |-> None]
  /\ worker = [w \in Worker |-> Resting]
  /\ loop = NoUpdate
  /\ doomed = {}

-----------------------------------------------------------------------------
(* Helpers                                                                 *)

\* Nobody holds a copy or the id of what was in slot r.
Unreferenced(r) ==
  /\ r \notin doomed /\ loop.row # r
  /\ \A w \in Worker : worker[w].row # r /\ r \notin worker[w].todo

\* The columns an UPDATE to new writes after the row was read as seen.
Changed(seen, new) == {c \in DOMAIN new : new[c] # seen[c]}

\* Those columns of new, and the others as they are now.
Merge(now, new, columns) == [c \in DOMAIN now |-> IF c \in columns THEN new[c] ELSE now[c]]

\* The rows in R are deleted, behind the back of every broadcast.
Remove(R) ==
  /\ table' = [r \in Row |-> IF r \in R THEN None ELSE table[r]]
  /\ worker' = IF R \cap Rows = {} THEN worker
               ELSE [w \in Worker |-> [worker[w] EXCEPT !.bereft = @ \/ worker[w].stage # "idle"]]

\* Only w moves, to its next state s.
Step(w, s) ==
  /\ worker' = [worker EXCEPT ![w] = s]
  /\ UNCHANGED <<table, loop, doomed>>

\* Done with a subscription; the last one ends the broadcast.
Proceed(w) ==
  IF worker[w].todo = {} THEN Resting
  ELSE [worker[w] EXCEPT !.stage = "next", !.row = None, !.attempts = 0,
                         !.result = Good, !.seen = None]

\* The UPDATE of columns of w's row to those of new; then s.  With no columns
\* there is no UPDATE, and no row to miss; otherwise StaleDataError ends the
\* broadcast if the row has gone.
Update(w, new, columns, s) ==
  LET r == worker[w].row IN
  /\ table' = IF table[r] = None THEN table
              ELSE [table EXCEPT ![r] = Merge(@, new, columns)]
  /\ worker' = [worker EXCEPT ![w] = IF table[r] = None /\ columns # {} THEN Resting ELSE s]
  /\ UNCHANGED <<loop, doomed>>

-----------------------------------------------------------------------------
(* Deliberately wrong variants of the definitions below, for checking that *)
(* the properties notice.  No specification uses them.                     *)

\* One retry too many: <= for <.
RetryOnceMore(w) ==
  LET me == worker[w] IN
  IF me.attempts <= MaxRetries /\ me.attempts <= me.result.delays
  THEN [me EXCEPT !.stage = "send", !.attempts = @ + 1, !.result = Good, !.seen = None]
  ELSE Proceed(w)

\* The attempts are not counted.
RetryUncounted(w) ==
  LET me == worker[w] IN
  IF me.attempts < MaxRetries /\ me.attempts < me.result.delays
  THEN [me EXCEPT !.stage = "send", !.result = Good, !.seen = None]
  ELSE Proceed(w)

\* The exception of a send that failed for good leaves the broadcast.
RetryOrRaise(w) ==
  LET me == worker[w] IN
  IF me.attempts < MaxRetries /\ me.attempts < me.result.delays
  THEN [me EXCEPT !.stage = "send", !.attempts = @ + 1, !.result = Good, !.seen = None]
  ELSE Resting

\* Stale subscriptions are not skipped.
BeginWithStale(w, category) ==
  /\ worker[w].stage = "idle"
  /\ w = EventLoop => category /\ loop = NoUpdate
  /\ Rows # {}
  /\ worker' = [worker EXCEPT ![w] =
                  [Resting EXCEPT !.stage = "next", !.category = category, !.todo = Rows]]
  /\ UNCHANGED <<table, loop, doomed>>

\* last_fail_at is not reset.
ResetKeepingDate(w) ==
  LET new == [Clean EXCEPT !.last = worker[w].seen.last] IN
  /\ worker[w].stage = "resetting"
  /\ Update(w, new, Changed(worker[w].seen, new), Proceed(w))

-----------------------------------------------------------------------------
(* A broadcast                                                             *)

\* After a failure that has been recorded: again, after a delay, or the next.
Retry(w) ==
  LET me == worker[w] IN
  IF me.attempts < MaxRetries /\ me.attempts < me.result.delays
  THEN [me EXCEPT !.stage = "send", !.attempts = @ + 1, !.result = Good, !.seen = None]
  ELSE Proceed(w)

\* The subscriptions are listed.  Staleness is judged on that copy; for a
\* broadcast that is short next to a day it makes no difference when.
Begin(w, category) ==
  LET listed == {r \in Rows : ~ShouldPrune(table[r])} IN
  /\ worker[w].stage = "idle"
  /\ w = EventLoop => category /\ loop = NoUpdate
  /\ listed # {}
  /\ worker' = [worker EXCEPT ![w] =
                  [Resting EXCEPT !.stage = "next", !.category = category, !.todo = listed]]
  /\ UNCHANGED <<table, loop, doomed>>

\* A category makes _is_category_allowed load subscription.user.  For a copy
\* whose session is closed that raises DetachedInstanceError; only /send-test
\* keeps its session open.
Detached(w) == worker[w].category /\ w # EventLoop

Take(w, r) ==
  /\ worker[w].stage = "next"
  /\ r \in worker[w].todo
  /\ Step(w, IF Detached(w) THEN Resting
             ELSE [worker[w] EXCEPT !.stage = "send", !.row = r, !.todo = @ \ {r}])

SendSucceeds(w) ==
  /\ worker[w].stage = "send"
  /\ Step(w, [worker[w] EXCEPT !.stage = "reset", !.attempts = 0])

SendFails(w, why) ==
  /\ worker[w].stage = "send"
  /\ Step(w, [worker[w] EXCEPT !.stage = "mark", !.result = [gone |-> why = "gone", delays |-> Schedule[why]]])

\* session.get; without a row there is nothing to record.
ReadForMark(w) ==
  LET now == table[worker[w].row] IN
  /\ worker[w].stage = "mark"
  /\ Step(w, IF now = None THEN Retry(w)
             ELSE [worker[w] EXCEPT !.stage = "marking", !.seen = now])

\* The count and the date always change.
MarkDeliveryFailure(w) ==
  LET me == worker[w]
      new == [fails |-> IF me.seen.fails < PRUNE_FAIL_THRESHOLD
                        THEN me.seen.fails + 1 ELSE me.seen.fails,
              last |-> "recent",
              marked |-> me.seen.marked \/ me.result.gone]
  IN
  /\ me.stage = "marking"
  /\ Update(w, new, {"fails", "last"} \cup Changed(me.seen, new), Retry(w))

ReadForReset(w) ==
  LET now == table[worker[w].row] IN
  /\ worker[w].stage = "reset"
  /\ Step(w, IF now = None THEN Proceed(w)
             ELSE [worker[w] EXCEPT !.stage = "resetting", !.seen = now])

ResetSubscriptionState(w) ==
  /\ worker[w].stage = "resetting"
  /\ Update(w, Clean, Changed(worker[w].seen, Clean), Proceed(w))

-----------------------------------------------------------------------------
(* The event loop: subscribe and unsubscribe                               *)

LoopIsFree == loop = NoUpdate /\ worker[EventLoop].stage = "idle"

\* No row for the endpoint.
SubscribeNew(r) ==
  /\ LoopIsFree
  /\ table[r] = None
  /\ Unreferenced(r)
  /\ table' = [table EXCEPT ![r] = Clean]
  /\ UNCHANGED <<worker, loop, doomed>>

\* The endpoint has a row, which starts afresh ...
SubscribeFound(r) ==
  /\ LoopIsFree
  /\ table[r] # None
  /\ loop' = [row |-> r, seen |-> table[r]]
  /\ UNCHANGED <<table, worker, doomed>>

\* ... unless it has gone meanwhile: then the handler fails.
SubscribeAgain ==
  LET r == loop.row IN
  /\ r # None
  /\ table' = IF table[r] = None THEN table
              ELSE [table EXCEPT ![r] = Merge(@, Clean, Changed(loop.seen, Clean))]
  /\ loop' = NoUpdate
  /\ UNCHANGED <<worker, doomed>>

Unsubscribe(r) ==
  /\ LoopIsFree
  /\ table[r] # None
  /\ Remove({r})
  /\ UNCHANGED <<loop, doomed>>

-----------------------------------------------------------------------------
(* The script, and time                                                    *)

SelectStale ==
  /\ doomed = {}
  /\ doomed' = {r \in Rows : ShouldPrune(table[r])}
  /\ UNCHANGED <<table, worker, loop>>

DeleteStale ==
  /\ doomed # {}
  /\ Remove(doomed)
  /\ doomed' = {}
  /\ UNCHANGED loop

\* PRUNE_GRACE_HOURS pass without another failure.  Nobody asks for the age
\* of a row that has failed less often than the threshold.
GrowOld(r) ==
  /\ table[r] # None
  /\ table[r].last = "recent" /\ table[r].fails = PRUNE_FAIL_THRESHOLD
  /\ table' = [table EXCEPT ![r].last = "old"]
  /\ UNCHANGED <<worker, loop, doomed>>

Advance(w) ==
  \/ \E r \in Row : Take(w, r)
  \/ SendSucceeds(w)
  \/ \E why \in Failure : SendFails(w, why)
  \/ ReadForMark(w) \/ MarkDeliveryFailure(w)
  \/ ReadForReset(w) \/ ResetSubscriptionState(w)

Next ==
  \/ \E w \in Worker : Advance(w) \/ \E category \in BOOLEAN : Begin(w, category)
  \/ \E r \in Row :
       SubscribeNew(r) \/ SubscribeFound(r) \/ Unsubscribe(r) \/ GrowOld(r)
  \/ SubscribeAgain
  \/ SelectStale \/ DeleteStale

Spec == Init /\ [][Next]_vars

-----------------------------------------------------------------------------
(* Properties                                                              *)

\* Partial updates by several writers do not tear a row apart: the count is
\* zero exactly when there is no date, so that a row that has failed too often
\* does become stale after a day.  (They may leave the mark on a row whose
\* count has been reset.)
CountHasDate ==
  \A r \in Rows : table[r].fails = 0 <=> table[r].last = "never"

\* r is to be pruned, and no broadcast under way has still to do with it.
Quarantined(r) ==
  /\ r \in Rows
  /\ ShouldPrune(table[r])
  /\ \A w \in Worker : worker[w].row # r /\ r \notin worker[w].todo

\* A verdict stands.  Once a row is to be pruned and the broadcasts that had
\* listed it before are over, no broadcast sends to it or clears it: it
\* stays so until it is deleted or the browser subscribes again.
QuarantineLasts ==
  [][\A r \in Row :
       Quarantined(r) => Quarantined(r)' \/ r \notin Rows' \/ SubscribeAgain]_vars

\* The broadcast of w ends although it had not tried every subscription.
CutShort(w) ==
  /\ worker[w].stage # "idle" /\ worker'[w].stage = "idle"
  /\ worker[w].todo # {}

\* One failing endpoint costs nobody else his notification, whatever the push
\* service answers.  Only a row that is deleted during the broadcast (by
\* unsubscribing or by the script) may end it early, through the failure to
\* update that row.
OnlyDeletionCutsShort ==
  [][\A w \in Worker : CutShort(w) => worker[w].bereft \/ Detached(w)]_vars

\* The commands w may still issue: for the subscription it is at, then for those
\* it has to take.
Left(w) ==
  LET me   == worker[w]
      rank == [next |-> 0, resetting |-> 1, reset |-> 2,
               marking |-> 3, mark |-> 4, send |-> 5]
      more == IF me.stage \in {"send", "mark", "marking"} THEN MaxRetries - me.attempts ELSE 0
  IN  IF me.stage = "idle" THEN 0
      ELSE 1 + Cardinality(me.todo) * 3 * (MaxRetries + 2) + 3 * more + rank[me.stage]

Doing(w) == [worker[w] EXCEPT !.bereft = FALSE]

\* Every broadcast comes to its end: each step of it leaves less to do, and no
\* other broadcast, subscription or deletion gives any of it back.
BroadcastsConverge ==
  [][\A w \in Worker :
       worker[w].stage # "idle" /\ Doing(w)' # Doing(w) => Left(w)' < Left(w)]_vars

\* What README.md:89-90 says of the test script (a notification for all stored
\* subscriptions) and push_service.py:353 of broadcast: a category goes the
\* common way, and nothing but a deletion cuts the broadcast short.
CategoryIsRespected ==
  [][\A w \in Worker : worker[w].category /\ CutShort(w) => worker[w].bereft]_vars
=============================================================================
