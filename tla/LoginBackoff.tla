---------------------------- MODULE LoginBackoff ----------------------------
(***************************************************************************)
(* How wrong passwords slow down a login: the part of POST /login          *)
(* (routers/auth.py) that talks to LoginBackoffManager                     *)
(* (core/login_backoff.py), for one e-mail address.                        *)
(*                                                                         *)
(* The manager keeps one entry per address in Redis.  Every change is a    *)
(* GET, a change in memory and a SET, and the coroutine suspends at each   *)
(* command: what is atomic is one command, and the commands of concurrent  *)
(* attempts interleave.                                                    *)
(*                                                                         *)
(* Deadlines are kept as the time that remains, so time passes by counting *)
(* all of them down, the copies in flight included; 0 is a deadline in the *)
(* past.  Threshold is the effective one (the handler lowers it by one if  *)
(* the first window is shorter than a second).  The rate limits, the       *)
(* CAPTCHA, the second factor and a failing database only end an attempt   *)
(* early (GiveUp).  Redis is assumed to answer.                            *)
(***************************************************************************)
EXTENDS Naturals, Sequences, FiniteSets, Combinatorics

CONSTANTS
  Attempt,         \* coroutines, each serving one login at a time
  Threshold,       \* LOGIN_BACKOFF_START_AFTER, wrong passwords before a lock
  Windows,         \* BACKOFF_WINDOWS
  SoftThreshold,   \* LOGIN_SOFT_LOCK_THRESHOLD, 0 for no soft lock
  Cooldown,        \* LOGIN_SOFT_LOCK_COOLDOWN
  None             \* no entry, no deadline

ASSUME AttemptAssumption == IsFiniteSet(Attempt)

ASSUME ThresholdAssumption == Threshold \in Nat \ {0} /\ SoftThreshold \in Nat

ASSUME WindowAssumption ==
  /\ Windows \in Seq(Nat \ {0}) /\ Windows # <<>>
  /\ \A i, j \in DOMAIN Windows : i <= j => Windows[i] <= Windows[j]
  /\ Cooldown \in Nat

ASSUME NoneAssumption == None \notin Nat

VARIABLES
  entry,      \* the value in Redis
  attempt,    \* the state of each coroutine
  overtaken,  \* history: attempts during which the entry was changed by others
  guesses     \* history: wrong passwords since the last lock or erasure

vars == <<entry, attempt, overtaken, guesses>>

\* The next command of an attempt, or what it does between two.
Stage == {"idle",
          "cooldown",  \* GET in cooldown_remaining_seconds
          "count",     \* GET in failure_count
          "wait",      \* GET in required_wait_seconds
          "expired",   \* DELETE of an entry whose lock has lapsed
          "password",  \* authenticate_user
          "failure",   \* GET in register_failure
          "recount",   \* GET in failure_count, for the soft lock
          "soft",      \* GET in activate_cooldown
          "after",     \* GET in required_wait_seconds, for the answer
          "success",   \* DELETE after a login
          "set"}       \* SET of a changed copy, then go on with "next"

Timer == Nat \cup {None}

\* More failures than this make no difference.
Enough == Threshold + Len(Windows) + SoftThreshold

Entry == [failures : Nat, locked : Timer, cooldown : Timer]

ASSUME NoEntryAssumption == None \notin Entry

AttemptState ==
  [stage : Stage,
   count : Nat,                  \* failure_count
   copy : Entry \cup {None},     \* the entry a SET is going to write
   next : Stage,                 \* what follows the SET
   locks : BOOLEAN]              \* backoff_seconds > 0: the failure set a lock

Start ==
  [stage |-> "idle", count |-> 0, copy |-> None, next |-> "idle", locks |-> FALSE]

Blank == [failures |-> 0, locked |-> None, cooldown |-> None]

\* _load
Loaded == IF entry = None THEN Blank ELSE entry

IsRunning(timer) == timer # None /\ timer > 0

Locked == entry # None /\ IsRunning(entry.locked)

Cooling == entry # None /\ IsRunning(entry.cooldown)

TypeOK ==
  /\ entry \in Entry \cup {None}
  /\ attempt \in [Attempt -> AttemptState]
  /\ overtaken \subseteq Attempt
  /\ guesses \in Nat

Init ==
  /\ entry = None
  /\ attempt = [a \in Attempt |-> Start]
  /\ overtaken = {}
  /\ guesses = 0

-----------------------------------------------------------------------------
(* Helpers                                                                 *)

\* a has read the entry and goes on with stage s.
Read(a, s) ==
  /\ attempt' = [attempt EXCEPT ![a].stage = s]
  /\ UNCHANGED <<entry, overtaken, guesses>>

\* a has read the entry, writes e next and then goes on with stage s.
ReadThenSet(a, e, s) ==
  /\ attempt' = [attempt EXCEPT ![a].stage = "set", ![a].copy = e, ![a].next = s]
  /\ UNCHANGED <<entry, overtaken, guesses>>

\* a answers.
Finish(a) ==
  /\ attempt' = [attempt EXCEPT ![a] = Start]
  /\ UNCHANGED <<entry, overtaken, guesses>>

\* a's command gives the entry the value e, behind everybody else's back.
Overwrite(a, e) ==
  /\ entry' = e
  /\ overtaken' = overtaken \cup (Attempt \ {a})

\* The window for the nth failure at or beyond the threshold.
Window(n) ==
  LET i == n - Threshold + 1 IN
  Windows[IF i <= Len(Windows) THEN i ELSE Len(Windows)]

-----------------------------------------------------------------------------
(* Deliberately wrong variants of the definitions below, for checking that *)
(* the properties notice.  No specification uses them.                     *)

\* The lock comes one failure too late: > for >=.
FailureOffByOne(a) ==
  LET n == Loaded.failures + 1
      locks == n > Threshold
      e == [Loaded EXCEPT !.failures = n, !.locked = IF locks THEN Window(n) ELSE None]
  IN
  /\ attempt[a].stage = "failure"
  /\ attempt' = [attempt EXCEPT ![a].stage = "set", ![a].copy = e,
                   ![a].next = IF SoftThreshold > 0 THEN "recount"
                               ELSE IF locks THEN "after" ELSE "idle",
                   ![a].locks = locks]
  /\ UNCHANGED <<entry, overtaken, guesses>>

\* An attempt refused for the lock counts as a failure too.
CheckLockCounting(a) ==
  /\ attempt[a].stage = "wait"
  /\ Read(a, IF IsRunning(Loaded.locked) THEN "failure"
             ELSE IF attempt[a].count >= Threshold THEN "expired" ELSE "password")

\* Whoever finds the threshold reached clears without asking for the lock.
ClearBeforeWait(a) ==
  /\ attempt[a].stage = "count"
  /\ Read(a, IF Loaded.failures >= Threshold THEN "expired" ELSE "wait")

\* The count is kept when the lock has lapsed.
AdmittedUncleared(a) == "password"

-----------------------------------------------------------------------------
(* Before the password                                                     *)

Arrive(a) ==
  /\ attempt[a].stage = "idle"
  /\ attempt' = [attempt EXCEPT ![a].stage = "cooldown"]
  /\ overtaken' = overtaken \ {a}
  /\ UNCHANGED <<entry, guesses>>

\* cooldown_remaining_seconds: 423 while it lasts, and a lapsed one is removed.
CheckCooldown(a) ==
  /\ attempt[a].stage = "cooldown"
  /\ CASE Loaded.cooldown = None   -> Read(a, "count")
       [] IsRunning(Loaded.cooldown) -> Finish(a)
       [] OTHER -> ReadThenSet(a, [Loaded EXCEPT !.cooldown = None], "count")

CountFailures(a) ==
  /\ attempt[a].stage = "count"
  /\ attempt' = [attempt EXCEPT ![a].stage = "wait", ![a].count = Loaded.failures]
  /\ UNCHANGED <<entry, overtaken, guesses>>

\* Where an attempt goes on that need not wait.
Admitted(a) == IF attempt[a].count >= Threshold THEN "expired" ELSE "password"

\* required_wait_seconds: 429 while the lock lasts, and a lapsed one is removed.
CheckLock(a) ==
  /\ attempt[a].stage = "wait"
  /\ CASE IsRunning(Loaded.locked) -> Finish(a)
       [] Loaded.locked = 0 /\ Loaded.failures > 0 ->
            ReadThenSet(a, [Loaded EXCEPT !.locked = None], Admitted(a))
       [] OTHER -> Read(a, Admitted(a))

\* The wait is over: the failures are forgotten.
ClearExpired(a) ==
  /\ attempt[a].stage = "expired"
  /\ Overwrite(a, None)
  /\ attempt' = [attempt EXCEPT ![a].stage = "password", ![a].count = 0]
  /\ guesses' = 0

-----------------------------------------------------------------------------
(* The password and what follows                                           *)

WrongPassword(a) ==
  /\ attempt[a].stage = "password"
  /\ attempt' = [attempt EXCEPT ![a].stage = "failure"]
  /\ guesses' = guesses + 1
  /\ UNCHANGED <<entry, overtaken>>

RightPassword(a) ==
  /\ attempt[a].stage = "password"
  /\ attempt' = [attempt EXCEPT ![a].stage = "success"]
  /\ UNCHANGED <<entry, overtaken, guesses>>

GiveUp(a) ==
  /\ attempt[a].stage = "password"
  /\ Finish(a)

ClearOnSuccess(a) ==
  /\ attempt[a].stage = "success"
  /\ Overwrite(a, None)
  /\ attempt' = [attempt EXCEPT ![a] = Start]
  /\ guesses' = 0

\* register_failure.  What is asked next depends on the soft lock and on
\* whether there is a lock to report.
RegisterFailure(a) ==
  LET n == Loaded.failures + 1
      locks == n >= Threshold
      e == [Loaded EXCEPT !.failures = IF n <= Enough THEN n ELSE Enough,
                          !.locked = IF locks THEN Window(n) ELSE None]
  IN
  /\ attempt[a].stage = "failure"
  /\ attempt' = [attempt EXCEPT ![a].stage = "set", ![a].copy = e,
                   ![a].next = IF SoftThreshold > 0 THEN "recount"
                               ELSE IF locks THEN "after" ELSE "idle",
                   ![a].locks = locks]
  /\ UNCHANGED <<entry, overtaken, guesses>>

\* The answer to a wrong password reports the wait if it has caused one.
Report(a) == IF attempt[a].locks THEN "after" ELSE "idle"

CheckSoftLock(a) ==
  /\ attempt[a].stage = "recount"
  /\ Read(a, IF Loaded.failures >= SoftThreshold /\ Cooldown > 0
             THEN "soft" ELSE Report(a))

\* activate_cooldown: a cooldown is extended, never shortened.
ActivateCooldown(a) ==
  /\ attempt[a].stage = "soft"
  /\ IF IsRunning(Loaded.cooldown) /\ Loaded.cooldown >= Cooldown
     THEN Read(a, Report(a))
     ELSE ReadThenSet(a, [Loaded EXCEPT !.cooldown = Cooldown], Report(a))

\* required_wait_seconds again, for the Retry-After header.
ReportWait(a) ==
  /\ attempt[a].stage = "after"
  /\ IF Loaded.locked = 0 /\ Loaded.failures > 0
     THEN ReadThenSet(a, [Loaded EXCEPT !.locked = None], "idle")
     ELSE Finish(a)

\* _save
Save(a) ==
  LET e == attempt[a].copy IN
  /\ attempt[a].stage = "set"
  /\ Overwrite(a, e)
  /\ attempt' = [attempt EXCEPT ![a] =
                   IF attempt[a].next = "idle" THEN Start
                   ELSE [@ EXCEPT !.stage = attempt[a].next, !.copy = None, !.next = "idle"]]
  /\ guesses' = IF e.locked # None THEN 0 ELSE guesses

-----------------------------------------------------------------------------
(* Time                                                                    *)

Elapsed(timer) == IF IsRunning(timer) THEN timer - 1 ELSE timer

Older(e) ==
  IF e = None THEN None
  ELSE [e EXCEPT !.locked = Elapsed(@), !.cooldown = Elapsed(@)]

Tick ==
  /\ entry' = Older(entry)
  /\ attempt' = [a \in Attempt |-> [attempt[a] EXCEPT !.copy = Older(@)]]
  /\ UNCHANGED <<overtaken, guesses>>

\* The TTL of the entry, renewed by every SET, is twice the longest window.
Forget ==
  /\ entry # None
  /\ ~Locked /\ ~Cooling
  /\ entry' = None
  /\ overtaken' = Attempt
  /\ guesses' = 0
  /\ UNCHANGED attempt

Next ==
  \/ \E a \in Attempt :
       \/ Arrive(a) \/ CheckCooldown(a) \/ CountFailures(a) \/ CheckLock(a)
       \/ ClearExpired(a) \/ WrongPassword(a) \/ RightPassword(a) \/ GiveUp(a)
       \/ ClearOnSuccess(a) \/ RegisterFailure(a) \/ CheckSoftLock(a)
       \/ ActivateCooldown(a) \/ ReportWait(a) \/ Save(a)
  \/ Tick
  \/ Forget

Spec == Init /\ [][Next]_vars

\* Time passes.  Nothing is assumed of the attempts.
FairSpec == Spec /\ WF_vars(Tick)

-----------------------------------------------------------------------------
(* Properties                                                              *)

\* Lost updates.  The count is read, incremented and written back in two
\* commands, so a slow SET takes back what others have counted meanwhile.  With
\* n attempts at a time, at most C(Threshold + n - 1, n) + n - 1 wrong passwords
\* are tried before a lock is set or the count starts again: Threshold of them
\* for one attempt at a time, 7 for two and a threshold of 3, and never an
\* unlimited number.  (The soft lock would add SETs of its own.)
GuessesBounded ==
  SoftThreshold = 0 =>
    LET n == Cardinality(Attempt)
    IN  guesses <= choose(Threshold + n - 1, n) + n - 1

\* A deadline t that becomes u is cut short.
CutShort(t, u) == IsRunning(t) /\ (u = None \/ u < t)

\* What an attempt writes may be out of date.  A running lock or cooldown is
\* cut short (by a failure, by the clearing of an expired lock, by the removal
\* of a lapsed deadline) only if somebody else changed the entry while the
\* attempt ran.  A login that succeeds may lift them at any time.
BarsLast ==
  [][\A a \in Attempt \ overtaken :
       (Save(a) \/ ClearExpired(a)) /\ entry # None =>
         LET e == IF entry' = None THEN Blank ELSE entry' IN
         /\ ~CutShort(entry.locked, e.locked)
         /\ ~CutShort(entry.cooldown, e.cooldown)]_vars

\* The ladder of windows has one rung unless attempts overlap: when a lock has
\* lapsed the next attempt clears the count, so a failure nobody interfered
\* with never counts beyond the threshold, and its lock is Windows[1].
LadderNeedsOverlap ==
  [][\A a \in Attempt \ overtaken :
       RegisterFailure(a) => attempt'[a].copy.failures <= Threshold]_vars

\* A lock ends, and so does a cooldown, however the attempts at the address are
\* timed: whoever finds one does not prolong it, and those who had passed it
\* before are finitely many.  (Not so the two together.  With three attempts and
\* slow SETs each can be over and over set again by whoever passed it while only
\* the other was running.)
BarEnds == (Locked ~> ~Locked) /\ (Cooling ~> ~Cooling)
=============================================================================
