------------------------- MODULE LoginBackoffProofs -------------------------
(***************************************************************************)
(* Proofs of the safety properties of LoginBackoff, for any number of      *)
(* overlapping attempts, any thresholds and any windows, and of the        *)
(* properties of RateLimit, for any limits, windows and weights.           *)
(*                                                                         *)
(* Who has not been overtaken knows the entry: nobody but himself and time *)
(* has changed it since he arrived, and time changes his copy alike.  So   *)
(* each check he has passed still holds (Knows), and his copy would cut no *)
(* deadline short.                                                         *)
(*                                                                         *)
(* Where attempts do not overlap, the entry has counted every guess but    *)
(* the one under way (TallyInv).                                           *)
(*                                                                         *)
(* Where they overlap, a slow SET takes back what others have counted, but *)
(* there are finitely many ways for the counts that attempts hold to be    *)
(* spread below the threshold, and a SET without a lock moves on to the    *)
(* next in a lexicographic order (GuessInv): a SET below the threshold is  *)
(* one guess, and the place in that order, its rank, is a sum of multiset  *)
(* coefficients.  Facts about those are proved by induction, which the     *)
(* library offers in first order as the existence of minimal elements.     *)
(*                                                                         *)
(* A lock or a cooldown is set again only by those who had passed its      *)
(* check before, each of them once.  So its end is near and, the time that *)
(* they may add counted in, comes nearer with each tick (Over).            *)
(*                                                                         *)
(* The list of a limiter is what it has admitted.  What Redis has admitted *)
(* is of two of its windows at most, and when one of them ends its first   *)
(* hit is as old as a window (TwoWindows).                                 *)
(***************************************************************************)
EXTENDS LoginBackoff, RateLimit, FiniteSetTheorems, WellFoundedInduction, TLAPS

\* Replacing the deadlines of e by those of f cuts neither short.
Spares(e, f) == ~CutShort(e.locked, f.locked) /\ ~CutShort(e.cooldown, f.cooldown)

\* What an attempt in state s knows of the loaded entry e.
Knows(s, e) ==
  /\ s.stage \in {"count", "wait", "expired", "password", "failure"} => e.cooldown = None
  /\ s.stage = "wait" => s.count = e.failures
  /\ s.stage \in {"expired", "password", "failure"} => ~IsRunning(e.locked)
  /\ s.stage \in {"password", "failure"} => e.failures < Threshold
  /\ s.stage = "set" =>
       /\ Spares(e, s.copy)
       /\ s.next \in {"count", "expired", "password"} => s.copy.cooldown = None
       /\ s.next \in {"expired", "password"} => s.copy.locked = None
       /\ s.next = "password" => s.copy.failures < Threshold

\* A SET has something to write, and leads on or to the end.
Writes(s) ==
  s.stage = "set" =>
    /\ s.copy \in Entry
    /\ s.next \in {"count", "expired", "password", "recount", "after", "idle"}

LoginInv ==
  /\ TypeOK
  /\ \A a \in Attempt : Writes(attempt[a])
  /\ \A a \in Attempt \ overtaken : Knows(attempt[a], Loaded)

-----------------------------------------------------------------------------
(* Entries and states                                                      *)

LEMMA LimitTypes ==
  /\ Threshold \in Nat \ {0} /\ SoftThreshold \in Nat /\ Cooldown \in Nat
  /\ Enough \in Nat /\ Threshold <= Enough
  /\ None \notin Nat
<1>1. Len(Windows) \in Nat
  BY WindowAssumption
<1> QED
  BY <1>1, ThresholdAssumption, WindowAssumption, NoneAssumption DEF Enough

LEMMA LoadedType ==
  ASSUME TypeOK
  PROVE  /\ Loaded \in Entry
         /\ Blank \in Entry
         /\ entry # None => Loaded = entry
         /\ entry = None => Loaded = Blank
BY DEF TypeOK, Loaded, Blank, Entry, Timer

LEMMA WindowType ==
  ASSUME NEW n \in Nat, n >= Threshold
  PROVE  Window(n) \in Nat \ {0}
<1> DEFINE i == n - Threshold + 1
<1>1. Len(Windows) \in Nat \ {0} /\ Windows \in [1 .. Len(Windows) -> Nat \ {0}]
  BY WindowAssumption
<1>2. i \in Nat \ {0}
  BY LimitTypes
<1> QED
  BY <1>1, <1>2 DEF Window

LEMMA StartType ==
  Start \in AttemptState /\ Writes(Start) /\ \A e : Knows(Start, e)
BY LimitTypes DEF Start, AttemptState, Stage, Writes, Knows

\* The steps of an attempt that leave the entry alone.
LEMMA StayKeeps ==
  ASSUME LoginInv, NEW a \in Attempt, NEW s \in AttemptState,
         attempt' = [attempt EXCEPT ![a] = s], UNCHANGED entry,
         overtaken' \in {overtaken, overtaken \ {a}}, guesses' \in Nat,
         Writes(s), a \notin overtaken' => Knows(s, Loaded)
  PROVE  LoginInv'
<1>1. TypeOK'
  BY DEF LoginInv, TypeOK
<1>2. Loaded' = Loaded
  BY DEF Loaded
<1>3. attempt'[a] = s /\ \A b \in Attempt \ {a} : attempt'[b] = attempt[b]
  BY DEF LoginInv, TypeOK
<1>4. ASSUME NEW b \in Attempt
      PROVE  Writes(attempt'[b])
  BY <1>3 DEF LoginInv
<1>5. ASSUME NEW b \in Attempt \ overtaken'
      PROVE  Knows(attempt'[b], Loaded)
  BY <1>3 DEF LoginInv
<1> QED
  BY <1>1, <1>2, <1>4, <1>5 DEF LoginInv, Writes, Knows

\* The commands that change the entry, seen from everybody else: overtaken.
LEMMA OverwriteKeeps ==
  ASSUME LoginInv, NEW a \in Attempt, NEW e \in Entry \cup {None}, Overwrite(a, e),
         NEW s \in AttemptState, attempt' = [attempt EXCEPT ![a] = s], guesses' \in Nat,
         Writes(s), a \notin overtaken => Knows(s, IF e = None THEN Blank ELSE e)
  PROVE  LoginInv'
<1>1. TypeOK'
  BY DEF LoginInv, TypeOK, Overwrite
<1>2. Loaded' = IF e = None THEN Blank ELSE e
  BY DEF Loaded, Overwrite
<1>3. attempt'[a] = s /\ \A b \in Attempt \ {a} : attempt'[b] = attempt[b]
  BY DEF LoginInv, TypeOK
<1>4. \A b \in Attempt \ overtaken' : b = a /\ a \notin overtaken
  BY DEF Overwrite
<1> QED
  BY <1>1, <1>2, <1>3, <1>4 DEF LoginInv, Writes, Knows

-----------------------------------------------------------------------------
(* What the attempts do before they write                                  *)

LEMMA FinishKeeps ==
  ASSUME LoginInv, NEW a \in Attempt, Finish(a)
  PROVE  LoginInv'
BY StartType, StayKeeps DEF Finish, LoginInv, TypeOK

LEMMA ReadKeeps ==
  ASSUME LoginInv, NEW a \in Attempt, NEW stage \in Stage \ {"set"}, Read(a, stage),
         a \notin overtaken => Knows([attempt[a] EXCEPT !.stage = stage], Loaded)
  PROVE  LoginInv'
<1> DEFINE s == [attempt[a] EXCEPT !.stage = stage]
<1>1. attempt[a] \in AttemptState /\ guesses \in Nat
  BY DEF LoginInv, TypeOK
<1>2. s \in AttemptState /\ s.stage = stage
  BY <1>1 DEF AttemptState
<1>3. Writes(s)
  BY <1>2 DEF Writes
<1>4. attempt' = [attempt EXCEPT ![a] = s] /\ UNCHANGED <<entry, overtaken, guesses>>
  BY DEF Read
<1> HIDE DEF s
<1> QED
  BY <1>1, <1>2, <1>3, <1>4, StayKeeps DEF s

\* The copy e is about to be written.
LEMMA ReadThenSetKeeps ==
  ASSUME LoginInv, NEW a \in Attempt, NEW e \in Entry,
         NEW stage \in {"count", "expired", "password", "recount", "after", "idle"},
         ReadThenSet(a, e, stage),
         a \notin overtaken =>
           /\ Spares(Loaded, e)
           /\ stage \in {"count", "expired", "password"} => e.cooldown = None
           /\ stage \in {"expired", "password"} => e.locked = None
           /\ stage = "password" => e.failures < Threshold
  PROVE  LoginInv'
<1> DEFINE s == [attempt[a] EXCEPT !.stage = "set", !.copy = e, !.next = stage]
<1>1. attempt[a] \in AttemptState /\ guesses \in Nat
  BY DEF LoginInv, TypeOK
<1>2. /\ s \in AttemptState /\ s.stage = "set" /\ s.copy = e /\ s.next = stage
  BY <1>1 DEF AttemptState, Stage
<1>3. attempt' = [attempt EXCEPT ![a] = s] /\ UNCHANGED <<entry, overtaken, guesses>>
  BY DEF ReadThenSet
<1> HIDE DEF s
<1>4. Writes(s) /\ (a \notin overtaken => Knows(s, Loaded))
  BY <1>2 DEF Writes, Knows
<1> QED
  BY <1>1, <1>2, <1>3, <1>4, StayKeeps

LEMMA ArriveKeeps ==
  ASSUME LoginInv, NEW a \in Attempt, Arrive(a)
  PROVE  LoginInv'
<1> DEFINE s == [attempt[a] EXCEPT !.stage = "cooldown"]
<1>1. s \in AttemptState /\ s.stage = "cooldown" /\ guesses \in Nat
  BY DEF LoginInv, TypeOK, AttemptState, Stage
<1>2. /\ attempt' = [attempt EXCEPT ![a] = s] /\ UNCHANGED <<entry, guesses>>
      /\ overtaken' = overtaken \ {a}
  BY DEF Arrive
<1> HIDE DEF s
<1>3. Writes(s) /\ Knows(s, Loaded)
  BY <1>1 DEF Writes, Knows
<1> QED
  BY <1>1, <1>2, <1>3, StayKeeps

LEMMA CheckCooldownKeeps ==
  ASSUME LoginInv, NEW a \in Attempt, CheckCooldown(a)
  PROVE  LoginInv'
<1>1. attempt[a] \in AttemptState /\ Loaded \in Entry /\ Loaded.cooldown \in Timer
  BY LoadedType DEF LoginInv, TypeOK, Entry
<1>2. CASE Loaded.cooldown = None
  <2>1. Read(a, "count")
    <3>1. ~IsRunning(Loaded.cooldown)
      BY <1>2 DEF IsRunning
    <3> QED
      BY <1>2, <3>1 DEF CheckCooldown
  <2>2. "count" \in Stage \ {"set"}
    BY DEF Stage
  <2>3. Knows([attempt[a] EXCEPT !.stage = "count"], Loaded)
    BY <1>1, <1>2 DEF Knows, AttemptState
  <2> QED
    BY <2>1, <2>2, <2>3, ReadKeeps
<1>3. CASE Loaded.cooldown # None /\ IsRunning(Loaded.cooldown)
  BY <1>3, FinishKeeps DEF CheckCooldown
<1>4. CASE Loaded.cooldown # None /\ ~IsRunning(Loaded.cooldown)
  <2> DEFINE e == [Loaded EXCEPT !.cooldown = None]
  <2>1. ReadThenSet(a, e, "count")
    BY <1>4 DEF CheckCooldown
  <2>2. e \in Entry /\ e.cooldown = None /\ e.locked = Loaded.locked
    BY <1>1 DEF Entry, Timer
  <2>3. Spares(Loaded, e)
    BY <1>1, <1>4, <2>2, LimitTypes DEF Spares, CutShort, IsRunning, Entry, Timer
  <2> HIDE DEF e
  <2> QED
    BY <2>1, <2>2, <2>3, ReadThenSetKeeps
<1> QED
  BY <1>2, <1>3, <1>4

LEMMA CountFailuresKeeps ==
  ASSUME LoginInv, NEW a \in Attempt, CountFailures(a)
  PROVE  LoginInv'
<1> DEFINE s == [attempt[a] EXCEPT !.stage = "wait", !.count = Loaded.failures]
<1>1. attempt[a] \in AttemptState /\ Loaded.failures \in Nat /\ guesses \in Nat
  BY LoadedType DEF LoginInv, TypeOK, Entry
<1>2. s \in AttemptState /\ s.stage = "wait" /\ s.count = Loaded.failures
  BY <1>1 DEF AttemptState, Stage
<1>3. /\ attempt' = [attempt EXCEPT ![a] = s] /\ UNCHANGED <<entry, overtaken, guesses>>
      /\ attempt[a].stage = "count"
  BY DEF CountFailures
<1> HIDE DEF s
<1>4. Writes(s) /\ (a \notin overtaken => Knows(s, Loaded))
  BY <1>2, <1>3 DEF Writes, Knows, LoginInv
<1> QED
  BY <1>1, <1>2, <1>3, <1>4, StayKeeps

LEMMA CheckLockKeeps ==
  ASSUME LoginInv, NEW a \in Attempt, CheckLock(a)
  PROVE  LoginInv'
<1>1. /\ attempt[a] \in AttemptState /\ attempt[a].count \in Nat
      /\ Loaded \in Entry /\ Loaded.locked \in Timer /\ Loaded.failures \in Nat
  BY LoadedType DEF LoginInv, TypeOK, Entry, AttemptState
<1>2. /\ attempt[a].stage = "wait"
      /\ Admitted(a) \in {"expired", "password"}
      /\ Admitted(a) = "password" => attempt[a].count < Threshold
      /\ a \notin overtaken => Loaded.cooldown = None /\ attempt[a].count = Loaded.failures
  BY <1>1, LimitTypes DEF CheckLock, LoginInv, Knows, Admitted
<1>3. CASE IsRunning(Loaded.locked)
  <2>1. Finish(a)
    <3>1. Loaded.locked # 0
      BY <1>3 DEF IsRunning
    <3> QED
      BY <1>3, <3>1 DEF CheckLock
  <2> QED
    BY <2>1, FinishKeeps
<1>4. CASE /\ ~IsRunning(Loaded.locked)
           /\ ReadThenSet(a, [Loaded EXCEPT !.locked = None], Admitted(a))
  <2> DEFINE e == [Loaded EXCEPT !.locked = None]
  <2>1. /\ e \in Entry /\ e.locked = None /\ e.cooldown = Loaded.cooldown
        /\ e.failures = Loaded.failures
    BY <1>1 DEF Entry, Timer
  <2>2. Spares(Loaded, e)
    BY <1>1, <1>4, <2>1, LimitTypes DEF Spares, CutShort, IsRunning, Entry, Timer
  <2>3. ReadThenSet(a, e, Admitted(a))
    BY <1>4
  <2> HIDE DEF e
  <2> QED
    BY <1>2, <2>1, <2>2, <2>3, ReadThenSetKeeps
<1>5. CASE ~IsRunning(Loaded.locked) /\ Read(a, Admitted(a))
  <2>1. Admitted(a) \in Stage \ {"set"}
    BY <1>2 DEF Stage
  <2>2. ASSUME a \notin overtaken
        PROVE  Knows([attempt[a] EXCEPT !.stage = Admitted(a)], Loaded)
    BY <1>1, <1>2, <1>5, <2>2 DEF Knows, AttemptState
  <2> QED
    BY <1>5, <2>1, <2>2, ReadKeeps
<1> QED
  BY <1>3, <1>4, <1>5 DEF CheckLock

LEMMA ClearExpiredKeeps ==
  ASSUME LoginInv, NEW a \in Attempt, ClearExpired(a)
  PROVE  LoginInv'
<1> DEFINE s == [attempt[a] EXCEPT !.stage = "password", !.count = 0]
<1>1. s \in AttemptState /\ s.stage = "password"
  BY DEF LoginInv, TypeOK, AttemptState, Stage
<1>2. attempt' = [attempt EXCEPT ![a] = s] /\ guesses' \in Nat /\ Overwrite(a, None)
  BY DEF ClearExpired
<1> HIDE DEF s
<1>3. Writes(s) /\ Knows(s, Blank)
  BY <1>1, LimitTypes DEF Writes, Knows, Blank, IsRunning
<1> QED
  BY <1>1, <1>2, <1>3, OverwriteKeeps

-----------------------------------------------------------------------------
(* The password and what follows                                           *)

LEMMA WrongPasswordKeeps ==
  ASSUME LoginInv, NEW a \in Attempt, WrongPassword(a)
  PROVE  LoginInv'
<1> DEFINE s == [attempt[a] EXCEPT !.stage = "failure"]
<1>1. attempt[a] \in AttemptState /\ guesses \in Nat /\ attempt[a].stage = "password"
  BY DEF LoginInv, TypeOK, WrongPassword
<1>2. s \in AttemptState /\ s.stage = "failure"
  BY <1>1 DEF AttemptState, Stage
<1>3. /\ attempt' = [attempt EXCEPT ![a] = s] /\ UNCHANGED <<entry, overtaken>>
      /\ guesses' \in Nat
  BY <1>1 DEF WrongPassword
<1> HIDE DEF s
<1>4. Writes(s) /\ (a \notin overtaken => Knows(s, Loaded))
  BY <1>1, <1>2 DEF Writes, Knows, LoginInv
<1> QED
  BY <1>2, <1>3, <1>4, StayKeeps

LEMMA RightPasswordKeeps ==
  ASSUME LoginInv, NEW a \in Attempt, RightPassword(a)
  PROVE  LoginInv'
<1>1. Read(a, "success") /\ "success" \in Stage \ {"set"}
  BY DEF RightPassword, Read, Stage
<1>2. [attempt[a] EXCEPT !.stage = "success"].stage = "success"
  BY DEF LoginInv, TypeOK, AttemptState
<1>3. Knows([attempt[a] EXCEPT !.stage = "success"], Loaded)
  BY <1>2 DEF Knows
<1> QED
  BY <1>1, <1>3, ReadKeeps

LEMMA ClearOnSuccessKeeps ==
  ASSUME LoginInv, NEW a \in Attempt, ClearOnSuccess(a)
  PROVE  LoginInv'
<1>1. attempt' = [attempt EXCEPT ![a] = Start] /\ guesses' \in Nat /\ Overwrite(a, None)
  BY DEF ClearOnSuccess
<1> QED
  BY <1>1, StartType, OverwriteKeeps

\* The entry that register_failure is about to write.
Failed ==
  LET n == Loaded.failures + 1 IN
  [Loaded EXCEPT !.failures = IF n <= Enough THEN n ELSE Enough,
                 !.locked = IF n >= Threshold THEN Window(n) ELSE None]

LEMMA FailedType ==
  ASSUME TypeOK
  PROVE  /\ Failed \in Entry
         /\ Failed.cooldown = Loaded.cooldown
         /\ Loaded.failures < Threshold => Failed.failures <= Threshold
<1> DEFINE n == Loaded.failures + 1
           locked == IF n >= Threshold THEN Window(n) ELSE None
           failures == IF n <= Enough THEN n ELSE Enough
<1>1. Loaded \in Entry /\ Loaded.failures \in Nat /\ n \in Nat
  BY LoadedType DEF Entry
<1>2. locked \in Timer
  BY <1>1, WindowType DEF Timer
<1>3. failures \in Nat /\ (Loaded.failures < Threshold => failures <= Threshold)
  BY <1>1, LimitTypes
<1>4. Failed = [Loaded EXCEPT !.failures = failures, !.locked = locked]
  BY DEF Failed
<1> HIDE DEF locked, failures
<1> QED
  BY <1>1, <1>2, <1>3, <1>4 DEF Entry

LEMMA RegisterFailureKeeps ==
  ASSUME LoginInv, NEW a \in Attempt, RegisterFailure(a)
  PROVE  LoginInv'
<1> DEFINE locks == Loaded.failures + 1 >= Threshold
           next == IF SoftThreshold > 0 THEN "recount" ELSE IF locks THEN "after" ELSE "idle"
           s == [attempt[a] EXCEPT !.stage = "set", !.copy = Failed, !.next = next,
                                   !.locks = locks]
<1>1. attempt[a] \in AttemptState /\ attempt[a].stage = "failure" /\ guesses \in Nat
  BY DEF LoginInv, TypeOK, RegisterFailure
<1>2. /\ Failed \in Entry /\ Failed.cooldown = Loaded.cooldown
      /\ Loaded \in Entry /\ Loaded.failures \in Nat
  BY FailedType, LoadedType DEF LoginInv, Entry
<1>3. next \in {"recount", "after", "idle"} /\ locks \in BOOLEAN
  BY <1>2, LimitTypes
<1>4. attempt' = [attempt EXCEPT ![a] = s] /\ UNCHANGED <<entry, overtaken, guesses>>
  BY DEF RegisterFailure, Failed
<1> HIDE DEF next, locks
<1>5. s \in AttemptState /\ s.stage = "set" /\ s.copy = Failed /\ s.next = next
  BY <1>1, <1>2, <1>3 DEF AttemptState, Stage
<1> HIDE DEF s
<1>6. a \notin overtaken => Spares(Loaded, Failed)
  BY <1>1, <1>2 DEF LoginInv, Knows, Spares, CutShort, IsRunning
<1>7. Writes(s) /\ (a \notin overtaken => Knows(s, Loaded))
  BY <1>2, <1>3, <1>5, <1>6 DEF Writes, Knows
<1> QED
  BY <1>1, <1>4, <1>5, <1>7, StayKeeps

LEMMA CheckSoftLockKeeps ==
  ASSUME LoginInv, NEW a \in Attempt, CheckSoftLock(a)
  PROVE  LoginInv'
<1> DEFINE stage == IF Loaded.failures >= SoftThreshold /\ Cooldown > 0
                    THEN "soft" ELSE Report(a)
<1>1. stage \in {"soft", "after", "idle"} /\ Read(a, stage)
  BY DEF CheckSoftLock, Report
<1> HIDE DEF stage
<1>2. stage \in Stage \ {"set"}
  BY <1>1 DEF Stage
<1>3. [attempt[a] EXCEPT !.stage = stage].stage = stage
  BY DEF LoginInv, TypeOK, AttemptState
<1>4. Knows([attempt[a] EXCEPT !.stage = stage], Loaded)
  BY <1>1, <1>3 DEF Knows
<1> QED
  BY <1>1, <1>2, <1>4, ReadKeeps

\* A cooldown that activate_cooldown finds is extended or left as it is.
LEMMA ActivateCooldownKeeps ==
  ASSUME LoginInv, NEW a \in Attempt, ActivateCooldown(a)
  PROVE  LoginInv'
<1>1. Loaded \in Entry /\ Loaded.locked \in Timer /\ Loaded.cooldown \in Timer
  BY LoadedType DEF LoginInv, Entry
<1>2. Report(a) \in {"after", "idle"} /\ Report(a) \in Stage \ {"set"}
  BY DEF Report, Stage
<1>3. CASE IsRunning(Loaded.cooldown) /\ Loaded.cooldown >= Cooldown
  <2>1. Read(a, Report(a))
    BY <1>3 DEF ActivateCooldown
  <2>2. [attempt[a] EXCEPT !.stage = Report(a)].stage = Report(a)
    BY DEF LoginInv, TypeOK, AttemptState
  <2>3. Knows([attempt[a] EXCEPT !.stage = Report(a)], Loaded)
    BY <1>2, <2>2 DEF Knows
  <2> QED
    BY <1>2, <2>1, <2>3, ReadKeeps
<1>4. CASE ~(IsRunning(Loaded.cooldown) /\ Loaded.cooldown >= Cooldown)
  <2> DEFINE e == [Loaded EXCEPT !.cooldown = Cooldown]
  <2>1. ReadThenSet(a, e, Report(a))
    BY <1>4 DEF ActivateCooldown
  <2>2. e \in Entry /\ e.cooldown = Cooldown /\ e.locked = Loaded.locked
    BY <1>1, LimitTypes DEF Entry, Timer
  <2> HIDE DEF e
  <2>3. Spares(Loaded, e)
    BY <1>1, <1>4, <2>2, LimitTypes DEF Spares, CutShort, IsRunning, Timer
  <2> QED
    BY <1>2, <2>1, <2>2, <2>3, ReadThenSetKeeps
<1> QED
  BY <1>3, <1>4

LEMMA ReportWaitKeeps ==
  ASSUME LoginInv, NEW a \in Attempt, ReportWait(a)
  PROVE  LoginInv'
<1>1. Loaded \in Entry /\ Loaded.cooldown \in Timer
  BY LoadedType DEF LoginInv, Entry
<1>2. CASE Loaded.locked = 0 /\ Loaded.failures > 0
  <2> DEFINE e == [Loaded EXCEPT !.locked = None]
  <2>1. ReadThenSet(a, e, "idle")
    BY <1>2 DEF ReportWait
  <2>2. e \in Entry /\ e.locked = None /\ e.cooldown = Loaded.cooldown
    BY <1>1 DEF Entry, Timer
  <2> HIDE DEF e
  <2>3. Spares(Loaded, e)
    BY <1>1, <1>2, <2>2, LimitTypes DEF Spares, CutShort, IsRunning, Timer
  <2> QED
    BY <2>1, <2>2, <2>3, ReadThenSetKeeps
<1>3. CASE ~(Loaded.locked = 0 /\ Loaded.failures > 0)
  BY <1>3, FinishKeeps DEF ReportWait
<1> QED
  BY <1>2, <1>3

LEMMA SaveKeeps ==
  ASSUME LoginInv, NEW a \in Attempt, Save(a)
  PROVE  LoginInv'
<1> DEFINE e == attempt[a].copy
           next == attempt[a].next
           goes == [attempt[a] EXCEPT !.stage = next, !.copy = None, !.next = "idle"]
           s == IF next = "idle" THEN Start ELSE goes
<1>1. attempt[a] \in AttemptState /\ attempt[a].stage = "set" /\ guesses \in Nat
  BY DEF LoginInv, TypeOK, Save
<1>2. /\ e \in Entry /\ e # None
      /\ next \in {"count", "expired", "password", "recount", "after", "idle"}
  BY <1>1, NoEntryAssumption DEF LoginInv, Writes
<1>3. Overwrite(a, e) /\ attempt' = [attempt EXCEPT ![a] = s] /\ guesses' \in Nat
  BY <1>1 DEF Save
<1>4. goes \in AttemptState /\ goes.stage = next
  BY <1>1, <1>2 DEF AttemptState, Stage
<1>5. a \notin overtaken =>
        /\ next \in {"count", "expired", "password"} => e.cooldown = None
        /\ next \in {"expired", "password"} => e.locked = None
        /\ next = "password" => e.failures < Threshold
  BY <1>1 DEF LoginInv, Knows
<1> HIDE DEF e, next, goes
<1>6. Writes(goes) /\ (a \notin overtaken => Knows(goes, e))
  BY <1>2, <1>4, <1>5 DEF Writes, Knows, IsRunning
<1>7. s \in AttemptState /\ Writes(s) /\ (a \notin overtaken => Knows(s, e))
  BY <1>4, <1>6, StartType
<1> HIDE DEF s
<1> QED
  BY <1>2, <1>3, <1>7, OverwriteKeeps

-----------------------------------------------------------------------------
(* Time                                                                    *)

LEMMA ElapsedType ==
  ASSUME NEW t \in Timer
  PROVE  /\ Elapsed(t) \in Timer
         /\ Elapsed(t) = None <=> t = None
         /\ ~IsRunning(t) => ~IsRunning(Elapsed(t))
BY LimitTypes DEF Elapsed, IsRunning, Timer

LEMMA TimeCutsNothingShort ==
  ASSUME NEW t \in Timer, NEW u \in Timer, CutShort(Elapsed(t), Elapsed(u))
  PROVE  CutShort(t, u)
BY LimitTypes DEF CutShort, Elapsed, IsRunning, Timer

LEMMA OlderType ==
  ASSUME NEW e \in Entry
  PROVE  /\ Older(e) \in Entry
         /\ Older(e).failures = e.failures
         /\ Older(e).locked = Elapsed(e.locked)
         /\ Older(e).cooldown = Elapsed(e.cooldown)
<1>1. e # None /\ e.locked \in Timer /\ e.cooldown \in Timer
  BY NoEntryAssumption DEF Entry
<1>2. Elapsed(e.locked) \in Timer /\ Elapsed(e.cooldown) \in Timer
  BY <1>1, ElapsedType
<1> QED
  BY <1>1, <1>2 DEF Older, Entry

LEMMA TickKeeps ==
  ASSUME LoginInv, Tick
  PROVE  LoginInv'
<1> DEFINE s(a) == [attempt[a] EXCEPT !.copy = Older(@)]
<1>1. Loaded \in Entry /\ Loaded.locked \in Timer /\ Loaded.cooldown \in Timer
  BY LoadedType DEF LoginInv, Entry
<1>2. /\ Loaded'.failures = Loaded.failures
      /\ Loaded'.locked = Elapsed(Loaded.locked)
      /\ Loaded'.cooldown = Elapsed(Loaded.cooldown)
      /\ entry' \in Entry \cup {None}
  <2>1. CASE entry = None
    BY <2>1 DEF Tick, Older, Loaded, Blank, Elapsed, IsRunning
  <2>2. CASE entry # None
    <3>1. entry \in Entry /\ Older(entry) \in Entry /\ Older(entry) # None
      BY <2>2, OlderType, NoEntryAssumption DEF LoginInv, TypeOK
    <3> QED
      BY <2>2, <3>1, OlderType DEF Tick, Loaded
  <2> QED
    BY <2>1, <2>2
<1>3. ASSUME NEW a \in Attempt
      PROVE  /\ s(a) \in AttemptState /\ s(a).stage = attempt[a].stage
             /\ s(a).next = attempt[a].next /\ s(a).count = attempt[a].count
             /\ s(a).copy = Older(attempt[a].copy)
  <2>1. attempt[a] \in AttemptState /\ attempt[a].copy \in Entry \cup {None}
    BY DEF LoginInv, TypeOK, AttemptState
  <2>2. Older(attempt[a].copy) \in Entry \cup {None}
    BY <2>1, OlderType DEF Older
  <2> QED
    BY <2>1, <2>2 DEF AttemptState
<1>4. /\ attempt' = [a \in Attempt |-> s(a)]
      /\ UNCHANGED <<overtaken, guesses>>
  BY DEF Tick
<1> HIDE DEF s
<1>5. TypeOK'
  BY <1>2, <1>3, <1>4 DEF LoginInv, TypeOK
<1>6. ASSUME NEW a \in Attempt
      PROVE  Writes(s(a))
  BY <1>3, OlderType DEF LoginInv, Writes
<1>7. ASSUME NEW a \in Attempt \ overtaken
      PROVE  Knows(s(a), Loaded')
  <2>1. Knows(attempt[a], Loaded)
    BY DEF LoginInv
  <2>2. CASE attempt[a].stage = "set"
    <3> DEFINE e == attempt[a].copy
    <3>1. /\ e \in Entry /\ e.locked \in Timer /\ e.cooldown \in Timer
          /\ Spares(Loaded, e)
      BY <2>1, <2>2 DEF LoginInv, Writes, Entry, Knows
    <3>2. /\ Older(e).failures = e.failures /\ Older(e).locked = Elapsed(e.locked)
          /\ Older(e).cooldown = Elapsed(e.cooldown)
      BY <3>1, OlderType
    <3>3. Spares(Loaded', Older(e))
      BY <1>1, <1>2, <3>1, <3>2, TimeCutsNothingShort DEF Spares
    <3>4. /\ e.locked = None => Older(e).locked = None
          /\ e.cooldown = None => Older(e).cooldown = None
      BY <3>1, <3>2, ElapsedType
    <3> QED
      BY <1>3, <2>1, <2>2, <3>2, <3>3, <3>4 DEF Knows
  <2>3. CASE attempt[a].stage # "set"
    <3>1. /\ Loaded.cooldown = None => Loaded'.cooldown = None
          /\ ~IsRunning(Loaded.locked) => ~IsRunning(Loaded'.locked)
      BY <1>1, <1>2, ElapsedType
    <3> QED
      BY <1>2, <1>3, <2>1, <2>3, <3>1 DEF Knows
  <2> QED
    BY <2>2, <2>3
<1> QED
  BY <1>4, <1>5, <1>6, <1>7 DEF LoginInv, Writes, Knows

LEMMA ForgetKeeps ==
  ASSUME LoginInv, Forget
  PROVE  LoginInv'
BY DEF LoginInv, TypeOK, Forget, Writes

-----------------------------------------------------------------------------
(* The invariant                                                           *)

LEMMA LoginStepKeeps ==
  ASSUME LoginInv, [Next]_vars
  PROVE  LoginInv'
<1>1. ASSUME NEW a \in Attempt, Arrive(a)
      PROVE  LoginInv'
  BY <1>1, ArriveKeeps
<1>2. ASSUME NEW a \in Attempt, CheckCooldown(a)
      PROVE  LoginInv'
  BY <1>2, CheckCooldownKeeps
<1>3. ASSUME NEW a \in Attempt, CountFailures(a)
      PROVE  LoginInv'
  BY <1>3, CountFailuresKeeps
<1>4. ASSUME NEW a \in Attempt, CheckLock(a)
      PROVE  LoginInv'
  BY <1>4, CheckLockKeeps
<1>5. ASSUME NEW a \in Attempt, ClearExpired(a)
      PROVE  LoginInv'
  BY <1>5, ClearExpiredKeeps
<1>6. ASSUME NEW a \in Attempt, WrongPassword(a)
      PROVE  LoginInv'
  BY <1>6, WrongPasswordKeeps
<1>7. ASSUME NEW a \in Attempt, RightPassword(a)
      PROVE  LoginInv'
  BY <1>7, RightPasswordKeeps
<1>8. ASSUME NEW a \in Attempt, GiveUp(a)
      PROVE  LoginInv'
  BY <1>8, FinishKeeps DEF GiveUp
<1>9. ASSUME NEW a \in Attempt, ClearOnSuccess(a)
      PROVE  LoginInv'
  BY <1>9, ClearOnSuccessKeeps
<1>10. ASSUME NEW a \in Attempt, RegisterFailure(a)
       PROVE  LoginInv'
  BY <1>10, RegisterFailureKeeps
<1>11. ASSUME NEW a \in Attempt, CheckSoftLock(a)
       PROVE  LoginInv'
  BY <1>11, CheckSoftLockKeeps
<1>12. ASSUME NEW a \in Attempt, ActivateCooldown(a)
       PROVE  LoginInv'
  BY <1>12, ActivateCooldownKeeps
<1>13. ASSUME NEW a \in Attempt, ReportWait(a)
       PROVE  LoginInv'
  BY <1>13, ReportWaitKeeps
<1>14. ASSUME NEW a \in Attempt, Save(a)
       PROVE  LoginInv'
  BY <1>14, SaveKeeps
<1>15. CASE UNCHANGED vars
  BY <1>15 DEF vars, LoginInv, TypeOK, Writes, Knows, Loaded
<1> QED
  BY <1>1, <1>2, <1>3, <1>4, <1>5, <1>6, <1>7, <1>8, <1>9, <1>10, <1>11, <1>12,
     <1>13, <1>14, <1>15, TickKeeps, ForgetKeeps DEF Next

\* The invariant above, and with it the type invariant, holds of every state of
\* the manager and of the logins that talk to it.
THEOREM LoginInvariant == Spec => []LoginInv
<1>1. Init => LoginInv
  <2> SUFFICES ASSUME Init PROVE LoginInv
    OBVIOUS
  <2>1. TypeOK
    BY StartType DEF Init, TypeOK
  <2> QED
    BY <2>1, StartType DEF Init, LoginInv
<1>2. LoginInv /\ [Next]_vars => LoginInv'
  BY LoginStepKeeps
<1> QED
  BY <1>1, <1>2, PTL DEF Spec

-----------------------------------------------------------------------------
(* The properties                                                          *)

\* An attempt during which nobody else changed the entry cuts no running lock
\* or cooldown short with the copy it saves or the expired lock it clears:
\* register_failure, required_wait_seconds, cooldown_remaining_seconds and
\* activate_cooldown are all such read-modify-writes.
THEOREM BarsAreNotCutShort == Spec => BarsLast
<1> DEFINE Lasts(a) ==
      (Save(a) \/ ClearExpired(a)) /\ entry # None =>
        Spares(entry, IF entry' = None THEN Blank ELSE entry')
<1>1. ASSUME LoginInv, NEW a \in Attempt \ overtaken
      PROVE  Lasts(a)
  <2>1. Knows(attempt[a], Loaded)
    BY <1>1 DEF LoginInv
  <2>2. ASSUME Save(a), entry # None
        PROVE  Spares(entry, IF entry' = None THEN Blank ELSE entry')
    <3>1. attempt[a].copy \in Entry /\ Spares(entry, attempt[a].copy)
      BY <1>1, <2>1, <2>2, LoadedType DEF LoginInv, Save, Writes, Knows
    <3>2. entry' = attempt[a].copy /\ entry' # None
      BY <2>2, <3>1, NoEntryAssumption DEF Save, Overwrite
    <3> QED
      BY <3>1, <3>2
  <2>3. ASSUME ClearExpired(a), entry # None
        PROVE  Spares(entry, IF entry' = None THEN Blank ELSE entry')
    <3>1. entry.cooldown = None /\ ~IsRunning(entry.locked)
      BY <1>1, <2>1, <2>3, LoadedType DEF LoginInv, ClearExpired, Knows
    <3> QED
      BY <3>1 DEF Spares, CutShort, IsRunning
  <2> QED
    BY <2>2, <2>3
<1>2. LoginInv =>
        [\A a \in Attempt \ overtaken :
           (Save(a) \/ ClearExpired(a)) /\ entry # None =>
             LET e == IF entry' = None THEN Blank ELSE entry' IN
             /\ ~CutShort(entry.locked, e.locked)
             /\ ~CutShort(entry.cooldown, e.cooldown)]_vars
  BY <1>1 DEF Spares
<1> QED
  BY <1>2, LoginInvariant, PTL DEF BarsLast

\* A failure that nobody interfered with never counts beyond the threshold:
\* the attempts between two locks clear the count in time, and the longer
\* windows of the ladder are reached by overlapping attempts alone.
THEOREM LadderTakesOverlap == Spec => LadderNeedsOverlap
<1>1. ASSUME LoginInv, NEW a \in Attempt \ overtaken, RegisterFailure(a)
      PROVE  attempt'[a].copy.failures <= Threshold
  <2>1. attempt[a].stage = "failure" /\ attempt[a] \in AttemptState
    BY <1>1 DEF RegisterFailure, LoginInv, TypeOK
  <2>2. Loaded.failures < Threshold
    BY <1>1, <2>1 DEF LoginInv, Knows
  <2>3. attempt'[a].copy = Failed
    BY <1>1, <2>1 DEF RegisterFailure, Failed, LoginInv, TypeOK, AttemptState
  <2> QED
    BY <1>1, <2>2, <2>3, FailedType DEF LoginInv
<1>2. LoginInv =>
        [\A a \in Attempt \ overtaken :
           RegisterFailure(a) => attempt'[a].copy.failures <= Threshold]_vars
  BY <1>1
<1> QED
  BY <1>2, LoginInvariant, PTL DEF LadderNeedsOverlap

-----------------------------------------------------------------------------
(* One login at a time                                                     *)

\* Attempts on one address that do not overlap.
OneByOne ==
  \A a, b \in Attempt : attempt[a].stage # "idle" /\ attempt[b].stage # "idle" => a = b

\* The entry e has counted each of the g guesses, but for the one that an attempt
\* in state s has yet to register, or is about to write.
Tallied(s, e, g) ==
  /\ s.stage = "wait" => e.failures \in {0, s.count}
  /\ s.stage \in {"password", "failure"} => e.failures < Threshold
  /\ s.stage = "failure" => g <= e.failures + 1
  /\ s.stage = "set" =>
       /\ g <= s.copy.failures \/ s.copy.locked # None
       /\ s.next = "password" => s.copy.failures < Threshold
  /\ s.stage \notin {"idle", "failure", "set"} => g <= e.failures

TallyInv ==
  /\ guesses <= Threshold
  /\ \A a \in Attempt : Tallied(attempt[a], Loaded, guesses)
  /\ (\A a \in Attempt : attempt[a].stage = "idle") => guesses <= Loaded.failures

LEMMA TallyMoves ==
  ASSUME LoginInv, OneByOne, NEW a \in Attempt, attempt[a].stage # "idle",
         NEW s, attempt' = [attempt EXCEPT ![a] = s], guesses' <= Threshold,
         IF s.stage = "idle" THEN guesses' <= Loaded'.failures
         ELSE Tallied(s, Loaded', guesses')
  PROVE  TallyInv'
<1>1. attempt'[a] = s /\ \A b \in Attempt \ {a} : attempt'[b] = attempt[b]
  BY DEF LoginInv, TypeOK
<1>2. \A b \in Attempt \ {a} : attempt[b].stage = "idle"
  BY DEF OneByOne
<1>3. ASSUME NEW b \in Attempt PROVE Tallied(attempt'[b], Loaded', guesses')
  BY <1>1, <1>2 DEF Tallied
<1>4. (\A b \in Attempt : attempt'[b].stage = "idle") => guesses' <= Loaded'.failures
  BY <1>1
<1> QED
  BY <1>3, <1>4 DEF TallyInv

\* The steps of an attempt that leave the entry and the guesses alone.
LEMMA TallyReads ==
  ASSUME LoginInv, OneByOne, TallyInv, NEW a \in Attempt, attempt[a].stage # "idle",
         NEW s, attempt' = [attempt EXCEPT ![a] = s], UNCHANGED <<entry, guesses>>,
         IF s.stage = "idle" THEN guesses <= Loaded.failures ELSE Tallied(s, Loaded, guesses)
  PROVE  TallyInv'
<1>1. Loaded' = Loaded
  BY DEF Loaded
<1>2. IF s.stage = "idle" THEN guesses' <= Loaded'.failures
      ELSE Tallied(s, Loaded', guesses')
  BY <1>1
<1>3. guesses' <= Threshold
  BY DEF TallyInv
<1> QED
  BY <1>2, <1>3, TallyMoves

LEMMA TallyFacts ==
  ASSUME LoginInv, TallyInv, NEW a \in Attempt
  PROVE  /\ attempt[a] \in AttemptState /\ attempt[a].count \in Nat
         /\ Loaded \in Entry /\ Loaded.failures \in Nat /\ Loaded.locked \in Timer
         /\ guesses \in Nat /\ guesses <= Threshold
         /\ Tallied(attempt[a], Loaded, guesses) /\ Writes(attempt[a])
BY LoadedType DEF LoginInv, TypeOK, AttemptState, Entry, TallyInv

\* Whoever has read the entry and changes nothing that counts.
LEMMA TallyGoesOn ==
  ASSUME LoginInv, OneByOne, TallyInv, NEW a \in Attempt, guesses <= Loaded.failures,
         attempt[a].stage # "idle",
         NEW stage, stage \notin {"wait", "password", "failure", "set"}, Read(a, stage)
  PROVE  TallyInv'
<1> DEFINE s == [attempt[a] EXCEPT !.stage = stage]
<1>1. s.stage = stage
  BY TallyFacts DEF AttemptState
<1>2. attempt' = [attempt EXCEPT ![a] = s] /\ UNCHANGED <<entry, guesses>>
  BY DEF Read
<1> HIDE DEF s
<1>3. IF s.stage = "idle" THEN guesses <= Loaded.failures ELSE Tallied(s, Loaded, guesses)
  BY <1>1 DEF Tallied
<1> QED
  BY <1>2, <1>3, TallyReads

LEMMA TallyFinishes ==
  ASSUME LoginInv, OneByOne, TallyInv, NEW a \in Attempt, attempt[a].stage # "idle",
         guesses <= Loaded.failures, Finish(a)
  PROVE  TallyInv'
<1>1. Start.stage = "idle"
  BY DEF Start
<1> QED
  BY <1>1, TallyReads DEF Finish

\* What is read is written back with the failures it had.
LEMMA TallyRewrites ==
  ASSUME LoginInv, OneByOne, TallyInv, NEW a \in Attempt, attempt[a].stage # "idle",
         guesses <= Loaded.failures, NEW e, e.failures = Loaded.failures,
         NEW stage, stage = "password" => Loaded.failures < Threshold,
         ReadThenSet(a, e, stage)
  PROVE  TallyInv'
<1> DEFINE s == [attempt[a] EXCEPT !.stage = "set", !.copy = e, !.next = stage]
<1>1. s.stage = "set" /\ s.copy = e /\ s.next = stage
  BY TallyFacts DEF AttemptState
<1>2. attempt' = [attempt EXCEPT ![a] = s] /\ UNCHANGED <<entry, guesses>>
  BY DEF ReadThenSet
<1> HIDE DEF s
<1>3. Tallied(s, Loaded, guesses)
  BY <1>1 DEF Tallied
<1> QED
  BY <1>1, <1>2, <1>3, TallyReads

LEMMA ArriveTallies ==
  ASSUME LoginInv, OneByOne', TallyInv, NEW a \in Attempt, Arrive(a)
  PROVE  TallyInv'
<1> DEFINE s == [attempt[a] EXCEPT !.stage = "cooldown"]
<1>1. /\ s.stage = "cooldown" /\ attempt'[a] = s
      /\ \A b \in Attempt \ {a} : attempt'[b] = attempt[b]
      /\ attempt[a].stage = "idle"
  BY DEF Arrive, LoginInv, TypeOK, AttemptState
<1> HIDE DEF s
<1>2. ASSUME NEW b \in Attempt PROVE attempt[b].stage = "idle"
  <2>1. CASE b = a
    BY <1>1, <2>1
  <2>2. CASE b # a
    <3>1. attempt'[b] = attempt[b] /\ attempt'[a].stage # "idle"
      BY <1>1, <2>2
    <3> QED
      BY <2>2, <3>1 DEF OneByOne
  <2> QED
    BY <2>1, <2>2
<1>3. Loaded' = Loaded /\ guesses' = guesses
  BY DEF Arrive, Loaded
<1>4. ASSUME NEW b \in Attempt PROVE Tallied(attempt'[b], Loaded, guesses)
  BY <1>1, <1>2 DEF Tallied, TallyInv
<1> QED
  BY <1>1, <1>2, <1>3, <1>4 DEF TallyInv

LEMMA CheckCooldownTallies ==
  ASSUME LoginInv, OneByOne, TallyInv, NEW a \in Attempt, CheckCooldown(a)
  PROVE  TallyInv'
<1>1. attempt[a].stage = "cooldown" /\ guesses <= Loaded.failures /\ Loaded \in Entry
  BY TallyFacts DEF CheckCooldown, Tallied
<1>2. CASE Read(a, "count")
  BY <1>1, <1>2, TallyGoesOn
<1>3. CASE Finish(a)
  BY <1>1, <1>3, TallyFinishes
<1>4. CASE ReadThenSet(a, [Loaded EXCEPT !.cooldown = None], "count")
  <2>1. [Loaded EXCEPT !.cooldown = None].failures = Loaded.failures
    BY <1>1 DEF Entry
  <2> QED
    BY <1>1, <1>4, <2>1, TallyRewrites
<1>5. Read(a, "count") \/ Finish(a)
      \/ ReadThenSet(a, [Loaded EXCEPT !.cooldown = None], "count")
  BY DEF CheckCooldown
<1> QED
  BY <1>2, <1>3, <1>4, <1>5

LEMMA CountFailuresTallies ==
  ASSUME LoginInv, OneByOne, TallyInv, NEW a \in Attempt, CountFailures(a)
  PROVE  TallyInv'
<1> DEFINE s == [attempt[a] EXCEPT !.stage = "wait", !.count = Loaded.failures]
<1>1. attempt[a].stage = "count" /\ guesses <= Loaded.failures
  BY TallyFacts DEF CountFailures, Tallied
<1>2. s.stage = "wait" /\ s.count = Loaded.failures
  BY TallyFacts DEF AttemptState
<1>3. attempt' = [attempt EXCEPT ![a] = s] /\ UNCHANGED <<entry, guesses>>
  BY DEF CountFailures
<1> HIDE DEF s
<1>4. Tallied(s, Loaded, guesses)
  BY <1>1, <1>2 DEF Tallied
<1> QED
  BY <1>1, <1>2, <1>3, <1>4, TallyReads

LEMMA CheckLockTallies ==
  ASSUME LoginInv, OneByOne, TallyInv, NEW a \in Attempt, CheckLock(a)
  PROVE  TallyInv'
<1>1. /\ attempt[a].stage = "wait" /\ guesses <= Loaded.failures /\ Loaded \in Entry
      /\ Loaded.failures \in {0, attempt[a].count}
  BY TallyFacts DEF CheckLock, Tallied
<1>2. /\ Admitted(a) \in {"expired", "password"}
      /\ Admitted(a) = "password" => Loaded.failures < Threshold
  BY <1>1, TallyFacts, LimitTypes DEF Admitted
<1>3. CASE Finish(a)
  BY <1>1, <1>3, TallyFinishes
<1>4. CASE ReadThenSet(a, [Loaded EXCEPT !.locked = None], Admitted(a))
  <2>1. [Loaded EXCEPT !.locked = None].failures = Loaded.failures
    BY <1>1 DEF Entry
  <2> QED
    BY <1>1, <1>2, <1>4, <2>1, TallyRewrites
<1>5. CASE Read(a, Admitted(a))
  <2> DEFINE s == [attempt[a] EXCEPT !.stage = Admitted(a)]
  <2>1. s.stage = Admitted(a)
    BY TallyFacts DEF AttemptState
  <2>2. attempt' = [attempt EXCEPT ![a] = s] /\ UNCHANGED <<entry, guesses>>
    BY <1>5 DEF Read
  <2> HIDE DEF s
  <2>3. s.stage # "idle" /\ Tallied(s, Loaded, guesses)
    BY <1>1, <1>2, <2>1 DEF Tallied
  <2> QED
    BY <1>1, <2>2, <2>3, TallyReads
<1>6. Finish(a) \/ Read(a, Admitted(a))
      \/ ReadThenSet(a, [Loaded EXCEPT !.locked = None], Admitted(a))
  BY DEF CheckLock
<1> QED
  BY <1>3, <1>4, <1>5, <1>6

\* The commands that erase the entry start the count again.
LEMMA ErasureTallies ==
  ASSUME LoginInv, OneByOne, TallyInv, NEW a \in Attempt,
         ClearExpired(a) \/ ClearOnSuccess(a)
  PROVE  TallyInv'
<1> DEFINE s == IF ClearExpired(a) THEN [attempt[a] EXCEPT !.stage = "password", !.count = 0]
                ELSE Start
<1>1. s.stage \in {"password", "idle"}
  BY TallyFacts DEF AttemptState, Start
<1>2. /\ attempt[a].stage # "idle" /\ attempt' = [attempt EXCEPT ![a] = s]
      /\ guesses' = 0 /\ entry' = None
  BY DEF ClearExpired, ClearOnSuccess, Overwrite
<1> HIDE DEF s
<1>3. Loaded' = Blank /\ Blank.failures = 0
  BY <1>2 DEF Loaded, Blank
<1>4. IF s.stage = "idle" THEN guesses' <= Loaded'.failures
      ELSE Tallied(s, Loaded', guesses')
  BY <1>1, <1>2, <1>3, LimitTypes DEF Tallied
<1>5. guesses' <= Threshold
  BY <1>2, LimitTypes
<1> QED
  BY <1>2, <1>4, <1>5, TallyMoves

LEMMA WrongPasswordTallies ==
  ASSUME LoginInv, OneByOne, TallyInv, NEW a \in Attempt, WrongPassword(a)
  PROVE  TallyInv'
<1> DEFINE s == [attempt[a] EXCEPT !.stage = "failure"]
<1>1. /\ attempt[a].stage = "password" /\ guesses <= Loaded.failures
      /\ Loaded.failures < Threshold
  BY TallyFacts DEF WrongPassword, Tallied
<1>2. s.stage = "failure"
  BY TallyFacts DEF AttemptState
<1>3. attempt' = [attempt EXCEPT ![a] = s] /\ guesses' = guesses + 1 /\ Loaded' = Loaded
  BY DEF WrongPassword, Loaded
<1> HIDE DEF s
<1>4. guesses' <= Threshold /\ guesses' <= Loaded.failures + 1
  BY <1>1, <1>3, TallyFacts, LimitTypes
<1>5. Tallied(s, Loaded, guesses')
  BY <1>1, <1>2, <1>4 DEF Tallied
<1> QED
  BY <1>1, <1>2, <1>3, <1>4, <1>5, TallyMoves

LEMMA RegisterFailureTallies ==
  ASSUME LoginInv, OneByOne, TallyInv, NEW a \in Attempt, RegisterFailure(a)
  PROVE  TallyInv'
<1> DEFINE locks == Loaded.failures + 1 >= Threshold
           next == IF SoftThreshold > 0 THEN "recount" ELSE IF locks THEN "after" ELSE "idle"
           s == [attempt[a] EXCEPT !.stage = "set", !.copy = Failed, !.next = next,
                                   !.locks = locks]
<1>1. attempt[a].stage = "failure" /\ guesses <= Loaded.failures + 1 /\ next # "password"
  BY TallyFacts DEF RegisterFailure, Tallied
<1>2. attempt' = [attempt EXCEPT ![a] = s] /\ UNCHANGED <<entry, guesses>>
  BY DEF RegisterFailure, Failed
<1> HIDE DEF next, locks
<1>3. s.stage = "set" /\ s.copy = Failed /\ s.next = next
  BY TallyFacts DEF AttemptState
<1> HIDE DEF s
<1>4. guesses <= Failed.failures
  <2>1. Failed.failures = IF Loaded.failures + 1 <= Enough THEN Loaded.failures + 1 ELSE Enough
    BY TallyFacts DEF Failed, Entry
  <2> QED
    BY <1>1, <2>1, TallyFacts, LimitTypes
<1>5. Tallied(s, Loaded, guesses)
  BY <1>1, <1>3, <1>4 DEF Tallied
<1> QED
  BY <1>1, <1>2, <1>3, <1>5, TallyReads

LEMMA AnswerTallies ==
  ASSUME LoginInv, OneByOne, TallyInv, NEW a \in Attempt,
         CheckSoftLock(a) \/ ActivateCooldown(a) \/ ReportWait(a)
  PROVE  TallyInv'
<1>1. /\ attempt[a].stage \in {"recount", "soft", "after"}
      /\ guesses <= Loaded.failures /\ Loaded \in Entry
  <2>1. attempt[a].stage \in {"recount", "soft", "after"}
    BY DEF CheckSoftLock, ActivateCooldown, ReportWait
  <2> QED
    BY <2>1, TallyFacts DEF Tallied
<1>2. Report(a) \in {"after", "idle"}
  BY DEF Report
<1>3. CASE Finish(a)
  BY <1>1, <1>3, TallyFinishes
<1>4. CASE Read(a, "soft") \/ Read(a, Report(a))
  BY <1>1, <1>2, <1>4, TallyGoesOn
<1>5. CASE \/ ReadThenSet(a, [Loaded EXCEPT !.cooldown = Cooldown], Report(a))
           \/ ReadThenSet(a, [Loaded EXCEPT !.locked = None], "idle")
  <2>1. /\ [Loaded EXCEPT !.cooldown = Cooldown].failures = Loaded.failures
        /\ [Loaded EXCEPT !.locked = None].failures = Loaded.failures
    BY <1>1 DEF Entry
  <2> QED
    BY <1>1, <1>2, <1>5, <2>1, TallyRewrites
<1>6. \/ Finish(a) \/ Read(a, "soft") \/ Read(a, Report(a))
      \/ ReadThenSet(a, [Loaded EXCEPT !.cooldown = Cooldown], Report(a))
      \/ ReadThenSet(a, [Loaded EXCEPT !.locked = None], "idle")
  BY DEF CheckSoftLock, ActivateCooldown, ReportWait
<1> QED
  BY <1>3, <1>4, <1>5, <1>6

LEMMA SaveTallies ==
  ASSUME LoginInv, OneByOne, TallyInv, NEW a \in Attempt, Save(a)
  PROVE  TallyInv'
<1> DEFINE e == attempt[a].copy
           goes == [attempt[a] EXCEPT !.stage = attempt[a].next, !.copy = None, !.next = "idle"]
           s == IF attempt[a].next = "idle" THEN Start ELSE goes
<1>1. /\ attempt[a].stage = "set" /\ e \in Entry /\ e # None /\ e.failures \in Nat
      /\ attempt[a].next \in {"count", "expired", "password", "recount", "after", "idle"}
      /\ guesses <= e.failures \/ e.locked # None
      /\ attempt[a].next = "password" => e.failures < Threshold
  BY TallyFacts, NoEntryAssumption DEF Save, Tallied, Writes, Entry
<1>2. /\ attempt' = [attempt EXCEPT ![a] = s]
      /\ guesses' = IF e.locked # None THEN 0 ELSE guesses
      /\ Loaded' = e
  BY <1>1 DEF Save, Overwrite, Loaded
<1>3. s.stage = attempt[a].next
  BY TallyFacts DEF AttemptState, Start
<1> HIDE DEF s, e
<1>4. guesses' <= e.failures /\ guesses' <= Threshold
  BY <1>1, <1>2, TallyFacts, LimitTypes
<1>5. Tallied(s, e, guesses')
  BY <1>1, <1>3, <1>4 DEF Tallied
<1> QED
  BY <1>1, <1>2, <1>4, <1>5, TallyMoves

LEMMA TickTallies ==
  ASSUME LoginInv, TallyInv, Tick
  PROVE  TallyInv'
<1>1. Loaded'.failures = Loaded.failures
  <2>1. CASE entry = None
    BY <2>1 DEF Tick, Older, Loaded
  <2>2. CASE entry # None
    <3>1. entry \in Entry /\ Older(entry) \in Entry /\ Older(entry) # None
      BY <2>2, OlderType, NoEntryAssumption DEF LoginInv, TypeOK
    <3> QED
      BY <2>2, <3>1, OlderType DEF Tick, Loaded
  <2> QED
    BY <2>1, <2>2
<1>2. guesses' = guesses
  BY DEF Tick
<1>3. ASSUME NEW a \in Attempt
      PROVE  /\ attempt'[a].stage = attempt[a].stage /\ attempt'[a].next = attempt[a].next
             /\ attempt'[a].count = attempt[a].count
             /\ attempt'[a].copy = Older(attempt[a].copy)
  BY TallyFacts DEF Tick, AttemptState
<1>4. ASSUME NEW a \in Attempt
      PROVE  Tallied(attempt'[a], Loaded', guesses)
  <2>1. Tallied(attempt[a], Loaded, guesses) /\ Writes(attempt[a])
    BY TallyFacts
  <2>2. attempt[a].stage = "set" =>
          /\ Older(attempt[a].copy).failures = attempt[a].copy.failures
          /\ attempt[a].copy.locked # None => Older(attempt[a].copy).locked # None
    BY <2>1, OlderType, ElapsedType DEF Writes, Entry
  <2> QED
    BY <1>1, <1>3, <2>1, <2>2 DEF Tallied
<1> QED
  BY <1>1, <1>2, <1>3, <1>4 DEF TallyInv

LEMMA ForgetTallies ==
  ASSUME LoginInv, TallyInv, Forget
  PROVE  TallyInv'
<1>1. /\ Loaded' = Blank /\ Blank.failures = 0 /\ Blank.locked = None
      /\ guesses' = 0 /\ attempt' = attempt
  BY DEF Forget, Loaded, Blank
<1>2. ASSUME NEW a \in Attempt
      PROVE  Tallied(attempt[a], Blank, 0)
  <2>1. Tallied(attempt[a], Loaded, guesses) /\ Writes(attempt[a])
    BY TallyFacts
  <2>2. attempt[a].stage = "set" => 0 <= attempt[a].copy.failures
    BY <2>1 DEF Writes, Entry
  <2> QED
    BY <1>1, <2>1, <2>2, LimitTypes DEF Tallied
<1> QED
  BY <1>1, <1>2, LimitTypes DEF TallyInv

LEMMA TallyStepKeeps ==
  ASSUME LoginInv, OneByOne, OneByOne', TallyInv, [Next]_vars
  PROVE  TallyInv'
<1>1. ASSUME NEW a \in Attempt, GiveUp(a)
      PROVE  TallyInv'
  <2>1. attempt[a].stage = "password" /\ guesses <= Loaded.failures /\ Finish(a)
    BY <1>1, TallyFacts DEF GiveUp, Tallied
  <2> QED
    BY <2>1, TallyFinishes
<1>2. ASSUME NEW a \in Attempt, RightPassword(a)
      PROVE  TallyInv'
  <2>1. attempt[a].stage = "password" /\ guesses <= Loaded.failures /\ Read(a, "success")
    BY <1>2, TallyFacts DEF RightPassword, Tallied, Read
  <2> QED
    BY <2>1, TallyGoesOn
<1>3. CASE UNCHANGED vars
  BY <1>3 DEF vars, TallyInv, Tallied, Loaded
<1> QED
  BY <1>1, <1>2, <1>3, ArriveTallies, CheckCooldownTallies, CountFailuresTallies,
     CheckLockTallies, ErasureTallies, WrongPasswordTallies, RegisterFailureTallies,
     AnswerTallies, SaveTallies, TickTallies, ForgetTallies DEF Next

\* Where logins for an address come one after the other, no more wrong passwords
\* than LOGIN_BACKOFF_START_AFTER are tried before register_failure sets a lock or
\* the count starts again, with or without the soft lock: it takes lost updates to
\* try more, and GuessesStayBounded below says how many.
THEOREM OneByOneIsBounded == Spec /\ []OneByOne => [](guesses <= Threshold)
<1>1. Init => TallyInv
  <2> SUFFICES ASSUME Init PROVE TallyInv
    OBVIOUS
  <2>1. Loaded.failures = 0 /\ guesses = 0 /\ \A a \in Attempt : attempt[a].stage = "idle"
    BY DEF Init, Loaded, Blank, Start
  <2> QED
    BY <2>1, LimitTypes DEF TallyInv, Tallied
<1>2. LoginInv /\ OneByOne /\ OneByOne' /\ TallyInv /\ [Next]_vars => TallyInv'
  BY TallyStepKeeps
<1>3. TallyInv => guesses <= Threshold
  BY DEF TallyInv
<1> QED
  BY <1>1, <1>2, <1>3, LoginInvariant, PTL DEF Spec

-----------------------------------------------------------------------------
(* Induction and recursion                                                 *)

\* Induction for a set of numbers: a number outside it would have a least one.
LEMMA FromZero ==
  ASSUME NEW S, 0 \in S, \A n \in Nat : n \in S => n + 1 \in S
  PROVE  Nat \subseteq S
<1> DEFINE R == OpToRel(<, Nat)
           T == Nat \ S
<1>1. IsWellFoundedOn(R, Nat)
  BY NatLessThanWellFounded
<1>2. \A x, y \in Nat : x < y => <<x, y>> \in R
  BY DEF OpToRel
<1> HIDE DEF R
<1>3. SUFFICES ASSUME T # {} PROVE FALSE
  OBVIOUS
<1>4. PICK x \in T : \A y \in T : ~ (<<y, x>> \in R)
  BY <1>1, <1>3, WFMin
<1>5. x # 0 /\ x \in Nat
  BY <1>4
<1>6. x - 1 \in Nat /\ x - 1 < x /\ (x - 1) + 1 = x
  BY <1>5
<1>7. x - 1 \notin T
  BY <1>2, <1>4, <1>5, <1>6
<1> QED
  BY <1>4, <1>6, <1>7

IsIteration(g, X, x, f) ==
  g \in [Nat -> X] /\ g[0] = x /\ \A n \in Nat : g[n + 1] = f[n][g[n]]

\* A value and a step for each number make a sequence of values.
LEMMA Iteration ==
  ASSUME NEW X, NEW x, x \in X, NEW f, f \in [Nat -> [X -> X]]
  PROVE  \E g : IsIteration(g, X, x, f)
<1> DEFINE Begins(g, n) ==
             g \in [0 .. n -> X] /\ g[0] = x /\ \A i \in 0 .. n - 1 : g[i + 1] = f[i][g[i]]
           Reach == {n \in Nat : \E g : Begins(g, n)}
           Agree == {i \in Nat : \A m, n \in Nat : \A g, h :
                       i <= m /\ i <= n /\ Begins(g, m) /\ Begins(h, n) => g[i] = h[i]}
<1>1. Nat \subseteq Reach
  <2>1. 0 \in Reach
    <3>1. Begins([i \in 0 .. 0 |-> x], 0)
      OBVIOUS
    <3> QED
      BY <3>1
  <2>2. ASSUME NEW n \in Nat, n \in Reach
        PROVE  n + 1 \in Reach
    <3>1. PICK g : Begins(g, n)
      BY <2>2
    <3> DEFINE h == [i \in 0 .. n + 1 |-> IF i <= n THEN g[i] ELSE f[n][g[n]]]
    <3>2. g \in [0 .. n -> X] /\ n \in 0 .. n /\ f[n][g[n]] \in X
      BY <3>1
    <3>3. h \in [0 .. n + 1 -> X] /\ h[0] = x
      BY <3>1, <3>2
    <3>4. ASSUME NEW i \in 0 .. (n + 1) - 1
          PROVE  h[i + 1] = f[i][h[i]]
      <4>1. i <= n /\ i \in 0 .. n /\ i \in 0 .. n + 1 /\ i + 1 \in 0 .. n + 1
        OBVIOUS
      <4>2. CASE i = n
        BY <4>1, <4>2
      <4>3. CASE i # n
        <5>1. i \in 0 .. n - 1 /\ i + 1 <= n
          BY <4>1, <4>3
        <5>2. h[i + 1] = g[i + 1] /\ h[i] = g[i]
          BY <4>1, <5>1
        <5> QED
          BY <3>1, <5>1, <5>2
      <4> QED
        BY <4>2, <4>3
    <3> HIDE DEF h
    <3>5. Begins(h, n + 1)
      BY <3>3, <3>4
    <3> QED
      BY <3>5
  <2> HIDE DEF Reach
  <2> QED
    BY <2>1, <2>2, FromZero
<1>2. Nat \subseteq Agree
  <2>1. 0 \in Agree
    OBVIOUS
  <2>2. ASSUME NEW i \in Nat, i \in Agree
        PROVE  i + 1 \in Agree
    <3>1. ASSUME NEW m \in Nat, NEW n \in Nat, NEW g, NEW h, i + 1 <= m, i + 1 <= n,
                 Begins(g, m), Begins(h, n)
          PROVE  g[i + 1] = h[i + 1]
      <4>1. i <= m /\ i <= n /\ i \in 0 .. m - 1 /\ i \in 0 .. n - 1
        BY <3>1
      <4>2. g[i] = h[i]
        <5> HIDE DEF Begins
        <5> QED
          BY <2>2, <3>1, <4>1
      <4> QED
        BY <3>1, <4>1, <4>2
    <3> HIDE DEF Begins
    <3> QED
      BY <3>1
  <2> HIDE DEF Agree
  <2> QED
    BY <2>1, <2>2, FromZero
<1> DEFINE start == [n \in Nat |-> CHOOSE g : Begins(g, n)]
           all == [n \in Nat |-> start[n][n]]
<1>3. ASSUME NEW n \in Nat
      PROVE  Begins(start[n], n)
  <2>1. \E g : Begins(g, n)
    BY <1>1
  <2> HIDE DEF Begins
  <2> QED
    BY <2>1
<1>4. ASSUME NEW n \in Nat
      PROVE  all[n] = start[n][n] /\ all[n] \in X
  <2>1. n \in 0 .. n
    OBVIOUS
  <2> HIDE DEF start
  <2> QED
    BY <1>3, <2>1
<1>5. ASSUME NEW n \in Nat
      PROVE  all[n + 1] = f[n][all[n]]
  <2>1. n + 1 \in Nat /\ n <= n + 1 /\ n <= n /\ n \in 0 .. (n + 1) - 1
    OBVIOUS
  <2>2. Begins(start[n], n) /\ Begins(start[n + 1], n + 1)
    BY <1>3, <2>1
  <2>3. start[n + 1][n] = start[n][n]
    <3> HIDE DEF Begins, start
    <3> QED
      BY <1>2, <2>1, <2>2
  <2>4. start[n + 1][n + 1] = f[n][start[n + 1][n]]
    <3> HIDE DEF start
    <3> QED
      BY <2>1, <2>2
  <2>5. all[n + 1] = start[n + 1][n + 1] /\ all[n] = start[n][n]
    BY <1>4, <2>1
  <2> QED
    BY <2>3, <2>4, <2>5
<1>6. all[0] = x
  <2>1. Begins(start[0], 0) /\ all[0] = start[0][0]
    BY <1>3, <1>4
  <2> HIDE DEF start, all
  <2> QED
    BY <2>1
<1>7. all \in [Nat -> X]
  <2> HIDE DEF start
  <2> QED
    BY <1>4
<1> HIDE DEF all
<1> QED
  BY <1>5, <1>6, <1>7 DEF IsIteration

-----------------------------------------------------------------------------
(* Counting multisets                                                      *)

IsSums(s, t) ==
  s \in [Nat -> Nat] /\ s[0] = 0 /\ \A w \in Nat : s[w + 1] = s[w] + t[w + 1]

\* t[1], t[1] + t[2], ...
Sums(t) == CHOOSE s : IsSums(s, t)

IsMultisets(M) ==
  /\ M \in [Nat -> [Nat -> Nat]]
  /\ M[0] = [m \in Nat |-> 1]
  /\ \A w \in Nat : IsSums(M[w + 1], M[w])

\* Multisets[w][m + 1] is the number of multisets of w elements out of m + 1.
Multisets == CHOOSE M : IsMultisets(M)

LEMMA SumsExist ==
  ASSUME NEW t \in [Nat -> Nat]
  PROVE  IsSums(Sums(t), t)
<1> DEFINE f == [n \in Nat |-> [x \in Nat |-> x + t[n + 1]]]
<1>1. f \in [Nat -> [Nat -> Nat]]
  OBVIOUS
<1>2. \A n, x \in Nat : f[n][x] = x + t[n + 1]
  OBVIOUS
<1> HIDE DEF f
<1>3. PICK g : IsIteration(g, Nat, 0, f)
  BY <1>1, Iteration
<1>4. IsSums(g, t)
  BY <1>2, <1>3 DEF IsSums, IsIteration
<1> QED
  BY <1>4 DEF Sums

LEMMA MultisetsExist == IsMultisets(Multisets)
<1> DEFINE f == [n \in Nat |-> [t \in [Nat -> Nat] |-> Sums(t)]]
           ones == [m \in Nat |-> 1]
<1>1. \A t \in [Nat -> Nat] : Sums(t) \in [Nat -> Nat] /\ IsSums(Sums(t), t)
  BY SumsExist DEF IsSums
<1>2. f \in [Nat -> [[Nat -> Nat] -> [Nat -> Nat]]] /\ ones \in [Nat -> Nat]
  BY <1>1
<1>3. \A n \in Nat, t \in [Nat -> Nat] : f[n][t] = Sums(t)
  OBVIOUS
<1> HIDE DEF f
<1>4. PICK M : IsIteration(M, [Nat -> Nat], ones, f)
  <2> HIDE DEF ones
  <2> QED
    BY <1>2, Iteration
<1>5. ASSUME NEW n \in Nat
      PROVE  IsSums(M[n + 1], M[n])
  <2>1. M[n] \in [Nat -> Nat]
    BY <1>4 DEF IsIteration
  <2>2. M[n + 1] = Sums(M[n])
    BY <1>3, <1>4, <2>1 DEF IsIteration
  <2> QED
    BY <1>1, <2>1, <2>2
<1>6. IsMultisets(M)
  BY <1>4, <1>5 DEF IsMultisets, IsIteration
<1> QED
  BY <1>6 DEF Multisets

\* The multiset coefficients and the rule they are computed by.
LEMMA MultisetsOf ==
  ASSUME NEW w \in Nat, NEW m \in Nat
  PROVE  /\ Multisets[w] \in [Nat -> Nat] /\ Multisets[w][m] \in Nat
         /\ Multisets[0][m] = 1
         /\ Multisets[w + 1][0] = 0
         /\ Multisets[w + 1][m + 1] = Multisets[w + 1][m] + Multisets[w][m + 1]
         /\ Multisets[w][m] <= Multisets[w][m + 1]
<1>1. /\ Multisets[w] \in [Nat -> Nat] /\ Multisets[w][m] \in Nat
      /\ \A k \in Nat : Multisets[0][k] = 1
  BY MultisetsExist DEF IsMultisets
<1>2. \A v, k \in Nat : /\ Multisets[v][k] \in Nat
                        /\ Multisets[v + 1][0] = 0
                        /\ Multisets[v + 1][k + 1] = Multisets[v + 1][k] + Multisets[v][k + 1]
  <2> TAKE v, k \in Nat
  <2>1. Multisets[v][k] \in Nat /\ IsSums(Multisets[v + 1], Multisets[v])
    BY MultisetsExist DEF IsMultisets
  <2> QED
    BY <2>1 DEF IsSums
<1>3. Multisets[w][m] <= Multisets[w][m + 1]
  <2>1. CASE w = 0
    <3>1. Multisets[0][m] = 1 /\ Multisets[0][m + 1] = 1
      BY <1>1
    <3> QED
      BY <2>1, <3>1
  <2>2. CASE w # 0
    <3> DEFINE v == w - 1
    <3>1. v \in Nat /\ v + 1 = w /\ m + 1 \in Nat
      BY <2>2
    <3> HIDE DEF v
    <3>2. /\ Multisets[w][m + 1] = Multisets[w][m] + Multisets[v][m + 1]
          /\ Multisets[w][m] \in Nat /\ Multisets[v][m + 1] \in Nat
      BY <1>2, <3>1
    <3> QED
      BY <3>2
  <2> QED
    BY <2>1, <2>2
<1> QED
  BY <1>1, <1>2, <1>3

LEMMA MultisetsGrow ==
  ASSUME NEW w \in Nat, NEW m \in Nat, NEW k \in Nat, m <= k
  PROVE  Multisets[w][m] <= Multisets[w][k]
<1> DEFINE S == {d \in Nat : Multisets[w][m] <= Multisets[w][m + d]}
<1>1. 0 \in S
  <2>1. Multisets[w][m] \in Nat /\ m + 0 = m
    BY MultisetsOf
  <2> QED
    BY <2>1
<1>2. ASSUME NEW d \in Nat, d \in S
      PROVE  d + 1 \in S
  <2>1. m + d \in Nat /\ m + (d + 1) = (m + d) + 1 /\ d + 1 \in Nat
    OBVIOUS
  <2>2. /\ Multisets[w][m + d] <= Multisets[w][(m + d) + 1]
        /\ Multisets[w][m] \in Nat /\ Multisets[w][m + d] \in Nat
        /\ Multisets[w][(m + d) + 1] \in Nat
    BY <2>1, MultisetsOf
  <2>3. Multisets[w][m] <= Multisets[w][m + d]
    BY <1>2
  <2>4. Multisets[w][m] <= Multisets[w][m + (d + 1)]
    BY <2>1, <2>2, <2>3
  <2> QED
    BY <2>1, <2>4
<1> HIDE DEF S
<1>3. k - m \in S
  BY <1>1, <1>2, FromZero
<1> QED
  BY <1>3 DEF S

LEMMA Factorials ==
  ASSUME NEW n \in Nat
  PROVE  /\ factorial[0] = 1
         /\ factorial[n] \in Nat \ {0}
         /\ factorial[n + 1] = (n + 1) * factorial[n]
<1> DEFINE f == [k \in Nat |-> [x \in Nat |-> (k + 1) * x]]
           Fact(g) == g = [k \in Nat |-> IF k = 0 THEN 1 ELSE k * g[k - 1]]
<1>1. f \in [Nat -> [Nat -> Nat]] /\ \A k, x \in Nat : f[k][x] = (k + 1) * x
  OBVIOUS
<1> HIDE DEF f
<1>2. PICK g : IsIteration(g, Nat, 1, f)
  BY <1>1, Iteration
<1>3. ASSUME NEW k \in Nat
      PROVE  g[k] = IF k = 0 THEN 1 ELSE k * g[k - 1]
  <2>1. CASE k = 0
    BY <1>2, <2>1 DEF IsIteration
  <2>2. CASE k # 0
    <3> DEFINE j == k - 1
    <3>1. j \in Nat /\ j + 1 = k
      BY <2>2
    <3> HIDE DEF j
    <3>2. g[j + 1] = f[j][g[j]] /\ g[j] \in Nat
      BY <1>2, <3>1 DEF IsIteration
    <3>3. f[j][g[j]] = (j + 1) * g[j]
      BY <1>1, <3>1, <3>2
    <3>4. g[k] = k * g[j]
      BY <3>1, <3>2, <3>3
    <3> QED
      BY <2>2, <3>4 DEF j
  <2> QED
    BY <2>1, <2>2
<1>4. Fact(g)
  BY <1>2, <1>3 DEF IsIteration
<1>5. Fact(factorial)
  BY <1>4 DEF factorial
<1>6. factorial[0] = 1
  BY <1>5
<1>7. \A k \in Nat : factorial[k + 1] = (k + 1) * factorial[k]
  BY <1>5
<1> DEFINE S == {k \in Nat : factorial[k] \in Nat \ {0}}
<1>8. 0 \in S
  BY <1>6
<1>9. ASSUME NEW k \in Nat, k \in S
      PROVE  k + 1 \in S
  <2>1. factorial[k + 1] = (k + 1) * factorial[k] /\ factorial[k] \in Nat /\ factorial[k] > 0
    BY <1>7, <1>9
  <2>2. \A x \in Nat : x > 0 => (k + 1) * x \in Nat /\ (k + 1) * x > 0
    OBVIOUS
  <2> QED
    BY <2>1, <2>2
<1>10. n \in S
  <2> HIDE DEF S
  <2> QED
    BY <1>8, <1>9, FromZero
<1> QED
  BY <1>6, <1>7, <1>10

\* Multisets as quotients of factorials.
LEMMA MultisetsAreChosen ==
  ASSUME NEW w \in Nat, NEW m \in Nat
  PROVE  Multisets[w][m + 1] * (factorial[w] * factorial[m]) = factorial[w + m]
<1> DEFINE Matches(v, k) ==
             Multisets[v][k + 1] * (factorial[v] * factorial[k]) = factorial[v + k]
           S == {v \in Nat : \A k \in Nat : Matches(v, k)}
<1>1. 0 \in S
  <2>1. ASSUME NEW k \in Nat PROVE Matches(0, k)
    <3>1. Multisets[0][k + 1] = 1 /\ factorial[0] = 1 /\ factorial[k] \in Nat /\ 0 + k = k
      <4>1. k + 1 \in Nat /\ 0 \in Nat /\ 0 + k = k
        OBVIOUS
      <4>2. factorial[0] = 1 /\ factorial[k] \in Nat
        BY <4>1, Factorials
      <4>3. Multisets[0][k + 1] = 1
        BY <4>1, MultisetsOf
      <4> QED
        BY <4>1, <4>2, <4>3
    <3> QED
      BY <3>1
  <2> QED
    BY <2>1
<1>2. ASSUME NEW v \in Nat, v \in S
      PROVE  v + 1 \in S
  <2> DEFINE R == {k \in Nat : Matches(v + 1, k)}
             fv == factorial[v]
  <2>1. fv \in Nat /\ factorial[v + 1] = (v + 1) * fv /\ v + 1 \in Nat
    BY Factorials
  <2>2. 0 \in R
    <3>1. /\ Multisets[v + 1][0 + 1] = Multisets[v + 1][0] + Multisets[v][0 + 1]
          /\ Multisets[v + 1][0] = 0 /\ Multisets[v][0 + 1] \in Nat
      BY MultisetsOf
    <3>2. Multisets[v][0 + 1] * (fv * factorial[0]) = factorial[v + 0] /\ factorial[0] = 1
      BY <1>2, Factorials
    <3> DEFINE d == Multisets[v][0 + 1]
    <3>3. d \in Nat /\ Multisets[v + 1][0 + 1] = d /\ d * fv = fv
      BY <2>1, <3>1, <3>2
    <3> HIDE DEF fv, d
    <3>4. d * (((v + 1) * fv) * 1) = (v + 1) * (d * fv)
      BY <2>1, <3>3
    <3>5. d * (factorial[v + 1] * factorial[0]) = factorial[v + 1]
      BY <2>1, <3>2, <3>3, <3>4
    <3> QED
      BY <2>1, <3>3, <3>5
  <2>3. ASSUME NEW k \in Nat, k \in R
        PROVE  k + 1 \in R
    <3> DEFINE d == Multisets[v + 1][k + 1]
               e == Multisets[v][k + 2]
               fk == factorial[k]
               g == factorial[v + (k + 1)]
    <3>1. d \in Nat /\ e \in Nat /\ fk \in Nat /\ g \in Nat /\ k + 1 \in Nat
      BY MultisetsOf, Factorials
    <3>2. factorial[k + 1] = (k + 1) * fk
      BY Factorials
    <3>3. d * (((v + 1) * fv) * fk) = g
      <4>1. (v + 1) + k = v + (k + 1)
        OBVIOUS
      <4> QED
        BY <2>1, <2>3, <4>1
    <3>4. e * (fv * ((k + 1) * fk)) = g
      <4>1. Matches(v, k + 1) /\ (k + 1) + 1 = k + 2
        BY <1>2
      <4> QED
        BY <3>2, <4>1
    <3>5. Multisets[v + 1][(k + 1) + 1] = d + e
      <4>1. (k + 1) + 1 = k + 2
        OBVIOUS
      <4> QED
        BY <2>1, <3>1, <4>1, MultisetsOf
    <3>6. factorial[(v + 1) + (k + 1)] = (v + (k + 2)) * g
      <4>1. (v + 1) + (k + 1) = (v + (k + 1)) + 1 /\ v + (k + 1) \in Nat
            /\ (v + (k + 1)) + 1 = v + (k + 2)
        OBVIOUS
      <4> QED
        BY <4>1, Factorials
    <3> HIDE DEF d, e, fk, g, fv
    <3>7. (d + e) * (((v + 1) * fv) * ((k + 1) * fk)) = (v + (k + 2)) * g
      <4> DEFINE x == (v + 1) * fv
                 y == (k + 1) * fk
      <4>1. x \in Nat /\ y \in Nat
        BY <2>1, <3>1
      <4>2. d * (x * y) = (k + 1) * (d * (x * fk))
        <5> DEFINE c == k + 1
                   z == x * fk
        <5>1. c \in Nat /\ z \in Nat /\ d \in Nat /\ fk \in Nat
          BY <3>1, <4>1
        <5>2. x * y = c * z
          BY <4>1, <5>1
        <5> HIDE DEF c, x, y
        <5>3. d * (c * z) = c * (d * z)
          <6> HIDE DEF z
          <6> QED
            BY <5>1
        <5> QED
          BY <5>2, <5>3 DEF c
      <4>3. e * (x * y) = (v + 1) * (e * (fv * y))
        BY <2>1, <3>1, <4>1
      <4> HIDE DEF x, y
      <4>4. d * (x * y) = (k + 1) * g /\ e * (x * y) = (v + 1) * g
        BY <3>3, <3>4, <4>2, <4>3 DEF x, y
      <4>5. (d + e) * (x * y) = d * (x * y) + e * (x * y)
        BY <3>1, <4>1
      <4>6. (k + 1) * g + (v + 1) * g = (v + (k + 2)) * g
        BY <3>1
      <4> QED
        BY <4>4, <4>5, <4>6 DEF x, y
    <3>8. Matches(v + 1, k + 1)
      BY <2>1, <3>2, <3>5, <3>6, <3>7
    <3> HIDE DEF Matches
    <3> QED
      BY <3>1, <3>8
  <2> HIDE DEF R
  <2>4. Nat \subseteq R
    BY <2>2, <2>3, FromZero
  <2> QED
    BY <2>1, <2>4 DEF R
<1> HIDE DEF S
<1>3. w \in S
  BY <1>1, <1>2, FromZero
<1> QED
  BY <1>3 DEF S

LEMMA Chosen ==
  ASSUME NEW w \in Nat, NEW m \in Nat
  PROVE  choose(w + m, m) = Multisets[w][m + 1]
<1> DEFINE c == Multisets[w][m + 1]
           d == factorial[m] * factorial[w]
<1>1. c \in Nat
  BY MultisetsOf
<1>2. d \in Nat /\ d > 0 /\ d = factorial[w] * factorial[m]
  <2>1. /\ factorial[m] \in Nat /\ factorial[m] > 0
        /\ factorial[w] \in Nat /\ factorial[w] > 0
    BY Factorials
  <2>2. \A x, y \in Nat : x > 0 /\ y > 0 => x * y \in Nat /\ x * y > 0 /\ x * y = y * x
    OBVIOUS
  <2> QED
    BY <2>1, <2>2
<1>3. factorial[w + m] = c * d
  BY <1>2, MultisetsAreChosen
<1>4. choose(w + m, m) = factorial[w + m] \div d
  <2>1. (w + m) - m = w
    OBVIOUS
  <2> QED
    BY <2>1 DEF choose
<1> HIDE DEF c, d
<1>5. (c * d) \div d = c
  BY <1>1, <1>2
<1> QED
  BY <1>3, <1>4, <1>5 DEF c

-----------------------------------------------------------------------------
(* The rank of a sequence of counts                                        *)

\* The sum of Multisets[w][c[w]] for w from 1 to k: the number of sequences of
\* counts before c[1 .. k] in the order where the last ones weigh most.
Rank(c, k) == Sums([w \in Nat |-> Multisets[w][c[w]]])[k]

LEMMA RankOf ==
  ASSUME NEW c \in [Nat -> Nat], NEW k \in Nat
  PROVE  /\ Rank(c, k) \in Nat /\ Rank(c, 0) = 0
         /\ Rank(c, k + 1) = Rank(c, k) + Multisets[k + 1][c[k + 1]]
         /\ Multisets[k + 1][c[k + 1]] \in Nat
<1> DEFINE t == [w \in Nat |-> Multisets[w][c[w]]]
<1>1. t \in [Nat -> Nat]
  BY MultisetsOf
<1>2. IsSums(Sums(t), t)
  BY <1>1, SumsExist
<1>3. k + 1 \in Nat /\ t[k + 1] = Multisets[k + 1][c[k + 1]]
  OBVIOUS
<1>4. t[k + 1] \in Nat
  BY <1>1
<1> HIDE DEF t
<1> QED
  BY <1>2, <1>3, <1>4 DEF IsSums, Rank, t

\* Counts up to m have a rank below that of m + 1 where they end.
LEMMA RankIsBelow ==
  ASSUME NEW c \in [Nat -> Nat], NEW k \in Nat, NEW m \in Nat,
         \A w \in Nat : w <= k => c[w] <= m
  PROVE  Rank(c, k) + 1 <= Multisets[k][m + 1]
<1> DEFINE S == {w \in Nat : w <= k => Rank(c, w) + 1 <= Multisets[w][m + 1]}
<1>1. 0 \in S
  <2>1. Rank(c, 0) = 0
    BY RankOf
  <2>2. Multisets[0][m + 1] = 1
    <3>1. m + 1 \in Nat /\ 0 \in Nat
      OBVIOUS
    <3> QED
      BY <3>1, MultisetsOf
  <2> QED
    BY <2>1, <2>2
<1>2. ASSUME NEW w \in Nat, w \in S
      PROVE  w + 1 \in S
  <2>1. SUFFICES ASSUME w + 1 <= k
                 PROVE  Rank(c, w + 1) + 1 <= Multisets[w + 1][m + 1]
    OBVIOUS
  <2>2. w + 1 \in Nat /\ w <= k /\ c[w + 1] <= m /\ c[w + 1] \in Nat
    BY <2>1
  <2>3. Rank(c, w + 1) = Rank(c, w) + Multisets[w + 1][c[w + 1]]
    BY RankOf
  <2>4. Multisets[w + 1][c[w + 1]] <= Multisets[w + 1][m]
    BY <2>2, MultisetsGrow
  <2>5. Multisets[w + 1][m + 1] = Multisets[w + 1][m] + Multisets[w][m + 1]
    BY MultisetsOf
  <2>6. Rank(c, w) + 1 <= Multisets[w][m + 1]
    BY <1>2, <2>2
  <2>7. /\ Rank(c, w) \in Nat /\ Multisets[w + 1][c[w + 1]] \in Nat
        /\ Multisets[w + 1][m] \in Nat /\ Multisets[w][m + 1] \in Nat
    <3>1. m + 1 \in Nat
      OBVIOUS
    <3> QED
      BY <2>2, <3>1, RankOf, MultisetsOf
  <2> HIDE DEF S
  <2> QED
    BY <2>3, <2>4, <2>5, <2>6, <2>7
<1> HIDE DEF S
<1>3. k \in S
  BY <1>1, <1>2, FromZero
<1> QED
  BY <1>3 DEF S

\* Who is ahead by e stays ahead while his counts are no smaller.
LEMMA RankStaysAhead ==
  ASSUME NEW c \in [Nat -> Nat], NEW d \in [Nat -> Nat], NEW v \in Nat, NEW k \in Nat, v <= k,
         NEW e \in Nat, Rank(d, v) >= Rank(c, v) + e,
         \A w \in Nat : v < w => c[w] <= d[w]
  PROVE  Rank(d, k) >= Rank(c, k) + e
<1> DEFINE S == {i \in Nat : Rank(d, v + i) >= Rank(c, v + i) + e}
<1>1. 0 \in S
  BY RankOf
<1>2. ASSUME NEW i \in Nat, i \in S
      PROVE  i + 1 \in S
  <2> DEFINE w == v + i
  <2>1. w \in Nat /\ w + 1 \in Nat /\ v < w + 1 /\ v + (i + 1) = w + 1
    OBVIOUS
  <2>2. Rank(d, w) >= Rank(c, w) + e
    BY <1>2
  <2> HIDE DEF w
  <2>3. c[w + 1] <= d[w + 1] /\ c[w + 1] \in Nat /\ d[w + 1] \in Nat
    BY <2>1
  <2>4. Multisets[w + 1][c[w + 1]] <= Multisets[w + 1][d[w + 1]]
    BY <2>1, <2>3, MultisetsGrow
  <2>5. /\ Rank(c, w + 1) = Rank(c, w) + Multisets[w + 1][c[w + 1]]
        /\ Rank(d, w + 1) = Rank(d, w) + Multisets[w + 1][d[w + 1]]
        /\ Rank(c, w) \in Nat /\ Multisets[w + 1][c[w + 1]] \in Nat
        /\ Rank(d, w) \in Nat /\ Multisets[w + 1][d[w + 1]] \in Nat
    BY <2>1, RankOf
  <2>6. Rank(d, w + 1) >= Rank(c, w + 1) + e
    BY <2>2, <2>4, <2>5
  <2> QED
    BY <2>1, <2>6
<1> HIDE DEF S
<1>3. k - v \in S
  BY <1>1, <1>2, FromZero
<1>4. v + (k - v) = k
  OBVIOUS
<1> QED
  BY <1>3, <1>4 DEF S

\* A larger count is worth more than all those below it.
LEMMA RankGrows ==
  ASSUME NEW c \in [Nat -> Nat], NEW d \in [Nat -> Nat],
         NEW v \in Nat \ {0}, NEW k \in Nat, v <= k,
         \A w \in Nat : w < v => c[w] <= c[v],
         c[v] + 1 <= d[v],
         \A w \in Nat : v < w => c[w] <= d[w]
  PROVE  Rank(d, k) >= Rank(c, k) + 1
<1> DEFINE u == v - 1
           m == c[v]
<1>1. u \in Nat /\ u + 1 = v /\ m \in Nat /\ m + 1 \in Nat /\ d[v] \in Nat
  OBVIOUS
<1>2. Rank(c, u) + 1 <= Multisets[u][m + 1]
  <2>1. \A w \in Nat : w <= u => c[w] <= m
    BY <1>1
  <2> HIDE DEF m, u
  <2> QED
    BY <1>1, <2>1, RankIsBelow
<1> HIDE DEF u
<1>3. /\ Rank(c, v) = Rank(c, u) + Multisets[v][c[v]]
      /\ Rank(d, v) = Rank(d, u) + Multisets[v][d[v]]
      /\ Rank(c, u) \in Nat /\ Rank(d, u) \in Nat
  BY <1>1, RankOf
<1> HIDE DEF m
<1>4. Multisets[v][m + 1] = Multisets[v][m] + Multisets[u][m + 1]
  BY <1>1, MultisetsOf
<1>5. Multisets[v][m + 1] <= Multisets[v][d[v]]
  BY <1>1, MultisetsGrow DEF m
<1>6. /\ Multisets[v][m] \in Nat /\ Multisets[u][m + 1] \in Nat
      /\ Multisets[v][m + 1] \in Nat /\ Multisets[v][d[v]] \in Nat
  BY <1>1, MultisetsOf
<1>7. Rank(d, v) >= Rank(c, v) + 1
  BY <1>2, <1>3, <1>4, <1>5, <1>6 DEF m
<1> QED
  BY <1>7, RankStaysAhead

-----------------------------------------------------------------------------
(* Logins that overlap                                                     *)

\* What an attempt in state s can still make of the count: the failures it is
\* about to write, or one more than those of the loaded entry e.
Level(s, e) == IF s.stage = "set" THEN s.copy.failures ELSE e.failures + 1

\* The attempts f, beside the entry e, that are less than w below the threshold.
Reaching(f, e, w) == {a \in Attempt : Level(f[a], e) + w > Threshold}

Counts(f, e) == [w \in Nat |-> Cardinality(Reaching(f, e, w))]

\* A wrong password that the entry has not counted yet, or a lock not yet set.
Pending(s) ==
  \/ s.stage = "failure"
  \/ s.stage = "set" /\ (s.copy.failures < Threshold \/ s.copy.locked # None)

Unwritten(f) == {a \in Attempt : Pending(f[a])}

\* Each of the g guesses has raised the rank of the counts, or is unwritten.
IsAccount(f, e, g) ==
  g + Multisets[Threshold][Cardinality(Attempt)]
    <= Rank(Counts(f, e), Threshold) + Cardinality(Unwritten(f))

\* Without the soft lock there is no cooldown, and a lock where the threshold
\* has been reached.
Sound(e) == e.cooldown = None /\ (e.locked # None => e.failures >= Threshold)

Plain(s) ==
  /\ s.stage \notin {"recount", "soft"} /\ s.next \notin {"recount", "soft"}
  /\ s.stage = "set" => Sound(s.copy) /\ s.copy.failures > 0

GuessInv ==
  /\ Sound(Loaded)
  /\ \A a \in Attempt : Plain(attempt[a])
  /\ IsAccount(attempt, Loaded, guesses)

\* The attempts that the lemmas are about.
Proper(f) ==
  /\ f \in [Attempt -> AttemptState]
  /\ \A a \in Attempt : Writes(f[a])

LEMMA LevelType ==
  ASSUME NEW f, Proper(f), NEW e \in Entry, NEW a \in Attempt
  PROVE  Level(f[a], e) \in Nat
BY DEF Proper, Writes, Level, Entry

LEMMA CountsType ==
  ASSUME NEW f, Proper(f), NEW e \in Entry
  PROVE  /\ Counts(f, e) \in [Nat -> Nat]
         /\ Cardinality(Attempt) \in Nat
         /\ Cardinality(Unwritten(f)) \in Nat
         /\ Cardinality(Unwritten(f)) <= Cardinality(Attempt)
         /\ \A w \in Nat : /\ IsFiniteSet(Reaching(f, e, w))
                           /\ Counts(f, e)[w] = Cardinality(Reaching(f, e, w))
                           /\ Counts(f, e)[w] <= Cardinality(Attempt)
         /\ \A v, w \in Nat : v <= w => Counts(f, e)[v] <= Counts(f, e)[w]
<1>1. IsFiniteSet(Attempt) /\ Cardinality(Attempt) \in Nat
  BY AttemptAssumption, FS_CardinalityType
<1>2. /\ Cardinality(Unwritten(f)) \in Nat
      /\ Cardinality(Unwritten(f)) <= Cardinality(Attempt)
  <2>1. Unwritten(f) \in SUBSET Attempt
    BY DEF Unwritten
  <2> QED
    BY <1>1, <2>1, FS_Subset, FS_CardinalityType
<1>3. ASSUME NEW w \in Nat
      PROVE  /\ IsFiniteSet(Reaching(f, e, w)) /\ Cardinality(Reaching(f, e, w)) \in Nat
             /\ Cardinality(Reaching(f, e, w)) <= Cardinality(Attempt)
  <2>1. Reaching(f, e, w) \in SUBSET Attempt
    BY DEF Reaching
  <2> QED
    BY <1>1, <2>1, FS_Subset, FS_CardinalityType
<1>4. /\ Counts(f, e) \in [Nat -> Nat]
      /\ \A w \in Nat : Counts(f, e)[w] = Cardinality(Reaching(f, e, w))
  BY <1>3 DEF Counts
<1>5. ASSUME NEW v \in Nat, NEW w \in Nat, v <= w
      PROVE  Counts(f, e)[v] <= Counts(f, e)[w]
  <2>1. Reaching(f, e, v) \in SUBSET Reaching(f, e, w)
    BY <1>5, LevelType, LimitTypes DEF Reaching
  <2> QED
    BY <1>3, <1>4, <2>1, FS_Subset
<1> QED
  BY <1>1, <1>2, <1>3, <1>4, <1>5

LEMMA AccountGrows ==
  ASSUME NEW f, Proper(f), NEW e \in Entry, NEW h, Proper(h), NEW d \in Entry,
         NEW g \in Nat, NEW i \in Nat, IsAccount(f, e, g),
         \A w \in Nat \ {0} : Reaching(f, e, w) \subseteq Reaching(h, d, w),
         i + Cardinality(Unwritten(f)) <= g + Cardinality(Unwritten(h))
  PROVE  IsAccount(h, d, i)
<1>1. /\ Counts(f, e) \in [Nat -> Nat] /\ Counts(h, d) \in [Nat -> Nat]
      /\ Cardinality(Unwritten(f)) \in Nat /\ Cardinality(Unwritten(h)) \in Nat
      /\ Cardinality(Attempt) \in Nat
  BY CountsType
<1>2. ASSUME NEW w \in Nat, 0 < w
      PROVE  Counts(f, e)[w] <= Counts(h, d)[w]
  <2>1. Reaching(f, e, w) \in SUBSET Reaching(h, d, w)
    BY <1>2
  <2>2. /\ IsFiniteSet(Reaching(h, d, w))
        /\ Counts(h, d)[w] = Cardinality(Reaching(h, d, w))
        /\ Counts(f, e)[w] = Cardinality(Reaching(f, e, w))
    BY CountsType
  <2> QED
    BY <2>1, <2>2, FS_Subset
<1>3. /\ Rank(Counts(f, e), 0) = 0 /\ Rank(Counts(h, d), 0) = 0
      /\ Rank(Counts(f, e), Threshold) \in Nat /\ Rank(Counts(h, d), Threshold) \in Nat
      /\ Threshold \in Nat /\ 0 <= Threshold
  <2>1. Threshold \in Nat /\ 0 <= Threshold
    BY LimitTypes
  <2> QED
    BY <1>1, <2>1, RankOf
<1>4. Rank(Counts(h, d), Threshold) >= Rank(Counts(f, e), Threshold) + 0
  <2>1. Rank(Counts(h, d), 0) >= Rank(Counts(f, e), 0) + 0 /\ 0 \in Nat
    BY <1>3
  <2> QED
    BY <1>1, <1>2, <1>3, <2>1, RankStaysAhead
<1>5. Multisets[Threshold][Cardinality(Attempt)] \in Nat
  BY <1>1, <1>3, MultisetsOf
<1> QED
  BY <1>1, <1>3, <1>4, <1>5 DEF IsAccount

\* The step of one attempt that leaves the entry alone.
LEMMA AccountMoves ==
  ASSUME NEW f, Proper(f), NEW e \in Entry, NEW a \in Attempt, NEW s \in AttemptState,
         Writes(s), NEW g \in Nat, NEW i \in Nat, IsAccount(f, e, g),
         Level(s, e) >= Level(f[a], e) \/ Level(s, e) >= Threshold,
         Pending(f[a]) => Pending(s),
         i = g \/ (i = g + 1 /\ ~Pending(f[a]) /\ Pending(s))
  PROVE  IsAccount([f EXCEPT ![a] = s], e, i)
<1> DEFINE h == [f EXCEPT ![a] = s]
<1>1. Proper(h) /\ h[a] = s /\ \A b \in Attempt \ {a} : h[b] = f[b]
  BY DEF Proper
<1> HIDE DEF h
<1>2. ASSUME NEW w \in Nat \ {0}, NEW b \in Reaching(f, e, w)
      PROVE  b \in Reaching(h, e, w)
  <2>1. b \in Attempt /\ Level(f[b], e) + w > Threshold
    BY DEF Reaching
  <2>2. Level(f[b], e) \in Nat /\ Level(h[b], e) \in Nat
    BY <1>1, <2>1, LevelType
  <2>3. Level(h[b], e) + w > Threshold
    <3>1. CASE b = a
      BY <1>1, <2>1, <2>2, <3>1, LimitTypes
    <3>2. CASE b # a
      BY <1>1, <2>1, <3>2
    <3> QED
      BY <3>1, <3>2
  <2> QED
    BY <2>1, <2>3 DEF Reaching
<1>3. i + Cardinality(Unwritten(f)) <= g + Cardinality(Unwritten(h))
  <2>1. IsFiniteSet(Unwritten(f)) /\ IsFiniteSet(Unwritten(h))
    BY AttemptAssumption, FS_Subset DEF Unwritten
  <2>2. /\ Cardinality(Unwritten(f)) \in Nat /\ Cardinality(Unwritten(h)) \in Nat
    BY <1>1, CountsType
  <2>3. Unwritten(f) \in SUBSET Unwritten(h)
    BY <1>1 DEF Unwritten
  <2>4. Cardinality(Unwritten(f)) <= Cardinality(Unwritten(h))
    BY <2>1, <2>3, FS_Subset
  <2>5. CASE i = g
    BY <2>2, <2>4, <2>5
  <2>6. CASE i = g + 1 /\ ~Pending(f[a]) /\ Pending(s)
    <3>1. Unwritten(h) = Unwritten(f) \cup {a} /\ a \notin Unwritten(f)
      BY <1>1, <2>6 DEF Unwritten
    <3>2. Cardinality(Unwritten(h)) = Cardinality(Unwritten(f)) + 1
      BY <2>1, <3>1, FS_AddElement
    <3> QED
      BY <2>2, <2>6, <3>2
  <2> QED
    BY <2>5, <2>6
<1>4. IsAccount(h, e, i)
  BY <1>1, <1>2, <1>3, AccountGrows
<1> QED
  BY <1>4 DEF h

\* Where the guesses start again there is nothing to account for.
LEMMA AccountStarts ==
  ASSUME NEW f, Proper(f), NEW e \in Entry, \A a \in Attempt : Plain(f[a])
  PROVE  IsAccount(f, e, 0)
<1> DEFINE n == Cardinality(Attempt)
           c == Counts(f, e)
<1>1. /\ c \in [Nat -> Nat] /\ n \in Nat /\ Cardinality(Unwritten(f)) \in Nat
      /\ Threshold \in Nat \ {0}
  BY CountsType, LimitTypes
<1>2. c[Threshold] = n
  <2>1. ASSUME NEW a \in Attempt PROVE Level(f[a], e) > 0
    BY DEF Level, Plain, Entry
  <2>2. Reaching(f, e, Threshold) = Attempt
    BY <1>1, <2>1, LevelType DEF Reaching
  <2> QED
    BY <1>1, <2>2, CountsType
<1> DEFINE k == Threshold - 1
<1>3. k \in Nat /\ k + 1 = Threshold
  BY <1>1
<1> HIDE DEF c, n, k
<1>4. /\ Rank(c, Threshold) = Rank(c, k) + Multisets[Threshold][n]
      /\ Rank(c, k) \in Nat /\ Multisets[Threshold][n] \in Nat
  BY <1>1, <1>2, <1>3, RankOf
<1>5. 0 + Multisets[Threshold][n] <= Rank(c, Threshold) + Cardinality(Unwritten(f))
  BY <1>1, <1>4
<1> QED
  BY <1>5 DEF IsAccount, c, n

\* A SET of a count without a lock: below the threshold it takes back what
\* others have counted, and raises the rank by letting itself be counted again.
LEMMA AccountSaves ==
  ASSUME NEW f, Proper(f), NEW e \in Entry, NEW a \in Attempt, NEW s \in AttemptState,
         s.stage \notin {"set", "failure"}, f[a].stage = "set",
         NEW d \in Entry, d = f[a].copy, d.locked = None, d.failures > 0,
         NEW g \in Nat, IsAccount(f, e, g)
  PROVE  IsAccount([f EXCEPT ![a] = s], d, g)
<1> DEFINE h == [f EXCEPT ![a] = s]
           p == d.failures
<1>1. Proper(h) /\ h[a] = s /\ \A b \in Attempt \ {a} : h[b] = f[b]
  BY DEF Proper, Writes
<1>2. p \in Nat \ {0} /\ Threshold \in Nat \ {0}
  BY LimitTypes DEF Entry
<1> HIDE DEF h
<1>3. Level(f[a], e) = p /\ Level(h[a], d) = p + 1
  BY <1>1 DEF Level
<1>4. ASSUME NEW b \in Attempt
      PROVE  /\ Level(f[b], e) \in Nat /\ Level(h[b], d) \in Nat
             /\ Level(h[b], d) = Level(f[b], e) \/ Level(h[b], d) = p + 1
  <2>1. CASE b = a
    BY <1>1, <1>3, <2>1, LevelType
  <2>2. CASE b # a
    BY <1>1, <2>2, LevelType DEF Level
  <2> QED
    BY <2>1, <2>2
<1>5. ASSUME NEW w \in Nat, p + 1 + w > Threshold
      PROVE  Reaching(f, e, w) \subseteq Reaching(h, d, w) /\ a \in Reaching(h, d, w)
  BY <1>2, <1>3, <1>4, <1>5 DEF Reaching
<1>6. Unwritten(h) = Unwritten(f) \ {a} /\ (a \in Unwritten(f) <=> p < Threshold)
  BY <1>1 DEF Unwritten, Pending
<1>7. /\ IsFiniteSet(Unwritten(f)) /\ Cardinality(Unwritten(f)) \in Nat
      /\ Cardinality(Unwritten(h)) \in Nat
  BY <1>1, CountsType, AttemptAssumption, FS_Subset DEF Unwritten
<1>8. CASE p >= Threshold
  <2>1. ASSUME NEW w \in Nat \ {0}
        PROVE  Reaching(f, e, w) \subseteq Reaching(h, d, w)
    BY <1>2, <1>5, <1>8
  <2>2. Unwritten(h) = Unwritten(f)
    BY <1>2, <1>6, <1>8
  <2>3. g + Cardinality(Unwritten(f)) <= g + Cardinality(Unwritten(h))
    BY <1>7, <2>2
  <2>4. IsAccount(h, d, g)
    BY <1>1, <2>1, <2>3, AccountGrows
  <2> QED
    BY <2>4 DEF h
<1>9. CASE p < Threshold
  <2> DEFINE v == Threshold - p
             old == Counts(f, e)
             new == Counts(h, d)
  <2>1. v \in Nat \ {0} /\ v <= Threshold /\ p + v = Threshold
    BY <1>2, <1>9
  <2>2. /\ old \in [Nat -> Nat] /\ new \in [Nat -> Nat] /\ Cardinality(Attempt) \in Nat
        /\ \A w \in Nat : w < v => old[w] <= old[v]
    <3>1. v \in Nat /\ \A w \in Nat : w < v => w <= v
      BY <2>1
    <3> HIDE DEF v
    <3> QED
      BY <1>1, <3>1, CountsType
  <2>3. ASSUME NEW w \in Nat
        PROVE  /\ IsFiniteSet(Reaching(f, e, w)) /\ IsFiniteSet(Reaching(h, d, w))
               /\ old[w] = Cardinality(Reaching(f, e, w))
               /\ new[w] = Cardinality(Reaching(h, d, w))
    BY <1>1, CountsType
  <2> HIDE DEF v, old, new
  <2>4. old[v] + 1 <= new[v]
    <3>1. a \notin Reaching(f, e, v)
      BY <1>2, <1>3, <2>1 DEF Reaching
    <3>2. Reaching(f, e, v) \cup {a} \in SUBSET Reaching(h, d, v)
      BY <1>2, <1>5, <2>1
    <3>3. Cardinality(Reaching(f, e, v) \cup {a}) = old[v] + 1
      <4>1. v \in Nat
        BY <2>1
      <4>2. IsFiniteSet(Reaching(f, e, v)) /\ old[v] = Cardinality(Reaching(f, e, v))
        BY <2>3, <4>1
      <4> DEFINE reached == Reaching(f, e, v)
      <4> HIDE DEF reached
      <4>3. IsFiniteSet(reached) /\ old[v] = Cardinality(reached) /\ a \notin reached
        BY <3>1, <4>2 DEF reached
      <4>4. Cardinality(reached \cup {a}) = Cardinality(reached) + 1
        BY <4>3, FS_AddElement
      <4> QED
        BY <4>3, <4>4 DEF reached
    <3> QED
      BY <2>1, <2>3, <3>2, <3>3, FS_Subset
  <2>5. ASSUME NEW w \in Nat, v < w
        PROVE  old[w] <= new[w]
    <3>1. Reaching(f, e, w) \in SUBSET Reaching(h, d, w)
      BY <1>2, <1>5, <2>1, <2>5
    <3> QED
      BY <2>3, <3>1, FS_Subset
  <2>6. Rank(new, Threshold) >= Rank(old, Threshold) + 1
    BY <1>2, <2>1, <2>2, <2>4, <2>5, RankGrows
  <2>7. Cardinality(Unwritten(h)) = Cardinality(Unwritten(f)) - 1
    BY <1>6, <1>7, <1>9, FS_RemoveElement
  <2>8. /\ Rank(new, Threshold) \in Nat /\ Rank(old, Threshold) \in Nat
        /\ Multisets[Threshold][Cardinality(Attempt)] \in Nat
    BY <1>2, <2>2, RankOf, MultisetsOf
  <2>9. IsAccount(h, d, g)
    BY <1>7, <2>6, <2>7, <2>8 DEF IsAccount, old, new
  <2> QED
    BY <2>9 DEF h
<1> QED
  BY <1>2, <1>8, <1>9

\* The rank has a bound, and with it the number of guesses.
LEMMA AccountBounds ==
  ASSUME NEW f, Proper(f), NEW e \in Entry, NEW g \in Nat, IsAccount(f, e, g)
  PROVE  LET n == Cardinality(Attempt) IN g <= choose(Threshold + n - 1, n) + n - 1
<1> DEFINE n == Cardinality(Attempt)
           c == Counts(f, e)
           k == Threshold - 1
<1>1. /\ c \in [Nat -> Nat] /\ n \in Nat /\ \A w \in Nat : c[w] <= n
      /\ Cardinality(Unwritten(f)) \in Nat /\ Cardinality(Unwritten(f)) <= n
      /\ Threshold \in Nat \ {0}
  BY CountsType, LimitTypes
<1>2. k \in Nat /\ k + 1 = Threshold /\ Threshold + n - 1 = k + n
  BY <1>1
<1>3. g + Multisets[Threshold][n] <= Rank(c, Threshold) + Cardinality(Unwritten(f))
  BY DEF IsAccount
<1> HIDE DEF n, c, k
<1>4. Rank(c, Threshold) + 1 <= Multisets[Threshold][n + 1]
  BY <1>1, RankIsBelow
<1>5. Multisets[Threshold][n + 1] = Multisets[Threshold][n] + Multisets[k][n + 1]
  BY <1>1, <1>2, MultisetsOf
<1>6. choose(Threshold + n - 1, n) = Multisets[k][n + 1]
  BY <1>1, <1>2, Chosen
<1>7. /\ Rank(c, Threshold) \in Nat /\ Multisets[Threshold][n] \in Nat
      /\ Multisets[k][n + 1] \in Nat
  <2>1. n + 1 \in Nat
    BY <1>1
  <2> QED
    BY <1>1, <1>2, <2>1, RankOf, MultisetsOf
<1>8. g <= choose(Threshold + n - 1, n) + n - 1
  BY <1>1, <1>3, <1>4, <1>5, <1>6, <1>7
<1> QED
  BY <1>8 DEF n

LEMMA GuessFacts ==
  ASSUME LoginInv, GuessInv
  PROVE  /\ Proper(attempt) /\ Loaded \in Entry /\ Sound(Loaded) /\ guesses \in Nat
         /\ IsAccount(attempt, Loaded, guesses)
         /\ \A a \in Attempt : Plain(attempt[a]) /\ attempt[a] \in AttemptState
BY LoadedType DEF LoginInv, TypeOK, GuessInv, Proper

\* The steps of one attempt that leave the entry alone.
LEMMA GuessMoves ==
  ASSUME LoginInv, GuessInv, NEW a \in Attempt, NEW s \in AttemptState,
         attempt' = [attempt EXCEPT ![a] = s], UNCHANGED entry,
         Writes(s), Plain(s),
         Level(s, Loaded) >= Level(attempt[a], Loaded) \/ Level(s, Loaded) >= Threshold,
         Pending(attempt[a]) => Pending(s),
         guesses' = guesses \/ (guesses' = guesses + 1 /\ ~Pending(attempt[a]) /\ Pending(s))
  PROVE  GuessInv'
<1>1. Loaded' = Loaded
  BY DEF Loaded
<1>2. guesses' \in Nat
  BY GuessFacts
<1>3. IsAccount(attempt', Loaded, guesses')
  BY <1>2, GuessFacts, AccountMoves
<1>4. \A b \in Attempt : Plain(attempt'[b])
  BY GuessFacts DEF Proper
<1> QED
  BY <1>1, <1>3, <1>4, GuessFacts DEF GuessInv

\* Whoever has no count to write reads the entry, and goes on or answers.
LEMMA GuessReads ==
  ASSUME LoginInv, GuessInv, NEW a \in Attempt, attempt[a].stage \notin {"failure", "set"},
         NEW s \in AttemptState, s.stage \notin {"set", "recount", "soft"},
         s.next \notin {"recount", "soft"},
         attempt' = [attempt EXCEPT ![a] = s], UNCHANGED <<entry, guesses>>
  PROVE  GuessInv'
<1>1. Writes(s) /\ Plain(s) /\ ~Pending(attempt[a])
  BY DEF Writes, Plain, Pending
<1>2. Level(s, Loaded) = Level(attempt[a], Loaded) /\ Level(s, Loaded) \in Nat
  BY GuessFacts DEF Level, Entry
<1>3. Level(s, Loaded) >= Level(attempt[a], Loaded)
  BY <1>2
<1> QED
  BY <1>1, <1>3, GuessMoves

LEMMA GuessGoesOn ==
  ASSUME LoginInv, GuessInv, NEW a \in Attempt, attempt[a].stage \notin {"failure", "set"},
         NEW stage \in Stage \ {"set", "recount", "soft"}, Read(a, stage)
  PROVE  GuessInv'
<1> DEFINE s == [attempt[a] EXCEPT !.stage = stage]
<1>1. s \in AttemptState /\ s.stage = stage /\ s.next = attempt[a].next
  BY GuessFacts DEF AttemptState
<1>2. s.next \notin {"recount", "soft"}
  BY <1>1, GuessFacts DEF Plain
<1>3. attempt' = [attempt EXCEPT ![a] = s] /\ UNCHANGED <<entry, guesses>>
  BY DEF Read
<1> HIDE DEF s
<1> QED
  BY <1>1, <1>2, <1>3, GuessReads

LEMMA GuessFinishes ==
  ASSUME LoginInv, GuessInv, NEW a \in Attempt, attempt[a].stage \notin {"failure", "set"},
         Finish(a)
  PROVE  GuessInv'
<1>1. Start \in AttemptState /\ Start.stage = "idle" /\ Start.next = "idle"
  BY StartType DEF Start
<1> QED
  BY <1>1, GuessReads DEF Finish

\* What is read is written back without its lapsed lock.
LEMMA GuessRewrites ==
  ASSUME LoginInv, GuessInv, NEW a \in Attempt, attempt[a].stage \notin {"failure", "set"},
         Loaded.locked # None, NEW stage \in {"expired", "password", "idle"},
         ReadThenSet(a, [Loaded EXCEPT !.locked = None], stage)
  PROVE  GuessInv'
<1> DEFINE e == [Loaded EXCEPT !.locked = None]
           s == [attempt[a] EXCEPT !.stage = "set", !.copy = e, !.next = stage]
<1>1. /\ Loaded \in Entry /\ Loaded.cooldown = None /\ Loaded.failures >= Threshold
      /\ attempt[a] \in AttemptState
  BY GuessFacts DEF Sound
<1>2. /\ e \in Entry /\ e.locked = None /\ e.cooldown = None
      /\ e.failures = Loaded.failures /\ e.failures \in Nat
  BY <1>1 DEF Entry, Timer
<1>3. attempt' = [attempt EXCEPT ![a] = s] /\ UNCHANGED <<entry, guesses>>
  BY DEF ReadThenSet
<1> HIDE DEF e
<1>4. s \in AttemptState /\ s.stage = "set" /\ s.copy = e /\ s.next = stage
  BY <1>1, <1>2 DEF AttemptState, Stage
<1> HIDE DEF s
<1>5. Writes(s) /\ Plain(s)
  BY <1>1, <1>2, <1>4, LimitTypes DEF Writes, Plain, Sound
<1>6. Level(s, Loaded) >= Threshold /\ ~Pending(attempt[a])
  BY <1>1, <1>2, <1>4 DEF Level, Pending
<1> QED
  BY <1>3, <1>4, <1>5, <1>6, GuessMoves

\* The commands after which the guesses start again.
LEMMA GuessStarts ==
  ASSUME LoginInv, LoginInv', GuessInv, guesses' = 0, Sound(Loaded'),
         \A a \in Attempt : Plain(attempt'[a])
  PROVE  GuessInv'
<1>1. Proper(attempt') /\ Loaded' \in Entry
  BY DEF LoginInv, TypeOK, Proper, Loaded, Writes, Blank, Entry, Timer
<1>2. IsAccount(attempt', Loaded', guesses')
  BY <1>1, AccountStarts
<1> QED
  BY <1>2 DEF GuessInv

LEMMA StartIsPlain == Plain(Start) /\ Sound(Blank)
BY DEF Plain, Sound, Start, Blank

LEMMA ErasureGuesses ==
  ASSUME LoginInv, LoginInv', GuessInv, NEW a \in Attempt,
         ClearExpired(a) \/ ClearOnSuccess(a)
  PROVE  GuessInv'
<1> DEFINE goes == [attempt[a] EXCEPT !.stage = "password", !.count = 0]
           s == IF ClearExpired(a) THEN goes ELSE Start
<1>1. goes.stage = "password" /\ goes.next = attempt[a].next
  BY GuessFacts DEF AttemptState
<1>2. Plain(s)
  BY <1>1, GuessFacts, StartIsPlain DEF Plain
<1>3. attempt' = [attempt EXCEPT ![a] = s] /\ guesses' = 0 /\ entry' = None
  BY DEF ClearExpired, ClearOnSuccess, Overwrite
<1> HIDE DEF s
<1>4. Sound(Loaded')
  BY <1>3, StartIsPlain DEF Loaded
<1>5. \A b \in Attempt : Plain(attempt'[b])
  BY <1>2, <1>3, GuessFacts DEF Proper
<1> QED
  BY <1>3, <1>4, <1>5, GuessStarts

LEMMA ArriveGuesses ==
  ASSUME LoginInv, GuessInv, NEW a \in Attempt, Arrive(a)
  PROVE  GuessInv'
<1> DEFINE s == [attempt[a] EXCEPT !.stage = "cooldown"]
<1>1. /\ s \in AttemptState /\ s.stage = "cooldown" /\ s.next = attempt[a].next
      /\ attempt[a].stage = "idle"
  BY GuessFacts DEF AttemptState, Stage, Arrive
<1>2. s.next \notin {"recount", "soft"}
  BY <1>1, GuessFacts DEF Plain
<1>3. attempt' = [attempt EXCEPT ![a] = s] /\ UNCHANGED <<entry, guesses>>
  BY DEF Arrive
<1> HIDE DEF s
<1> QED
  BY <1>1, <1>2, <1>3, GuessReads

\* There is no cooldown to find.
LEMMA CheckCooldownGuesses ==
  ASSUME LoginInv, GuessInv, NEW a \in Attempt, CheckCooldown(a)
  PROVE  GuessInv'
<1>1. Loaded.cooldown = None /\ ~IsRunning(Loaded.cooldown) /\ attempt[a].stage = "cooldown"
  BY GuessFacts DEF Sound, IsRunning, CheckCooldown
<1>2. Read(a, "count") /\ "count" \in Stage \ {"set", "recount", "soft"}
  BY <1>1 DEF CheckCooldown, Stage
<1> QED
  BY <1>1, <1>2, GuessGoesOn

LEMMA CountFailuresGuesses ==
  ASSUME LoginInv, GuessInv, NEW a \in Attempt, CountFailures(a)
  PROVE  GuessInv'
<1> DEFINE s == [attempt[a] EXCEPT !.stage = "wait", !.count = Loaded.failures]
<1>1. attempt[a] \in AttemptState /\ Loaded.failures \in Nat /\ attempt[a].stage = "count"
  BY GuessFacts DEF Entry, CountFailures
<1>2. s \in AttemptState /\ s.stage = "wait" /\ s.next = attempt[a].next
  BY <1>1 DEF AttemptState, Stage
<1>3. s.next \notin {"recount", "soft"}
  BY <1>2, GuessFacts DEF Plain
<1>4. attempt' = [attempt EXCEPT ![a] = s] /\ UNCHANGED <<entry, guesses>>
  BY DEF CountFailures
<1> HIDE DEF s
<1> QED
  BY <1>1, <1>2, <1>3, <1>4, GuessReads

LEMMA CheckLockGuesses ==
  ASSUME LoginInv, GuessInv, NEW a \in Attempt, CheckLock(a)
  PROVE  GuessInv'
<1>1. attempt[a].stage = "wait" /\ Admitted(a) \in {"expired", "password"}
  BY DEF CheckLock, Admitted
<1>2. CASE Finish(a)
  BY <1>1, <1>2, GuessFinishes
<1>3. CASE Read(a, Admitted(a))
  <2>1. Admitted(a) \in Stage \ {"set", "recount", "soft"}
    BY <1>1 DEF Stage
  <2> QED
    BY <1>1, <1>3, <2>1, GuessGoesOn
<1>4. CASE /\ Loaded.locked = 0
           /\ ReadThenSet(a, [Loaded EXCEPT !.locked = None], Admitted(a))
  <2>1. Loaded.locked # None
    BY <1>4, LimitTypes
  <2> QED
    BY <1>1, <1>4, <2>1, GuessRewrites
<1> QED
  BY <1>2, <1>3, <1>4 DEF CheckLock

LEMMA ReportWaitGuesses ==
  ASSUME LoginInv, GuessInv, NEW a \in Attempt, ReportWait(a)
  PROVE  GuessInv'
<1>1. attempt[a].stage = "after"
  BY DEF ReportWait
<1>2. CASE Finish(a)
  BY <1>1, <1>2, GuessFinishes
<1>3. CASE /\ Loaded.locked = 0
           /\ ReadThenSet(a, [Loaded EXCEPT !.locked = None], "idle")
  <2>1. Loaded.locked # None
    BY <1>3, LimitTypes
  <2> QED
    BY <1>1, <1>3, <2>1, GuessRewrites
<1> QED
  BY <1>2, <1>3 DEF ReportWait

LEMMA WrongPasswordGuesses ==
  ASSUME LoginInv, GuessInv, NEW a \in Attempt, WrongPassword(a)
  PROVE  GuessInv'
<1> DEFINE s == [attempt[a] EXCEPT !.stage = "failure"]
<1>1. attempt[a] \in AttemptState /\ attempt[a].stage = "password"
  BY GuessFacts DEF WrongPassword
<1>2. s \in AttemptState /\ s.stage = "failure" /\ s.next = attempt[a].next
  BY <1>1 DEF AttemptState, Stage
<1>3. /\ attempt' = [attempt EXCEPT ![a] = s] /\ UNCHANGED entry
      /\ guesses' = guesses + 1
  BY DEF WrongPassword
<1> HIDE DEF s
<1>4. Writes(s) /\ Plain(s) /\ Pending(s) /\ ~Pending(attempt[a])
  BY <1>1, <1>2, GuessFacts DEF Writes, Plain, Pending
<1>5. Level(s, Loaded) >= Level(attempt[a], Loaded)
  <2>1. Level(s, Loaded) = Level(attempt[a], Loaded) /\ Level(s, Loaded) \in Nat
    BY <1>1, <1>2, GuessFacts DEF Level, Entry
  <2> QED
    BY <2>1
<1> QED
  BY <1>2, <1>3, <1>4, <1>5, GuessMoves

\* The failure that is about to be written is as high as it was, or a lock.
LEMMA RegisterFailureGuesses ==
  ASSUME SoftThreshold = 0, LoginInv, GuessInv, NEW a \in Attempt, RegisterFailure(a)
  PROVE  GuessInv'
<1> DEFINE n == Loaded.failures + 1
           locks == n >= Threshold
           next == IF SoftThreshold > 0 THEN "recount" ELSE IF locks THEN "after" ELSE "idle"
           s == [attempt[a] EXCEPT !.stage = "set", !.copy = Failed, !.next = next,
                                   !.locks = locks]
<1>1. attempt[a] \in AttemptState /\ attempt[a].stage = "failure"
  BY GuessFacts DEF RegisterFailure
<1>2. /\ Loaded \in Entry /\ Loaded.failures \in Nat /\ Loaded.cooldown = None
      /\ Failed \in Entry /\ Failed.cooldown = None
  BY GuessFacts, FailedType DEF Sound, Entry, LoginInv
<1>3. /\ Failed.failures = IF n <= Enough THEN n ELSE Enough
      /\ Failed.locked = IF locks THEN Window(n) ELSE None
  BY <1>2 DEF Failed, Entry
<1>4. /\ n \in Nat /\ (locks <=> Failed.locked # None)
      /\ Failed.failures > 0
      /\ Failed.failures = n \/ (Failed.failures >= Threshold /\ locks)
      /\ locks <=> Failed.failures >= Threshold
  BY <1>2, <1>3, WindowType, LimitTypes
<1>5. next \in {"after", "idle"} /\ locks \in BOOLEAN
  BY <1>2
<1>6. attempt' = [attempt EXCEPT ![a] = s] /\ UNCHANGED <<entry, guesses>>
  BY DEF RegisterFailure, Failed
<1> HIDE DEF next, locks
<1>7. s \in AttemptState /\ s.stage = "set" /\ s.copy = Failed /\ s.next = next
  BY <1>1, <1>2, <1>5 DEF AttemptState, Stage
<1> HIDE DEF s, n
<1>8. Writes(s) /\ Plain(s) /\ Pending(s)
  BY <1>2, <1>4, <1>5, <1>7, LimitTypes DEF Writes, Plain, Sound, Pending, Entry
<1>9. Level(s, Loaded) >= Level(attempt[a], Loaded) \/ Level(s, Loaded) >= Threshold
  BY <1>1, <1>4, <1>7 DEF Level, n
<1> QED
  BY <1>6, <1>7, <1>8, <1>9, GuessMoves

LEMMA SaveGuesses ==
  ASSUME LoginInv, LoginInv', GuessInv, NEW a \in Attempt, Save(a)
  PROVE  GuessInv'
<1> DEFINE d == attempt[a].copy
           next == attempt[a].next
           goes == [attempt[a] EXCEPT !.stage = next, !.copy = None, !.next = "idle"]
           s == IF next = "idle" THEN Start ELSE goes
<1>1. /\ attempt[a] \in AttemptState /\ attempt[a].stage = "set"
      /\ d \in Entry /\ d # None /\ Sound(d) /\ d.failures > 0
      /\ next \in {"count", "expired", "password", "after", "idle"}
  BY GuessFacts, NoEntryAssumption DEF Save, Proper, Writes, Plain
<1>2. /\ attempt' = [attempt EXCEPT ![a] = s] /\ entry' = d
      /\ guesses' = IF d.locked # None THEN 0 ELSE guesses
  BY DEF Save, Overwrite
<1>3. goes \in AttemptState /\ goes.stage = next /\ goes.next = "idle"
  BY <1>1 DEF AttemptState, Stage
<1>4. s \in AttemptState /\ s.stage \notin {"set", "failure"} /\ Plain(s)
  BY <1>1, <1>3, StartType, StartIsPlain DEF Plain, Start
<1> HIDE DEF d, next, goes, s
<1>5. Loaded' = d
  BY <1>1, <1>2 DEF Loaded
<1>6. \A b \in Attempt : Plain(attempt'[b])
  BY <1>2, <1>4, GuessFacts DEF Proper
<1>7. CASE d.locked # None
  BY <1>1, <1>2, <1>5, <1>6, <1>7, GuessStarts
<1>8. CASE d.locked = None
  <2>1. IsAccount(attempt', d, guesses)
    BY <1>1, <1>2, <1>4, <1>8, GuessFacts, AccountSaves DEF d
  <2> QED
    BY <1>1, <1>2, <1>5, <1>6, <1>8, <2>1 DEF GuessInv
<1> QED
  BY <1>7, <1>8

LEMMA TickGuesses ==
  ASSUME LoginInv, LoginInv', GuessInv, Tick
  PROVE  GuessInv'
<1> DEFINE s(a) == [attempt[a] EXCEPT !.copy = Older(@)]
<1>1. Loaded' \in Entry /\ Loaded'.failures = Loaded.failures /\ Sound(Loaded')
  <2>1. CASE entry = None
    <3>1. entry' = None
      BY <2>1 DEF Tick, Older
    <3> QED
      BY <2>1, <3>1, GuessFacts DEF Loaded
  <2>2. CASE entry # None
    <3>1. entry \in Entry /\ Loaded = entry /\ Sound(entry)
      BY <2>2, GuessFacts DEF LoginInv, TypeOK, Loaded
    <3>2. /\ Older(entry) \in Entry /\ Older(entry) # None
          /\ Older(entry).failures = entry.failures
          /\ Older(entry).locked = Elapsed(entry.locked)
          /\ Older(entry).cooldown = Elapsed(entry.cooldown)
          /\ entry.locked \in Timer /\ entry.cooldown \in Timer
      BY <3>1, OlderType, NoEntryAssumption DEF Entry
    <3>3. Loaded' = Older(entry)
      BY <3>2 DEF Tick, Loaded
    <3> QED
      BY <3>1, <3>2, <3>3, ElapsedType DEF Sound
  <2> QED
    BY <2>1, <2>2
<1>2. ASSUME NEW a \in Attempt
      PROVE  /\ s(a).stage = attempt[a].stage /\ s(a).next = attempt[a].next
             /\ s(a).copy = Older(attempt[a].copy)
  BY GuessFacts DEF AttemptState
<1>3. attempt' = [a \in Attempt |-> s(a)] /\ guesses' = guesses
  BY DEF Tick
<1> HIDE DEF s
<1>4. ASSUME NEW a \in Attempt
      PROVE  /\ Plain(s(a)) /\ (Pending(s(a)) <=> Pending(attempt[a]))
             /\ Level(s(a), Loaded') = Level(attempt[a], Loaded)
  <2>1. Plain(attempt[a])
    BY GuessFacts
  <2>2. CASE attempt[a].stage = "set"
    <3> DEFINE e == attempt[a].copy
    <3>1. e \in Entry /\ e.locked \in Timer /\ e.cooldown \in Timer
      BY <2>2 DEF LoginInv, Writes, Entry
    <3>2. /\ Older(e).failures = e.failures /\ Older(e).locked = Elapsed(e.locked)
          /\ Older(e).cooldown = Elapsed(e.cooldown)
      BY <3>1, OlderType
    <3>3. /\ Older(e).locked = None <=> e.locked = None
          /\ Older(e).cooldown = None <=> e.cooldown = None
      BY <3>1, <3>2, ElapsedType
    <3> QED
      BY <1>2, <2>1, <2>2, <3>2, <3>3 DEF Plain, Sound, Pending, Level
  <2>3. CASE attempt[a].stage # "set"
    BY <1>1, <1>2, <2>1, <2>3 DEF Plain, Pending, Level
  <2> QED
    BY <2>2, <2>3
<1>5. Proper(attempt') /\ Proper(attempt) /\ Loaded \in Entry /\ guesses \in Nat
  BY GuessFacts DEF LoginInv, TypeOK, Proper, Writes
<1>6. ASSUME NEW w \in Nat \ {0}
      PROVE  Reaching(attempt, Loaded, w) \subseteq Reaching(attempt', Loaded', w)
  BY <1>3, <1>4 DEF Reaching
<1>7. Unwritten(attempt') = Unwritten(attempt)
  BY <1>3, <1>4 DEF Unwritten
<1>8. guesses + Cardinality(Unwritten(attempt)) <= guesses + Cardinality(Unwritten(attempt'))
  BY <1>5, <1>7, CountsType
<1>9. IsAccount(attempt', Loaded', guesses)
  BY <1>1, <1>5, <1>6, <1>8, GuessFacts, AccountGrows
<1> QED
  BY <1>1, <1>3, <1>4, <1>9 DEF GuessInv

LEMMA ForgetGuesses ==
  ASSUME LoginInv, LoginInv', GuessInv, Forget
  PROVE  GuessInv'
<1>1. guesses' = 0 /\ Loaded' = Blank /\ attempt' = attempt
  BY DEF Forget, Loaded
<1> QED
  BY <1>1, GuessFacts, StartIsPlain, GuessStarts

LEMMA GuessStepKeeps ==
  ASSUME SoftThreshold = 0, LoginInv, GuessInv, [Next]_vars
  PROVE  GuessInv'
<1>1. LoginInv'
  BY LoginStepKeeps
<1>2. ASSUME NEW a \in Attempt, RightPassword(a)
      PROVE  GuessInv'
  <2>1. attempt[a].stage = "password" /\ Read(a, "success")
    BY <1>2 DEF RightPassword, Read
  <2>2. "success" \in Stage \ {"set", "recount", "soft"}
    BY DEF Stage
  <2> QED
    BY <2>1, <2>2, GuessGoesOn
<1>3. ASSUME NEW a \in Attempt, GiveUp(a)
      PROVE  GuessInv'
  BY <1>3, GuessFinishes DEF GiveUp
<1>4. ASSUME NEW a \in Attempt
      PROVE  ~CheckSoftLock(a) /\ ~ActivateCooldown(a)
  BY GuessFacts DEF Plain, CheckSoftLock, ActivateCooldown
<1>5. CASE UNCHANGED vars
  BY <1>5 DEF vars, GuessInv, Loaded
<1> QED
  BY <1>1, <1>2, <1>3, <1>4, <1>5, ArriveGuesses, CheckCooldownGuesses,
     CountFailuresGuesses, CheckLockGuesses, ErasureGuesses, WrongPasswordGuesses,
     RegisterFailureGuesses, ReportWaitGuesses, SaveGuesses, TickGuesses, ForgetGuesses
  DEF Next

\* However many logins for an address overlap, and in whatever order their GETs
\* and SETs reach Redis, the wrong passwords tried between two locks or erasures
\* are at most as many as GuessesBounded says: the updates that register_failure
\* loses to slow SETs are finitely many, and these are all.
THEOREM GuessesStayBounded == Spec => []GuessesBounded
<1>1. SoftThreshold = 0 /\ Init /\ LoginInv => GuessInv
  <2> SUFFICES ASSUME Init, LoginInv PROVE GuessInv
    OBVIOUS
  <2>1. Proper(attempt) /\ Loaded = Blank /\ Loaded \in Entry /\ guesses = 0
    BY LoadedType DEF Init, LoginInv, TypeOK, Proper, Loaded
  <2>2. \A a \in Attempt : Plain(attempt[a])
    BY StartIsPlain DEF Init
  <2> QED
    BY <2>1, <2>2, StartIsPlain, AccountStarts DEF GuessInv
<1>2. SoftThreshold = 0 /\ LoginInv /\ GuessInv /\ [Next]_vars => GuessInv'
  BY GuessStepKeeps
<1>3. LoginInv /\ (SoftThreshold = 0 => GuessInv) => GuessesBounded
  BY GuessFacts, AccountBounds DEF GuessesBounded
<1>4. Init /\ LoginInv => (SoftThreshold = 0 => GuessInv)
  BY <1>1
<1>5. LoginInv /\ (SoftThreshold = 0 => GuessInv) /\ [Next]_vars
        => (SoftThreshold = 0 => GuessInv)'
  BY <1>2
<1> QED
  BY <1>3, <1>4, <1>5, LoginInvariant, PTL DEF Spec

-----------------------------------------------------------------------------
(* How long a lock or a cooldown lasts                                     *)

Bars == {"locked", "cooldown"}

\* The longest that a bar is set for.
Longest(bar) == IF bar = "locked" THEN Windows[Len(Windows)] ELSE Cooldown

IsUp(bar) == entry # None /\ IsRunning(entry[bar])

\* The stages of those that have passed the check of the bar and may still set
\* it.
Beyond(bar) ==
  IF bar = "locked" THEN {"expired", "password", "failure"}
  ELSE {"count", "wait", "expired", "password", "failure", "recount", "soft"}

Inside(bar, s) == (IF s.stage = "set" THEN s.next ELSE s.stage) \in Beyond(bar)

Insiders(bar, f) == {a \in Attempt : Inside(bar, f[a])}

EndsBy(timer, m) == timer # None => timer <= m

\* The bar of the entry, and those in the copies, end within m ticks.
AllEndBy(bar, f, e, m) ==
  /\ EndsBy(e[bar], m)
  /\ \A a \in Attempt : f[a].stage = "set" => EndsBy(f[a].copy[bar], m)

\* The bar, and all that those inside may set yet, one after the other, are over
\* within k ticks.
Over(bar, f, e, k) ==
  \E m \in Nat :
    /\ AllEndBy(bar, f, e, m)
    /\ Cardinality(Insiders(bar, f)) * (Longest(bar) + 1) + m <= k

\* What no bar of n attempts exceeds.
Most(bar) == Cardinality(Attempt) * (Longest(bar) + 1) + Longest(bar)

LEMMA BarTypes ==
  ASSUME NEW bar \in Bars
  PROVE  /\ Longest(bar) \in Nat
         /\ \A e \in Entry : e[bar] \in Timer
         /\ \A n \in Nat : n >= Threshold => Window(n) \in Nat /\ Window(n) <= Longest("locked")
<1>1. Len(Windows) \in Nat \ {0} /\ Windows \in [1 .. Len(Windows) -> Nat \ {0}]
  BY WindowAssumption
<1>2. Longest(bar) \in Nat
  BY <1>1, LimitTypes DEF Longest
<1>3. ASSUME NEW n \in Nat, n >= Threshold
      PROVE  Window(n) <= Longest("locked")
  <2> DEFINE i == n - Threshold + 1
             j == IF i <= Len(Windows) THEN i ELSE Len(Windows)
  <2>1. j \in 1 .. Len(Windows) /\ Len(Windows) \in 1 .. Len(Windows) /\ j <= Len(Windows)
    BY <1>1, <1>3, LimitTypes
  <2>2. Window(n) = Windows[j]
    BY DEF Window
  <2> HIDE DEF j
  <2>3. DOMAIN Windows = 1 .. Len(Windows)
    BY <1>1
  <2>4. Windows[j] <= Windows[Len(Windows)]
    BY <2>1, <2>3, WindowAssumption
  <2> QED
    BY <2>2, <2>4 DEF Longest
<1>4. \A e \in Entry : e[bar] \in Timer
  BY DEF Bars, Entry
<1> QED
  BY <1>2, <1>3, <1>4, WindowType

LEMMA InsidersAreFinite ==
  ASSUME NEW bar \in Bars, NEW f
  PROVE  /\ IsFiniteSet(Insiders(bar, f)) /\ Cardinality(Insiders(bar, f)) \in Nat
         /\ Cardinality(Insiders(bar, f)) <= Cardinality(Attempt)
         /\ Cardinality(Attempt) \in Nat
<1>1. Insiders(bar, f) \in SUBSET Attempt
  BY DEF Insiders
<1> QED
  BY <1>1, AttemptAssumption, FS_Subset, FS_CardinalityType

LEMMA OverStays ==
  ASSUME NEW bar \in Bars, NEW f, NEW e, NEW h, NEW d, NEW k \in Nat, Over(bar, f, e, k),
         \A m \in Nat : AllEndBy(bar, f, e, m) => AllEndBy(bar, h, d, m),
         Insiders(bar, h) \subseteq Insiders(bar, f)
  PROVE  Over(bar, h, d, k)
<1>1. PICK m \in Nat : /\ AllEndBy(bar, f, e, m)
                       /\ Cardinality(Insiders(bar, f)) * (Longest(bar) + 1) + m <= k
  BY DEF Over
<1> DEFINE i == Cardinality(Insiders(bar, f))
           j == Cardinality(Insiders(bar, h))
           l == Longest(bar) + 1
<1>2. i \in Nat /\ j \in Nat /\ l \in Nat
  BY InsidersAreFinite, BarTypes
<1>3. j <= i
  BY InsidersAreFinite, FS_Subset
<1>4. i * l + m <= k
  BY <1>1
<1> HIDE DEF i, j, l
<1>5. j * l <= i * l /\ j * l \in Nat /\ i * l \in Nat
  BY <1>2, <1>3
<1>6. j * l + m <= k
  BY <1>4, <1>5
<1> QED
  BY <1>1, <1>6 DEF Over, i, j, l

\* One of those inside sets the bar anew, and is inside no more.
LEMMA OverShrinks ==
  ASSUME NEW bar \in Bars, NEW f, NEW e, NEW h, NEW d, NEW k \in Nat, Over(bar, f, e, k),
         \A m \in Nat : AllEndBy(bar, f, e, m) /\ Longest(bar) <= m => AllEndBy(bar, h, d, m),
         \A m, n \in Nat : AllEndBy(bar, f, e, m) /\ m <= n => AllEndBy(bar, f, e, n),
         NEW a \in Insiders(bar, f), Insiders(bar, h) \subseteq Insiders(bar, f) \ {a}
  PROVE  Over(bar, h, d, k)
<1>1. PICK m \in Nat : /\ AllEndBy(bar, f, e, m)
                       /\ Cardinality(Insiders(bar, f)) * (Longest(bar) + 1) + m <= k
  BY DEF Over
<1> DEFINE i == Cardinality(Insiders(bar, f))
           j == Cardinality(Insiders(bar, h))
           l == Longest(bar) + 1
           n == m + Longest(bar)
<1>2. i \in Nat /\ j \in Nat /\ l \in Nat /\ Longest(bar) \in Nat /\ n \in Nat
      /\ m <= n /\ Longest(bar) <= n
  BY InsidersAreFinite, BarTypes
<1>3. j + 1 <= i
  <2> DEFINE rest == Insiders(bar, f) \ {a}
  <2>1. IsFiniteSet(rest) /\ Cardinality(rest) = i - 1
    BY InsidersAreFinite, FS_RemoveElement
  <2>2. j <= Cardinality(rest)
    BY <2>1, FS_Subset
  <2> QED
    BY <1>2, <2>1, <2>2
<1>4. i * l + m <= k /\ n + 1 = m + l
  BY <1>1, <1>2
<1>5. AllEndBy(bar, h, d, n)
  BY <1>1, <1>2
<1> HIDE DEF i, j, l, n
<1>6. j * l + l <= i * l /\ j * l \in Nat /\ i * l \in Nat
  <2>1. (j + 1) * l <= i * l
    BY <1>2, <1>3
  <2>2. (j + 1) * l = j * l + l
    BY <1>2
  <2> QED
    BY <1>2, <2>1, <2>2
<1>7. j * l + n <= k
  BY <1>2, <1>4, <1>6
<1> QED
  BY <1>2, <1>5, <1>7 DEF Over, i, j, l

LEMMA EndsLater ==
  ASSUME NEW bar \in Bars, NEW f, Proper(f), NEW e \in Entry, NEW m \in Nat, NEW n \in Nat,
         AllEndBy(bar, f, e, m), m <= n
  PROVE  AllEndBy(bar, f, e, n)
<1>1. \A t \in Timer : EndsBy(t, m) => EndsBy(t, n)
  BY LimitTypes DEF EndsBy, Timer
<1>2. e[bar] \in Timer /\ \A a \in Attempt : f[a].stage = "set" => f[a].copy[bar] \in Timer
  BY BarTypes DEF Proper, Writes
<1> QED
  BY <1>1, <1>2 DEF AllEndBy

\* The steps of one attempt that leave the entry alone.
LEMMA OverMoves ==
  ASSUME NEW bar \in Bars, NEW f, Proper(f), NEW e \in Entry, NEW k \in Nat, Over(bar, f, e, k),
         NEW a \in Attempt, NEW s,
         s.stage = "set" =>
           \/ s.copy[bar] \in {None, e[bar]}
           \/ s.copy[bar] \in Nat /\ s.copy[bar] <= Longest(bar) /\ ~Inside(bar, s),
         s.stage = "set" /\ s.copy[bar] \notin {None, e[bar]} => Inside(bar, f[a]),
         Inside(bar, s) => Inside(bar, f[a])
  PROVE  Over(bar, [f EXCEPT ![a] = s], e, k)
<1> DEFINE h == [f EXCEPT ![a] = s]
<1>1. h[a] = s /\ \A b \in Attempt \ {a} : h[b] = f[b]
  BY DEF Proper
<1> HIDE DEF h
<1>2. CASE s.stage = "set" => s.copy[bar] \in {None, e[bar]}
  <2>1. ASSUME NEW m \in Nat, AllEndBy(bar, f, e, m)
        PROVE  AllEndBy(bar, h, e, m)
    BY <1>1, <1>2, <2>1 DEF AllEndBy, EndsBy
  <2>2. Insiders(bar, h) \subseteq Insiders(bar, f)
    BY <1>1 DEF Insiders
  <2>3. Over(bar, h, e, k)
    BY <2>1, <2>2, OverStays
  <2> QED
    BY <2>3 DEF h
<1>3. CASE s.stage = "set" /\ s.copy[bar] \notin {None, e[bar]}
  <2>1. ASSUME NEW m \in Nat, AllEndBy(bar, f, e, m), Longest(bar) <= m
        PROVE  AllEndBy(bar, h, e, m)
    <3>1. EndsBy(s.copy[bar], m)
      BY <1>3, <2>1, BarTypes DEF EndsBy
    <3> QED
      BY <1>1, <2>1, <3>1 DEF AllEndBy
  <2>2. a \in Insiders(bar, f) /\ Insiders(bar, h) \subseteq Insiders(bar, f) \ {a}
    BY <1>1, <1>3 DEF Insiders
  <2>3. \A m, n \in Nat : AllEndBy(bar, f, e, m) /\ m <= n => AllEndBy(bar, f, e, n)
    BY EndsLater
  <2>4. Over(bar, h, e, k)
    BY <2>1, <2>2, <2>3, OverShrinks
  <2> QED
    BY <2>4 DEF h
<1> QED
  BY <1>2, <1>3

\* A SET puts a copy that was counted in the place of the entry.
LEMMA OverSaves ==
  ASSUME NEW bar \in Bars, NEW f, Proper(f), NEW e \in Entry, NEW k \in Nat, Over(bar, f, e, k),
         NEW a \in Attempt, f[a].stage = "set", NEW s, s.stage # "set",
         Inside(bar, s) => Inside(bar, f[a])
  PROVE  Over(bar, [f EXCEPT ![a] = s], f[a].copy, k)
<1> DEFINE h == [f EXCEPT ![a] = s]
           d == f[a].copy
<1>1. h[a] = s /\ \A b \in Attempt \ {a} : h[b] = f[b]
  BY DEF Proper
<1> HIDE DEF h
<1>2. ASSUME NEW m \in Nat, AllEndBy(bar, f, e, m)
      PROVE  AllEndBy(bar, h, d, m)
  BY <1>1, <1>2 DEF AllEndBy
<1>3. Insiders(bar, h) \subseteq Insiders(bar, f)
  BY <1>1 DEF Insiders
<1>4. Over(bar, h, d, k)
  BY <1>2, <1>3, OverStays
<1> QED
  BY <1>4 DEF h

\* What is over within k ticks, in the present state.
IsOver(bar, k) == Over(bar, attempt, Loaded, k)

LEMMA BarFacts ==
  ASSUME LoginInv, NEW bar \in Bars
  PROVE  /\ Proper(attempt) /\ Loaded \in Entry /\ Loaded[bar] \in Timer
         /\ \A a \in Attempt : attempt[a] \in AttemptState
         /\ IsUp(bar) => IsRunning(Loaded[bar]) /\ Loaded = entry
BY LoadedType, BarTypes DEF LoginInv, TypeOK, Proper, IsUp

\* The steps of one attempt that leave the entry alone.
LEMMA BarMoves ==
  ASSUME LoginInv, NEW bar \in Bars, NEW k \in Nat, IsOver(bar, k), NEW a \in Attempt, NEW s,
         attempt' = [attempt EXCEPT ![a] = s], UNCHANGED entry,
         s.stage = "set" =>
           \/ s.copy[bar] \in {None, Loaded[bar]}
           \/ /\ s.copy[bar] \in Nat /\ s.copy[bar] <= Longest(bar)
              /\ ~Inside(bar, s) /\ Inside(bar, attempt[a]),
         Inside(bar, s) => Inside(bar, attempt[a])
  PROVE  IsOver(bar, k)'
<1>1. Loaded' = Loaded
  BY DEF Loaded
<1>2. Over(bar, attempt', Loaded, k)
  BY BarFacts, OverMoves DEF IsOver
<1> QED
  BY <1>1, <1>2 DEF IsOver

LEMMA BarReads ==
  ASSUME LoginInv, NEW bar \in Bars, NEW k \in Nat, IsOver(bar, k), NEW a \in Attempt,
         NEW stage \in Stage \ {"set"}, Read(a, stage), attempt[a].stage # "set",
         stage \in Beyond(bar) => attempt[a].stage \in Beyond(bar)
  PROVE  IsOver(bar, k)'
<1> DEFINE s == [attempt[a] EXCEPT !.stage = stage]
<1>1. s.stage = stage
  BY BarFacts DEF AttemptState
<1>2. attempt' = [attempt EXCEPT ![a] = s] /\ UNCHANGED entry
  BY DEF Read
<1> HIDE DEF s
<1>3. Inside(bar, s) => Inside(bar, attempt[a])
  BY <1>1 DEF Inside
<1> QED
  BY <1>1, <1>2, <1>3, BarMoves

LEMMA BarFinishes ==
  ASSUME LoginInv, NEW bar \in Bars, NEW k \in Nat, IsOver(bar, k), NEW a \in Attempt,
         Finish(a)
  PROVE  IsOver(bar, k)'
<1>1. Start.stage = "idle" /\ ~Inside(bar, Start)
  BY DEF Start, Inside, Beyond
<1> QED
  BY <1>1, BarMoves DEF Finish

LEMMA BarRewrites ==
  ASSUME LoginInv, NEW bar \in Bars, NEW k \in Nat, IsOver(bar, k), NEW a \in Attempt,
         NEW e, NEW stage, ReadThenSet(a, e, stage),
         attempt[a].stage # "set", stage \in Beyond(bar) => attempt[a].stage \in Beyond(bar),
         \/ e[bar] \in {None, Loaded[bar]}
         \/ /\ e[bar] \in Nat /\ e[bar] <= Longest(bar)
            /\ stage \notin Beyond(bar) /\ attempt[a].stage \in Beyond(bar)
  PROVE  IsOver(bar, k)'
<1> DEFINE s == [attempt[a] EXCEPT !.stage = "set", !.copy = e, !.next = stage]
<1>1. s.stage = "set" /\ s.copy = e /\ s.next = stage
  BY BarFacts DEF AttemptState
<1>2. attempt' = [attempt EXCEPT ![a] = s] /\ UNCHANGED entry
  BY DEF ReadThenSet
<1> HIDE DEF s
<1>3. /\ Inside(bar, s) <=> stage \in Beyond(bar)
      /\ Inside(bar, attempt[a]) <=> attempt[a].stage \in Beyond(bar)
  BY <1>1 DEF Inside
<1> QED
  BY <1>1, <1>2, <1>3, BarMoves

LEMMA CheckCooldownBar ==
  ASSUME LoginInv, NEW bar \in Bars, NEW k \in Nat, IsOver(bar, k), IsUp(bar),
         NEW a \in Attempt, CheckCooldown(a)
  PROVE  IsOver(bar, k)'
<1>1. attempt[a].stage = "cooldown" /\ Loaded \in Entry
  BY BarFacts DEF CheckCooldown
<1>2. CASE bar = "cooldown"
  <2>1. IsRunning(Loaded.cooldown) /\ Loaded.cooldown # None
    BY <1>2, BarFacts DEF IsRunning
  <2>2. Finish(a)
    BY <2>1 DEF CheckCooldown
  <2> QED
    BY <2>2, BarFinishes
<1>3. CASE bar = "locked"
  <2>1. "count" \in Stage \ {"set"} /\ "count" \notin Beyond(bar)
    BY <1>3 DEF Stage, Beyond
  <2>2. [Loaded EXCEPT !.cooldown = None][bar] = Loaded[bar]
    BY <1>1, <1>3 DEF Entry
  <2>3. CASE Read(a, "count")
    BY <1>1, <2>1, <2>3, BarReads
  <2>4. CASE ReadThenSet(a, [Loaded EXCEPT !.cooldown = None], "count")
    BY <1>1, <2>1, <2>2, <2>4, BarRewrites
  <2> QED
    BY <2>3, <2>4, BarFinishes DEF CheckCooldown
<1> QED
  BY <1>2, <1>3 DEF Bars

LEMMA CheckLockBar ==
  ASSUME LoginInv, NEW bar \in Bars, NEW k \in Nat, IsOver(bar, k), IsUp(bar),
         NEW a \in Attempt, CheckLock(a)
  PROVE  IsOver(bar, k)'
<1>1. attempt[a].stage = "wait" /\ Loaded \in Entry
  BY BarFacts DEF CheckLock
<1>2. CASE bar = "locked"
  <2>1. IsRunning(Loaded.locked) /\ Loaded.locked # 0
    BY <1>2, BarFacts DEF IsRunning
  <2>2. Finish(a)
    BY <2>1 DEF CheckLock
  <2> QED
    BY <2>2, BarFinishes
<1>3. CASE bar = "cooldown"
  <2>1. Admitted(a) \in Stage \ {"set"} /\ attempt[a].stage \in Beyond(bar)
    BY <1>1, <1>3 DEF Stage, Beyond, Admitted
  <2>2. [Loaded EXCEPT !.locked = None][bar] = Loaded[bar]
    BY <1>1, <1>3 DEF Entry
  <2>3. CASE Read(a, Admitted(a))
    BY <1>1, <2>1, <2>3, BarReads
  <2>4. CASE ReadThenSet(a, [Loaded EXCEPT !.locked = None], Admitted(a))
    BY <1>1, <2>1, <2>2, <2>4, BarRewrites
  <2> QED
    BY <2>3, <2>4, BarFinishes DEF CheckLock
<1> QED
  BY <1>2, <1>3 DEF Bars

LEMMA RegisterFailureBar ==
  ASSUME LoginInv, NEW bar \in Bars, NEW k \in Nat, IsOver(bar, k), NEW a \in Attempt,
         RegisterFailure(a)
  PROVE  IsOver(bar, k)'
<1> DEFINE n == Loaded.failures + 1
           locks == n >= Threshold
           next == IF SoftThreshold > 0 THEN "recount" ELSE IF locks THEN "after" ELSE "idle"
           s == [attempt[a] EXCEPT !.stage = "set", !.copy = Failed, !.next = next,
                                   !.locks = locks]
<1>1. /\ attempt[a].stage = "failure" /\ Loaded.failures \in Nat /\ Loaded \in Entry
      /\ attempt[a] \in AttemptState
  BY BarFacts DEF RegisterFailure, Entry
<1>2. /\ Failed.cooldown = Loaded.cooldown
      /\ Failed.locked = IF locks THEN Window(n) ELSE None
  BY <1>1 DEF Failed, Entry
<1>3. Failed.locked = None \/ (Failed.locked \in Nat /\ Failed.locked <= Longest("locked"))
  BY <1>1, <1>2, BarTypes
<1>4. attempt' = [attempt EXCEPT ![a] = s] /\ UNCHANGED entry
  BY DEF RegisterFailure, Failed
<1>5. next \in {"recount", "after", "idle"}
  OBVIOUS
<1> HIDE DEF next, locks
<1>6. s.stage = "set" /\ s.copy = Failed /\ s.next = next
  BY <1>1 DEF AttemptState
<1> HIDE DEF s, n
<1>7. Inside(bar, attempt[a])
  BY <1>1 DEF Inside, Beyond
<1>8. CASE bar = "cooldown"
  BY <1>2, <1>4, <1>6, <1>7, <1>8, BarMoves
<1>9. CASE bar = "locked"
  <2>1. ~Inside(bar, s)
    BY <1>5, <1>6, <1>9 DEF Inside, Beyond
  <2> QED
    BY <1>3, <1>4, <1>6, <1>7, <1>9, <2>1, BarMoves
<1> QED
  BY <1>8, <1>9 DEF Bars

LEMMA SoftLockBar ==
  ASSUME LoginInv, NEW bar \in Bars, NEW k \in Nat, IsOver(bar, k), NEW a \in Attempt,
         CheckSoftLock(a) \/ ActivateCooldown(a)
  PROVE  IsOver(bar, k)'
<1>1. attempt[a].stage \in {"recount", "soft"} /\ Loaded \in Entry
  BY BarFacts DEF CheckSoftLock, ActivateCooldown
<1>2. /\ Report(a) \in {"after", "idle"} /\ Report(a) \in Stage \ {"set"}
      /\ Report(a) \notin Beyond(bar)
  BY DEF Report, Stage, Beyond
<1>3. CASE Read(a, "soft")
  <2>1. "soft" \in Stage \ {"set"}
    BY DEF Stage
  <2>2. "soft" \in Beyond(bar) => attempt[a].stage \in Beyond(bar)
    BY <1>1 DEF Beyond
  <2> QED
    BY <1>1, <1>3, <2>1, <2>2, BarReads
<1>4. CASE Read(a, Report(a))
  BY <1>1, <1>2, <1>4, BarReads
<1>5. CASE attempt[a].stage = "soft" /\ ReadThenSet(a, [Loaded EXCEPT !.cooldown = Cooldown], Report(a))
  <2> DEFINE e == [Loaded EXCEPT !.cooldown = Cooldown]
  <2>1. e.cooldown = Cooldown /\ e.locked = Loaded.locked
    BY <1>1 DEF Entry
  <2> HIDE DEF e
  <2>2. \/ e[bar] \in {None, Loaded[bar]}
        \/ /\ e[bar] \in Nat /\ e[bar] <= Longest(bar)
           /\ attempt[a].stage \in Beyond(bar)
    BY <1>5, <2>1, LimitTypes DEF Bars, Longest, Beyond
  <2> QED
    BY <1>1, <1>2, <1>5, <2>2, BarRewrites DEF e
<1> QED
  BY <1>1, <1>3, <1>4, <1>5 DEF CheckSoftLock, ActivateCooldown

LEMMA ReportWaitBar ==
  ASSUME LoginInv, NEW bar \in Bars, NEW k \in Nat, IsOver(bar, k), NEW a \in Attempt,
         ReportWait(a)
  PROVE  IsOver(bar, k)'
<1>1. attempt[a].stage = "after" /\ Loaded \in Entry
  BY BarFacts DEF ReportWait
<1>2. CASE ReadThenSet(a, [Loaded EXCEPT !.locked = None], "idle")
  <2>1. [Loaded EXCEPT !.locked = None][bar] \in {None, Loaded[bar]}
    BY <1>1 DEF Entry, Bars
  <2>2. "idle" \notin Beyond(bar)
    BY DEF Beyond
  <2> QED
    BY <1>1, <1>2, <2>1, <2>2, BarRewrites
<1> QED
  BY <1>2, BarFinishes DEF ReportWait

LEMMA SaveBar ==
  ASSUME LoginInv, NEW bar \in Bars, NEW k \in Nat, IsOver(bar, k), NEW a \in Attempt,
         Save(a)
  PROVE  IsOver(bar, k)'
<1> DEFINE next == attempt[a].next
           goes == [attempt[a] EXCEPT !.stage = next, !.copy = None, !.next = "idle"]
           s == IF next = "idle" THEN Start ELSE goes
<1>1. /\ attempt[a] \in AttemptState /\ attempt[a].stage = "set"
      /\ attempt[a].copy \in Entry /\ attempt[a].copy # None
      /\ next \in {"count", "expired", "password", "recount", "after", "idle"}
  BY BarFacts, NoEntryAssumption DEF Save, LoginInv, Writes
<1>2. attempt' = [attempt EXCEPT ![a] = s] /\ entry' = attempt[a].copy
  BY DEF Save, Overwrite
<1>3. goes.stage = next
  BY <1>1 DEF AttemptState
<1>4. s.stage = next
  BY <1>3 DEF Start
<1> HIDE DEF s
<1>5. Inside(bar, s) => Inside(bar, attempt[a])
  BY <1>1, <1>4 DEF Inside
<1>6. s.stage # "set"
  BY <1>1, <1>4
<1>7. Over(bar, attempt', attempt[a].copy, k)
  BY <1>1, <1>2, <1>5, <1>6, BarFacts, OverSaves DEF IsOver
<1>8. Loaded' = attempt[a].copy
  BY <1>1, <1>2 DEF Loaded
<1> QED
  BY <1>7, <1>8 DEF IsOver

\* The steps between the reads, and the first.
LEMMA OtherBar ==
  ASSUME LoginInv, NEW bar \in Bars, NEW k \in Nat, IsOver(bar, k), NEW a \in Attempt,
         Arrive(a) \/ CountFailures(a) \/ WrongPassword(a) \/ RightPassword(a)
  PROVE  IsOver(bar, k)'
<1>1. attempt[a] \in AttemptState
  BY BarFacts
<1>2. PICK s : /\ attempt' = [attempt EXCEPT ![a] = s] /\ UNCHANGED entry
               /\ s.stage # "set" /\ attempt[a].stage # "set"
               /\ s.stage \in Beyond(bar) => attempt[a].stage \in Beyond(bar)
  <2>1. CASE Arrive(a)
    <3> DEFINE s == [attempt[a] EXCEPT !.stage = "cooldown"]
    <3>1. s.stage = "cooldown"
      BY <1>1 DEF AttemptState
    <3>2. attempt' = [attempt EXCEPT ![a] = s] /\ UNCHANGED entry /\ attempt[a].stage = "idle"
      BY <2>1 DEF Arrive
    <3> HIDE DEF s
    <3> QED
      BY <3>1, <3>2 DEF Beyond
  <2>2. CASE CountFailures(a)
    <3> DEFINE s == [attempt[a] EXCEPT !.stage = "wait", !.count = Loaded.failures]
    <3>1. s.stage = "wait"
      BY <1>1 DEF AttemptState
    <3>2. attempt' = [attempt EXCEPT ![a] = s] /\ UNCHANGED entry /\ attempt[a].stage = "count"
      BY <2>2 DEF CountFailures
    <3> HIDE DEF s
    <3> QED
      BY <3>1, <3>2 DEF Beyond
  <2>3. CASE WrongPassword(a)
    <3>1. [attempt[a] EXCEPT !.stage = "failure"].stage = "failure"
      BY <1>1 DEF AttemptState
    <3> QED
      BY <2>3, <3>1 DEF WrongPassword, Beyond
  <2>4. CASE RightPassword(a)
    <3>1. [attempt[a] EXCEPT !.stage = "success"].stage = "success"
      BY <1>1 DEF AttemptState
    <3> QED
      BY <2>4, <3>1 DEF RightPassword, Beyond
  <2> QED
    BY <2>1, <2>2, <2>3, <2>4
<1>3. Inside(bar, s) => Inside(bar, attempt[a])
  BY <1>2 DEF Inside
<1> QED
  BY <1>2, <1>3, BarMoves

\* Time takes a tick off all that is running.
LEMMA TickBar ==
  ASSUME LoginInv, NEW bar \in Bars, NEW k \in Nat, IsOver(bar, k), IsUp(bar), Tick
  PROVE  k > 0 /\ IsOver(bar, k - 1)'
<1> DEFINE s(a) == [attempt[a] EXCEPT !.copy = Older(@)]
           size == Cardinality(Insiders(bar, attempt)) * (Longest(bar) + 1)
<1>1. PICK m \in Nat : AllEndBy(bar, attempt, Loaded, m) /\ size + m <= k
  BY DEF IsOver, Over
<1>2. size \in Nat
  BY InsidersAreFinite, BarTypes
<1>3. /\ Loaded \in Entry /\ Loaded = entry /\ Loaded[bar] \in Nat
      /\ Loaded[bar] > 0 /\ Loaded[bar] <= m
  BY <1>1, BarFacts DEF IsRunning, AllEndBy, EndsBy, Timer
<1>4. ASSUME NEW e \in Entry, EndsBy(e[bar], m)
      PROVE  Older(e) \in Entry /\ EndsBy(Older(e)[bar], m - 1)
  <2>1. e[bar] \in Timer /\ Older(e)[bar] = Elapsed(e[bar])
    BY OlderType, BarTypes DEF Bars
  <2>2. EndsBy(Elapsed(e[bar]), m - 1)
    BY <1>3, <1>4, <2>1, LimitTypes DEF EndsBy, Elapsed, IsRunning, Timer
  <2> QED
    BY <2>1, <2>2, OlderType
<1>5. Loaded' = Older(Loaded)
  <2>1. Older(Loaded) # None
    BY <1>3, OlderType, NoEntryAssumption
  <2> QED
    BY <1>3, <2>1 DEF Tick, Loaded
<1>6. ASSUME NEW a \in Attempt
      PROVE  /\ s(a).stage = attempt[a].stage /\ s(a).next = attempt[a].next
             /\ s(a).copy = Older(attempt[a].copy)
             /\ attempt[a].stage = "set" => attempt[a].copy \in Entry
  BY BarFacts DEF AttemptState, Proper, Writes
<1>7. attempt' = [a \in Attempt |-> s(a)]
  BY DEF Tick
<1> HIDE DEF s
<1>8. AllEndBy(bar, attempt', Loaded', m - 1)
  <2>1. EndsBy(Loaded'[bar], m - 1)
    BY <1>1, <1>3, <1>4, <1>5 DEF AllEndBy
  <2>2. ASSUME NEW a \in Attempt, attempt'[a].stage = "set"
        PROVE  EndsBy(attempt'[a].copy[bar], m - 1)
    <3>1. attempt[a].stage = "set" /\ attempt'[a].copy = Older(attempt[a].copy)
      BY <1>6, <1>7, <2>2
    <3> QED
      BY <1>1, <1>4, <1>6, <3>1 DEF AllEndBy
  <2> QED
    BY <2>1, <2>2 DEF AllEndBy
<1>9. Insiders(bar, attempt') = Insiders(bar, attempt)
  BY <1>6, <1>7 DEF Insiders, Inside
<1>10. m - 1 \in Nat /\ k > 0 /\ size + (m - 1) <= k - 1
  BY <1>1, <1>2, <1>3
<1> HIDE DEF size
<1>11. Cardinality(Insiders(bar, attempt')) * (Longest(bar) + 1) + (m - 1) <= k - 1
  BY <1>9, <1>10 DEF size
<1>12. Over(bar, attempt', Loaded', k - 1)
  BY <1>8, <1>10, <1>11 DEF Over
<1> QED
  BY <1>10, <1>12 DEF IsOver

LEMMA BarStep ==
  ASSUME LoginInv, NEW bar \in Bars, NEW k \in Nat, IsOver(bar, k), IsUp(bar), IsUp(bar)',
         [Next]_vars
  PROVE  IF Tick THEN k > 0 /\ IsOver(bar, k - 1)' ELSE IsOver(bar, k)'
<1>1. CASE Tick
  BY <1>1, TickBar
<1>2. CASE ~Tick
  <2>1. CASE UNCHANGED vars
    <3>1. UNCHANGED <<attempt, entry>> /\ Loaded' = Loaded
      BY <2>1 DEF vars, Loaded
    <3> QED
      BY <1>2, <3>1 DEF IsOver
  <2>2. ASSUME NEW a \in Attempt
        PROVE  ~ClearExpired(a) /\ ~ClearOnSuccess(a) /\ ~Forget
    BY DEF ClearExpired, ClearOnSuccess, Overwrite, Forget, IsUp
  <2>3. ASSUME NEW a \in Attempt,
               \/ Arrive(a) \/ CheckCooldown(a) \/ CountFailures(a) \/ CheckLock(a)
               \/ WrongPassword(a) \/ RightPassword(a) \/ GiveUp(a) \/ RegisterFailure(a)
               \/ CheckSoftLock(a) \/ ActivateCooldown(a) \/ ReportWait(a) \/ Save(a)
        PROVE  IsOver(bar, k)'
    <3>1. CASE GiveUp(a)
      BY <3>1, BarFinishes DEF GiveUp
    <3>2. CASE Arrive(a) \/ CountFailures(a) \/ WrongPassword(a) \/ RightPassword(a)
      BY <3>2, OtherBar
    <3>3. CASE CheckCooldown(a) \/ CheckLock(a)
      BY <3>3, CheckCooldownBar, CheckLockBar
    <3>4. CASE RegisterFailure(a) \/ CheckSoftLock(a) \/ ActivateCooldown(a)
      BY <3>4, RegisterFailureBar, SoftLockBar
    <3>5. CASE ReportWait(a) \/ Save(a)
      BY <3>5, ReportWaitBar, SaveBar
    <3> QED
      BY <2>3, <3>1, <3>2, <3>3, <3>4, <3>5
  <2>4. Next /\ ~Forget => \E a \in Attempt :
               \/ Arrive(a) \/ CheckCooldown(a) \/ CountFailures(a) \/ CheckLock(a)
               \/ ClearExpired(a) \/ WrongPassword(a) \/ RightPassword(a) \/ GiveUp(a)
               \/ ClearOnSuccess(a) \/ RegisterFailure(a) \/ CheckSoftLock(a)
               \/ ActivateCooldown(a) \/ ReportWait(a) \/ Save(a)
    BY <1>2 DEF Next
  <2>5. ~Forget
    BY DEF Forget, IsUp
  <2> QED
    BY <1>2, <2>1, <2>2, <2>3, <2>4, <2>5
<1> QED
  BY <1>1, <1>2

\* No bar is ever set for longer than its longest.
BarInv == \A bar \in Bars : AllEndBy(bar, attempt, Loaded, Longest(bar))

LEMMA BarInvMoves ==
  ASSUME LoginInv, NEW bar \in Bars, AllEndBy(bar, attempt, Loaded, Longest(bar)),
         NEW a \in Attempt, NEW s, attempt' = [attempt EXCEPT ![a] = s], UNCHANGED entry,
         s.stage = "set" =>
           \/ s.copy[bar] \in {None, Loaded[bar]}
           \/ s.copy[bar] \in Nat /\ s.copy[bar] <= Longest(bar)
  PROVE  AllEndBy(bar, attempt, Loaded, Longest(bar))'
<1>1. Loaded' = Loaded /\ Longest(bar)' = Longest(bar)
  BY DEF Loaded, Longest
<1>2. attempt'[a] = s /\ \A b \in Attempt \ {a} : attempt'[b] = attempt[b]
  BY BarFacts DEF Proper
<1>3. s.stage = "set" => EndsBy(s.copy[bar], Longest(bar))
  BY DEF AllEndBy, EndsBy
<1> QED
  BY <1>1, <1>2, <1>3 DEF AllEndBy

LEMMA BarInvInit ==
  ASSUME Init
  PROVE  BarInv
<1>1. \A bar \in Bars : Blank[bar] = None
  BY DEF Blank, Bars
<1>2. Loaded = Blank /\ \A a \in Attempt : attempt[a].stage # "set"
  BY DEF Init, Loaded, Start
<1> QED
  BY <1>1, <1>2 DEF BarInv, AllEndBy, EndsBy

LEMMA BarInvStep ==
  ASSUME LoginInv, BarInv, [Next]_vars
  PROVE  BarInv'
<1> SUFFICES ASSUME NEW bar \in Bars
             PROVE  AllEndBy(bar, attempt, Loaded, Longest(bar))'
  BY DEF BarInv
<1>1. AllEndBy(bar, attempt, Loaded, Longest(bar)) /\ Longest(bar) \in Nat
  BY BarTypes DEF BarInv
<1>2. Loaded \in Entry /\ Longest(bar)' = Longest(bar) /\ Blank[bar] = None
  BY BarFacts DEF Longest, Blank, Bars
<1>3. ASSUME NEW a \in Attempt
      PROVE  attempt[a] \in AttemptState
  BY BarFacts
<1>4. ASSUME UNCHANGED <<attempt, entry>>
      PROVE  AllEndBy(bar, attempt, Loaded, Longest(bar))'
  BY <1>1, <1>2, <1>4 DEF Loaded, AllEndBy
\* An erasure.
<1>5. ASSUME entry' = None,
             \A a \in Attempt : attempt'[a].stage = "set" => attempt'[a] = attempt[a]
      PROVE  AllEndBy(bar, attempt, Loaded, Longest(bar))'
  <2>1. Loaded' = Blank
    BY <1>5 DEF Loaded
  <2> QED
    BY <1>1, <1>2, <1>5, <2>1 DEF AllEndBy, EndsBy
<1>6. ASSUME NEW a \in Attempt, NEW s \in {"cooldown", "count", "wait", "expired", "password",
               "failure", "recount", "soft", "after", "success"}, Read(a, s)
      PROVE  AllEndBy(bar, attempt, Loaded, Longest(bar))'
  <2> DEFINE t == [attempt[a] EXCEPT !.stage = s]
  <2>1. t.stage # "set"
    BY <1>3, <1>6 DEF AttemptState
  <2>2. attempt' = [attempt EXCEPT ![a] = t] /\ UNCHANGED entry
    BY <1>6 DEF Read
  <2> HIDE DEF t
  <2> QED
    BY <1>1, <2>1, <2>2, BarInvMoves
<1>7. ASSUME NEW a \in Attempt, Finish(a)
      PROVE  AllEndBy(bar, attempt, Loaded, Longest(bar))'
  <2>1. Start.stage # "set"
    BY DEF Start
  <2> QED
    BY <1>1, <1>7, <2>1, BarInvMoves DEF Finish
<1>8. ASSUME NEW a \in Attempt, NEW e, NEW s, ReadThenSet(a, e, s),
             \/ e[bar] \in {None, Loaded[bar]}
             \/ e[bar] \in Nat /\ e[bar] <= Longest(bar)
      PROVE  AllEndBy(bar, attempt, Loaded, Longest(bar))'
  <2> DEFINE t == [attempt[a] EXCEPT !.stage = "set", !.copy = e, !.next = s]
  <2>1. t.copy = e
    BY <1>3 DEF AttemptState
  <2>2. attempt' = [attempt EXCEPT ![a] = t] /\ UNCHANGED entry
    BY <1>8 DEF ReadThenSet
  <2> HIDE DEF t
  <2> QED
    BY <1>1, <1>8, <2>1, <2>2, BarInvMoves
<1>9. /\ [Loaded EXCEPT !.locked = None][bar] \in {None, Loaded[bar]}
      /\ [Loaded EXCEPT !.cooldown = None][bar] \in {None, Loaded[bar]}
  BY <1>2 DEF Entry, Bars
<1>10. ASSUME NEW a \in Attempt, CheckCooldown(a) \/ CheckLock(a) \/ ReportWait(a)
       PROVE  AllEndBy(bar, attempt, Loaded, Longest(bar))'
  <2>1. Admitted(a) \in {"expired", "password"}
    BY DEF Admitted
  <2>2. CASE Finish(a)
    BY <2>2, <1>7
  <2>3. CASE Read(a, "count") \/ Read(a, Admitted(a))
    BY <2>1, <2>3, <1>6
  <2>4. CASE \E s : \/ ReadThenSet(a, [Loaded EXCEPT !.cooldown = None], s)
                    \/ ReadThenSet(a, [Loaded EXCEPT !.locked = None], s)
    BY <2>4, <1>8, <1>9
  <2> QED
    BY <1>10, <2>2, <2>3, <2>4 DEF CheckCooldown, CheckLock, ReportWait
<1>11. ASSUME NEW a \in Attempt, CheckSoftLock(a) \/ ActivateCooldown(a)
       PROVE  AllEndBy(bar, attempt, Loaded, Longest(bar))'
  <2>1. Report(a) \in {"after", "idle"}
    BY DEF Report
  <2>2. CASE Read(a, "soft") \/ Read(a, "after")
    BY <2>2, <1>6
  <2>3. CASE Read(a, "idle")
    <3> DEFINE t == [attempt[a] EXCEPT !.stage = "idle"]
    <3>1. t.stage # "set"
      BY <1>3 DEF AttemptState
    <3>2. attempt' = [attempt EXCEPT ![a] = t] /\ UNCHANGED entry
      BY <2>3 DEF Read
    <3> HIDE DEF t
    <3> QED
      BY <1>1, <3>1, <3>2, BarInvMoves
  <2>4. CASE \E s : ReadThenSet(a, [Loaded EXCEPT !.cooldown = Cooldown], s)
    <3> DEFINE e == [Loaded EXCEPT !.cooldown = Cooldown]
    <3>1. e.cooldown = Cooldown /\ e.locked = Loaded.locked
      BY <1>2 DEF Entry
    <3> HIDE DEF e
    <3>2. \/ e[bar] \in {None, Loaded[bar]}
          \/ e[bar] \in Nat /\ e[bar] <= Longest(bar)
      BY <3>1, LimitTypes DEF Bars, Longest
    <3>3. PICK s : ReadThenSet(a, e, s)
      BY <2>4 DEF e
    <3> QED
      BY <3>2, <3>3, <1>8
  <2> QED
    BY <1>11, <2>1, <2>2, <2>3, <2>4 DEF CheckSoftLock, ActivateCooldown
<1>12. ASSUME NEW a \in Attempt, RegisterFailure(a)
       PROVE  AllEndBy(bar, attempt, Loaded, Longest(bar))'
  <2> DEFINE n == Loaded.failures + 1
             locks == n >= Threshold
             next == IF SoftThreshold > 0 THEN "recount" ELSE IF locks THEN "after" ELSE "idle"
             t == [attempt[a] EXCEPT !.stage = "set", !.copy = Failed, !.next = next,
                                     !.locks = locks]
  <2>1. Loaded.failures \in Nat
    BY <1>2 DEF Entry
  <2>2. /\ Failed.cooldown = Loaded.cooldown
        /\ Failed.locked = IF locks THEN Window(n) ELSE None
    BY <1>2 DEF Failed, Entry
  <2>3. Failed.locked = None \/ (Failed.locked \in Nat /\ Failed.locked <= Longest("locked"))
    BY <2>1, <2>2, BarTypes
  <2>4. attempt' = [attempt EXCEPT ![a] = t] /\ UNCHANGED entry
    BY <1>12 DEF RegisterFailure, Failed
  <2> HIDE DEF next, locks
  <2>5. t.copy = Failed
    BY <1>3 DEF AttemptState
  <2> HIDE DEF t, n
  <2>6. \/ Failed[bar] \in {None, Loaded[bar]}
        \/ Failed[bar] \in Nat /\ Failed[bar] <= Longest(bar)
    BY <2>2, <2>3 DEF Bars
  <2> QED
    BY <1>1, <2>4, <2>5, <2>6, BarInvMoves
<1>13. ASSUME NEW a \in Attempt, Save(a)
       PROVE  AllEndBy(bar, attempt, Loaded, Longest(bar))'
  <2>1. /\ attempt[a].stage = "set" /\ attempt[a].copy # None
        /\ attempt[a].next \in {"count", "expired", "password", "recount", "after", "idle"}
    BY <1>13, BarFacts, NoEntryAssumption DEF Save, LoginInv, Writes
  <2>2. PICK t : attempt' = [attempt EXCEPT ![a] = t] /\ t.stage # "set"
    <3> DEFINE goes == [attempt[a] EXCEPT !.stage = attempt[a].next, !.copy = None, !.next = "idle"]
    <3>1. goes.stage = attempt[a].next
      BY <1>3 DEF AttemptState
    <3>2. attempt' = [attempt EXCEPT ![a] = IF attempt[a].next = "idle" THEN Start ELSE goes]
      BY <1>13 DEF Save
    <3> DEFINE t == IF attempt[a].next = "idle" THEN Start ELSE goes
    <3> HIDE DEF goes
    <3>3. t.stage # "set"
      BY <2>1, <3>1 DEF Start
    <3>4. attempt' = [attempt EXCEPT ![a] = t]
      BY <3>2
    <3> HIDE DEF t
    <3> QED
      BY <3>3, <3>4
  <2>3. entry' = attempt[a].copy /\ Loaded' = attempt[a].copy
    BY <1>13, <2>1 DEF Save, Overwrite, Loaded
  <2>4. attempt'[a] = t /\ \A b \in Attempt \ {a} : attempt'[b] = attempt[b]
    BY <2>2, BarFacts DEF Proper
  <2> QED
    BY <1>1, <1>2, <2>1, <2>2, <2>3, <2>4 DEF AllEndBy
<1>14. ASSUME NEW a \in Attempt,
              Arrive(a) \/ CountFailures(a) \/ WrongPassword(a) \/ RightPassword(a)
       PROVE  AllEndBy(bar, attempt, Loaded, Longest(bar))'
  <2> DEFINE t == [attempt[a] EXCEPT !.stage = "wait", !.count = Loaded.failures]
             u(s) == [attempt[a] EXCEPT !.stage = s]
  <2>1. t.stage = "wait" /\ \A s : u(s).stage = s
    BY <1>3 DEF AttemptState
  <2>2. /\ UNCHANGED entry
        /\ \/ attempt' = [attempt EXCEPT ![a] = t]
           \/ \E s \in {"cooldown", "failure", "success"} : attempt' = [attempt EXCEPT ![a] = u(s)]
    BY <1>14 DEF Arrive, CountFailures, WrongPassword, RightPassword
  <2> HIDE DEF t, u
  <2> QED
    BY <1>1, <2>1, <2>2, BarInvMoves
<1>15. ASSUME NEW a \in Attempt, ClearExpired(a) \/ ClearOnSuccess(a)
       PROVE  AllEndBy(bar, attempt, Loaded, Longest(bar))'
  <2> DEFINE t == [attempt[a] EXCEPT !.stage = "password", !.count = 0]
  <2>1. t.stage # "set" /\ Start.stage # "set"
    BY <1>3 DEF AttemptState, Start
  <2>2. /\ entry' = None
        /\ attempt' = [attempt EXCEPT ![a] = t] \/ attempt' = [attempt EXCEPT ![a] = Start]
    BY <1>15 DEF ClearExpired, ClearOnSuccess, Overwrite
  <2> HIDE DEF t
  <2>3. \A b \in Attempt : attempt'[b].stage = "set" => attempt'[b] = attempt[b]
    BY <2>1, <2>2, BarFacts DEF Proper
  <2> QED
    BY <1>5, <2>2, <2>3
<1>16. CASE Forget
  BY <1>5, <1>16 DEF Forget
<1>17. CASE Tick
  <2>1. ASSUME NEW e \in Entry, EndsBy(e[bar], Longest(bar))
        PROVE  EndsBy(Older(e)[bar], Longest(bar))
    <3>1. e[bar] \in Timer /\ Older(e)[bar] = Elapsed(e[bar])
      BY OlderType, BarTypes DEF Bars
    <3> QED
      BY <1>1, <2>1, <3>1, LimitTypes DEF EndsBy, Elapsed, IsRunning, Timer
  <2>2. EndsBy(Loaded'[bar], Longest(bar))
    <3>1. CASE entry = None
      BY <1>2, <1>17, <3>1 DEF Tick, Older, Loaded, EndsBy
    <3>2. CASE entry # None
      <4>1. Loaded = entry /\ entry' = Older(entry) /\ Older(entry) # None
        BY <1>2, <1>17, <3>2, OlderType, NoEntryAssumption DEF Tick, Loaded
      <4> QED
        BY <1>1, <1>2, <2>1, <4>1 DEF Loaded, AllEndBy
    <3> QED
      BY <3>1, <3>2
  <2>3. ASSUME NEW a \in Attempt, attempt'[a].stage = "set"
        PROVE  EndsBy(attempt'[a].copy[bar], Longest(bar))
    <3> DEFINE t == [attempt[a] EXCEPT !.copy = Older(@)]
    <3>1. t.stage = attempt[a].stage /\ t.copy = Older(attempt[a].copy)
      BY <1>3 DEF AttemptState
    <3>2. attempt'[a] = t
      BY <1>17 DEF Tick
    <3> HIDE DEF t
    <3>3. attempt[a].stage = "set" /\ attempt[a].copy \in Entry
      BY <2>3, <3>1, <3>2, BarFacts DEF Proper, Writes
    <3> QED
      BY <1>1, <2>1, <3>1, <3>2, <3>3 DEF AllEndBy
  <2> QED
    BY <1>2, <2>2, <2>3 DEF AllEndBy
<1>18. CASE \E a \in Attempt : GiveUp(a)
  BY <1>7, <1>18 DEF GiveUp
<1> QED
  BY <1>4, <1>10, <1>11, <1>12, <1>13, <1>14, <1>15, <1>16, <1>17, <1>18 DEF Next, vars

\* A lock, or a cooldown, that is in force ends within Most(bar) ticks of the
\* clock, whatever the logins at the address do meanwhile and however slow their
\* SETs are: at any time its end, and all that can still be added to it, lies at
\* most that far ahead (IsOver), and while it lasts only the clock changes that,
\* by a tick at a time and downwards.  For required_wait_seconds and
\* cooldown_remaining_seconds turn away whoever finds the bar, and those who had
\* passed the check before set it once more each at most.  With a clock that
\* goes on, this is BarEnds.
THEOREM BarsRunOut ==
  Spec => /\ [](\A bar \in Bars : IsOver(bar, Most(bar)))
          /\ [][\A bar \in Bars, k \in Nat : IsUp(bar) /\ IsUp(bar)' /\ IsOver(bar, k) =>
                  IF Tick THEN k > 0 /\ IsOver(bar, k - 1)' ELSE IsOver(bar, k)']_vars
<1>1. ASSUME LoginInv, BarInv, NEW bar \in Bars
      PROVE  IsOver(bar, Most(bar))
  <2> DEFINE i == Cardinality(Insiders(bar, attempt))
             n == Cardinality(Attempt)
             l == Longest(bar) + 1
  <2>1. i \in Nat /\ n \in Nat /\ i <= n /\ l \in Nat /\ Longest(bar) \in Nat
    BY InsidersAreFinite, BarTypes
  <2>2. Most(bar) = n * l + Longest(bar)
    BY DEF Most
  <2>3. AllEndBy(bar, attempt, Loaded, Longest(bar))
    BY <1>1 DEF BarInv
  <2> HIDE DEF i, n, l
  <2>4. i * l <= n * l /\ i * l \in Nat /\ n * l \in Nat
    BY <2>1
  <2>5. i * l + Longest(bar) <= Most(bar)
    BY <2>1, <2>2, <2>4
  <2> QED
    BY <2>1, <2>3, <2>5 DEF IsOver, Over, i, l
<1>2. ASSUME LoginInv, [Next]_vars, NEW bar \in Bars, NEW k \in Nat, IsUp(bar), IsUp(bar)',
             IsOver(bar, k)
      PROVE  IF Tick THEN k > 0 /\ IsOver(bar, k - 1)' ELSE IsOver(bar, k)'
  BY <1>2, BarStep
<1>3. LoginInv /\ BarInv => \A bar \in Bars : IsOver(bar, Most(bar))
  BY <1>1
<1>4. LoginInv /\ [Next]_vars =>
        [\A bar \in Bars, k \in Nat : IsUp(bar) /\ IsUp(bar)' /\ IsOver(bar, k) =>
           IF Tick THEN k > 0 /\ IsOver(bar, k - 1)' ELSE IsOver(bar, k)']_vars
  BY <1>2
<1>5. Init => BarInv
  BY BarInvInit
<1>6. LoginInv /\ BarInv /\ [Next]_vars => BarInv'
  BY BarInvStep
<1> QED
  BY <1>3, <1>4, <1>5, <1>6, LoginInvariant, PTL DEF Spec

-----------------------------------------------------------------------------
(* The rate limits                                                         *)

\* The oldest first.
Descending(list) == \A i, j \in 1 .. Len(list) : i <= j => list[j] <= list[i]

\* The last m hits that Redis admitted are of its present window, which began
\* Seconds - left ago; the others are older, and they were not all that the
\* window before them had room for, since its first hit has left the list.
TwoWindows(list, hits, left) ==
  IF hits = 0 THEN Len(list) <= Times - 1
  ELSE \E m \in 0 .. Len(list) :
         /\ m <= hits
         /\ Len(list) - m <= Times - 1
         /\ \A i \in 1 .. Len(list) - m : list[i] >= Seconds - left
         /\ m = hits => list[Len(list) - m + 1] >= Seconds - left

LimitInv ==
  /\ LimitTypeOK
  /\ bucket = passed["memory"] /\ Len(bucket) <= Capacity
  /\ \A by \in {"redis", "memory"} : Descending(passed[by])
  /\ TwoWindows(passed["redis"], counter.hits, counter.left)

LEMMA LimitFacts ==
  /\ Times \in Nat /\ Times >= 1 /\ Seconds \in Nat /\ Seconds >= 1
  /\ FallbackTimes \in Nat /\ Capacity \in Nat
  /\ \A w \in Weight : w \in Nat /\ w >= 1
  /\ 0 \in Age /\ \A a \in Age : a \in Nat /\ a <= Seconds - 1
BY LimitsArePositive DEF Capacity, Weight, Age

LEMMA HitList ==
  ASSUME NEW list \in Seq(Age), NEW w \in Nat
  PROVE  /\ Hit(list, w) \in Seq(Age) /\ Len(Hit(list, w)) = Len(list) + w
         /\ \A i \in 1 .. Len(list) : Hit(list, w)[i] = list[i]
         /\ \A i \in Len(list) + 1 .. Len(list) + w : Hit(list, w)[i] = 0
         /\ Descending(list) => Descending(Hit(list, w))
<1> DEFINE zeros == [i \in 1 .. w |-> 0]
           longer == list \o zeros
<1>1. zeros \in Seq(Age) /\ Len(zeros) = w /\ \A i \in 1 .. w : zeros[i] = 0
  BY LimitFacts
<1> HIDE DEF zeros
<1>2. /\ longer \in Seq(Age) /\ Len(list) \in Nat /\ Len(longer) = Len(list) + w
      /\ \A i \in 1 .. Len(list) + w :
           longer[i] = IF i <= Len(list) THEN list[i] ELSE zeros[i - Len(list)]
  BY <1>1
<1> HIDE DEF longer
<1>3. \A i \in Len(list) + 1 .. Len(list) + w : ~(i <= Len(list)) /\ i - Len(list) \in 1 .. w
  BY <1>2
<1>4. /\ \A i \in 1 .. Len(list) : longer[i] = list[i]
      /\ \A i \in Len(list) + 1 .. Len(list) + w : longer[i] = 0
  BY <1>1, <1>2, <1>3
<1>5. ASSUME Descending(list) PROVE Descending(longer)
  <2> SUFFICES ASSUME NEW i \in 1 .. Len(longer), NEW j \in 1 .. Len(longer), i <= j
               PROVE  longer[j] <= longer[i]
    BY DEF Descending
  <2>1. CASE j <= Len(list)
    BY <1>2, <1>4, <1>5, <2>1 DEF Descending
  <2>2. CASE ~(j <= Len(list))
    <3>1. longer[j] = 0 /\ longer[i] \in Age
      BY <1>2, <1>4, <2>2
    <3> QED
      BY <3>1, LimitFacts
  <2> QED
    BY <2>1, <2>2
<1> QED
  BY <1>2, <1>4, <1>5 DEF Hit, longer, zeros

\* As many hits leave a list as are as old as they may be, and those come first.
LEMMA AgedList ==
  ASSUME NEW list \in Seq(Age), Descending(list)
  PROVE  \E n \in 0 .. Len(list) :
           /\ \A i \in 1 .. Len(list) : i <= n <=> list[i] = Seconds - 1
           /\ Aged(list) \in Seq(Age) /\ Len(Aged(list)) = Len(list) - n
           /\ \A i \in 1 .. Len(list) - n : Aged(list)[i] = list[i + n] + 1
           /\ Descending(Aged(list))
<1> DEFINE S == {i \in DOMAIN list : list[i] = Seconds - 1}
           n == Cardinality(S)
           rest == [i \in 1 .. Len(list) - n |-> list[i + n] + 1]
<1>1. /\ Len(list) \in Nat /\ S \subseteq 1 .. Len(list)
      /\ \A i \in 1 .. Len(list) : list[i] \in Nat /\ list[i] <= Seconds - 1 /\ list[i] \in Age
  BY LimitFacts
<1>2. IsFiniteSet(S)
  BY <1>1, FS_Interval, FS_Subset
<1>3. \A a \in Nat : IsFiniteSet(1 .. a) /\ Cardinality(1 .. a) = a
  <2> TAKE a \in Nat
  <2>1. IsFiniteSet(1 .. a) /\ Cardinality(1 .. a) = IF 1 > a THEN 0 ELSE a - 1 + 1
    BY FS_Interval
  <2> QED
    BY <2>1
<1>4. n \in Nat /\ n <= Len(list)
  BY <1>1, <1>2, <1>3, FS_CardinalityType, FS_Subset
<1>5. ASSUME NEW i \in 1 .. Len(list)
      PROVE  i <= n <=> list[i] = Seconds - 1
  <2>1. CASE list[i] = Seconds - 1
    <3>1. 1 .. i \subseteq S
      <4> SUFFICES ASSUME NEW j \in 1 .. i PROVE j \in S
        OBVIOUS
      <4>1. j \in 1 .. Len(list) /\ j <= i
        BY <1>1
      <4>2. list[i] <= list[j]
        BY <4>1 DEF Descending
      <4> QED
        BY <1>1, <2>1, <4>1, <4>2, LimitFacts
    <3>2. Cardinality(1 .. i) <= Cardinality(S) /\ Cardinality(1 .. i) = i
      BY <1>2, <1>3, <3>1, FS_Subset
    <3> QED
      BY <2>1, <3>2
  <2>2. CASE list[i] # Seconds - 1
    <3>1. S \subseteq 1 .. i - 1
      <4> SUFFICES ASSUME NEW j \in S, ~(j <= i - 1) PROVE FALSE
        BY <1>1
      <4>1. j \in 1 .. Len(list) /\ i <= j
        BY <1>1
      <4>2. list[j] <= list[i] /\ list[j] = Seconds - 1
        BY <4>1 DEF Descending
      <4> QED
        BY <1>1, <2>2, <4>2, LimitFacts
    <3>2. Cardinality(S) <= Cardinality(1 .. i - 1) /\ Cardinality(1 .. i - 1) = i - 1
      BY <1>3, <3>1, FS_Subset
    <3> QED
      BY <1>4, <2>2, <3>2
  <2> QED
    BY <2>1, <2>2
<1> HIDE DEF n, S
<1>6. /\ Len(rest) = Len(list) - n
      /\ \A i \in 1 .. Len(list) - n : rest[i] = list[i + n] + 1 /\ i + n \in 1 .. Len(list)
  BY <1>1, <1>4
<1>7. \A i \in 1 .. Len(list) - n : rest[i] \in Age
  <2> TAKE i \in 1 .. Len(list) - n
  <2>1. i + n \in 1 .. Len(list) /\ ~(i + n <= n)
    BY <1>1, <1>4
  <2>2. list[i + n] # Seconds - 1
    BY <1>5, <2>1
  <2>3. list[i + n] \in Age
    BY <1>1, <2>1
  <2>4. list[i + n] + 1 \in Age
    <3> HIDE DEF rest
    <3> QED
      BY <2>2, <2>3, LimitFacts DEF Age
  <2>5. rest[i] = list[i + n] + 1
    BY <1>6
  <2> HIDE DEF rest
  <2> QED
    BY <2>4, <2>5
<1>8. rest \in Seq(Age)
  BY <1>1, <1>4, <1>7
<1>9. Descending(rest)
  <2> SUFFICES ASSUME NEW i \in 1 .. Len(list) - n, NEW j \in 1 .. Len(list) - n, i <= j
               PROVE  rest[j] <= rest[i]
    BY <1>6 DEF Descending
  <2>1. i + n \in 1 .. Len(list) /\ j + n \in 1 .. Len(list) /\ i + n <= j + n
    BY <1>1, <1>4
  <2>2. list[j + n] <= list[i + n]
    BY <2>1 DEF Descending
  <2> QED
    BY <1>1, <1>6, <2>1, <2>2
<1>10. Aged(list) = rest
  BY DEF Aged, n, S
<1> HIDE DEF rest
<1>11. n \in 0 .. Len(list)
  BY <1>1, <1>4
<1> QED
  BY <1>5, <1>6, <1>8, <1>9, <1>10, <1>11

LEMMA InitLimit == LimitInit => LimitInv
<1> SUFFICES ASSUME LimitInit PROVE LimitInv
  OBVIOUS
<1>1. <<>> \in Seq(Age) /\ Len(<<>>) = 0 /\ Descending(<<>>)
  BY DEF Descending
<1>2. counter = NoCounter /\ counter.hits = 0 /\ counter.left = 0
  BY DEF LimitInit, NoCounter
<1>3. /\ bucket = <<>> /\ passed["memory"] = <<>> /\ passed["redis"] = <<>>
      /\ passed \in [{"redis", "memory"} -> Seq(Age)]
  BY <1>1 DEF LimitInit
<1>4. LimitTypeOK
  BY <1>1, <1>2, <1>3, LimitFacts DEF LimitInit, LimitTypeOK, NoCounter
<1> QED
  BY <1>1, <1>2, <1>3, <1>4, LimitFacts DEF LimitInv, TwoWindows

\* Redis counts a hit, and the request passes or Redis raises.
LEMMA CountedKeeps ==
  ASSUME NEW list \in Seq(Age), NEW hits \in 0 .. Times - 1, NEW left \in 0 .. Seconds,
         TwoWindows(list, hits, left), NEW next, next = list \/ next = Hit(list, 1),
         NEW until, until = IF hits = 0 THEN Seconds ELSE left
  PROVE  TwoWindows(next, hits + 1, until)
<1>1. /\ Len(list) \in Nat /\ hits \in Nat /\ until \in Nat
      /\ Times \in Nat /\ Times >= 1 /\ Seconds \in Nat /\ Seconds >= 1
  BY LimitFacts
<1>2. \A i \in 1 .. Len(list) : list[i] \in Nat
  BY LimitFacts
<1>3. PICK m \in 0 .. Len(list) :
         /\ m <= hits
         /\ Len(list) - m <= Times - 1
         /\ \A i \in 1 .. Len(list) - m : list[i] >= Seconds - until
         /\ m = hits /\ m # 0 => list[Len(list) - m + 1] >= Seconds - until
  <2>1. CASE hits = 0
    <3>1. Len(list) <= Times - 1 /\ until = Seconds /\ Seconds - until = 0
      BY <1>1, <2>1 DEF TwoWindows
    <3>2. /\ 0 \in 0 .. Len(list) /\ 0 <= hits /\ Len(list) - 0 <= Times - 1
          /\ \A i \in 1 .. Len(list) - 0 : list[i] >= Seconds - until
      BY <1>1, <1>2, <3>1
    <3> QED
      BY <3>2
  <2>2. CASE hits # 0
    BY <1>1, <2>2 DEF TwoWindows
  <2> QED
    BY <2>1, <2>2
<1>4. m \in Nat /\ m <= Len(list) /\ m <= hits /\ Len(list) - m <= Times - 1 /\ Len(list) - m \in Nat
  BY <1>1, <1>3
<1>5. SUFFICES \E k \in 0 .. Len(next) :
         /\ k <= hits + 1
         /\ Len(next) - k <= Times - 1
         /\ \A i \in 1 .. Len(next) - k : next[i] >= Seconds - until
         /\ k = hits + 1 => next[Len(next) - k + 1] >= Seconds - until
  <2>1. hits + 1 # 0
    BY <1>1
  <2> QED
    BY <2>1 DEF TwoWindows
<1>6. CASE next = list
  <2>1. m # hits + 1 /\ m <= hits + 1
    BY <1>1, <1>4
  <2> QED
    BY <1>3, <1>6, <2>1
<1>7. CASE next = Hit(list, 1)
  <2>1. /\ Len(next) = Len(list) + 1
        /\ \A i \in 1 .. Len(list) : next[i] = list[i]
        /\ \A i \in Len(list) + 1 .. Len(list) + 1 : next[i] = 0
    <3>1. 1 \in Nat
      OBVIOUS
    <3> QED
      BY <1>7, <3>1, HitList
  <2>2. next[Len(list) + 1] = 0
    <3>1. Len(list) + 1 \in Len(list) + 1 .. Len(list) + 1
      BY <1>1
    <3> QED
      BY <2>1, <3>1
  <2>3. /\ m + 1 \in 0 .. Len(next) /\ m + 1 <= hits + 1
        /\ Len(next) - (m + 1) = Len(list) - m
    BY <1>1, <1>4, <2>1
  <2>4. ASSUME NEW i \in 1 .. Len(list) - m PROVE next[i] >= Seconds - until
    <3>1. i \in 1 .. Len(list)
      BY <1>1, <1>4
    <3>2. next[i] = list[i] /\ list[i] >= Seconds - until
      BY <1>3, <2>1, <3>1
    <3> QED
      BY <3>2
  <2>5. ASSUME m = hits PROVE next[Len(list) - m + 1] >= Seconds - until
    <3>1. CASE m = 0
      <4>1. Len(list) - m + 1 = Len(list) + 1 /\ until = Seconds /\ 0 >= Seconds - until
        BY <1>1, <2>5, <3>1
      <4> QED
        BY <2>2, <4>1
    <3>2. CASE m # 0
      <4>1. Len(list) - m + 1 \in 1 .. Len(list)
        BY <1>1, <1>4, <3>2
      <4>2. /\ next[Len(list) - m + 1] = list[Len(list) - m + 1]
            /\ list[Len(list) - m + 1] >= Seconds - until
        BY <1>3, <2>1, <2>5, <3>2, <4>1
      <4> QED
        BY <4>2
    <3> QED
      BY <3>1, <3>2
  <2>6. m + 1 = hits + 1 => m = hits
    BY <1>1, <1>4
  <2> QED
    BY <1>4, <2>3, <2>4, <2>5, <2>6
<1> QED
  BY <1>6, <1>7

\* A window ends when its first hit, if Redis has let it through, leaves the list.
LEMMA TickKeepsWindows ==
  ASSUME NEW list \in Seq(Age), NEW hits \in 0 .. Times, NEW left \in 0 .. Seconds,
         hits = 0 <=> left = 0, Descending(list), TwoWindows(list, hits, left)
  PROVE  IF left <= 1 THEN TwoWindows(Aged(list), 0, 0)
         ELSE TwoWindows(Aged(list), hits, left - 1)
<1> DEFINE next == Aged(list)
<1>1. PICK n \in 0 .. Len(list) :
        /\ \A i \in 1 .. Len(list) : i <= n <=> list[i] = Seconds - 1
        /\ Len(next) = Len(list) - n
        /\ \A i \in 1 .. Len(list) - n : next[i] = list[i + n] + 1
  BY AgedList
<1> HIDE DEF next
<1>2. /\ Len(list) \in Nat /\ hits \in Nat /\ left \in Nat /\ hits <= Times
      /\ Times \in Nat /\ Times >= 1 /\ Seconds \in Nat /\ Seconds >= 1
      /\ n \in Nat /\ n <= Len(list) /\ Len(next) \in Nat /\ Len(next) = Len(list) - n
  BY <1>1, LimitFacts
<1>3. \A i \in 1 .. Len(list) : list[i] \in Nat /\ list[i] <= Seconds - 1
  BY LimitFacts
<1>4. CASE hits = 0
  <2>1. Len(next) <= Times - 1 /\ left <= 1
    BY <1>2, <1>4 DEF TwoWindows
  <2> QED
    BY <2>1 DEF TwoWindows, next
<1>5. CASE hits # 0
  <2>1. PICK m \in 0 .. Len(list) :
         /\ m <= hits
         /\ Len(list) - m <= Times - 1
         /\ \A i \in 1 .. Len(list) - m : list[i] >= Seconds - left
         /\ m = hits => list[Len(list) - m + 1] >= Seconds - left
    BY <1>5 DEF TwoWindows
  <2>2. /\ m \in Nat /\ m <= Len(list) /\ m <= hits /\ Len(list) - m <= Times - 1
        /\ left >= 1 /\ hits >= 1 /\ Len(list) - m \in Nat
    BY <1>2, <1>5, <2>1
  <2>3. ASSUME NEW i \in 1 .. Len(list), list[i] >= Seconds - left, left = 1
        PROVE  i <= n
    <3>1. list[i] = Seconds - 1
      BY <1>2, <1>3, <2>3
    <3> QED
      BY <1>1, <3>1
  <2>4. ASSUME NEW i \in 1 .. Len(list) - n, list[i + n] >= Seconds - left
        PROVE  next[i] >= Seconds - (left - 1)
    <3>1. i + n \in 1 .. Len(list)
      BY <1>2
    <3>2. list[i + n] \in Nat /\ next[i] = list[i + n] + 1
      BY <1>1, <1>3, <3>1
    <3> DEFINE a == list[i + n]
    <3>3. a \in Nat /\ next[i] = a + 1 /\ a >= Seconds - left
      BY <2>4, <3>2
    <3> HIDE DEF a
    <3> QED
      BY <1>2, <3>3
  <2>5. CASE left <= 1
    <3>0. left = 1
      BY <1>2, <2>2, <2>5
    <3>1. Len(list) - m <= n
      <4>1. CASE Len(list) - m = 0
        BY <1>2, <4>1
      <4>2. CASE Len(list) - m # 0
        <5>1. Len(list) - m \in 1 .. Len(list) /\ Len(list) - m \in 1 .. Len(list) - m
          BY <1>2, <2>2, <4>2
        <5> QED
          BY <2>1, <2>3, <3>0, <5>1
      <4> QED
        BY <4>1, <4>2
    <3>2. m = hits => Len(list) - m + 1 <= n
      <4>1. m = hits => Len(list) - m + 1 \in 1 .. Len(list)
        BY <1>2, <2>2
      <4> QED
        BY <2>1, <2>3, <3>0, <4>1
    <3>3. Len(next) <= Times - 1
      <4>1. CASE m = hits
        BY <1>2, <2>2, <3>2, <4>1
      <4>2. CASE m # hits
        BY <1>2, <2>2, <3>1, <4>2
      <4> QED
        BY <4>1, <4>2
    <3> QED
      BY <2>5, <3>3 DEF TwoWindows, next
  <2>6. CASE ~(left <= 1)
    <3> SUFFICES \E k \in 0 .. Len(next) :
           /\ k <= hits
           /\ Len(next) - k <= Times - 1
           /\ \A i \in 1 .. Len(next) - k : next[i] >= Seconds - (left - 1)
           /\ k = hits => next[Len(next) - k + 1] >= Seconds - (left - 1)
      BY <1>5, <2>6 DEF TwoWindows, next
    <3>1. CASE n <= Len(list) - m
      <4>1. /\ m \in 0 .. Len(next) /\ Len(next) - m <= Times - 1
            /\ Len(next) - m = Len(list) - m - n
        BY <1>2, <2>2, <3>1
      <4>2. ASSUME NEW i \in 1 .. Len(next) - m
            PROVE  next[i] >= Seconds - (left - 1)
        <5>1. i \in 1 .. Len(list) - n /\ i + n \in 1 .. Len(list) - m
          BY <1>2, <2>2, <4>1
        <5> QED
          BY <2>1, <2>4, <5>1
      <4>3. ASSUME m = hits
            PROVE  next[Len(next) - m + 1] >= Seconds - (left - 1)
        <5>1. /\ Len(next) - m + 1 \in 1 .. Len(list) - n
              /\ (Len(next) - m + 1) + n = Len(list) - m + 1
          BY <1>2, <2>2, <3>1, <4>1, <4>3
        <5> QED
          BY <2>1, <2>4, <4>3, <5>1
      <4> QED
        BY <2>1, <4>1, <4>2, <4>3
    <3>2. CASE ~(n <= Len(list) - m)
      <4>1. /\ Len(next) \in 0 .. Len(next) /\ Len(next) <= hits /\ Len(next) # hits
            /\ Len(next) - Len(next) <= Times - 1
            /\ \A i \in 1 .. Len(next) - Len(next) : FALSE
        BY <1>2, <2>2, <3>2
      <4> QED
        BY <4>1
    <3> QED
      BY <3>1, <3>2
  <2> QED
    BY <2>5, <2>6
<1> QED
  BY <1>4, <1>5

\* The parts of the invariant, for the list of one of the two.
LEMMA ListFacts ==
  ASSUME LimitInv, NEW by \in {"redis", "memory"}
  PROVE  passed[by] \in Seq(Age) /\ Len(passed[by]) \in Nat /\ Descending(passed[by])
BY DEF LimitInv, LimitTypeOK

\* Redis may count the hit of a request that the list is asked about.
LEMMA RedisFailsKeeps ==
  ASSUME LimitInv, RedisFails
  PROVE  /\ counter' \in [hits : 0 .. Times, left : 0 .. Seconds]
         /\ counter'.hits = 0 <=> counter'.left = 0
         /\ TwoWindows(passed["redis"], counter'.hits, counter'.left)
         /\ counter.hits > 0 => counter'.left = counter.left
<1>1. /\ counter \in [hits : 0 .. Times, left : 0 .. Seconds]
      /\ counter.hits = 0 <=> counter.left = 0
      /\ TwoWindows(passed["redis"], counter.hits, counter.left)
  BY DEF LimitInv, LimitTypeOK
<1>2. CASE counter' = counter
  BY <1>1, <1>2
<1>3. CASE counter.hits < Times /\ counter' = Counted
  <2>1. /\ counter'.hits = counter.hits + 1
        /\ counter'.left = IF counter.hits = 0 THEN Seconds ELSE counter.left
        /\ counter' = [hits |-> counter'.hits, left |-> counter'.left]
    BY <1>3 DEF Counted
  <2>2. /\ counter.hits \in 0 .. Times - 1 /\ counter.left \in 0 .. Seconds
        /\ counter'.hits \in 0 .. Times /\ counter'.left \in 0 .. Seconds
        /\ counter'.hits # 0 /\ counter'.left # 0
    BY <1>1, <1>3, <2>1, LimitFacts
  <2>3. TwoWindows(passed["redis"], counter.hits + 1, counter'.left)
    BY <1>1, <2>1, <2>2, CountedKeeps, ListFacts
  <2> QED
    BY <2>1, <2>2, <2>3
<1> QED
  BY <1>2, <1>3 DEF RedisFails

LEMMA AskRedisLimit == ASSUME LimitInv, AskRedis PROVE LimitInv'
<1>1. /\ counter \in [hits : 0 .. Times, left : 0 .. Seconds]
      /\ counter.hits < Times /\ counter' = Counted
      /\ TwoWindows(passed["redis"], counter.hits, counter.left)
      /\ limiter' = limiter /\ bucket' = bucket
      /\ passed \in [{"redis", "memory"} -> Seq(Age)]
  BY DEF AskRedis, LimitInv, LimitTypeOK
<1>2. /\ passed' \in [{"redis", "memory"} -> Seq(Age)]
      /\ passed'["redis"] = Hit(passed["redis"], 1) /\ Descending(passed'["redis"])
      /\ passed'["memory"] = passed["memory"]
  <2>1. /\ Hit(passed["redis"], 1) \in Seq(Age) /\ Descending(Hit(passed["redis"], 1))
    BY HitList, ListFacts
  <2> QED
    BY <1>1, <2>1 DEF AskRedis
<1>3. /\ counter'.hits = counter.hits + 1
      /\ counter'.left = IF counter.hits = 0 THEN Seconds ELSE counter.left
      /\ counter' = [hits |-> counter'.hits, left |-> counter'.left]
  BY <1>1 DEF Counted
<1>4. /\ counter.hits \in 0 .. Times - 1 /\ counter.left \in 0 .. Seconds
      /\ counter'.hits \in 0 .. Times /\ counter'.left \in 0 .. Seconds
      /\ counter'.hits # 0 /\ counter'.left # 0
  <2>1. counter.hits = 0 <=> counter.left = 0
    BY DEF LimitInv, LimitTypeOK
  <2> QED
    BY <1>1, <1>3, <2>1, LimitFacts
<1>5. TwoWindows(passed'["redis"], counter'.hits, counter'.left)
  <2>1. TwoWindows(passed'["redis"], counter.hits + 1, counter'.left)
    <3>1. passed["redis"] \in Seq(Age)
      BY ListFacts
    <3> HIDE DEF LimitInv
    <3> QED
      BY <1>1, <1>2, <1>3, <1>4, <3>1, CountedKeeps
  <2> QED
    BY <1>3, <2>1
<1>6. counter' \in [hits : 0 .. Times, left : 0 .. Seconds]
  BY <1>3, <1>4
<1> QED
  BY <1>1, <1>2, <1>4, <1>5, <1>6 DEF LimitInv, LimitTypeOK, Capacity

LEMMA AskListLimit ==
  ASSUME LimitInv, NEW w \in Weight, AskList(w) PROVE LimitInv'
<1>1. /\ limiter' = limiter /\ passed \in [{"redis", "memory"} -> Seq(Age)]
      /\ bucket = passed["memory"] /\ bucket' = Hit(bucket, w) /\ Len(bucket) + w <= Capacity
      /\ passed' = [passed EXCEPT !["memory"] = Hit(@, w)]
  BY DEF AskList, Fits, LimitInv, LimitTypeOK
<1>2. /\ Hit(bucket, w) \in Seq(Age) /\ Descending(Hit(bucket, w))
      /\ Len(Hit(bucket, w)) = Len(bucket) + w
  BY <1>1, HitList, ListFacts, LimitFacts
<1>3. /\ passed' \in [{"redis", "memory"} -> Seq(Age)] /\ bucket' = passed'["memory"]
      /\ passed'["redis"] = passed["redis"] /\ Len(bucket') <= Capacity
      /\ bucket' \in Seq(Age) /\ Descending(passed'["memory"]) /\ Descending(passed'["redis"])
  BY <1>1, <1>2, ListFacts
<1>4. /\ counter' \in [hits : 0 .. Times, left : 0 .. Seconds]
      /\ counter'.hits = 0 <=> counter'.left = 0
      /\ TwoWindows(passed'["redis"], counter'.hits, counter'.left)
  BY <1>3, RedisFailsKeeps DEF AskList
<1> QED
  BY <1>1, <1>3, <1>4 DEF LimitInv, LimitTypeOK, Capacity

LEMMA RefuseLimit ==
  ASSUME LimitInv, NEW w \in Weight, Refuse(w) PROVE LimitInv'
<1>1. limiter' = limiter /\ bucket' = bucket /\ passed' = passed
  BY DEF Refuse
<1>2. /\ counter' \in [hits : 0 .. Times, left : 0 .. Seconds]
      /\ counter'.hits = 0 <=> counter'.left = 0
      /\ TwoWindows(passed'["redis"], counter'.hits, counter'.left)
  BY <1>1, RedisFailsKeeps DEF Refuse
<1> QED
  BY <1>1, <1>2 DEF LimitInv, LimitTypeOK, Capacity

LEMMA TickLimit == ASSUME LimitInv, LimitTick PROVE LimitInv'
<1>1. /\ limiter' = limiter /\ passed \in [{"redis", "memory"} -> Seq(Age)]
      /\ bucket = passed["memory"] /\ Len(bucket) <= Capacity /\ bucket' = Aged(bucket)
      /\ passed' = [by \in {"redis", "memory"} |-> Aged(passed[by])]
      /\ counter \in [hits : 0 .. Times, left : 0 .. Seconds]
      /\ counter.hits = 0 <=> counter.left = 0
      /\ counter' = IF counter.left <= 1 THEN NoCounter ELSE [counter EXCEPT !.left = @ - 1]
      /\ TwoWindows(passed["redis"], counter.hits, counter.left)
  BY DEF LimitTick, LimitInv, LimitTypeOK
<1>2. ASSUME NEW by \in {"redis", "memory"}
      PROVE  /\ passed'[by] = Aged(passed[by]) /\ passed'[by] \in Seq(Age)
             /\ Descending(passed'[by]) /\ Len(passed'[by]) <= Len(passed[by])
             /\ Len(passed'[by]) \in Nat
  <2>1. PICK n \in 0 .. Len(passed[by]) :
          /\ Aged(passed[by]) \in Seq(Age) /\ Len(Aged(passed[by])) = Len(passed[by]) - n
          /\ Descending(Aged(passed[by]))
    BY AgedList, ListFacts
  <2>2. passed'[by] = Aged(passed[by])
    BY <1>1
  <2>3. Len(passed[by]) \in Nat
    BY ListFacts
  <2> QED
    BY <2>1, <2>2, <2>3
<1>3. passed' \in [{"redis", "memory"} -> Seq(Age)] /\ bucket' = passed'["memory"]
  BY <1>1, <1>2
<1>4. Len(bucket') <= Capacity
  BY <1>1, <1>2, <1>3, ListFacts, LimitFacts
<1>5. IF counter.left <= 1 THEN TwoWindows(passed'["redis"], 0, 0)
      ELSE TwoWindows(passed'["redis"], counter.hits, counter.left - 1)
  BY <1>1, <1>2, TickKeepsWindows, ListFacts
<1>6. /\ counter' \in [hits : 0 .. Times, left : 0 .. Seconds]
      /\ counter'.hits = 0 <=> counter'.left = 0
      /\ TwoWindows(passed'["redis"], counter'.hits, counter'.left)
  <2>1. CASE counter.left <= 1
    BY <1>1, <1>5, <2>1, LimitFacts DEF NoCounter
  <2>2. CASE ~(counter.left <= 1)
    <3>1. counter'.hits = counter.hits /\ counter'.left = counter.left - 1
      BY <1>1, <2>2
    <3>2. counter.hits # 0 /\ counter.left - 1 \in 0 .. Seconds /\ counter.left - 1 # 0
      BY <1>1, <2>2, LimitFacts
    <3> QED
      BY <1>1, <1>5, <2>2, <3>1, <3>2
  <2> QED
    BY <2>1, <2>2
<1> QED
  BY <1>1, <1>2, <1>3, <1>4, <1>6 DEF LimitInv, LimitTypeOK, Capacity

LEMMA LimitStep == LimitInv /\ [LimitNext]_limits => LimitInv'
<1> SUFFICES ASSUME LimitInv, [LimitNext]_limits PROVE LimitInv'
  OBVIOUS
<1>1. CASE UNCHANGED limits
  BY <1>1 DEF limits, LimitInv, LimitTypeOK, Capacity
<1>2. CASE AskRedis
  BY <1>2, AskRedisLimit
<1>3. CASE RefusedByRedis
  BY <1>1, <1>3 DEF RefusedByRedis
<1>4. CASE LimitTick
  BY <1>4, TickLimit
<1>5. CASE \E w \in Weight : AskList(w) \/ Refuse(w)
  BY <1>5, AskListLimit, RefuseLimit
<1> QED
  BY <1>1, <1>2, <1>3, <1>4, <1>5 DEF LimitNext

\* The list in memory is what it has admitted in the last window, the oldest
\* first, and Redis has admitted no more than the ends of two windows have room
\* for (login_rate_limiter, rate_limit and SimpleRateLimiter.record_hit).
THEOREM LimitsAreSound == LimitSpec => []LimitInv
BY InitLimit, LimitStep, PTL DEF LimitSpec

\* In any stretch as long as a window the list admits what it may and Redis less
\* than twice its limit, whatever fails and whoever is asked.
THEOREM AdmissionStaysBounded == LimitSpec => []AdmissionIsBounded
<1>1. ASSUME LimitInv PROVE AdmissionIsBounded
  <2>1. Len(passed["memory"]) <= Capacity
    BY <1>1 DEF LimitInv
  <2>2. /\ counter.hits \in 0 .. Times /\ Times \in Nat /\ Times >= 1
        /\ Len(passed["redis"]) \in Nat
        /\ TwoWindows(passed["redis"], counter.hits, counter.left)
    BY <1>1, ListFacts, LimitFacts DEF LimitInv, LimitTypeOK
  <2>3. CASE counter.hits = 0
    BY <2>1, <2>2, <2>3 DEF AdmissionIsBounded, TwoWindows
  <2>4. CASE counter.hits # 0
    <3>1. PICK m \in 0 .. Len(passed["redis"]) :
            m <= counter.hits /\ Len(passed["redis"]) - m <= Times - 1
      BY <2>2, <2>4 DEF TwoWindows
    <3>2. Len(passed["redis"]) <= 2 * Times - 1
      BY <2>2, <3>1
    <3> QED
      BY <2>1, <3>2 DEF AdmissionIsBounded
  <2> QED
    BY <2>3, <2>4
<1> QED
  BY <1>1, LimitsAreSound, PTL

\* Who is refused has added nothing to the list that refuses him, which is full
\* of hits that were admitted, and no hit prolongs the window that Redis counts.
THEOREM RefusalIsFree == LimitSpec => RefusalsAreFree
<1>1. ASSUME LimitInv, NEW w \in Weight, Refuse(w)
      PROVE  Len(passed["memory"]) + w > Capacity
  <2>1. /\ bucket = passed["memory"] /\ Len(passed["memory"]) \in Nat /\ w \in Nat
        /\ Capacity \in Nat /\ ~(Len(bucket) + w <= Capacity)
    BY <1>1, ListFacts, LimitFacts DEF LimitInv, Refuse, Fits
  <2> QED
    BY <2>1
<1>2. ASSUME LimitInv, [LimitNext]_limits, counter.hits > 0
      PROVE  counter'.left <= counter.left
  <2>1. counter.hits \in Nat /\ counter.hits # 0 /\ counter.left \in Nat /\ counter.left # 0
    BY <1>2, LimitFacts DEF LimitInv, LimitTypeOK
  <2>2. CASE counter' = counter
    BY <2>1, <2>2
  <2>3. CASE AskRedis
    BY <2>1, <2>3 DEF AskRedis, Counted
  <2>4. CASE RedisFails
    <3>1. counter'.left = counter.left
      BY <1>2, <2>4, RedisFailsKeeps
    <3> QED
      BY <2>1, <3>1
  <2>5. CASE LimitTick
    <3>1. CASE counter.left <= 1
      BY <2>1, <2>5, <3>1 DEF LimitTick, NoCounter
    <3>2. CASE ~(counter.left <= 1)
      <4>1. counter'.left = counter.left - 1
        BY <1>2, <2>5, <3>2 DEF LimitTick, LimitInv, LimitTypeOK
      <4> QED
        BY <2>1, <4>1
    <3> QED
      BY <3>1, <3>2
  <2> QED
    BY <1>2, <2>2, <2>3, <2>4, <2>5 DEF LimitNext, limits, RefusedByRedis, AskList, Refuse
<1>3. LimitInv /\ [LimitNext]_limits =>
        [/\ \A w \in Weight : Refuse(w) => Len(passed["memory"]) + w > Capacity
         /\ counter.hits > 0 => counter'.left <= counter.left]_limits
  BY <1>1, <1>2
<1> QED
  BY <1>3, LimitsAreSound, PTL DEF LimitSpec, RefusalsAreFree
=============================================================================
