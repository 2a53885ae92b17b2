------------------------- MODULE PushDeliveryProofs -------------------------
(***************************************************************************)
(* Proofs of the safety properties of PushDelivery, for any rows, threads, *)
(* thresholds and retry schedules.                                         *)
(*                                                                         *)
(* The inductive invariant says, besides the type and CountHasDate, that   *)
(* every copy of a row somebody is about to write from has a count and a   *)
(* date that agree (Sound, LoopSound), and that a worker about to update a *)
(* row that has gone knows of a deletion.  The former makes an UPDATE of   *)
(* some columns write both of the two or neither.                          *)
(***************************************************************************)
EXTENDS PushDelivery, FiniteSetTheorems, TLAPS

Agree(e) == e.fails = 0 <=> e.last = "never"

\* What the broadcast s may rely on while the table is t.
Sound(s, t) ==
  /\ s.stage \in {"send", "mark", "marking", "reset", "resetting"} => s.row \in Row
  /\ s.stage \in {"marking", "resetting"} =>
       s.seen # None /\ Agree(s.seen) /\ (t[s.row] # None \/ s.bereft)

LoopSound == loop.row # None => loop.seen # None /\ Agree(loop.seen)

WorkersSound == \A w \in Worker : Sound(worker[w], table)

PushInv == TypeOK /\ CountHasDate /\ WorkersSound /\ LoopSound

-----------------------------------------------------------------------------
(* The states a worker may be put in                                       *)

LEMMA ConstantTypes ==
  /\ Clean \in RowState /\ Agree(Clean)
  /\ Good \in Result
  /\ Resting \in WorkerState /\ \A t : Sound(Resting, t)
  /\ PRUNE_FAIL_THRESHOLD \in Nat \ {0} /\ MaxRetries \in Nat
BY CountAssumption
   DEF Clean, RowState, Agree, Good, Result, Resting, WorkerState, Stage, Sound

\* The type of a worker that goes on, with any stage and any count.
LEMMA MoveType ==
  ASSUME NEW me \in WorkerState, NEW stage \in Stage, NEW n \in 0 .. MaxRetries
  PROVE  [me EXCEPT !.stage = stage, !.row = None, !.attempts = n,
                    !.result = Good, !.seen = None] \in WorkerState
BY ConstantTypes DEF WorkerState

LEMMA AgainType ==
  ASSUME NEW me \in WorkerState, NEW stage \in Stage, NEW n \in 0 .. MaxRetries
  PROVE  [me EXCEPT !.stage = stage, !.attempts = n, !.result = Good,
                    !.seen = None] \in WorkerState
BY ConstantTypes DEF WorkerState

LEMMA ProceedSound ==
  ASSUME TypeOK, NEW w \in Worker
  PROVE  /\ Proceed(w) \in WorkerState
         /\ \A t : Sound(Proceed(w), t)
         /\ Proceed(w).stage = "idle" => worker[w].todo = {}
<1>1. worker[w] \in WorkerState
  BY DEF TypeOK
<1>2. CASE worker[w].todo = {}
  BY <1>2, ConstantTypes DEF Proceed
<1>3. CASE worker[w].todo # {}
  <2>. DEFINE s == [worker[w] EXCEPT !.stage = "next", !.row = None, !.attempts = 0,
                                     !.result = Good, !.seen = None]
  <2>1. "next" \in Stage /\ 0 \in 0 .. MaxRetries
    BY ConstantTypes DEF Stage
  <2>2. s \in WorkerState
    BY <1>1, <2>1, MoveType
  <2>3. s.stage = "next"
    BY <1>1 DEF WorkerState
  <2>4. Proceed(w) = s
    BY <1>3 DEF Proceed
  <2>. QED
    BY <2>2, <2>3, <2>4 DEF Sound
<1>. QED
  BY <1>2, <1>3

LEMMA RetrySound ==
  ASSUME TypeOK, NEW w \in Worker, worker[w].row \in Row
  PROVE  /\ Retry(w) \in WorkerState
         /\ \A t : Sound(Retry(w), t)
         /\ Retry(w).stage = "idle" => worker[w].todo = {}
<1>1. worker[w] \in WorkerState
  BY DEF TypeOK
<1>2. CASE worker[w].attempts < MaxRetries /\ worker[w].attempts < worker[w].result.delays
  <2>. DEFINE n == worker[w].attempts + 1
  <2>1. Retry(w) = [worker[w] EXCEPT !.stage = "send", !.attempts = n,
                                     !.result = Good, !.seen = None]
    BY <1>2 DEF Retry
  <2>2. "send" \in Stage /\ n \in 0 .. MaxRetries
    BY <1>1, <1>2, ConstantTypes DEF WorkerState, Stage
  <2>3. \A k \in 0 .. MaxRetries :
          [worker[w] EXCEPT !.stage = "send", !.attempts = k,
                            !.result = Good, !.seen = None] \in WorkerState
    BY <1>1, <2>2, AgainType
  <2>. HIDE DEF n
  <2>4. Retry(w) \in WorkerState
    BY Zenon, <2>1, <2>2, <2>3
  <2>5. Retry(w).stage = "send" /\ Retry(w).row \in Row
    BY <1>1, <2>1 DEF WorkerState
  <2>. QED
    BY <2>4, <2>5 DEF Sound
<1>3. CASE ~ (worker[w].attempts < MaxRetries /\ worker[w].attempts < worker[w].result.delays)
  BY <1>3, ProceedSound DEF Retry
<1>. QED
  BY <1>2, <1>3

-----------------------------------------------------------------------------
(* The two ways a worker moves                                             *)

LEMMA StepKeeps ==
  ASSUME PushInv, NEW w \in Worker, NEW s \in WorkerState, Sound(s, table), Step(w, s)
  PROVE  PushInv'
<1>1. \A v \in Worker : worker'[v] = IF v = w THEN s ELSE worker[v]
  BY DEF PushInv, TypeOK, Step
<1>2. TypeOK'
  BY DEF PushInv, TypeOK, Step
<1>3. CountHasDate'
  BY DEF PushInv, CountHasDate, Rows, Step
<1>4. WorkersSound'
  BY <1>1 DEF PushInv, WorkersSound, Sound, Step
<1>5. LoopSound'
  BY DEF PushInv, LoopSound, Step
<1>. QED
  BY <1>2, <1>3, <1>4, <1>5 DEF PushInv

\* A row some columns of which are written.
LEMMA MergeAgrees ==
  ASSUME NEW now \in RowState, NEW new \in RowState, NEW columns,
         Agree(now), Agree(new), "fails" \in columns <=> "last" \in columns
  PROVE  Merge(now, new, columns) \in RowState /\ Agree(Merge(now, new, columns))
<1>1. DOMAIN now = {"fails", "last", "marked"}
  BY DEF RowState
<1>2. Merge(now, new, columns) =
        [c \in {"fails", "last", "marked"} |-> IF c \in columns THEN new[c] ELSE now[c]]
  BY <1>1 DEF Merge
<1>3. Merge(now, new, columns) =
        [fails  |-> IF "fails" \in columns THEN new.fails ELSE now.fails,
         last   |-> IF "last" \in columns THEN new.last ELSE now.last,
         marked |-> IF "marked" \in columns THEN new.marked ELSE now.marked]
  BY <1>2
<1>. QED
  BY <1>3 DEF RowState, Agree

\* The count and the date of a coherent copy change together.
LEMMA ResetColumns ==
  ASSUME NEW seen \in RowState, Agree(seen)
  PROVE  "fails" \in Changed(seen, Clean) <=> "last" \in Changed(seen, Clean)
<1>1. Changed(seen, Clean) = {c \in {"fails", "last", "marked"} : Clean[c] # seen[c]}
  BY DEF Changed, Clean
<1>. QED
  BY <1>1 DEF Clean, Agree, RowState

\* Writing columns of row r, if it is there.
LEMMA WriteKeeps ==
  ASSUME PushInv, NEW r \in Row, NEW new \in RowState, NEW columns, Agree(new),
         "fails" \in columns <=> "last" \in columns,
         table' = IF table[r] = None THEN table
                  ELSE [table EXCEPT ![r] = Merge(@, new, columns)]
  PROVE  /\ table' \in [Row -> RowState \cup {None}]
         /\ CountHasDate'
         /\ \A q \in Row : table[q] # None <=> table'[q] # None
<1>1. CASE table[r] = None
  BY <1>1 DEF PushInv, TypeOK, CountHasDate, Rows
<1>2. CASE table[r] # None
  <2>. DEFINE e == Merge(table[r], new, columns)
  <2>1. table[r] \in RowState /\ Agree(table[r])
    BY <1>2 DEF PushInv, TypeOK, CountHasDate, Rows, Agree
  <2>2. e \in RowState /\ Agree(e)
    BY <2>1, MergeAgrees
  <2>3. table' = [table EXCEPT ![r] = e]
    BY <1>2
  <2>4. table' \in [Row -> RowState \cup {None}]
    BY <2>2, <2>3 DEF PushInv, TypeOK
  <2>5. \A q \in Row : table'[q] = IF q = r THEN e ELSE table[q]
    BY <2>3 DEF PushInv, TypeOK
  <2>6. CountHasDate'
    BY <2>2, <2>5 DEF PushInv, CountHasDate, Rows, Agree
  <2>7. \A q \in Row : table[q] # None <=> table'[q] # None
    BY <1>2, <2>2, <2>5, NoneAssumption
  <2>. QED
    BY <2>4, <2>6, <2>7
<1>. QED
  BY <1>1, <1>2

LEMMA UpdateKeeps ==
  ASSUME PushInv, NEW w \in Worker, worker[w].row \in Row,
         NEW new \in RowState, NEW columns, Agree(new),
         "fails" \in columns <=> "last" \in columns,
         NEW s \in WorkerState, \A t : Sound(s, t),
         Update(w, new, columns, s)
  PROVE  PushInv'
<1>1. /\ table' \in [Row -> RowState \cup {None}]
      /\ CountHasDate'
      /\ \A q \in Row : table[q] # None => table'[q] # None
  BY WriteKeeps DEF Update
<1>2. PICK x \in {s, Resting} : worker' = [worker EXCEPT ![w] = x]
  BY DEF Update
<1>3. x \in WorkerState /\ \A t : Sound(x, t)
  BY <1>2, ConstantTypes
<1>4. \A v \in Worker : worker'[v] = IF v = w THEN x ELSE worker[v]
  BY <1>2 DEF PushInv, TypeOK
<1>5. TypeOK'
  BY <1>1, <1>2, <1>3 DEF PushInv, TypeOK, Update
<1>6. WorkersSound'
  <2>. SUFFICES ASSUME NEW v \in Worker PROVE Sound(worker'[v], table')
    BY DEF WorkersSound
  <2>1. CASE v = w
    BY <1>3, <1>4, <2>1
  <2>2. CASE v # w
    BY <1>1, <1>4, <2>2 DEF PushInv, WorkersSound, Sound
  <2>. QED
    BY <2>1, <2>2
<1>7. LoopSound'
  BY DEF PushInv, LoopSound, Update
<1>. QED
  BY <1>1, <1>5, <1>6, <1>7 DEF PushInv

\* The rows of R are deleted.
LEMMA RemoveKeeps ==
  ASSUME PushInv, NEW R \in SUBSET Row, Remove(R), UNCHANGED loop, doomed' \in SUBSET Row
  PROVE  PushInv'
<1>1. table' \in [Row -> RowState \cup {None}] /\ \A q \in Row : table'[q] \in {None, table[q]}
  BY DEF PushInv, TypeOK, Remove
<1>2. CASE R \cap Rows = {}
  <2>1. worker' = worker
    BY <1>2 DEF Remove
  <2>2. \A q \in Row : table'[q] = table[q]
    BY <1>2 DEF Remove, Rows
  <2>. QED
    BY <1>1, <2>1, <2>2
       DEF PushInv, TypeOK, CountHasDate, Rows, WorkersSound, Sound, LoopSound
<1>3. CASE R \cap Rows # {}
  <2>. DEFINE known(w) == [worker[w] EXCEPT !.bereft = @ \/ worker[w].stage # "idle"]
  <2>1. worker' = [w \in Worker |-> known(w)]
    BY <1>3 DEF Remove
  <2>2. \A w \in Worker : known(w) \in WorkerState
    <3> SUFFICES ASSUME NEW w \in Worker PROVE known(w) \in WorkerState
      OBVIOUS
    <3>1. worker[w] \in WorkerState
      BY DEF PushInv, TypeOK
    <3>2. (worker[w].bereft \/ worker[w].stage # "idle") \in BOOLEAN
      BY <3>1 DEF WorkerState
    <3>. QED
      BY <3>1, <3>2 DEF WorkerState
  <2>3. TypeOK'
    BY <1>1, <2>1, <2>2 DEF PushInv, TypeOK
  <2>4. CountHasDate'
    BY <1>1 DEF PushInv, CountHasDate, Rows
  <2>5. WorkersSound'
    <3>. SUFFICES ASSUME NEW w \in Worker PROVE Sound(worker'[w], table')
      BY DEF WorkersSound
    <3>1. worker[w] \in WorkerState /\ Sound(worker[w], table)
      BY DEF PushInv, TypeOK, WorkersSound
    <3>2. /\ worker'[w].stage = worker[w].stage /\ worker'[w].row = worker[w].row
          /\ worker'[w].seen = worker[w].seen
          /\ worker[w].stage # "idle" => worker'[w].bereft
      BY <2>1, <3>1 DEF WorkerState
    <3>. QED
      BY <3>1, <3>2 DEF Sound
  <2>6. LoopSound'
    BY DEF PushInv, LoopSound
  <2>. QED
    BY <2>3, <2>4, <2>5, <2>6 DEF PushInv
<1>. QED
  BY <1>2, <1>3

-----------------------------------------------------------------------------
(* One lemma per action of a broadcast                                     *)

LEMMA BeginKeeps ==
  ASSUME PushInv, NEW w \in Worker, NEW category \in BOOLEAN, Begin(w, category)
  PROVE  PushInv'
<1>. DEFINE listed == {r \in Rows : ~ShouldPrune(table[r])}
            s == [Resting EXCEPT !.stage = "next", !.category = category, !.todo = listed]
<1>1. listed \in SUBSET Row
  BY DEF Rows
<1>2. Step(w, s)
  BY DEF Begin, Step
<1>. HIDE DEF listed
<1>3. Resting \in WorkerState /\ "next" \in Stage
  BY ConstantTypes DEF Stage
<1>4. s \in WorkerState /\ s.stage = "next"
  BY <1>1, <1>3 DEF WorkerState
<1>5. Sound(s, table)
  BY <1>4 DEF Sound
<1>. QED
  BY <1>2, <1>4, <1>5, StepKeeps

LEMMA TakeKeeps ==
  ASSUME PushInv, NEW w \in Worker, NEW r \in Row, Take(w, r)
  PROVE  PushInv'
<1>1. CASE Detached(w)
  BY <1>1, StepKeeps, ConstantTypes DEF Take
<1>2. CASE ~Detached(w)
  <2>. DEFINE s == [worker[w] EXCEPT !.stage = "send", !.row = r, !.todo = @ \ {r}]
  <2>1. Step(w, s)
    BY <1>2 DEF Take
  <2>2. worker[w] \in WorkerState /\ "send" \in Stage
    BY DEF PushInv, TypeOK, Stage
  <2>3. s \in WorkerState /\ s.stage = "send" /\ s.row = r
    BY <2>2 DEF WorkerState
  <2>4. Sound(s, table)
    BY <2>3 DEF Sound
  <2>. QED
    BY <2>1, <2>3, <2>4, StepKeeps
<1>. QED
  BY <1>1, <1>2

LEMMA SendSucceedsKeeps ==
  ASSUME PushInv, NEW w \in Worker, SendSucceeds(w)
  PROVE  PushInv'
<1>. DEFINE s == [worker[w] EXCEPT !.stage = "reset", !.attempts = 0]
<1>1. worker[w] \in WorkerState /\ worker[w].row \in Row
  BY DEF PushInv, TypeOK, WorkersSound, Sound, SendSucceeds
<1>2. "reset" \in Stage /\ 0 \in 0 .. MaxRetries
  BY ConstantTypes DEF Stage
<1>3. s \in WorkerState /\ s.stage = "reset" /\ s.row \in Row
  BY <1>1, <1>2 DEF WorkerState
<1>4. Sound(s, table)
  BY <1>3 DEF Sound
<1>. QED
  BY <1>3, <1>4, StepKeeps DEF SendSucceeds

LEMMA SendFailsKeeps ==
  ASSUME PushInv, NEW w \in Worker, NEW why \in Failure, SendFails(w, why)
  PROVE  PushInv'
<1>. DEFINE result == [gone |-> why = "gone", delays |-> Schedule[why]]
            s == [worker[w] EXCEPT !.stage = "mark", !.result = result]
<1>1. worker[w] \in WorkerState /\ worker[w].row \in Row
  BY DEF PushInv, TypeOK, WorkersSound, Sound, SendFails
<1>2. "mark" \in Stage /\ result \in Result
  BY ScheduleAssumption DEF Stage, Result
<1>3. Step(w, s)
  BY DEF SendFails
<1>. HIDE DEF result
<1>4. s \in WorkerState /\ s.stage = "mark" /\ s.row \in Row
  BY <1>1, <1>2 DEF WorkerState
<1>5. Sound(s, table)
  BY <1>4 DEF Sound
<1>. QED
  BY <1>3, <1>4, <1>5, StepKeeps

LEMMA ReadForMarkKeeps ==
  ASSUME PushInv, NEW w \in Worker, ReadForMark(w)
  PROVE  PushInv'
<1>. DEFINE now == table[worker[w].row]
<1>1. worker[w] \in WorkerState /\ worker[w].row \in Row
  BY DEF PushInv, TypeOK, WorkersSound, Sound, ReadForMark
<1>2. CASE now = None
  BY <1>1, <1>2, RetrySound, StepKeeps DEF ReadForMark, PushInv
<1>3. CASE now # None
  <2>. DEFINE s == [worker[w] EXCEPT !.stage = "marking", !.seen = now]
  <2>1. now \in RowState /\ Agree(now) /\ "marking" \in Stage
    BY <1>1, <1>3 DEF PushInv, TypeOK, CountHasDate, Rows, Agree, Stage
  <2>2. Step(w, s)
    BY <1>3 DEF ReadForMark
  <2>3. s \in WorkerState /\ s.stage = "marking" /\ s.row = worker[w].row /\ s.seen = now
    BY <1>1, <2>1 DEF WorkerState
  <2>4. Sound(s, table)
    BY <1>1, <1>3, <2>1, <2>3 DEF Sound
  <2>. QED
    BY <2>2, <2>3, <2>4, StepKeeps
<1>. QED
  BY <1>2, <1>3

LEMMA ReadForResetKeeps ==
  ASSUME PushInv, NEW w \in Worker, ReadForReset(w)
  PROVE  PushInv'
<1>. DEFINE now == table[worker[w].row]
<1>1. worker[w] \in WorkerState /\ worker[w].row \in Row
  BY DEF PushInv, TypeOK, WorkersSound, Sound, ReadForReset
<1>2. CASE now = None
  BY <1>2, ProceedSound, StepKeeps DEF ReadForReset, PushInv
<1>3. CASE now # None
  <2>. DEFINE s == [worker[w] EXCEPT !.stage = "resetting", !.seen = now]
  <2>1. now \in RowState /\ Agree(now) /\ "resetting" \in Stage
    BY <1>1, <1>3 DEF PushInv, TypeOK, CountHasDate, Rows, Agree, Stage
  <2>2. Step(w, s)
    BY <1>3 DEF ReadForReset
  <2>3. s \in WorkerState /\ s.stage = "resetting" /\ s.row = worker[w].row /\ s.seen = now
    BY <1>1, <2>1 DEF WorkerState
  <2>4. Sound(s, table)
    BY <1>1, <1>3, <2>1, <2>3 DEF Sound
  <2>. QED
    BY <2>2, <2>3, <2>4, StepKeeps
<1>. QED
  BY <1>2, <1>3

LEMMA MarkDeliveryFailureKeeps ==
  ASSUME PushInv, NEW w \in Worker, MarkDeliveryFailure(w)
  PROVE  PushInv'
<1>. DEFINE me == worker[w]
            new == [fails |-> IF me.seen.fails < PRUNE_FAIL_THRESHOLD
                              THEN me.seen.fails + 1 ELSE me.seen.fails,
                    last |-> "recent",
                    marked |-> me.seen.marked \/ me.result.gone]
            columns == {"fails", "last"} \cup Changed(me.seen, new)
<1>1. me \in WorkerState /\ me.row \in Row /\ me.seen \in RowState
  BY DEF PushInv, TypeOK, WorkersSound, Sound, MarkDeliveryFailure, WorkerState
<1>2. me.result \in Result
  BY <1>1 DEF WorkerState
<1>3. new \in RowState /\ Agree(new)
  BY <1>1, <1>2, ConstantTypes DEF RowState, Result, Agree
<1>4. Update(w, new, columns, Retry(w))
  BY DEF MarkDeliveryFailure
<1>5. "fails" \in columns <=> "last" \in columns
  OBVIOUS
<1>6. Retry(w) \in WorkerState /\ \A t : Sound(Retry(w), t)
  BY <1>1, RetrySound DEF PushInv
<1>. HIDE DEF new, columns
<1>. QED
  BY <1>1, <1>3, <1>4, <1>5, <1>6, UpdateKeeps

LEMMA ResetSubscriptionStateKeeps ==
  ASSUME PushInv, NEW w \in Worker, ResetSubscriptionState(w)
  PROVE  PushInv'
<1>. DEFINE columns == Changed(worker[w].seen, Clean)
<1>1. /\ worker[w].row \in Row
      /\ worker[w].seen \in RowState /\ Agree(worker[w].seen)
  BY DEF PushInv, TypeOK, WorkersSound, Sound, ResetSubscriptionState, WorkerState
<1>2. "fails" \in columns <=> "last" \in columns
  BY <1>1, ResetColumns
<1>3. Proceed(w) \in WorkerState /\ \A t : Sound(Proceed(w), t)
  BY ProceedSound DEF PushInv
<1>4. Update(w, Clean, columns, Proceed(w))
  BY DEF ResetSubscriptionState
<1>. HIDE DEF columns
<1>. QED
  BY <1>1, <1>2, <1>3, <1>4, ConstantTypes, UpdateKeeps

-----------------------------------------------------------------------------
(* The event loop, the script and time                                     *)

\* A write of the event loop, or of time: no worker moves.
LEMMA TableKeeps ==
  ASSUME PushInv, UNCHANGED <<worker, doomed>>,
         table' \in [Row -> RowState \cup {None}], CountHasDate',
         \A q \in Row : table[q] # None => table'[q] # None,
         loop' \in {loop, NoUpdate}
  PROVE  PushInv'
<1>1. TypeOK'
  BY DEF PushInv, TypeOK, NoUpdate
<1>2. WorkersSound'
  BY DEF PushInv, WorkersSound, Sound
<1>3. LoopSound'
  BY DEF PushInv, LoopSound, NoUpdate
<1>. QED
  BY <1>1, <1>2, <1>3 DEF PushInv

LEMMA SubscribeNewKeeps ==
  ASSUME PushInv, NEW r \in Row, SubscribeNew(r)
  PROVE  PushInv'
<1>1. table' = [table EXCEPT ![r] = Clean]
  BY DEF SubscribeNew
<1>2. \A q \in Row : table'[q] = IF q = r THEN Clean ELSE table[q]
  BY <1>1 DEF PushInv, TypeOK
<1>3. table' \in [Row -> RowState \cup {None}]
  BY <1>1, ConstantTypes DEF PushInv, TypeOK
<1>4. CountHasDate'
  BY <1>2, ConstantTypes DEF PushInv, CountHasDate, Rows, Agree
<1>5. \A q \in Row : table[q] # None => table'[q] # None
  BY <1>2, ConstantTypes, NoneAssumption
<1>. QED
  BY <1>3, <1>4, <1>5, TableKeeps DEF SubscribeNew

LEMMA SubscribeFoundKeeps ==
  ASSUME PushInv, NEW r \in Row, SubscribeFound(r)
  PROVE  PushInv'
<1>1. table[r] \in RowState /\ Agree(table[r])
  BY DEF SubscribeFound, PushInv, TypeOK, CountHasDate, Rows, Agree
<1>2. LoopSound'
  BY <1>1, NoneAssumption DEF SubscribeFound, LoopSound
<1>3. TypeOK'
  BY <1>1 DEF SubscribeFound, PushInv, TypeOK
<1>. QED
  BY <1>2, <1>3 DEF SubscribeFound, PushInv, CountHasDate, Rows, WorkersSound, Sound

LEMMA SubscribeAgainKeeps ==
  ASSUME PushInv, SubscribeAgain
  PROVE  PushInv'
<1>. DEFINE columns == Changed(loop.seen, Clean)
<1>1. loop.row \in Row /\ loop.seen \in RowState /\ Agree(loop.seen)
  BY DEF SubscribeAgain, PushInv, TypeOK, LoopSound
<1>2. "fails" \in columns <=> "last" \in columns
  BY <1>1, ResetColumns
<1>3. table' = IF table[loop.row] = None THEN table
               ELSE [table EXCEPT ![loop.row] = Merge(@, Clean, columns)]
  BY DEF SubscribeAgain
<1>. HIDE DEF columns
<1>4. /\ table' \in [Row -> RowState \cup {None}]
      /\ CountHasDate'
      /\ \A q \in Row : table[q] # None <=> table'[q] # None
  BY <1>1, <1>2, <1>3, ConstantTypes, WriteKeeps
<1>. QED
  BY <1>4, TableKeeps DEF SubscribeAgain

LEMMA GrowOldKeeps ==
  ASSUME PushInv, NEW r \in Row, GrowOld(r)
  PROVE  PushInv'
<1>. DEFINE e == [table[r] EXCEPT !.last = "old"]
<1>1. table[r] \in RowState /\ table[r].last = "recent" /\ Agree(table[r])
  BY DEF GrowOld, PushInv, TypeOK, CountHasDate, Rows, Agree
<1>2. e \in RowState /\ Agree(e)
  BY <1>1 DEF RowState, Agree
<1>3. table' = [table EXCEPT ![r] = e]
  BY DEF GrowOld
<1>. HIDE DEF e
<1>4. \A q \in Row : table'[q] = IF q = r THEN e ELSE table[q]
  BY <1>3 DEF PushInv, TypeOK
<1>5. table' \in [Row -> RowState \cup {None}]
  BY <1>2, <1>3 DEF PushInv, TypeOK
<1>6. CountHasDate'
  BY <1>2, <1>4 DEF PushInv, CountHasDate, Rows, Agree
<1>7. \A q \in Row : table[q] # None => table'[q] # None
  BY <1>2, <1>4, NoneAssumption
<1>. QED
  BY <1>5, <1>6, <1>7, TableKeeps DEF GrowOld

LEMMA UnsubscribeKeeps ==
  ASSUME PushInv, NEW r \in Row, Unsubscribe(r)
  PROVE  PushInv'
<1>1. doomed' \in SUBSET Row /\ {r} \in SUBSET Row
  BY DEF Unsubscribe, PushInv, TypeOK
<1>. QED
  BY <1>1, RemoveKeeps DEF Unsubscribe

LEMMA SelectStaleKeeps ==
  ASSUME PushInv, SelectStale
  PROVE  PushInv'
<1>1. doomed' \subseteq Row
  BY DEF SelectStale, Rows
<1>. QED
  BY <1>1
     DEF SelectStale, PushInv, TypeOK, CountHasDate, Rows, WorkersSound, Sound, LoopSound

LEMMA DeleteStaleKeeps ==
  ASSUME PushInv, DeleteStale
  PROVE  PushInv'
<1>1. doomed' \in SUBSET Row /\ doomed \in SUBSET Row
  BY DEF DeleteStale, PushInv, TypeOK
<1>. QED
  BY <1>1, RemoveKeeps DEF DeleteStale

-----------------------------------------------------------------------------
(* The invariant                                                           *)

LEMMA InitPushInv == Init => PushInv
<1>. SUFFICES ASSUME Init PROVE PushInv
  OBVIOUS
<1>1. TypeOK
  BY ConstantTypes DEF Init, TypeOK, NoUpdate
<1>2. CountHasDate
  BY DEF Init, CountHasDate, Rows
<1>3. WorkersSound
  BY ConstantTypes DEF Init, WorkersSound
<1>4. LoopSound
  BY DEF Init, LoopSound, NoUpdate
<1>. QED
  BY <1>1, <1>2, <1>3, <1>4 DEF PushInv

LEMMA AdvanceKeeps ==
  ASSUME PushInv, NEW w \in Worker, Advance(w)
  PROVE  PushInv'
<1>1. CASE \E r \in Row : Take(w, r)
  BY <1>1, TakeKeeps
<1>2. CASE SendSucceeds(w)
  BY <1>2, SendSucceedsKeeps
<1>3. CASE \E why \in Failure : SendFails(w, why)
  BY <1>3, SendFailsKeeps
<1>4. CASE ReadForMark(w)
  BY <1>4, ReadForMarkKeeps
<1>5. CASE MarkDeliveryFailure(w)
  BY <1>5, MarkDeliveryFailureKeeps
<1>6. CASE ReadForReset(w)
  BY <1>6, ReadForResetKeeps
<1>7. CASE ResetSubscriptionState(w)
  BY <1>7, ResetSubscriptionStateKeeps
<1>. QED
  BY <1>1, <1>2, <1>3, <1>4, <1>5, <1>6, <1>7 DEF Advance

LEMMA NextKeeps == PushInv /\ [Next]_vars => PushInv'
<1>. SUFFICES ASSUME PushInv, [Next]_vars PROVE PushInv'
  OBVIOUS
<1>1. CASE \E w \in Worker : Advance(w)
  BY <1>1, AdvanceKeeps
<1>2. CASE \E w \in Worker : \E category \in BOOLEAN : Begin(w, category)
  BY <1>2, BeginKeeps
<1>3. CASE \E r \in Row : SubscribeNew(r)
  BY <1>3, SubscribeNewKeeps
<1>4. CASE \E r \in Row : SubscribeFound(r)
  BY <1>4, SubscribeFoundKeeps
<1>5. CASE \E r \in Row : Unsubscribe(r)
  BY <1>5, UnsubscribeKeeps
<1>6. CASE \E r \in Row : GrowOld(r)
  BY <1>6, GrowOldKeeps
<1>7. CASE SubscribeAgain
  BY <1>7, SubscribeAgainKeeps
<1>8. CASE SelectStale
  BY <1>8, SelectStaleKeeps
<1>9. CASE DeleteStale
  BY <1>9, DeleteStaleKeeps
<1>10. CASE UNCHANGED vars
  BY <1>10
     DEF vars, PushInv, TypeOK, CountHasDate, Rows, WorkersSound, Sound, LoopSound
<1>. QED
  BY <1>1, <1>2, <1>3, <1>4, <1>5, <1>6, <1>7, <1>8, <1>9, <1>10 DEF Next

LEMMA PushInvariance == Spec => []PushInv
BY InitPushInv, NextKeeps, PTL DEF Spec

\* Every reachable state is of the declared types: no update leaves a row
\* with a missing column or a count above the threshold.
THEOREM PushTypeCorrect == Spec => []TypeOK
<1>1. PushInv => TypeOK
  BY DEF PushInv
<1>. QED
  BY <1>1, PushInvariance, PTL

\* However the partial updates of broadcasts and subscriptions interleave, a
\* row has a failure count exactly when it has the date of a failure.
THEOREM CountsHaveDates == Spec => []CountHasDate
<1>1. PushInv => CountHasDate
  BY DEF PushInv
<1>. QED
  BY <1>1, PushInvariance, PTL

-----------------------------------------------------------------------------
(* Quarantine                                                              *)

\* What a step may do to the workers: rows they hold or have listed stay
\* theirs, and nobody lists a row that is to be pruned.
LEMMA StaysQuarantined ==
  ASSUME NEW r \in Row, Quarantined(r),
         table'[r] = None \/ ShouldPrune(table'[r]),
         \A w \in Worker :
           /\ worker'[w].row \in {worker[w].row, None} \cup worker[w].todo
           /\ r \in worker'[w].todo => r \in worker[w].todo
  PROVE  Quarantined(r)' \/ r \notin Rows'
<1>1. ASSUME NEW w \in Worker PROVE worker'[w].row # r /\ r \notin worker'[w].todo
  BY NoneAssumption DEF Quarantined
<1>. QED
  BY <1>1 DEF Quarantined, Rows

\* A worker that goes on lets go of its row or keeps it.
LEMMA GoesOn ==
  ASSUME TypeOK, NEW w \in Worker, NEW s \in {Proceed(w), Retry(w), Resting}
  PROVE  s.row \in {worker[w].row, None} /\ s.todo \subseteq worker[w].todo
<1>1. worker[w] \in WorkerState
  BY DEF TypeOK
<1>2. Resting.row = None /\ Resting.todo = {}
  BY DEF Resting
<1>3. Proceed(w).row = None /\ Proceed(w).todo \subseteq worker[w].todo
  BY <1>1, <1>2 DEF Proceed, WorkerState
<1>4. Retry(w).row \in {worker[w].row, None} /\ Retry(w).todo \subseteq worker[w].todo
  BY <1>1, <1>3 DEF Retry, WorkerState
<1>. QED
  BY <1>2, <1>3, <1>4

\* Neither a step nor an update of a broadcast touches a row in quarantine.
LEMMA StepQuarantined ==
  ASSUME PushInv, NEW r \in Row, Quarantined(r), NEW w \in Worker, NEW s,
         Step(w, s), s.row \in {worker[w].row, None} \cup worker[w].todo,
         r \in s.todo => r \in worker[w].todo
  PROVE  Quarantined(r)' \/ r \notin Rows'
<1>1. \A v \in Worker : worker'[v] = IF v = w THEN s ELSE worker[v]
  BY DEF Step, PushInv, TypeOK
<1>2. table'[r] = table[r] /\ ShouldPrune(table[r])
  BY DEF Step, Quarantined
<1>3. ShouldPrune(table'[r])
  BY <1>2 DEF ShouldPrune
<1>4. ASSUME NEW v \in Worker
      PROVE  /\ worker'[v].row \in {worker[v].row, None} \cup worker[v].todo
             /\ r \in worker'[v].todo => r \in worker[v].todo
  BY <1>1
<1>. QED
  BY <1>3, <1>4, StaysQuarantined

LEMMA UpdateQuarantined ==
  ASSUME PushInv, NEW r \in Row, Quarantined(r), NEW w \in Worker, NEW s,
         NEW new, NEW columns, Update(w, new, columns, s),
         s \in {Proceed(w), Retry(w)}
  PROVE  Quarantined(r)' \/ r \notin Rows'
<1>1. worker[w].row # r
  BY DEF Quarantined
<1>2. table'[r] = table[r] /\ ShouldPrune(table[r])
  BY <1>1 DEF Update, PushInv, TypeOK, Quarantined
<1>3. ShouldPrune(table'[r])
  BY <1>2 DEF ShouldPrune
<1>4. PICK x \in {s, Resting} : worker' = [worker EXCEPT ![w] = x]
  BY DEF Update
<1>5. \A v \in Worker : worker'[v] = IF v = w THEN x ELSE worker[v]
  BY <1>4 DEF PushInv, TypeOK
<1>6. x.row \in {worker[w].row, None} /\ x.todo \subseteq worker[w].todo
  BY <1>4, GoesOn DEF PushInv
<1>7. ASSUME NEW v \in Worker
      PROVE  /\ worker'[v].row \in {worker[v].row, None} \cup worker[v].todo
             /\ r \in worker'[v].todo => r \in worker[v].todo
  BY <1>5, <1>6
<1>. QED
  BY <1>3, <1>7, StaysQuarantined

LEMMA AdvanceQuarantined ==
  ASSUME PushInv, NEW r \in Row, Quarantined(r), NEW w \in Worker, Advance(w)
  PROVE  Quarantined(r)' \/ r \notin Rows'
<1>0. worker[w] \in WorkerState
  BY DEF PushInv, TypeOK
<1>1. ASSUME NEW q \in Row, Take(w, q) PROVE Quarantined(r)' \/ r \notin Rows'
  <2>1. CASE Detached(w)
    BY <1>1, <2>1, GoesOn, StepQuarantined DEF Take, PushInv
  <2>2. CASE ~Detached(w)
    <3>. DEFINE s == [worker[w] EXCEPT !.stage = "send", !.row = q, !.todo = @ \ {q}]
    <3>1. Step(w, s) /\ q \in worker[w].todo
      BY <1>1, <2>2 DEF Take
    <3>2. s.row = q /\ s.todo \subseteq worker[w].todo
      BY <1>0 DEF WorkerState
    <3>. QED
      BY <3>1, <3>2, StepQuarantined
  <2>. QED
    BY <2>1, <2>2
<1>2. ASSUME SendSucceeds(w) PROVE Quarantined(r)' \/ r \notin Rows'
  <2>. DEFINE s == [worker[w] EXCEPT !.stage = "reset", !.attempts = 0]
  <2>1. s.row = worker[w].row /\ s.todo = worker[w].todo
    BY <1>0 DEF WorkerState
  <2>. QED
    BY <1>2, <2>1, StepQuarantined DEF SendSucceeds
<1>3. ASSUME NEW why \in Failure, SendFails(w, why) PROVE Quarantined(r)' \/ r \notin Rows'
  <2>. DEFINE result == [gone |-> why = "gone", delays |-> Schedule[why]]
              s == [worker[w] EXCEPT !.stage = "mark", !.result = result]
  <2>1. Step(w, s)
    BY <1>3 DEF SendFails
  <2>2. s.row = worker[w].row /\ s.todo = worker[w].todo
    BY <1>0 DEF WorkerState
  <2>. QED
    BY <2>1, <2>2, StepQuarantined
<1>4. ASSUME ReadForMark(w) PROVE Quarantined(r)' \/ r \notin Rows'
  <2>. DEFINE s == [worker[w] EXCEPT !.stage = "marking", !.seen = table[worker[w].row]]
  <2>1. s.row = worker[w].row /\ s.todo = worker[w].todo
    BY <1>0 DEF WorkerState
  <2>2. Step(w, s) \/ Step(w, Retry(w))
    BY <1>4 DEF ReadForMark
  <2>. QED
    BY <2>1, <2>2, GoesOn, StepQuarantined DEF PushInv
<1>5. ASSUME MarkDeliveryFailure(w) PROVE Quarantined(r)' \/ r \notin Rows'
  BY <1>5, UpdateQuarantined DEF MarkDeliveryFailure
<1>6. ASSUME ReadForReset(w) PROVE Quarantined(r)' \/ r \notin Rows'
  <2>. DEFINE s == [worker[w] EXCEPT !.stage = "resetting", !.seen = table[worker[w].row]]
  <2>1. s.row = worker[w].row /\ s.todo = worker[w].todo
    BY <1>0 DEF WorkerState
  <2>2. Step(w, s) \/ Step(w, Proceed(w))
    BY <1>6 DEF ReadForReset
  <2>. QED
    BY <2>1, <2>2, GoesOn, StepQuarantined DEF PushInv
<1>7. ASSUME ResetSubscriptionState(w) PROVE Quarantined(r)' \/ r \notin Rows'
  BY <1>7, UpdateQuarantined DEF ResetSubscriptionState
<1>. QED
  BY <1>1, <1>2, <1>3, <1>4, <1>5, <1>6, <1>7 DEF Advance

LEMMA BeginQuarantined ==
  ASSUME PushInv, NEW r \in Row, Quarantined(r),
         NEW w \in Worker, NEW category \in BOOLEAN, Begin(w, category)
  PROVE  Quarantined(r)' \/ r \notin Rows'
<1>. DEFINE listed == {q \in Rows : ~ShouldPrune(table[q])}
            s == [Resting EXCEPT !.stage = "next", !.category = category, !.todo = listed]
<1>1. r \notin listed
  BY DEF Quarantined
<1>2. Step(w, s)
  BY DEF Begin, Step
<1>. HIDE DEF listed
<1>3. s.row = None /\ s.todo = listed
  BY DEF Resting
<1>. QED
  BY <1>1, <1>2, <1>3, StepQuarantined

\* The table may change elsewhere, rows may go, time may pass: the workers are
\* where they were.
LEMMA OthersQuarantined ==
  ASSUME PushInv, NEW r \in Row, Quarantined(r),
         table'[r] = None \/ ShouldPrune(table'[r]),
         \A w \in Worker : worker'[w].row = worker[w].row /\ worker'[w].todo = worker[w].todo
  PROVE  Quarantined(r)' \/ r \notin Rows'
BY StaysQuarantined

LEMMA RemoveQuarantined ==
  ASSUME PushInv, NEW r \in Row, Quarantined(r), NEW R, Remove(R)
  PROVE  Quarantined(r)' \/ r \notin Rows'
<1>1. table'[r] = None \/ table'[r] = table[r]
  BY DEF Remove, PushInv, TypeOK
<1>2. table'[r] = None \/ ShouldPrune(table'[r])
  BY <1>1 DEF Quarantined
<1>3. ASSUME NEW w \in Worker
      PROVE  worker'[w].row = worker[w].row /\ worker'[w].todo = worker[w].todo
  BY DEF Remove, PushInv, TypeOK, WorkerState
<1>. QED
  BY <1>2, <1>3, OthersQuarantined

LEMMA NextQuarantined ==
  ASSUME PushInv, NEW r \in Row, Quarantined(r), [Next]_vars
  PROVE  Quarantined(r)' \/ r \notin Rows' \/ SubscribeAgain
<1>. DEFINE Goal == Quarantined(r)' \/ r \notin Rows'
<1>1. ASSUME NEW w \in Worker, Advance(w) PROVE Goal
  BY <1>1, AdvanceQuarantined
<1>2. ASSUME NEW w \in Worker, NEW category \in BOOLEAN, Begin(w, category) PROVE Goal
  BY <1>2, BeginQuarantined
<1>3. ASSUME NEW q \in Row, SubscribeNew(q) PROVE Goal
  <2>1. q # r
    BY <1>3 DEF SubscribeNew, Quarantined, Rows
  <2>2. table'[r] = table[r]
    BY <1>3, <2>1 DEF SubscribeNew, PushInv, TypeOK
  <2>3. ShouldPrune(table'[r])
    BY <2>2 DEF Quarantined
  <2>. QED
    BY <1>3, <2>3, OthersQuarantined DEF SubscribeNew
<1>4. ASSUME NEW q \in Row, SubscribeFound(q) PROVE Goal
  BY <1>4, OthersQuarantined DEF SubscribeFound, Quarantined
<1>5. ASSUME NEW q \in Row, Unsubscribe(q) PROVE Goal
  BY <1>5, RemoveQuarantined DEF Unsubscribe
<1>6. ASSUME NEW q \in Row, GrowOld(q) PROVE Goal
  <2>1. table[r] \in RowState
    BY DEF Quarantined, Rows, PushInv, TypeOK
  <2>2. CASE q = r
    <3>1. table'[r] = [table[r] EXCEPT !.last = "old"]
      BY <1>6, <2>2 DEF GrowOld, PushInv, TypeOK
    <3>2. table'[r].marked = table[r].marked /\ table'[r].fails = table[r].fails
          /\ table'[r].last = "old" /\ table[r].last = "recent"
      BY <1>6, <2>1, <2>2, <3>1 DEF RowState, GrowOld
    <3>3. ShouldPrune(table'[r])
      BY <3>2 DEF ShouldPrune, Quarantined
    <3>. QED
      BY <1>6, <3>3, OthersQuarantined DEF GrowOld
  <2>3. CASE q # r
    <3>1. table'[r] = table[r]
      BY <1>6, <2>3 DEF GrowOld, PushInv, TypeOK
    <3>2. ShouldPrune(table'[r])
      BY <3>1 DEF Quarantined
    <3>. QED
      BY <1>6, <3>2, OthersQuarantined DEF GrowOld
  <2>. QED
    BY <2>2, <2>3
<1>7. ASSUME SelectStale PROVE Goal
  BY <1>7, OthersQuarantined DEF SelectStale, Quarantined
<1>8. ASSUME DeleteStale PROVE Goal
  BY <1>8, RemoveQuarantined DEF DeleteStale
<1>9. ASSUME UNCHANGED vars PROVE Goal
  BY <1>9, OthersQuarantined DEF vars, Quarantined
<1>. QED
  BY <1>1, <1>2, <1>3, <1>4, <1>5, <1>6, <1>7, <1>8, <1>9 DEF Next

\* Once a row is to be pruned and no broadcast has it in hand, no broadcast
\* sends to it or clears it again: it stays so until it is deleted or the
\* browser subscribes again.
THEOREM VerdictsStand == Spec => QuarantineLasts
<1>. DEFINE Lasts == \A r \in Row :
              Quarantined(r) => Quarantined(r)' \/ r \notin Rows' \/ SubscribeAgain
<1>1. PushInv /\ [Next]_vars => [Lasts]_vars
  BY NextQuarantined
<1>. QED
  BY <1>1, PushInvariance, PTL DEF Spec, QuarantineLasts

-----------------------------------------------------------------------------
(* Who cuts a broadcast short                                              *)

\* A step of w, and of nobody else.
LEMMA OnlyMover ==
  ASSUME TypeOK, NEW w \in Worker, NEW s, worker' = [worker EXCEPT ![w] = s],
         NEW v \in Worker, CutShort(v)
  PROVE  v = w /\ s.stage = "idle" /\ worker[w].todo # {}
BY DEF TypeOK, CutShort

\* A worker that updates its row and is thrown out knows of a deletion.
LEMMA UpdateCuts ==
  ASSUME PushInv, NEW w \in Worker, worker[w].stage \in {"marking", "resetting"},
         NEW new, NEW columns, NEW s, Update(w, new, columns, s),
         s.stage = "idle" => worker[w].todo = {},
         NEW v \in Worker, CutShort(v)
  PROVE  worker[v].bereft
<1>1. PICK x : /\ worker' = [worker EXCEPT ![w] = x]
               /\ x = s \/ table[worker[w].row] = None
  BY DEF Update
<1>2. v = w /\ x.stage = "idle" /\ worker[w].todo # {}
  BY <1>1, OnlyMover DEF PushInv
<1>3. table[worker[w].row] = None
  BY <1>1, <1>2
<1>. QED
  BY <1>2, <1>3 DEF PushInv, WorkersSound, Sound

LEMMA AdvanceCuts ==
  ASSUME PushInv, NEW w \in Worker, Advance(w), NEW v \in Worker, CutShort(v)
  PROVE  worker[v].bereft \/ Detached(v)
<1>. DEFINE Goal == worker[v].bereft \/ Detached(v)
<1>1. worker[w] \in WorkerState
  BY DEF PushInv, TypeOK
<1>2. ASSUME NEW s, Step(w, s) PROVE v = w /\ s.stage = "idle" /\ worker[w].todo # {}
  BY <1>2, OnlyMover DEF Step, PushInv
<1>3. worker[w].stage \in {"mark", "marking", "reset", "resetting"} => worker[w].row \in Row
  BY DEF PushInv, WorkersSound, Sound
<1>4. ASSUME NEW r \in Row, Take(w, r) PROVE Goal
  <2>. DEFINE s == [worker[w] EXCEPT !.stage = "send", !.row = r, !.todo = @ \ {r}]
  <2>1. CASE ~Detached(w)
    <3>1. Step(w, s)
      BY <1>4, <2>1 DEF Take
    <3>2. s.stage = "send"
      BY <1>1 DEF WorkerState
    <3>. QED
      BY <1>2, <3>1, <3>2
  <2>2. CASE Detached(w)
    BY <1>2, <1>4, <2>2 DEF Take
  <2>. QED
    BY <2>1, <2>2
<1>5. ASSUME SendSucceeds(w) PROVE Goal
  <2>. DEFINE s == [worker[w] EXCEPT !.stage = "reset", !.attempts = 0]
  <2>1. s.stage = "reset"
    BY <1>1 DEF WorkerState
  <2>. QED
    BY <1>2, <1>5, <2>1 DEF SendSucceeds
<1>6. ASSUME NEW why \in Failure, SendFails(w, why) PROVE Goal
  <2>. DEFINE result == [gone |-> why = "gone", delays |-> Schedule[why]]
              s == [worker[w] EXCEPT !.stage = "mark", !.result = result]
  <2>1. Step(w, s)
    BY <1>6 DEF SendFails
  <2>2. s.stage = "mark"
    BY <1>1 DEF WorkerState
  <2>. QED
    BY <1>2, <2>1, <2>2
<1>7. ASSUME ReadForMark(w) PROVE Goal
  <2>. DEFINE s == [worker[w] EXCEPT !.stage = "marking", !.seen = table[worker[w].row]]
  <2>1. Step(w, s) \/ Step(w, Retry(w))
    BY <1>7 DEF ReadForMark
  <2>2. s.stage = "marking"
    BY <1>1 DEF WorkerState
  <2>3. Retry(w).stage = "idle" => worker[w].todo = {}
    BY <1>3, <1>7, RetrySound DEF ReadForMark, PushInv
  <2>. QED
    BY <1>2, <2>1, <2>2, <2>3
<1>8. ASSUME ReadForReset(w) PROVE Goal
  <2>. DEFINE s == [worker[w] EXCEPT !.stage = "resetting", !.seen = table[worker[w].row]]
  <2>1. Step(w, s) \/ Step(w, Proceed(w))
    BY <1>8 DEF ReadForReset
  <2>2. s.stage = "resetting"
    BY <1>1 DEF WorkerState
  <2>3. Proceed(w).stage = "idle" => worker[w].todo = {}
    BY ProceedSound DEF PushInv
  <2>. QED
    BY <1>2, <2>1, <2>2, <2>3
<1>9. ASSUME MarkDeliveryFailure(w) PROVE Goal
  <2>1. Retry(w).stage = "idle" => worker[w].todo = {}
    BY <1>3, <1>9, RetrySound DEF MarkDeliveryFailure, PushInv
  <2>. QED
    BY <1>9, <2>1, UpdateCuts DEF MarkDeliveryFailure
<1>10. ASSUME ResetSubscriptionState(w) PROVE Goal
  <2>1. Proceed(w).stage = "idle" => worker[w].todo = {}
    BY ProceedSound DEF PushInv
  <2>. QED
    BY <1>10, <2>1, UpdateCuts DEF ResetSubscriptionState
<1>. QED
  BY <1>4, <1>5, <1>6, <1>7, <1>8, <1>9, <1>10 DEF Advance

\* Nobody else ends a broadcast.
LEMMA NextCuts ==
  ASSUME PushInv, [Next]_vars, NEW v \in Worker, CutShort(v)
  PROVE  worker[v].bereft \/ Detached(v)
<1>1. ASSUME NEW w \in Worker, Advance(w) PROVE worker[v].bereft \/ Detached(v)
  BY <1>1, AdvanceCuts
<1>2. ASSUME NEW w \in Worker, NEW category \in BOOLEAN, Begin(w, category) PROVE FALSE
  BY <1>2 DEF Begin, CutShort, Resting, PushInv, TypeOK
<1>3. ASSUME UNCHANGED worker PROVE FALSE
  BY <1>3 DEF CutShort
<1>4. ASSUME NEW R, Remove(R) PROVE FALSE
  <2>1. worker'[v].stage = worker[v].stage
    BY <1>4 DEF Remove, PushInv, TypeOK, WorkerState
  <2>. QED
    BY <2>1 DEF CutShort
<1>5. CASE \E r \in Row : SubscribeNew(r) \/ SubscribeFound(r) \/ GrowOld(r)
  BY <1>3, <1>5 DEF SubscribeNew, SubscribeFound, GrowOld
<1>6. CASE \E r \in Row : Unsubscribe(r)
  BY <1>4, <1>6 DEF Unsubscribe
<1>7. CASE SubscribeAgain \/ SelectStale \/ UNCHANGED vars
  BY <1>3, <1>7 DEF SubscribeAgain, SelectStale, vars
<1>8. CASE DeleteStale
  BY <1>4, <1>8 DEF DeleteStale
<1>. QED
  BY <1>1, <1>2, <1>5, <1>6, <1>7, <1>8 DEF Next

\* No answer of the push service to one subscription keeps the others from
\* being tried: a broadcast that ends early has met a row deleted behind its
\* back, or asked for the category of a copy without a session.
THEOREM FailuresAreContained == Spec => OnlyDeletionCutsShort
<1>. DEFINE Contained == \A w \in Worker : CutShort(w) => worker[w].bereft \/ Detached(w)
<1>1. PushInv /\ [Next]_vars => [Contained]_vars
  BY NextCuts
<1>. QED
  BY <1>1, PushInvariance, PTL DEF Spec, OnlyDeletionCutsShort

-----------------------------------------------------------------------------
(* Broadcasts come to their end                                            *)

More(s) == IF s.stage \in {"send", "mark", "marking"} THEN MaxRetries - s.attempts ELSE 0

Rank(stage) ==
  [next |-> 0, resetting |-> 1, reset |-> 2, marking |-> 3, mark |-> 4, send |-> 5][stage]

\* Left of the state s.
Cost(s) ==
  IF s.stage = "idle" THEN 0
  ELSE 1 + Cardinality(s.todo) * 3 * (MaxRetries + 2) + 3 * More(s) + Rank(s.stage)

LEMMA LeftIsCost ==
  ASSUME NEW w \in Worker
  PROVE  Left(w) = Cost(worker[w]) /\ Left(w)' = Cost(worker'[w])
BY DEF Left, Cost, More, Rank

\* The numbers that Cost is made of.
LEMMA CostTypes ==
  ASSUME IsFiniteSet(Row), NEW s \in WorkerState, s.stage # "idle"
  PROVE  /\ Cardinality(s.todo) \in Nat
         /\ Cardinality(s.todo) * 3 * (MaxRetries + 2) \in Nat
         /\ More(s) \in 0 .. MaxRetries
         /\ Rank(s.stage) \in 0 .. 5
<1>1. Cardinality(s.todo) \in Nat
  <2>1. s.todo \in SUBSET Row
    BY DEF WorkerState
  <2>. QED
    BY <2>1, FS_Subset, FS_CardinalityType
<1>2. Cardinality(s.todo) * 3 * (MaxRetries + 2) \in Nat
  BY <1>1, ConstantTypes
<1>3. More(s) \in 0 .. MaxRetries
  BY ConstantTypes DEF More, WorkerState
<1>4. Rank(s.stage) \in 0 .. 5
  BY DEF Rank, WorkerState, Stage
<1>. QED
  BY <1>1, <1>2, <1>3, <1>4

\* With the same subscriptions to come, what counts is the one at hand.
LEMMA CostFalls ==
  ASSUME IsFiniteSet(Row), NEW s \in WorkerState, NEW t \in WorkerState,
         s.stage # "idle", t.todo = s.todo,
         t.stage = "idle" \/ 3 * More(t) + Rank(t.stage) < 3 * More(s) + Rank(s.stage)
  PROVE  Cost(t) < Cost(s)
<1>1. CASE t.stage = "idle"
  BY <1>1, CostTypes DEF Cost
<1>2. CASE t.stage # "idle"
  BY <1>2, CostTypes, ConstantTypes DEF Cost
<1>. QED
  BY <1>1, <1>2

LEMMA RestingIsFree == ASSUME NEW s \in WorkerState, s.stage # "idle", IsFiniteSet(Row)
                       PROVE  Cost(Resting) < Cost(s)
BY CostTypes, ConstantTypes DEF Cost, Resting

LEMMA ProceedFalls ==
  ASSUME PushInv, IsFiniteSet(Row), NEW w \in Worker,
         worker[w].stage \in {"mark", "marking", "reset", "resetting"}
  PROVE  Cost(Proceed(w)) < Cost(worker[w])
<1>1. worker[w] \in WorkerState /\ Proceed(w) \in WorkerState
  BY ProceedSound DEF PushInv, TypeOK
<1>2. CASE worker[w].todo = {}
  BY <1>1, <1>2, RestingIsFree DEF Proceed
<1>3. CASE worker[w].todo # {}
  <2>1. Proceed(w).stage = "next" /\ Proceed(w).todo = worker[w].todo
    BY <1>1, <1>3 DEF Proceed, WorkerState
  <2>2. More(Proceed(w)) = 0 /\ Rank(Proceed(w).stage) = 0
    BY <2>1 DEF More, Rank
  <2>3. Rank(worker[w].stage) \in Nat \ {0}
    BY DEF Rank
  <2>4. More(worker[w]) \in Nat
    BY <1>1, CostTypes, ConstantTypes
  <2>. QED
    BY <1>1, <2>1, <2>2, <2>3, <2>4, CostFalls
<1>. QED
  BY <1>2, <1>3

LEMMA RetryFalls ==
  ASSUME PushInv, IsFiniteSet(Row), NEW w \in Worker, worker[w].stage \in {"mark", "marking"}
  PROVE  Cost(Retry(w)) < Cost(worker[w])
<1>1. worker[w] \in WorkerState /\ Retry(w) \in WorkerState
  BY RetrySound DEF PushInv, TypeOK, WorkersSound, Sound
<1>2. CASE worker[w].attempts < MaxRetries /\ worker[w].attempts < worker[w].result.delays
  <2>1. /\ Retry(w).stage = "send" /\ Retry(w).todo = worker[w].todo
        /\ Retry(w).attempts = worker[w].attempts + 1
    BY <1>1, <1>2 DEF Retry, WorkerState
  <2>2. worker[w].attempts \in 0 .. MaxRetries
    BY <1>1 DEF WorkerState
  <2>3. /\ More(Retry(w)) = More(worker[w]) - 1 /\ More(worker[w]) \in Nat
        /\ Rank(Retry(w).stage) = 5 /\ Rank(worker[w].stage) \in {3, 4}
    BY <2>1, <2>2, ConstantTypes DEF More, Rank
  <2>. QED
    BY <1>1, <2>1, <2>3, CostFalls
<1>3. CASE ~ (worker[w].attempts < MaxRetries /\ worker[w].attempts < worker[w].result.delays)
  BY <1>3, ProceedFalls DEF Retry
<1>. QED
  BY <1>2, <1>3

LEMMA TakeFalls ==
  ASSUME PushInv, IsFiniteSet(Row), NEW w \in Worker, NEW r \in Row, Take(w, r)
  PROVE  Left(w)' < Left(w)
<1>. DEFINE me == worker[w]
            s == [me EXCEPT !.stage = "send", !.row = r, !.todo = @ \ {r}]
<1>1. me \in WorkerState /\ me.stage = "next" /\ r \in me.todo
  BY DEF PushInv, TypeOK, Take
<1>2. CASE Detached(w)
  <2>1. worker'[w] = Resting
    BY <1>2 DEF Take, Step, PushInv, TypeOK
  <2>. QED
    BY <1>1, <2>1, LeftIsCost, RestingIsFree
<1>3. CASE ~Detached(w)
  <2>1. worker'[w] = s
    BY <1>3 DEF Take, Step, PushInv, TypeOK
  <2>2. s \in WorkerState /\ s.stage = "send" /\ s.todo = me.todo \ {r}
    BY <1>1 DEF WorkerState, Stage
  <2>3. Cardinality(s.todo) = Cardinality(me.todo) - 1
    <3>1. IsFiniteSet(me.todo)
      BY <1>1, FS_Subset DEF WorkerState
    <3>. QED
      BY <1>1, <2>2, <3>1, FS_RemoveElement
  <2>. HIDE DEF s
  <2>4. /\ Cost(me) = 1 + Cardinality(me.todo) * 3 * (MaxRetries + 2)
        /\ Cost(s) = 1 + Cardinality(s.todo) * 3 * (MaxRetries + 2) + 3 * More(s) + 5
    BY <1>1, <2>2, CostTypes, ConstantTypes DEF Cost, More, Rank
  <2>5. Cardinality(me.todo) \in Nat /\ More(s) \in 0 .. MaxRetries
    BY <1>1, <2>2, CostTypes
  <2>6. Cost(s) < Cost(me)
    BY <2>3, <2>4, <2>5, ConstantTypes
  <2>. QED
    BY <2>1, <2>6, LeftIsCost
<1>. QED
  BY <1>2, <1>3

LEMMA AdvanceFalls ==
  ASSUME PushInv, IsFiniteSet(Row), NEW w \in Worker, Advance(w)
  PROVE  Left(w)' < Left(w)
<1>. DEFINE me == worker[w]
<1>1. me \in WorkerState
  BY DEF PushInv, TypeOK
<1>2. ASSUME NEW s, Step(w, s), Cost(s) < Cost(me)
      PROVE  Left(w)' < Left(w)
  <2>1. worker'[w] = s
    BY <1>2 DEF Step, PushInv, TypeOK
  <2>. QED
    BY <1>2, <2>1, LeftIsCost
<1>3. CASE \E r \in Row : Take(w, r)
  BY <1>3, TakeFalls
<1>4. CASE SendSucceeds(w)
  <2>. DEFINE s == [me EXCEPT !.stage = "reset", !.attempts = 0]
  <2>1. Step(w, s) /\ me.stage = "send"
    BY <1>4 DEF SendSucceeds
  <2>2. s \in WorkerState /\ s.stage = "reset" /\ s.todo = me.todo
    <3>1. "reset" \in Stage /\ 0 \in 0 .. MaxRetries
      BY ConstantTypes DEF Stage
    <3>. QED
      BY <1>1, <3>1 DEF WorkerState
  <2>. HIDE DEF s
  <2>3. More(s) = 0 /\ Rank(s.stage) = 2 /\ Rank(me.stage) = 5 /\ More(me) \in Nat
    BY <1>1, <2>1, <2>2, CostTypes, ConstantTypes DEF More, Rank
  <2>. QED
    BY <1>1, <1>2, <2>1, <2>2, <2>3, CostFalls
<1>5. ASSUME NEW why \in Failure, SendFails(w, why)
      PROVE  Left(w)' < Left(w)
  <2>. DEFINE result == [gone |-> why = "gone", delays |-> Schedule[why]]
              s == [me EXCEPT !.stage = "mark", !.result = result]
  <2>1. Step(w, s) /\ me.stage = "send"
    BY <1>5 DEF SendFails
  <2>2. /\ s \in WorkerState /\ s.stage = "mark" /\ s.todo = me.todo
        /\ s.attempts = me.attempts
    BY <1>1, ScheduleAssumption DEF WorkerState, Stage, Result
  <2>. HIDE DEF s
  <2>3. /\ More(s) = More(me) /\ Rank(s.stage) = 4 /\ Rank(me.stage) = 5
        /\ More(me) \in Nat
    BY <1>1, <2>1, <2>2, CostTypes, ConstantTypes DEF More, Rank
  <2>. QED
    BY <1>1, <1>2, <2>1, <2>2, <2>3, CostFalls
<1>6. CASE ReadForMark(w) /\ table[me.row] # None
  <2>. DEFINE s == [me EXCEPT !.stage = "marking", !.seen = table[me.row]]
  <2>1. Step(w, s) /\ me.stage = "mark"
    BY <1>6 DEF ReadForMark
  <2>2. table[me.row] \in RowState
    BY <1>6, <2>1 DEF PushInv, TypeOK, WorkersSound, Sound
  <2>3. /\ s \in WorkerState /\ s.stage = "marking" /\ s.todo = me.todo
        /\ s.attempts = me.attempts
    BY <1>1, <2>2 DEF WorkerState, Stage
  <2>. HIDE DEF s
  <2>4. /\ More(s) = More(me) /\ Rank(s.stage) = 3 /\ Rank(me.stage) = 4
        /\ More(me) \in Nat
    BY <1>1, <2>1, <2>3, CostTypes, ConstantTypes DEF More, Rank
  <2>. QED
    BY <1>1, <1>2, <2>1, <2>3, <2>4, CostFalls
<1>7. CASE ReadForReset(w) /\ table[me.row] # None
  <2>. DEFINE s == [me EXCEPT !.stage = "resetting", !.seen = table[me.row]]
  <2>1. Step(w, s) /\ me.stage = "reset"
    BY <1>7 DEF ReadForReset
  <2>2. table[me.row] \in RowState
    BY <1>7, <2>1 DEF PushInv, TypeOK, WorkersSound, Sound
  <2>3. s \in WorkerState /\ s.stage = "resetting" /\ s.todo = me.todo
    BY <1>1, <2>2 DEF WorkerState, Stage
  <2>. HIDE DEF s
  <2>4. More(s) = 0 /\ More(me) = 0 /\ Rank(s.stage) = 1 /\ Rank(me.stage) = 2
    BY <2>1, <2>3 DEF More, Rank
  <2>. QED
    BY <1>1, <1>2, <2>1, <2>3, <2>4, CostFalls
<1>8. CASE (ReadForMark(w) \/ ReadForReset(w)) /\ table[me.row] = None
  BY <1>2, <1>8, RetryFalls, ProceedFalls DEF ReadForMark, ReadForReset
<1>9. ASSUME NEW new, NEW columns, NEW s, Update(w, new, columns, s),
             Cost(s) < Cost(me), me.stage # "idle"
      PROVE  Left(w)' < Left(w)
  <2>1. worker'[w] \in {s, Resting}
    BY <1>9 DEF Update, PushInv, TypeOK
  <2>. QED
    BY <1>1, <1>9, <2>1, LeftIsCost, RestingIsFree
<1>10. CASE MarkDeliveryFailure(w)
  BY <1>9, <1>10, RetryFalls DEF MarkDeliveryFailure
<1>11. CASE ResetSubscriptionState(w)
  BY <1>9, <1>11, ProceedFalls DEF ResetSubscriptionState
<1>. QED
  BY <1>3, <1>4, <1>5, <1>6, <1>7, <1>8, <1>10, <1>11 DEF Advance

\* Only a broadcast's own steps change what it has left.
LEMMA NextFalls ==
  ASSUME PushInv, [Next]_vars, IsFiniteSet(Row), NEW v \in Worker,
         worker[v].stage # "idle", Doing(v)' # Doing(v)
  PROVE  Left(v)' < Left(v)
<1>1. ASSUME NEW w \in Worker, Advance(w)
      PROVE  Left(v)' < Left(v)
  <2>1. CASE v = w
    BY <1>1, <2>1, AdvanceFalls
  <2>2. CASE v # w
    <3>1. worker'[v] = worker[v]
      BY <1>1, <2>2
         DEF Advance, Take, SendSucceeds, SendFails, ReadForMark, MarkDeliveryFailure,
             ReadForReset, ResetSubscriptionState, Step, Update, PushInv, TypeOK
    <3>. QED
      BY <3>1 DEF Doing
  <2>. QED
    BY <2>1, <2>2
<1>2. ASSUME NEW w \in Worker, NEW category \in BOOLEAN, Begin(w, category)
      PROVE  FALSE
  BY <1>2 DEF Begin, Doing, PushInv, TypeOK
<1>3. ASSUME UNCHANGED worker
      PROVE  FALSE
  BY <1>3 DEF Doing
<1>4. ASSUME NEW R, Remove(R)
      PROVE  FALSE
  <2>1. worker'[v] \in {worker[v], [worker[v] EXCEPT !.bereft = @ \/ worker[v].stage # "idle"]}
    BY <1>4 DEF Remove, PushInv, TypeOK
  <2>2. worker[v] \in WorkerState
    BY DEF PushInv, TypeOK
  <2>3. [worker'[v] EXCEPT !.bereft = FALSE] = [worker[v] EXCEPT !.bereft = FALSE]
    BY <2>1, <2>2 DEF WorkerState
  <2>. QED
    BY <2>3 DEF Doing
<1>5. CASE \E r \in Row : SubscribeNew(r) \/ SubscribeFound(r) \/ GrowOld(r)
  BY <1>3, <1>5 DEF SubscribeNew, SubscribeFound, GrowOld
<1>6. CASE \E r \in Row : Unsubscribe(r)
  BY <1>4, <1>6 DEF Unsubscribe
<1>7. CASE SubscribeAgain \/ SelectStale \/ UNCHANGED vars
  BY <1>3, <1>7 DEF SubscribeAgain, SelectStale, vars
<1>8. CASE DeleteStale
  BY <1>4, <1>8 DEF DeleteStale
<1>. QED
  BY <1>1, <1>2, <1>5, <1>6, <1>7, <1>8 DEF Next

\* Whatever the push service answers and however often (the retries of
\* _send_notification), each step of a broadcast leaves it less to do, and
\* nobody else gives any of it back.
THEOREM BroadcastsEnd ==
  ASSUME IsFiniteSet(Row)
  PROVE  Spec => BroadcastsConverge
<1>. DEFINE Falls == \A w \in Worker :
              worker[w].stage # "idle" /\ Doing(w)' # Doing(w) => Left(w)' < Left(w)
<1>1. PushInv /\ [Next]_vars => [Falls]_vars
  BY NextFalls
<1>. QED
  BY <1>1, PushInvariance, PTL DEF Spec, BroadcastsConverge
=============================================================================
