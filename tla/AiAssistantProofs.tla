------------------------- MODULE AiAssistantProofs -------------------------
(***************************************************************************)
(* Proofs of the invariants of AiAssistant, for any callers, tasks,        *)
(* prompts, providers and limits.                                          *)
(*                                                                         *)
(* The table of pending prompts is one of two tables in one: that of the   *)
(* jobs under their prompts, and the run under the visitors' signature.    *)
(* Either is sound for a reason of its own.  A job removes the entry under *)
(* its prompt only, and nobody else touches that.  A visitor who had       *)
(* joined a run removes the run's entry whatever it is by then; that it is *)
(* never that of another run follows from the cached answer, which keeps   *)
(* everybody from starting one as long as he has not had his turn.         *)
(***************************************************************************)
EXTENDS AiAssistant, TLAPS

GoodBreaker == {b \in Breaker : b.state = "closed" <=> b.count < Threshold}

JobLive(j) == job[j].stage \in {"new", "trying", "pausing", "local", "telling"}
RunLive(r) == agent[r].stage \in {"new", "collecting", "waiting"}

\* What is known of a job at a provider.
GoodJob(w) ==
  /\ w.stage \in {"trying", "pausing"} => w.at \in 1 .. Len(Chain)
  /\ w.stage = "pausing" => w.attempt < MaxRetries /\ w.late = 0
  /\ w.late <= 1

JobTable ==
  /\ \A p \in Prompt : pending[p] \in Job \cup {None}
  /\ \A p \in Prompt : pending[p] # None =>
       /\ job[pending[p]].prompt = p
       /\ JobLive(pending[p])
            \/ (job[pending[p]].stage = "cancelled" /\ ~job[pending[p]].ran)
  /\ \A j \in Job : JobLive(j) =>
       job[j].prompt \in Prompt /\ pending[job[j].prompt] = j

RunTable ==
  /\ pending[None] \in Run \cup {None}
  /\ pending[None] # None =>
       RunLive(pending[None]) \/ agent[pending[None]].stage = "cancelled"
  /\ \A r \in Run : RunLive(r) => pending[None] = r
  /\ <<"context", None>> \in cached => \A r \in Run : ~RunLive(r)

\* Whoever waits, waits for a task of the right kind.
Waiters ==
  /\ \A a \in Chatter \cup Run : agent[a].stage = "waiting" =>
       /\ agent[a].on \in Job /\ job[agent[a].on].prompt = agent[a].prompt
       /\ job[agent[a].on].stage # "idle"
  /\ \A c \in Visitor : agent[c].stage = "waiting" =>
       /\ agent[c].on \in Run
       /\ agent[agent[c].on].stage = "done" => <<"context", None>> \in cached

\* The parts of the type invariant, and what is known beyond it.
Stores ==
  /\ cooling \in SUBSET (Provider \X Route)
  /\ kept \in SUBSET (Provider \X Prompt)
  /\ cached \in SUBSET (Route \X Key)
Breakers == circuit \in [Provider -> GoodBreaker]
Jobs == job \in [Job -> JobState] /\ \A j \in Job : GoodJob(job[j])
Tables == pending \in [Key -> Task \cup {None}] /\ agent \in [Agent -> AgentState]

AssistantInv ==
  Stores /\ Breakers /\ Jobs /\ Tables /\ JobTable /\ RunTable /\ Waiters

-----------------------------------------------------------------------------
LEMMA InvImplies ==
  ASSUME AssistantInv
  PROVE  /\ TypeOK /\ BreakersAgree /\ PendingIsSound
         /\ OneLateAttempt /\ AnswersFit
<1>1. TypeOK
  BY DEF AssistantInv, Stores, Breakers, Jobs, Tables, TypeOK, GoodBreaker
<1>2. BreakersAgree
  BY DEF AssistantInv, Breakers, BreakersAgree, GoodBreaker
<1>3. OneLateAttempt
  BY DEF AssistantInv, Jobs, GoodJob, OneLateAttempt
<1>4. \A j \in Job : Live(j) <=> JobLive(j)
  BY DEF AssistantInv, Jobs, JobState, Live, JobLive, StageOf, Ends
<1>5. \A r \in Run : Live(r) <=> RunLive(r)
  BY TasksAreDistinct DEF AssistantInv, Tables, AgentState, Agent, Live, RunLive, StageOf, Ends
<1>6. LiveWorkIsRegistered
  BY <1>4, <1>5 DEF AssistantInv, JobTable, RunTable, LiveWorkIsRegistered
<1>7. DeadEntryNeverRan
  BY <1>4, <1>5 DEF AssistantInv, JobTable, RunTable, DeadEntryNeverRan
<1>8. AnswersFit
  <2> SUFFICES ASSUME NEW a \in Agent, NEW j \in Job, agent[a].stage = "waiting", agent[a].on = j
               PROVE  job[j].prompt = agent[a].prompt /\ job[j].stage # "idle"
    BY DEF AnswersFit, WaitsFor
  <2>1. a \notin Visitor
    BY TasksAreDistinct DEF AssistantInv, Waiters
  <2> QED
    BY <2>1 DEF Agent, Caller, AssistantInv, Waiters
<1> QED
  BY <1>1, <1>2, <1>3, <1>6, <1>7, <1>8 DEF PendingIsSound

LEMMA Records ==
  /\ \A s \in {"idle", "new", "collecting", "waiting"} \cup Ends :
       [Fresh EXCEPT !.stage = s] \in AgentState /\ [Fresh EXCEPT !.stage = s].stage = s
  /\ FreshJob \in JobState /\ FreshJob.stage = "idle" /\ GoodJob(FreshJob)
<1>1. Fresh \in AgentState
  BY DEF Fresh, AgentState, Key
<1>2. FreshJob \in JobState /\ FreshJob.stage = "idle" /\ FreshJob.late = 0
  BY LimitsArePositive, ChainIsNotEmpty DEF FreshJob, JobRecord, JobState, Key, Route
<1> QED
  BY <1>1, <1>2 DEF AgentState, GoodJob

LEMMA InitAssistant == Init => AssistantInv
<1> SUFFICES ASSUME Init PROVE AssistantInv
  OBVIOUS
<1>1. Stores
  BY DEF Init, Stores
<1>2. Breakers
  BY LimitsArePositive DEF Init, Breakers, GoodBreaker, Breaker, Reset
<1>3. Jobs
  BY Records DEF Init, Jobs
<1>4. /\ Fresh \in AgentState /\ Fresh.stage = "idle"
  BY DEF Fresh, AgentState, Key
<1>5. Tables
  BY <1>4 DEF Init, Tables
<1>6. JobTable
  BY Records DEF Init, JobTable, JobLive, Key
<1>7. RunTable
  BY <1>4 DEF Init, RunTable, RunLive, Key, Agent
<1>8. Waiters
  BY <1>4 DEF Init, Waiters, Agent, Caller
<1> QED
  BY <1>1, <1>2, <1>3, <1>5, <1>6, <1>7, <1>8 DEF AssistantInv

-----------------------------------------------------------------------------
(* Breakers                                                                *)

LEMMA BreakerOps ==
  /\ Reset \in GoodBreaker
  /\ \A b \in GoodBreaker : RegisterFailure(b) \in GoodBreaker /\ Asked(b) \in GoodBreaker
<1>1. Reset \in GoodBreaker
  BY LimitsArePositive DEF Reset, GoodBreaker, Breaker
<1>2. ASSUME NEW b \in GoodBreaker
      PROVE  RegisterFailure(b) \in GoodBreaker
  <2>1. b \in Breaker /\ b.count \in 0 .. Threshold /\ b.state \in {"closed", "open", "half_open"}
    BY <1>2 DEF GoodBreaker, Breaker
  <2>2. CASE b.count + 1 < Threshold
    <3>1. RegisterFailure(b) = [b EXCEPT !.count = @ + 1]
      BY <2>2 DEF RegisterFailure
    <3>2. [b EXCEPT !.count = @ + 1] \in Breaker
      BY <2>1, <2>2, LimitsArePositive DEF Breaker
    <3>3. [b EXCEPT !.count = @ + 1].state = b.state /\ [b EXCEPT !.count = @ + 1].count = b.count + 1
      BY <2>1 DEF Breaker
    <3>4. b.count < Threshold /\ b.state = "closed"
      BY <1>2, <2>1, <2>2, LimitsArePositive DEF GoodBreaker
    <3> DEFINE next == [b EXCEPT !.count = @ + 1]
    <3>5. next \in Breaker /\ next.state = "closed" /\ next.count < Threshold
      BY <2>2, <3>2, <3>3, <3>4
    <3> HIDE DEF next
    <3>6. next \in GoodBreaker
      BY <3>5 DEF GoodBreaker
    <3> QED
      BY <3>1, <3>6 DEF next
  <2>3. CASE ~(b.count + 1 < Threshold)
    BY <2>3, LimitsArePositive DEF RegisterFailure, GoodBreaker, Breaker
  <2> QED
    BY <2>2, <2>3
<1>3. ASSUME NEW b \in GoodBreaker
      PROVE  Asked(b) \in GoodBreaker
  BY <1>3 DEF Asked, GoodBreaker, Breaker
<1> QED
  BY <1>1, <1>2, <1>3

-----------------------------------------------------------------------------
(* Steps of jobs.  What a step of one job does to the tables.              *)

LEMMA JobIsLive ==
  ASSUME AssistantInv, NEW j \in Job, JobLive(j)
  PROVE  job[j].prompt \in Prompt /\ pending[job[j].prompt] = j /\ job[j] \in JobState
BY DEF AssistantInv, JobTable, Jobs

\* The job goes on: the tables do not change.
LEMMA JobMoves ==
  ASSUME AssistantInv, NEW j \in Job, JobLive(j), NEW w \in JobState, GoodJob(w),
         w.stage \in {"new", "trying", "pausing", "local", "telling"},
         w.prompt = job[j].prompt, job' = [job EXCEPT ![j] = w],
         UNCHANGED <<cached, pending, agent>>, Stores', Breakers'
  PROVE  AssistantInv'
<1>1. /\ job' \in [Job -> JobState] /\ job'[j] = w
      /\ \A i \in Job \ {j} : job'[i] = job[i]
  BY DEF AssistantInv, Jobs
<1>2. Jobs'
  BY <1>1 DEF AssistantInv, Jobs
<1>3. Tables'
  BY DEF AssistantInv, Tables
<1>4. \A i \in Job : (JobLive(i)' <=> JobLive(i)) /\ job'[i].prompt = job[i].prompt
  BY <1>1 DEF JobLive
<1>5. JobTable'
  <2>1. \A p \in Prompt : pending'[p] \in Job \cup {None}
    BY DEF AssistantInv, JobTable
  <2>2. ASSUME NEW p \in Prompt, pending'[p] # None
        PROVE  /\ job'[pending'[p]].prompt = p
               /\ JobLive(pending[p])'
                    \/ (job'[pending'[p]].stage = "cancelled" /\ ~job'[pending'[p]].ran)
    <3>1. pending'[p] = pending[p] /\ pending[p] \in Job /\ job[pending[p]].prompt = p
      BY <2>2 DEF AssistantInv, JobTable
    <3>2. CASE pending[p] = j
      BY <3>1, <3>2, <1>1 DEF JobLive
    <3>3. CASE pending[p] # j
      BY <2>2, <3>1, <3>3, <1>1 DEF AssistantInv, JobTable, JobLive
    <3> QED
      BY <3>2, <3>3
  <2>3. \A i \in Job : JobLive(i)' => job'[i].prompt \in Prompt /\ pending'[job'[i].prompt] = i
    BY <1>4 DEF AssistantInv, JobTable
  <2> QED
    BY <2>1, <2>2, <2>3 DEF JobTable, JobLive
<1>6. RunTable'
  BY DEF AssistantInv, RunTable, RunLive
<1>7. Waiters'
  <2>1. \A i \in Job : job[i].stage # "idle" => job'[i].stage # "idle"
    BY <1>1
  <2> QED
    BY <2>1, <1>4 DEF AssistantInv, Waiters
<1> QED
  BY <1>2, <1>3, <1>5, <1>6, <1>7 DEF AssistantInv

\* The job ends and removes its entry, or it was cancelled before it started.
LEMMA JobCloses ==
  ASSUME AssistantInv, NEW j \in Job, JobLive(j), NEW w \in JobState, GoodJob(w),
         w.prompt = job[j].prompt, w.stage \in Ends, job' = [job EXCEPT ![j] = w],
         \/ pending' = [pending EXCEPT ![job[j].prompt] = None]
         \/ pending' = pending /\ w.stage = "cancelled" /\ ~w.ran,
         NEW q \in Prompt, NEW route \in Route,
         cached' = cached \/ cached' = cached \cup {<<route, q>>},
         Breakers', Stores', UNCHANGED agent
  PROVE  AssistantInv'
<1>1. /\ job' \in [Job -> JobState] /\ job'[j] = w
      /\ \A i \in Job \ {j} : job'[i] = job[i]
  BY DEF AssistantInv, Jobs
<1>2. Jobs'
  BY <1>1 DEF AssistantInv, Jobs
<1>3. job[j].prompt \in Prompt /\ pending[job[j].prompt] = j
  BY JobIsLive
<1>4. q # None /\ job[j].prompt # None /\ None \notin Job
  BY <1>3, TasksAreDistinct
<1>5. pending \in [Key -> Task \cup {None}] /\ pending' \in [Key -> Task \cup {None}]
  BY DEF AssistantInv, Tables
<1>6. Tables'
  BY <1>5 DEF AssistantInv, Tables
<1>7. Stores'
  OBVIOUS
<1>8. pending'[None] = pending[None]
        /\ \A p \in Prompt : p # job[j].prompt => pending'[p] = pending[p]
  BY <1>3, <1>4, <1>5 DEF Key
<1>9. \A i \in Job : JobLive(i)' => i # j /\ JobLive(i) /\ job'[i] = job[i]
  BY <1>1 DEF JobLive, Ends
<1>10. JobTable'
  <2>1. \A p \in Prompt : pending'[p] \in Job \cup {None}
    BY <1>3, <1>5, <1>8 DEF AssistantInv, JobTable, Key
  <2>2. ASSUME NEW p \in Prompt, pending'[p] # None
        PROVE  /\ job'[pending'[p]].prompt = p
               /\ job'[pending'[p]].stage \in {"new", "trying", "pausing", "local", "telling"}
                    \/ (job'[pending'[p]].stage = "cancelled" /\ ~job'[pending'[p]].ran)
    <3>1. CASE p = job[j].prompt
      <4>1. pending'[p] = j /\ w.stage = "cancelled" /\ ~w.ran
        BY <3>1, <2>2, <1>3, <1>5 DEF Key
      <4> QED
        BY <3>1, <4>1, <1>1
    <3>2. CASE p # job[j].prompt
      <4>1. pending'[p] = pending[p] /\ pending[p] \in Job /\ job[pending[p]].prompt = p
        BY <2>2, <3>2, <1>8 DEF AssistantInv, JobTable
      <4>2. pending[p] # j
        BY <3>2, <4>1
      <4> QED
        BY <2>2, <4>1, <4>2, <1>1 DEF AssistantInv, JobTable, JobLive
    <3> QED
      BY <3>1, <3>2
  <2>3. ASSUME NEW i \in Job, JobLive(i)'
        PROVE  job'[i].prompt \in Prompt /\ pending'[job'[i].prompt] = i
    <3>1. i # j /\ job'[i] = job[i] /\ job[i].prompt \in Prompt /\ pending[job[i].prompt] = i
      BY <2>3, <1>9 DEF AssistantInv, JobTable
    <3>2. job[i].prompt # job[j].prompt
      BY <3>1, <1>3
    <3> QED
      BY <3>1, <3>2, <1>8
  <2> QED
    BY <2>1, <2>2, <2>3 DEF JobTable, JobLive
<1>11. <<"context", None>> \in cached' => <<"context", None>> \in cached
  BY <1>4
<1>12. RunTable'
  BY <1>8, <1>11 DEF AssistantInv, RunTable, RunLive
<1>13. Waiters'
  <2>1. \A i \in Job : job'[i].prompt = job[i].prompt
          /\ (job[i].stage # "idle" => job'[i].stage # "idle")
    BY <1>1 DEF Ends
  <2>2. cached \subseteq cached'
    OBVIOUS
  <2> QED
    BY <2>1, <2>2 DEF AssistantInv, Waiters
<1> QED
  BY <1>2, <1>6, <1>7, <1>10, <1>12, <1>13 DEF AssistantInv

\* An end that touches neither the breakers nor the kept responses.
LEMMA JobEnds ==
  ASSUME AssistantInv, NEW j \in Job, JobLive(j), NEW w \in JobState, GoodJob(w),
         w.prompt = job[j].prompt, w.stage \in Ends, job' = [job EXCEPT ![j] = w],
         \/ pending' = [pending EXCEPT ![job[j].prompt] = None]
         \/ pending' = pending /\ w.stage = "cancelled" /\ ~w.ran,
         NEW q \in Prompt, NEW route \in Route,
         cached' = cached \/ cached' = cached \cup {<<route, q>>},
         UNCHANGED <<circuit, cooling, kept, agent>>
  PROVE  AssistantInv'
<1>1. Breakers' /\ Stores'
  BY DEF AssistantInv, Breakers, Stores, Key
<1> QED
  BY <1>1, JobCloses

LEMMA WorkingFields ==
  ASSUME Jobs, NEW j \in Job,
         NEW stage \in {"trying", "pausing", "local", "telling"}, NEW at \in 0 .. Len(Chain),
         NEW attempt \in 0 .. MaxRetries, NEW late \in 0 .. 1
  PROVE  LET w == Working(j, stage, at, attempt, late) IN
         /\ w \in JobState /\ w.stage = stage /\ w.prompt = job[j].prompt
         /\ (stage \in {"trying", "pausing"} => at \in 1 .. Len(Chain))
              /\ (stage = "pausing" => attempt < MaxRetries /\ late = 0) => GoodJob(w)
<1> DEFINE w == Working(j, stage, at, attempt, late)
<1>1. job[j].prompt \in Key /\ job[j].route \in Route /\ job[j].doomed \in BOOLEAN
  BY DEF Jobs, JobState
<1>2. late \in 0 .. MaxRetries
  BY LimitsArePositive
<1>3. w \in JobState
  BY <1>1, <1>2 DEF Working, JobState
<1>4. /\ w.stage = stage /\ w.prompt = job[j].prompt /\ w.at = at
      /\ w.attempt = attempt /\ w.late = late
  BY DEF Working
<1> HIDE DEF w
<1>5. (stage \in {"trying", "pausing"} => at \in 1 .. Len(Chain))
        /\ (stage = "pausing" => attempt < MaxRetries /\ late = 0) => GoodJob(w)
  BY <1>4 DEF GoodJob
<1> QED
  BY <1>3, <1>4, <1>5 DEF w

LEMMA ChainFacts ==
  /\ Len(Chain) \in Nat /\ Len(Chain) >= 1
  /\ \A i \in 1 .. Len(Chain) : Chain[i] \in Provider
BY ChainIsNotEmpty DEF Provider

LEMMA OverFields ==
  ASSUME Jobs, NEW j \in Job, NEW stage \in Ends, NEW ran \in BOOLEAN
  PROVE  /\ Over(j, stage, ran) \in JobState /\ GoodJob(Over(j, stage, ran))
         /\ Over(j, stage, ran).prompt = job[j].prompt
         /\ Over(j, stage, ran).stage = stage /\ Over(j, stage, ran).ran = ran
<1>1. job[j].prompt \in Key
  BY DEF Jobs, JobState
<1>2. Over(j, stage, ran) \in JobState
  BY <1>1, LimitsArePositive, ChainFacts DEF Over, JobRecord, JobState, Route
<1>3. /\ Over(j, stage, ran).prompt = job[j].prompt
      /\ Over(j, stage, ran).stage = stage /\ Over(j, stage, ran).ran = ran
      /\ Over(j, stage, ran).late = 0
  BY DEF Over, JobRecord
<1>4. GoodJob(Over(j, stage, ran))
  BY <1>3 DEF GoodJob, Ends
<1> QED
  BY <1>2, <1>3, <1>4

\* A job that fails, where it is.
LEMMA FailureCloses ==
  ASSUME AssistantInv, NEW j \in Job, JobLive(j), EndJob(j, "failed"),
         Breakers', Stores', UNCHANGED <<cached, agent>>
  PROVE  AssistantInv'
<1> DEFINE w == Over(j, "failed", TRUE)
<1>1. /\ job' = [job EXCEPT ![j] = w]
      /\ pending' = [pending EXCEPT ![job[j].prompt] = None]
  BY DEF EndJob
<1>2. job[j].prompt \in Prompt /\ job[j].route \in Route /\ Jobs
  BY JobIsLive DEF AssistantInv, JobState
<1>3. "failed" \in Ends
  BY DEF Ends
<1>4. w \in JobState /\ GoodJob(w) /\ w.prompt = job[j].prompt /\ w.stage \in Ends
  BY <1>2, <1>3, OverFields
<1> HIDE DEF w
<1> QED
  BY <1>1, <1>2, <1>4, JobCloses

\* The loop over the providers goes on with breakers that are sound.
LEMMA AdvanceKeeps ==
  ASSUME AssistantInv, NEW j \in Job, JobLive(j), NEW i \in 1 .. Len(Chain) + 1,
         NEW c \in [Provider -> GoodBreaker], Advance(j, i, c),
         cooling' \in SUBSET (Provider \X Route), UNCHANGED <<kept, cached, pending, agent>>
  PROVE  AssistantInv'
<1>1. PICK k \in i .. Len(Chain) + 1 :
        LET found == k <= Len(Chain) /\ <<Chain[k], job[j].prompt>> \in kept
        IN  /\ circuit' = [p \in Provider |->
                 IF \E l \in i .. k - 1 : Chain[l] = p THEN Asked(c[p])
                 ELSE IF k <= Len(Chain) /\ Chain[k] = p
                   THEN IF found THEN Reset ELSE Asked(c[p])
                 ELSE c[p]]
            /\ job' = [job EXCEPT ![j] =
                 IF found THEN Working(j, "telling", 0, 0, 0)
                 ELSE IF k <= Len(Chain) THEN Working(j, "trying", k, 1, 0)
                 ELSE Working(j, Lastly(j), 0, 0, 0)]
  BY DEF Advance
<1>2. Breakers'
  BY <1>1, BreakerOps DEF Breakers
<1>3. Stores'
  BY DEF AssistantInv, Stores
<1>4. Jobs
  BY DEF AssistantInv
<1>5. 0 \in 0 .. Len(Chain) /\ 0 \in 0 .. MaxRetries /\ 1 \in 0 .. MaxRetries /\ 0 \in 0 .. 1
  BY ChainFacts, LimitsArePositive
<1>6. PICK w \in {Working(j, "telling", 0, 0, 0), Working(j, "local", 0, 0, 0)}
                   \cup {Working(j, "trying", l, 1, 0) : l \in 1 .. Len(Chain)} :
        job' = [job EXCEPT ![j] = w]
  <2>1. k <= Len(Chain) => k \in 1 .. Len(Chain)
    BY ChainFacts
  <2> QED
    BY <1>1, <2>1 DEF Lastly
<1>7. /\ w \in JobState /\ GoodJob(w) /\ w.prompt = job[j].prompt
      /\ w.stage \in {"trying", "local", "telling"}
  <2>1. CASE w \in {Working(j, "telling", 0, 0, 0), Working(j, "local", 0, 0, 0)}
    BY <1>4, <1>5, <2>1, WorkingFields
  <2>2. ASSUME NEW l \in 1 .. Len(Chain), w = Working(j, "trying", l, 1, 0)
        PROVE  /\ w \in JobState /\ GoodJob(w) /\ w.prompt = job[j].prompt
               /\ w.stage = "trying"
    <3>1. l \in 0 .. Len(Chain)
      BY ChainFacts
    <3> QED
      BY <1>4, <1>5, <2>2, <3>1, WorkingFields
  <2> QED
    BY <2>1, <2>2
<1> QED
  BY <1>2, <1>3, <1>6, <1>7, JobMoves

\* The loop is broken off where the cache raises.
LEMMA BreakOffKeeps ==
  ASSUME AssistantInv, NEW j \in Job, JobLive(j), NEW i \in 1 .. Len(Chain) + 1,
         NEW c \in [Provider -> GoodBreaker], BreakOff(j, i, c),
         cooling' \in SUBSET (Provider \X Route), UNCHANGED <<kept, cached, agent>>
  PROVE  AssistantInv'
<1>1. PICK k \in i .. Len(Chain) + 1 :
        /\ circuit' = [p \in Provider |->
             IF \E l \in i .. k - 1 : Chain[l] = p THEN Asked(c[p]) ELSE c[p]]
        /\ \/ /\ job' = [job EXCEPT ![j] = Working(j, Lastly(j), 0, 0, 0)]
              /\ UNCHANGED pending
           \/ EndJob(j, "failed")
  BY DEF BreakOff
<1>2. Breakers'
  BY <1>1, BreakerOps DEF Breakers
<1>3. Stores'
  BY DEF AssistantInv, Stores
<1>4. CASE job' = [job EXCEPT ![j] = Working(j, Lastly(j), 0, 0, 0)] /\ UNCHANGED pending
  <2>1. /\ Jobs /\ 0 \in 0 .. Len(Chain) /\ 0 \in 0 .. MaxRetries /\ 0 \in 0 .. 1
        /\ Lastly(j) \in {"telling", "local"}
    BY ChainFacts, LimitsArePositive DEF AssistantInv, Lastly
  <2>2. LET w == Working(j, Lastly(j), 0, 0, 0) IN
        w \in JobState /\ GoodJob(w) /\ w.stage = Lastly(j) /\ w.prompt = job[j].prompt
    BY <2>1, WorkingFields
  <2> QED
    BY <1>2, <1>3, <1>4, <2>1, <2>2, JobMoves
<1>5. CASE EndJob(j, "failed")
  BY <1>2, <1>3, <1>5, FailureCloses
<1> QED
  BY <1>1, <1>4, <1>5

LEMMA StartKeeps ==
  ASSUME AssistantInv, NEW j \in Job, Start(j)
  PROVE  AssistantInv'
<1>1. JobLive(j) /\ GoOn(j, 1, circuit)
  BY DEF Start, JobLive
<1>2. 1 \in 1 .. Len(Chain) + 1
  BY ChainFacts
<1>3. circuit \in [Provider -> GoodBreaker] /\ cooling' \in SUBSET (Provider \X Route)
  BY DEF AssistantInv, Breakers, Stores, Start
<1> QED
  BY <1>1, <1>2, <1>3, AdvanceKeeps, BreakOffKeeps DEF Start, GoOn

LEMMA AtProvider ==
  ASSUME AssistantInv, NEW j \in Job, job[j].stage \in {"trying", "pausing"}
  PROVE  /\ JobLive(j) /\ job[j].at \in 1 .. Len(Chain) /\ Chain[job[j].at] \in Provider
         /\ job[j].prompt \in Prompt /\ job[j].attempt \in 0 .. MaxRetries
         /\ job[j].late \in 0 .. 1 /\ job[j].route \in Route
<1>1. JobLive(j)
  BY DEF JobLive
<1>2. job[j] \in JobState /\ GoodJob(job[j]) /\ job[j].prompt \in Prompt
  BY <1>1 DEF AssistantInv, Jobs, JobTable
<1>3. job[j].at \in 1 .. Len(Chain) /\ job[j].late <= 1
  BY <1>2 DEF GoodJob
<1>4. /\ job[j].late \in 0 .. MaxRetries /\ job[j].attempt \in 0 .. MaxRetries
      /\ job[j].route \in Route
  BY <1>2 DEF JobState
<1> QED
  BY <1>1, <1>2, <1>3, <1>4, ChainFacts, LimitsArePositive

LEMMA AnswerKeeps ==
  ASSUME AssistantInv, NEW j \in Job, Answer(j)
  PROVE  AssistantInv'
<1>1. /\ job[j].stage = "trying"
      /\ circuit' = [circuit EXCEPT ![Chain[job[j].at]] = Reset]
      /\ \/ /\ kept' = kept \cup {<<Chain[job[j].at], job[j].prompt>>}
            /\ job' = [job EXCEPT ![j] = Working(j, "telling", 0, 0, 0)]
            /\ UNCHANGED pending
         \/ EndJob(j, "failed") /\ UNCHANGED kept
      /\ UNCHANGED <<cooling, cached, agent>>
  BY DEF Answer
<1>2. Breakers'
  BY <1>1, AtProvider, BreakerOps DEF AssistantInv, Breakers
<1>3. Stores'
  BY <1>1, AtProvider DEF AssistantInv, Stores
<1>4. Jobs /\ 0 \in 0 .. Len(Chain) /\ 0 \in 0 .. MaxRetries /\ 0 \in 0 .. 1
  BY ChainFacts, LimitsArePositive DEF AssistantInv
<1>5. LET w == Working(j, "telling", 0, 0, 0) IN
      w \in JobState /\ GoodJob(w) /\ w.stage = "telling" /\ w.prompt = job[j].prompt
  BY <1>4, WorkingFields
<1>6. CASE EndJob(j, "failed")
  BY <1>1, <1>2, <1>3, <1>6, AtProvider, FailureCloses
<1> QED
  BY <1>1, <1>2, <1>3, <1>5, <1>6, AtProvider, JobMoves

LEMMA AnswerLocallyKeeps ==
  ASSUME AssistantInv, NEW j \in Job, AnswerLocally(j)
  PROVE  AssistantInv'
<1>1. /\ JobLive(j) /\ job' = [job EXCEPT ![j] = Working(j, "telling", 0, 0, 0)]
      /\ UNCHANGED <<circuit, cooling, kept, cached, pending, agent>>
  BY DEF AnswerLocally, JobLive
<1>2. Breakers' /\ Stores'
  BY <1>1 DEF AssistantInv, Breakers, Stores
<1>3. Jobs /\ 0 \in 0 .. Len(Chain) /\ 0 \in 0 .. MaxRetries /\ 0 \in 0 .. 1
  BY ChainFacts, LimitsArePositive DEF AssistantInv
<1>4. LET w == Working(j, "telling", 0, 0, 0) IN
      w \in JobState /\ GoodJob(w) /\ w.stage = "telling" /\ w.prompt = job[j].prompt
  BY <1>3, WorkingFields
<1> QED
  BY <1>1, <1>2, <1>4, JobMoves

\* A failure that is not the last attempt pauses; the others go on in the chain.
LEMMA FailKeeps ==
  ASSUME AssistantInv, NEW j \in Job, Fail(j)
  PROVE  AssistantInv'
<1> DEFINE p == Chain[job[j].at]
           c == [circuit EXCEPT ![p] = RegisterFailure(@)]
<1>1. /\ job[j].stage = "trying"
      /\ cooling' = cooling \cup {<<p, job[j].route>>} \/ cooling' = cooling
      /\ IF GivesUp(j, c[p])
         THEN GoOn(j, job[j].at + 1, c)
         ELSE /\ circuit' = c
              /\ UNCHANGED pending
              /\ job' = [job EXCEPT ![j] =
                   Working(j, "pausing", job[j].at, job[j].attempt,
                           IF c[p].state = "open" THEN job[j].late ELSE 0)]
      /\ UNCHANGED <<kept, cached, agent>>
  BY DEF Fail
<1>2. /\ JobLive(j) /\ job[j].at \in 1 .. Len(Chain) /\ p \in Provider
      /\ job[j].prompt \in Prompt /\ job[j].attempt \in 0 .. MaxRetries
      /\ job[j].late \in 0 .. 1 /\ job[j].route \in Route
  BY <1>1, AtProvider
<1>3. c \in [Provider -> GoodBreaker]
  BY <1>2, BreakerOps DEF AssistantInv, Breakers
<1>4. cooling' \in SUBSET (Provider \X Route)
  BY <1>1, <1>2 DEF AssistantInv, Stores
<1> HIDE DEF p, c
<1>5. CASE GivesUp(j, c[p])
  <2>1. job[j].at + 1 \in 1 .. Len(Chain) + 1
    BY <1>2, ChainFacts
  <2> QED
    BY <1>1, <1>2, <1>3, <1>4, <1>5, <2>1, AdvanceKeeps, BreakOffKeeps DEF GoOn
<1>6. CASE ~GivesUp(j, c[p])
  <2>1. c[p].state # "open" /\ job[j].attempt < MaxRetries
    BY <1>2, <1>6, LimitsArePositive DEF GivesUp
  <2>2. /\ circuit' = c /\ UNCHANGED pending
        /\ job' = [job EXCEPT ![j] =
             Working(j, "pausing", job[j].at, job[j].attempt, 0)]
    BY <1>1, <1>6, <2>1
  <2>3. Jobs /\ job[j].at \in 0 .. Len(Chain) /\ 0 \in 0 .. 1
    BY <1>2, ChainFacts DEF AssistantInv
  <2>4. LET w == Working(j, "pausing", job[j].at, job[j].attempt, 0) IN
        w \in JobState /\ GoodJob(w) /\ w.stage = "pausing" /\ w.prompt = job[j].prompt
    BY <1>2, <2>1, <2>3, WorkingFields
  <2>5. Breakers' /\ Stores'
    BY <1>1, <1>3, <1>4, <2>2 DEF AssistantInv, Breakers, Stores
  <2> QED
    BY <1>1, <1>2, <2>2, <2>4, <2>5, JobMoves
<1> QED
  BY <1>5, <1>6

\* The attempt after a pause may come late, and none does after that.
LEMMA RetryKeeps ==
  ASSUME AssistantInv, NEW j \in Job, Retry(j)
  PROVE  AssistantInv'
<1> DEFINE late == job[j].late
                     + IF circuit[Chain[job[j].at]].state = "open" THEN 1 ELSE 0
<1>1. /\ job[j].stage = "pausing"
      /\ job' = [job EXCEPT ![j] =
           Working(j, "trying", job[j].at, job[j].attempt + 1, late)]
      /\ UNCHANGED <<circuit, cooling, kept, cached, pending, agent>>
  BY DEF Retry
<1>2. /\ JobLive(j) /\ job[j].at \in 1 .. Len(Chain)
      /\ job[j].attempt \in 0 .. MaxRetries
  BY <1>1, AtProvider
<1>3. job[j].attempt < MaxRetries /\ job[j].late = 0
  BY <1>1 DEF AssistantInv, Jobs, GoodJob
<1>4. late \in 0 .. 1 /\ job[j].attempt + 1 \in 0 .. MaxRetries /\ job[j].at \in 0 .. Len(Chain)
  BY <1>2, <1>3, ChainFacts, LimitsArePositive
<1> HIDE DEF late
<1>5. Jobs
  BY DEF AssistantInv
<1>6. LET w == Working(j, "trying", job[j].at, job[j].attempt + 1, late) IN
      w \in JobState /\ GoodJob(w) /\ w.stage = "trying" /\ w.prompt = job[j].prompt
  <2> DEFINE at == job[j].at
             attempt == job[j].attempt + 1
  <2>1. at \in 0 .. Len(Chain) /\ at \in 1 .. Len(Chain) /\ attempt \in 0 .. MaxRetries
    BY <1>2, <1>4
  <2> HIDE DEF at, attempt
  <2>2. LET w == Working(j, "trying", at, attempt, late) IN
        w \in JobState /\ GoodJob(w) /\ w.stage = "trying" /\ w.prompt = job[j].prompt
    BY <1>4, <1>5, <2>1, WorkingFields
  <2> QED
    BY <2>2 DEF at, attempt
<1>7. Breakers' /\ Stores'
  BY <1>1 DEF AssistantInv, Breakers, Stores
<1> QED
  BY <1>1, <1>2, <1>6, <1>7, JobMoves

LEMMA FinishKeeps ==
  ASSUME AssistantInv, NEW j \in Job, Finish(j)
  PROVE  AssistantInv'
<1> DEFINE w == Over(j, "done", TRUE)
<1>1. /\ job[j].stage = "telling"
      /\ job' = [job EXCEPT ![j] = w]
      /\ pending' = [pending EXCEPT ![job[j].prompt] = None]
      /\ cached' = cached \cup {<<job[j].route, job[j].prompt>>}
      /\ UNCHANGED <<circuit, cooling, kept, agent>>
  BY DEF Finish, EndJob
<1>2. JobLive(j)
  BY <1>1 DEF JobLive
<1>3. job[j].prompt \in Prompt /\ job[j].route \in Route /\ Jobs
  BY <1>2, JobIsLive DEF AssistantInv, JobState
<1>4. "done" \in Ends
  BY DEF Ends
<1>5. w \in JobState /\ GoodJob(w) /\ w.prompt = job[j].prompt /\ w.stage \in Ends
  BY <1>3, <1>4, OverFields
<1> HIDE DEF w
<1> QED
  BY <1>1, <1>2, <1>3, <1>5, JobEnds

LEMMA CacheFailsKeeps ==
  ASSUME AssistantInv, NEW j \in Job, CacheFails(j)
  PROVE  AssistantInv'
<1>1. JobLive(j) /\ EndJob(j, "failed") /\ UNCHANGED <<circuit, cooling, kept, cached, agent>>
  BY DEF CacheFails, JobLive
<1>2. Breakers' /\ Stores'
  BY <1>1 DEF AssistantInv, Breakers, Stores
<1> QED
  BY <1>1, <1>2, FailureCloses

LEMMA UnwindKeeps ==
  ASSUME AssistantInv, NEW j \in Job, Unwind(j)
  PROVE  AssistantInv'
<1>1. JobLive(j)
  BY DEF Unwind, AssistantInv, Jobs, JobState, Live, JobLive, StageOf, Ends
<1>2. job[j].prompt \in Prompt /\ job[j].route \in Route /\ Jobs
  BY <1>1, JobIsLive DEF AssistantInv, JobState
<1>3. "cancelled" \in Ends
  BY DEF Ends
<1>4. UNCHANGED <<circuit, cooling, kept, cached, agent>>
  BY DEF Unwind
<1>5. CASE job[j].ran
  <2> DEFINE w == Over(j, "cancelled", TRUE)
  <2>1. /\ job' = [job EXCEPT ![j] = w]
        /\ pending' = [pending EXCEPT ![job[j].prompt] = None]
    BY <1>5 DEF Unwind, EndJob
  <2>2. w \in JobState /\ GoodJob(w) /\ w.prompt = job[j].prompt /\ w.stage \in Ends
    BY <1>2, <1>3, OverFields
  <2> HIDE DEF w
  <2> QED
    BY <1>1, <1>2, <1>4, <2>1, <2>2, JobEnds
<1>6. CASE ~job[j].ran
  <2> DEFINE w == Over(j, "cancelled", FALSE)
  <2>1. job' = [job EXCEPT ![j] = w] /\ pending' = pending
    BY <1>6 DEF Unwind
  <2>2. /\ w \in JobState /\ GoodJob(w) /\ w.prompt = job[j].prompt
        /\ w.stage = "cancelled" /\ w.ran = FALSE
    BY <1>2, <1>3, OverFields
  <2> HIDE DEF w
  <2> QED
    BY <1>1, <1>2, <1>3, <1>4, <2>1, <2>2, JobEnds
<1> QED
  BY <1>5, <1>6

LEMMA JobStepKeeps ==
  ASSUME AssistantInv, NEW j \in Job, JobStep(j)
  PROVE  AssistantInv'
BY StartKeeps, AnswerKeeps, FailKeeps, RetryKeeps, AnswerLocallyKeeps, FinishKeeps,
   CacheFailsKeeps, UnwindKeeps DEF JobStep

-----------------------------------------------------------------------------
(* Steps of the endpoints and the runs.                                    *)

\* The agent a takes the state w: what is to be shown is what depends on agents.
LEMMA AgentMoves ==
  ASSUME AssistantInv, NEW a \in Agent, NEW w \in AgentState,
         agent' = [agent EXCEPT ![a] = w], UNCHANGED <<circuit, cooling, kept, job>>,
         cached' = cached \/ cached' = cached \cup {<<"context", None>>},
         pending' = pending \/ pending' = [pending EXCEPT ![None] = None],
         RunTable', Waiters'
  PROVE  AssistantInv'
<1>1. Stores'
  BY DEF AssistantInv, Stores, Route, Key
<1>2. Breakers' /\ Jobs'
  BY DEF AssistantInv, Breakers, Jobs
<1>3. Tables'
  BY DEF AssistantInv, Tables
<1>4. \A p \in Prompt : pending'[p] = pending[p]
  BY TasksAreDistinct DEF AssistantInv, Tables, Key
<1>5. JobTable'
  BY <1>4 DEF AssistantInv, JobTable, JobLive
<1> QED
  BY <1>1, <1>2, <1>3, <1>5 DEF AssistantInv

LEMMA AgentFacts ==
  ASSUME AssistantInv, NEW a \in Agent, NEW w, agent' = [agent EXCEPT ![a] = w]
  PROVE  /\ agent'[a] = w
         /\ \A b \in Agent \ {a} : agent'[b] = agent[b]
         /\ a \notin Run => \A r \in Run : agent'[r] = agent[r]
         /\ a \notin Chatter => \A c \in Chatter : agent'[c] = agent[c]
         /\ a \notin Visitor => \A c \in Visitor : agent'[c] = agent[c]
BY DEF AssistantInv, Tables, Agent, Caller

\* A caller starts, or has his turn, or gives up.
LEMMA CallerEnds ==
  ASSUME AssistantInv, NEW c \in Caller, NEW s \in {"collecting"} \cup Ends,
         agent' = [agent EXCEPT ![c] = [Fresh EXCEPT !.stage = s]],
         \/ pending' = pending
         \/ pending' = [pending EXCEPT ![None] = None] /\ \A r \in Run : ~RunLive(r),
         UNCHANGED <<circuit, cooling, kept, cached, job>>
  PROVE  AssistantInv'
<1> DEFINE w == [Fresh EXCEPT !.stage = s]
<1>1. w \in AgentState /\ w.stage = s /\ s # "waiting"
  BY Records DEF Ends
<1> HIDE DEF w
<1>2. agent' = [agent EXCEPT ![c] = w]
  BY DEF w
<1>3. c \in Agent /\ c \notin Run
  BY TasksAreDistinct DEF Agent, Task
<1>4. /\ agent'[c] = w /\ \A b \in Agent \ {c} : agent'[b] = agent[b]
      /\ \A r \in Run : agent'[r] = agent[r]
  BY <1>2, <1>3, AgentFacts
<1>5. RunTable'
  <2>1. CASE pending' = pending
    BY <1>4, <2>1 DEF AssistantInv, RunTable, RunLive
  <2>2. CASE pending' = [pending EXCEPT ![None] = None] /\ \A r \in Run : ~RunLive(r)
    <3>1. pending'[None] = None
      BY <2>2 DEF AssistantInv, Tables, Key
    <3> QED
      BY <1>4, <2>2, <3>1 DEF AssistantInv, RunTable, RunLive
  <2> QED
    BY <2>1, <2>2
<1>6. Waiters'
  <2>1. ASSUME NEW a \in Chatter \cup Run, agent'[a].stage = "waiting"
        PROVE  /\ agent'[a].on \in Job /\ job'[agent'[a].on].prompt = agent'[a].prompt
               /\ job'[agent'[a].on].stage # "idle"
    <3>1. agent'[a] = agent[a]
      BY <1>1, <1>4, <2>1 DEF Agent, Caller
    <3> QED
      BY <2>1, <3>1 DEF AssistantInv, Waiters
  <2>2. ASSUME NEW d \in Visitor, agent'[d].stage = "waiting"
        PROVE  /\ agent'[d].on \in Run
               /\ agent'[agent'[d].on].stage = "done" => <<"context", None>> \in cached'
    <3>1. agent'[d] = agent[d]
      BY <1>1, <1>4, <2>2 DEF Agent, Caller
    <3> QED
      BY <1>4, <2>2, <3>1 DEF AssistantInv, Waiters
  <2> QED
    BY <2>1, <2>2 DEF Waiters
<1> QED
  BY <1>1, <1>2, <1>3, <1>5, <1>6, AgentMoves

LEMMA AskKeeps ==
  ASSUME AssistantInv, NEW c \in Chatter, Ask(c)
  PROVE  AssistantInv'
<1>1. c \in Caller /\ "collecting" \in {"collecting"} \cup Ends
  BY DEF Caller
<1> QED
  BY <1>1, CallerEnds DEF Ask

LEMMA LookupFailsKeeps ==
  ASSUME AssistantInv, NEW c \in Caller, LookupFails(c)
  PROVE  AssistantInv'
<1>1. "failed" \in {"collecting"} \cup Ends
  BY DEF Ends
<1> QED
  BY <1>1, CallerEnds DEF LookupFails

\* A visitor who removes the entry under the signature had joined a run that is
\* done: its answer is still cached, so no run is under way.
LEMMA ReceiveKeeps ==
  ASSUME AssistantInv, NEW c \in Caller, Receive(c)
  PROVE  AssistantInv'
<1> DEFINE s == IF StageOf(agent[c].on) = "done" THEN "done" ELSE "failed"
<1>1. /\ agent[c].stage = "waiting"
      /\ agent' = [agent EXCEPT ![c] = [Fresh EXCEPT !.stage = s]]
      /\ UNCHANGED <<circuit, cooling, kept, cached, job>>
  BY DEF Receive
<1>2. \/ pending' = pending
      \/ /\ pending' = [pending EXCEPT ![None] = None]
         /\ c \in Visitor /\ StageOf(agent[c].on) = "done"
  BY DEF Receive
<1>3. ASSUME c \in Visitor, StageOf(agent[c].on) = "done"
      PROVE  \A r \in Run : ~RunLive(r)
  <2>1. agent[c].on \in Run /\ agent[agent[c].on].stage = "done"
    BY <1>1, <1>3, TasksAreDistinct DEF AssistantInv, Waiters, StageOf
  <2>2. <<"context", None>> \in cached
    BY <1>1, <1>3, <2>1 DEF AssistantInv, Waiters
  <2> QED
    BY <2>2 DEF AssistantInv, RunTable
<1>4. s \in {"collecting"} \cup Ends
  BY DEF Ends
<1> HIDE DEF s
<1> QED
  BY <1>1, <1>2, <1>3, <1>4, CallerEnds

LEMMA WaitersAfter ==
  ASSUME AssistantInv, NEW a \in Agent, NEW w \in AgentState,
         agent' = [agent EXCEPT ![a] = w], job' = job, cached \subseteq cached',
         w.stage = "waiting" /\ a \in Chatter \cup Run =>
           w.on \in Job /\ job[w.on].prompt = w.prompt /\ job[w.on].stage # "idle",
         w.stage = "waiting" /\ a \in Visitor =>
           w.on \in Run /\ (agent[w.on].stage = "done" => <<"context", None>> \in cached'),
         a \in Run /\ w.stage = "done" => <<"context", None>> \in cached'
  PROVE  Waiters'
<1>1. agent'[a] = w /\ \A b \in Agent \ {a} : agent'[b] = agent[b]
  BY AgentFacts
<1>2. ASSUME NEW b \in Chatter \cup Run, agent'[b].stage = "waiting"
      PROVE  /\ agent'[b].on \in Job /\ job'[agent'[b].on].prompt = agent'[b].prompt
             /\ job'[agent'[b].on].stage # "idle"
  <2>1. CASE b = a
    BY <1>1, <1>2, <2>1
  <2>2. CASE b # a
    <3>1. agent'[b] = agent[b]
      BY <1>1, <2>2 DEF Agent, Caller
    <3> QED
      BY <1>2, <3>1 DEF AssistantInv, Waiters
  <2> QED
    BY <2>1, <2>2
<1>3. ASSUME NEW r \in Run, agent'[r].stage = "done"
      PROVE  <<"context", None>> \in cached' \/ agent[r].stage = "done"
  <2>1. r \in Agent
    BY DEF Agent
  <2> QED
    BY <1>1, <1>3, <2>1
<1>4. ASSUME NEW d \in Visitor, agent'[d].stage = "waiting"
      PROVE  /\ agent'[d].on \in Run
             /\ agent'[agent'[d].on].stage = "done" => <<"context", None>> \in cached'
  <2>1. agent'[d].on \in Run
          /\ (agent[agent'[d].on].stage = "done" => <<"context", None>> \in cached')
    <3>1. CASE d = a
      BY <1>1, <1>4, <3>1
    <3>2. CASE d # a
      <4>1. agent'[d] = agent[d]
        BY <1>1, <3>2 DEF Agent, Caller
      <4> QED
        BY <1>4, <4>1 DEF AssistantInv, Waiters
    <3> QED
      BY <3>1, <3>2
  <2> QED
    BY <1>3, <2>1
<1> QED
  BY <1>2, <1>4 DEF Waiters

\* A run under way is the one that is registered; it ends, and if it is done its
\* answer is cached.
LEMMA RunEnds ==
  ASSUME AssistantInv, NEW r \in Run, RunLive(r), NEW s \in Ends,
         agent' = [agent EXCEPT ![r] = [Fresh EXCEPT !.stage = s]],
         \/ pending' = [pending EXCEPT ![None] = None]
         \/ pending' = pending /\ s = "cancelled",
         \/ cached' = cached \cup {<<"context", None>>}
         \/ cached' = cached /\ s # "done",
         UNCHANGED <<circuit, cooling, kept, job>>
  PROVE  AssistantInv'
<1> DEFINE w == [Fresh EXCEPT !.stage = s]
<1>1. w \in AgentState /\ w.stage = s /\ s # "waiting"
  BY Records DEF Ends
<1> HIDE DEF w
<1>2. agent' = [agent EXCEPT ![r] = w] /\ r \in Agent
  BY DEF w, Agent
<1>3. agent'[r] = w /\ \A b \in Agent \ {r} : agent'[b] = agent[b]
  BY <1>1, <1>2, AgentFacts
<1>4. \A q \in Run : ~RunLive(q)'
  <2> SUFFICES ASSUME NEW q \in Run, RunLive(q)' PROVE FALSE
    OBVIOUS
  <2>1. q # r
    BY <1>1, <1>3 DEF RunLive, Ends
  <2>2. RunLive(q)
    BY <1>3, <2>1 DEF RunLive, Agent
  <2> QED
    BY <2>1, <2>2 DEF AssistantInv, RunTable
<1>5. RunTable'
  <2>1. CASE pending' = [pending EXCEPT ![None] = None]
    <3>1. pending'[None] = None
      BY <2>1 DEF AssistantInv, Tables, Key
    <3> QED
      BY <1>4, <3>1 DEF RunTable, RunLive
  <2>2. CASE pending' = pending /\ s = "cancelled"
    <3>1. pending'[None] = r /\ agent'[r].stage = "cancelled"
      BY <1>1, <1>3, <2>2 DEF AssistantInv, RunTable
    <3> QED
      BY <1>4, <3>1 DEF RunTable, RunLive
  <2> QED
    BY <2>1, <2>2
<1>6. r \notin Visitor
  BY TasksAreDistinct DEF Task, Caller
<1>7. Waiters'
  BY <1>1, <1>2, <1>6, WaitersAfter
<1> QED
  BY <1>1, <1>2, <1>5, <1>7, AgentMoves

LEMMA StartRunKeeps ==
  ASSUME AssistantInv, NEW r \in Run, StartRun(r)
  PROVE  AssistantInv'
<1> DEFINE w == [agent[r] EXCEPT !.stage = "collecting"]
<1>1. r \in Agent /\ agent[r] \in AgentState /\ agent[r].stage = "new"
  BY DEF Agent, AssistantInv, Tables, StartRun
<1>2. w \in AgentState /\ w.stage = "collecting"
  BY <1>1 DEF AgentState
<1> HIDE DEF w
<1>3. agent' = [agent EXCEPT ![r] = w] /\ UNCHANGED <<circuit, cooling, kept, cached, pending, job>>
  BY DEF StartRun, w
<1>4. agent'[r] = w /\ \A b \in Agent \ {r} : agent'[b] = agent[b]
  BY <1>1, <1>2, <1>3, AgentFacts
<1>5. \A q \in Run : RunLive(q)' <=> RunLive(q)
  BY <1>1, <1>2, <1>4 DEF RunLive, Agent
<1>6. \A q \in Run : agent'[q].stage = "cancelled" <=> agent[q].stage = "cancelled"
  BY <1>1, <1>2, <1>4 DEF Agent
<1>7. RunTable'
  <2>1. \A q \in Run : agent'[q].stage \in {"new", "collecting", "waiting"} <=> RunLive(q)
    BY <1>5 DEF RunLive
  <2> QED
    BY <1>3, <1>6, <2>1 DEF AssistantInv, RunTable, RunLive
<1>8. Waiters'
  BY <1>1, <1>2, <1>3, WaitersAfter
<1> QED
  BY <1>1, <1>2, <1>3, <1>7, <1>8, AgentMoves

LEMMA FinishRunKeeps ==
  ASSUME AssistantInv, NEW r \in Run, FinishRun(r)
  PROVE  AssistantInv'
<1>1. RunLive(r) /\ "done" \in Ends /\ "failed" \in Ends
  BY DEF FinishRun, RunLive, Ends
<1>2. UNCHANGED <<circuit, cooling, kept, job>>
  BY DEF FinishRun
<1>3. CASE EndRun(r, "done") /\ cached' = cached \cup {<<"context", None>>}
  BY <1>1, <1>2, <1>3, RunEnds DEF EndRun
<1>4. CASE EndRun(r, "failed") /\ cached' = cached
  BY <1>1, <1>2, <1>4, RunEnds DEF EndRun
<1> QED
  BY <1>3, <1>4 DEF FinishRun

LEMMA AbortRunKeeps ==
  ASSUME AssistantInv, NEW r \in Run, AbortRun(r)
  PROVE  AssistantInv'
<1>1. RunLive(r)
  BY DEF AbortRun, RunLive
<1>2. UNCHANGED <<circuit, cooling, kept, cached, job>>
  BY DEF AbortRun
<1>3. PICK s \in Ends : s # "done" /\ EndRun(r, s)
  <2>1. CASE agent[r].stage = "waiting" /\ Ended(agent[r].on)
    BY <2>1 DEF AbortRun, Ended, Ends
  <2>2. CASE agent[r].stage = "collecting"
    BY <2>2 DEF AbortRun, Ends
  <2> QED
    BY <2>1, <2>2 DEF AbortRun
<1> QED
  BY <1>1, <1>2, <1>3, RunEnds DEF EndRun

LEMMA StillbornRunKeeps ==
  ASSUME AssistantInv, NEW r \in Run, StillbornRun(r)
  PROVE  AssistantInv'
<1>1. RunLive(r) /\ "cancelled" \in Ends
  BY DEF StillbornRun, RunLive, Ends
<1> QED
  BY <1>1, RunEnds DEF StillbornRun

\* An agent that begins to wait is no new run, and none that has ended.
LEMMA RunTableWaiting ==
  ASSUME AssistantInv, NEW a \in Agent, NEW w \in AgentState, w.stage = "waiting",
         agent' = [agent EXCEPT ![a] = w], a \in Run => RunLive(a),
         pending'[None] = pending[None], cached' = cached
  PROVE  RunTable'
<1>1. agent'[a] = w /\ \A b \in Agent \ {a} : agent'[b] = agent[b]
  BY AgentFacts
<1>2. ASSUME NEW q \in Run
      PROVE  /\ agent'[q].stage \in {"new", "collecting", "waiting"} <=> RunLive(q)
             /\ agent'[q].stage = "cancelled" <=> agent[q].stage = "cancelled"
  <2>1. CASE q = a
    BY <1>1, <2>1 DEF RunLive
  <2>2. CASE q # a
    BY <1>1, <2>2 DEF RunLive, Agent
  <2> QED
    BY <2>1, <2>2
<1> QED
  BY <1>2 DEF AssistantInv, RunTable, RunLive

\* An agent joins the job that is registered under his prompt.
LEMMA JoinKeeps ==
  ASSUME AssistantInv, NEW a \in Chatter \cup Run, agent[a].stage = "collecting",
         NEW p \in Prompt, pending[p] # None,
         agent' = [agent EXCEPT ![a] = Await(a, pending[p], p, TRUE)],
         UNCHANGED <<circuit, cooling, kept, cached, pending, job>>
  PROVE  AssistantInv'
<1> DEFINE w == Await(a, pending[p], p, TRUE)
<1>1. a \in Agent /\ a \notin Visitor /\ (a \in Run => RunLive(a))
  BY TasksAreDistinct DEF Agent, Caller, Task, RunLive
<1>2. /\ pending[p] \in Job /\ job[pending[p]].prompt = p
      /\ JobLive(pending[p]) \/ job[pending[p]].stage = "cancelled"
  BY DEF AssistantInv, JobTable
<1>3. job[pending[p]].stage # "idle"
  BY <1>2 DEF JobLive
<1>0. pending[p] \in Task /\ p \in Key
  BY <1>2 DEF Task, Key
<1>4. w \in AgentState /\ w.stage = "waiting" /\ w.on = pending[p] /\ w.prompt = p
  BY <1>0, <1>1 DEF Await, AgentState, AssistantInv, Tables
<1> HIDE DEF w
<1>5. agent' = [agent EXCEPT ![a] = w]
  BY DEF w
<1>6. RunTable'
  BY <1>1, <1>4, <1>5, RunTableWaiting
<1>7. Waiters'
  <2>1. w.on \in Job /\ job[w.on].prompt = w.prompt /\ job[w.on].stage # "idle"
    BY <1>2, <1>3, <1>4
  <2>2. w.stage # "done" /\ cached \subseteq cached'
    BY <1>4
  <2> QED
    BY <1>1, <1>4, <1>5, <2>1, <2>2, WaitersAfter
<1> QED
  BY <1>1, <1>4, <1>5, <1>6, <1>7, AgentMoves

\* An agent creates a job for his prompt, where none is registered.
LEMMA NewJobKeeps ==
  ASSUME AssistantInv, NEW a \in Chatter \cup Run, agent[a].stage = "collecting",
         NEW p \in Prompt, pending[p] = None, NEW route \in Route, NEW j \in Job, Unused(j),
         job' = [job EXCEPT ![j] = JobRecord("new", p, route, FALSE)],
         pending' = [pending EXCEPT ![p] = j],
         agent' = [agent EXCEPT ![a] = Await(a, j, p, FALSE)],
         UNCHANGED <<circuit, cooling, kept, cached>>
  PROVE  AssistantInv'
<1> DEFINE w == Await(a, j, p, FALSE)
           n == JobRecord("new", p, route, FALSE)
<1>1. a \in Agent /\ a \notin Visitor /\ (a \in Run => RunLive(a))
  BY TasksAreDistinct DEF Agent, Caller, Task, RunLive
<1>0. j \in Task /\ p \in Key
  BY DEF Task, Key
<1>2. w \in AgentState /\ w.stage = "waiting" /\ w.on = j /\ w.prompt = p
  BY <1>0, <1>1 DEF Await, AgentState, AssistantInv, Tables
<1>3. n \in JobState /\ n.stage = "new" /\ n.prompt = p /\ n.late = 0
  BY LimitsArePositive, ChainFacts DEF JobRecord, JobState, Key
<1> HIDE DEF w, n
<1>4. GoodJob(n)
  BY <1>3 DEF GoodJob
<1>5. agent' = [agent EXCEPT ![a] = w] /\ job' = [job EXCEPT ![j] = n]
  BY DEF w, n
<1>6. /\ job' \in [Job -> JobState] /\ job'[j] = n
      /\ \A i \in Job \ {j} : job'[i] = job[i]
  BY <1>3, <1>5 DEF AssistantInv, Jobs
<1>7. Jobs'
  BY <1>4, <1>6 DEF AssistantInv, Jobs
<1>8. Stores' /\ Breakers'
  BY DEF AssistantInv, Stores, Breakers
<1>10. p \in Key /\ p # None /\ pending \in [Key -> Task \cup {None}]
  BY TasksAreDistinct DEF Key, AssistantInv, Tables
<1>9. Tables'
  <2>1. pending' \in [Key -> Task \cup {None}]
    BY <1>0, <1>10
  <2>2. agent' \in [Agent -> AgentState]
    BY <1>2, <1>5 DEF AssistantInv, Tables
  <2> QED
    BY <2>1, <2>2 DEF Tables
<1>11. /\ pending'[p] = j /\ pending'[None] = pending[None]
       /\ \A q \in Prompt : q # p => pending'[q] = pending[q]
  BY <1>10 DEF Key
<1>12. ~JobLive(j) /\ (\A b \in Agent : ~(agent[b].stage = "waiting" /\ agent[b].on = j))
        /\ \A q \in Prompt : pending[q] # j
  BY DEF Unused, Live, StageOf, WaitsFor, JobLive, Ends, Key
<1>13. JobTable'
  <2>1. \A q \in Prompt : pending'[q] \in Job \cup {None}
    BY <1>11 DEF AssistantInv, JobTable
  <2>2. ASSUME NEW q \in Prompt, pending'[q] # None
        PROVE  /\ job'[pending'[q]].prompt = q
               /\ job'[pending'[q]].stage \in {"new", "trying", "pausing", "local", "telling"}
                    \/ (job'[pending'[q]].stage = "cancelled" /\ ~job'[pending'[q]].ran)
    <3>1. CASE q = p
      <4>1. pending'[q] = j /\ job'[j] = n
        BY <3>1, <1>6, <1>11
      <4> QED
        BY <3>1, <4>1, <1>3
    <3>2. CASE q # p
      <4>1. pending'[q] = pending[q] /\ pending[q] \in Job /\ pending[q] # j
        BY <2>2, <3>2, <1>11, <1>12 DEF AssistantInv, JobTable
      <4>2. /\ job[pending[q]].prompt = q
            /\ job[pending[q]].stage \in {"new", "trying", "pausing", "local", "telling"}
                 \/ (job[pending[q]].stage = "cancelled" /\ ~job[pending[q]].ran)
        BY <2>2, <4>1 DEF AssistantInv, JobTable, JobLive
      <4>3. job'[pending[q]] = job[pending[q]]
        BY <4>1, <1>6
      <4> QED
        BY <4>1, <4>2, <4>3
    <3> QED
      BY <3>1, <3>2
  <2>3. ASSUME NEW i \in Job, JobLive(i)'
        PROVE  job'[i].prompt \in Prompt /\ pending'[job'[i].prompt] = i
    <3>1. CASE i = j
      BY <3>1, <1>3, <1>6, <1>11
    <3>2. CASE i # j
      <4>1. job'[i] = job[i] /\ job[i].prompt \in Prompt /\ pending[job[i].prompt] = i
        BY <2>3, <3>2, <1>6 DEF AssistantInv, JobTable, JobLive
      <4>2. job[i].prompt # p
        BY <4>1, TasksAreDistinct DEF Agent
      <4> QED
        BY <4>1, <4>2, <1>11
    <3> QED
      BY <3>1, <3>2
  <2> QED
    BY <2>1, <2>2, <2>3 DEF JobTable, JobLive
<1>14. RunTable'
  BY <1>1, <1>2, <1>5, <1>11, RunTableWaiting
<1>15. agent'[a] = w /\ \A b \in Agent \ {a} : agent'[b] = agent[b]
  BY <1>1, <1>5, AgentFacts
<1>16. Waiters'
  <2>1. ASSUME NEW b \in Chatter \cup Run, agent'[b].stage = "waiting"
        PROVE  /\ agent'[b].on \in Job /\ job'[agent'[b].on].prompt = agent'[b].prompt
               /\ job'[agent'[b].on].stage # "idle"
    <3>1. CASE b = a
      BY <3>1, <1>2, <1>3, <1>6, <1>15
    <3>2. CASE b # a
      <4>1. b \in Agent /\ agent'[b] = agent[b]
        BY <1>15, <3>2 DEF Agent, Caller
      <4>2. agent[b].on # j /\ agent[b].on \in Job
        BY <2>1, <4>1, <1>12 DEF AssistantInv, Waiters
      <4> QED
        BY <2>1, <4>1, <4>2, <1>6 DEF AssistantInv, Waiters
    <3> QED
      BY <3>1, <3>2
  <2>2. ASSUME NEW d \in Visitor, agent'[d].stage = "waiting"
        PROVE  /\ agent'[d].on \in Run
               /\ agent'[agent'[d].on].stage = "done" => <<"context", None>> \in cached'
    <3>1. agent'[d] = agent[d]
      BY <1>1, <1>15 DEF Agent, Caller
    <3>2. agent[d].on \in Run /\ (agent[agent[d].on].stage = "done" => <<"context", None>> \in cached)
      BY <2>2, <3>1 DEF AssistantInv, Waiters
    <3>3. agent'[agent[d].on].stage = "done" => agent[agent[d].on].stage = "done"
      BY <3>2, <1>2, <1>15 DEF Agent
    <3> QED
      BY <3>1, <3>2, <3>3
  <2> QED
    BY <2>1, <2>2 DEF Waiters
<1> QED
  BY <1>7, <1>8, <1>9, <1>13, <1>14, <1>16 DEF AssistantInv

LEMMA CollectKeeps ==
  ASSUME AssistantInv, NEW a \in Chatter \cup Run, NEW route \in Route, Collect(a, route)
  PROVE  AssistantInv'
<1>1. PICK p \in Prompt :
        \/ /\ agent' = [agent EXCEPT ![a] = [Fresh EXCEPT !.stage = "done"]]
           /\ cached' = IF a \in Run THEN cached \cup {<<"context", None>>} ELSE cached
           /\ pending' = IF a \in Run THEN [pending EXCEPT ![None] = None] ELSE pending
           /\ UNCHANGED job
        \/ /\ pending[p] # None
           /\ agent' = [agent EXCEPT ![a] = Await(a, pending[p], p, TRUE)]
           /\ UNCHANGED <<cached, pending, job>>
        \/ /\ pending[p] = None
           /\ \E j \in Job :
                /\ Unused(j)
                /\ job' = [job EXCEPT ![j] = JobRecord("new", p, route, FALSE)]
                /\ pending' = [pending EXCEPT ![p] = j]
                /\ agent' = [agent EXCEPT ![a] = Await(a, j, p, FALSE)]
           /\ UNCHANGED cached
  BY DEF Collect, Entry
<1>2. agent[a].stage = "collecting" /\ UNCHANGED <<circuit, cooling, kept>>
  BY DEF Collect
<1>3. CASE /\ agent' = [agent EXCEPT ![a] = [Fresh EXCEPT !.stage = "done"]]
           /\ cached' = IF a \in Run THEN cached \cup {<<"context", None>>} ELSE cached
           /\ pending' = IF a \in Run THEN [pending EXCEPT ![None] = None] ELSE pending
           /\ UNCHANGED job
  <2>1. "done" \in Ends
    BY DEF Ends
  <2>2. CASE a \in Run
    <3>1. RunLive(a)
      BY <1>2 DEF RunLive
    <3> QED
      BY <1>2, <1>3, <2>1, <2>2, <3>1, RunEnds
  <2>3. CASE a \notin Run
    <3>1. a \in Caller
      BY <2>3 DEF Caller
    <3> QED
      BY <1>2, <1>3, <2>1, <2>3, <3>1, CallerEnds
  <2> QED
    BY <2>2, <2>3
<1>4. CASE /\ pending[p] # None
           /\ agent' = [agent EXCEPT ![a] = Await(a, pending[p], p, TRUE)]
           /\ UNCHANGED <<cached, pending, job>>
  BY <1>2, <1>4, JoinKeeps
<1>5. CASE /\ pending[p] = None
           /\ \E j \in Job :
                /\ Unused(j)
                /\ job' = [job EXCEPT ![j] = JobRecord("new", p, route, FALSE)]
                /\ pending' = [pending EXCEPT ![p] = j]
                /\ agent' = [agent EXCEPT ![a] = Await(a, j, p, FALSE)]
           /\ UNCHANGED cached
  BY <1>2, <1>5, NewJobKeeps
<1> QED
  BY <1>1, <1>3, <1>4, <1>5

\* A visitor joins the run that is registered.
LEMMA VisitJoinKeeps ==
  ASSUME AssistantInv, NEW c \in Visitor, pending[None] # None,
         agent' = [agent EXCEPT ![c] = Await(c, pending[None], None, TRUE)],
         UNCHANGED <<circuit, cooling, kept, cached, pending, job>>
  PROVE  AssistantInv'
<1> DEFINE t == pending[None]
           w == Await(c, t, None, TRUE)
<1>1. c \in Agent /\ c \notin Run /\ c \notin Chatter
  BY TasksAreDistinct DEF Agent, Caller, Task
<1>2. t \in Run /\ (RunLive(t) \/ agent[t].stage = "cancelled")
  BY DEF AssistantInv, RunTable
<1>3. t \in Task /\ None \in Key /\ agent[t].stage # "done"
  BY <1>2 DEF Task, Key, RunLive
<1> HIDE DEF t
<1>4. w \in AgentState /\ w.stage = "waiting" /\ w.on = t
  BY <1>1, <1>3 DEF Await, AgentState, AssistantInv, Tables
<1> HIDE DEF w
<1>5. agent' = [agent EXCEPT ![c] = w]
  BY DEF w, t
<1>6. RunTable'
  BY <1>1, <1>4, <1>5, RunTableWaiting
<1>7. Waiters'
  BY <1>1, <1>2, <1>3, <1>4, <1>5, WaitersAfter
<1> QED
  BY <1>1, <1>4, <1>5, <1>6, <1>7, AgentMoves

\* A visitor creates a run, where none is registered and no answer is cached.
LEMMA VisitNewKeeps ==
  ASSUME AssistantInv, NEW c \in Visitor, <<"context", None>> \notin cached,
         pending[None] = None, NEW r \in Run, Unused(r),
         agent' = [agent EXCEPT ![c] = Await(c, r, None, FALSE),
                                ![r] = [Fresh EXCEPT !.stage = "new"]],
         pending' = [pending EXCEPT ![None] = r],
         UNCHANGED <<circuit, cooling, kept, cached, job>>
  PROVE  AssistantInv'
<1> DEFINE w == Await(c, r, None, FALSE)
           n == [Fresh EXCEPT !.stage = "new"]
<1>1. c \in Agent /\ r \in Agent /\ c # r /\ c \notin Run /\ c \notin Chatter
        /\ r \notin Chatter /\ r \notin Visitor /\ r \notin Job
  BY TasksAreDistinct DEF Agent, Caller, Task
<1>2. r \in Task /\ None \in Key
  BY DEF Task, Key
<1>3. w \in AgentState /\ w.stage = "waiting" /\ w.on = r
  BY <1>1, <1>2 DEF Await, AgentState, AssistantInv, Tables
<1>4. n \in AgentState /\ n.stage = "new"
  BY Records
<1> HIDE DEF w, n
<1>5. agent' = [agent EXCEPT ![c] = w, ![r] = n]
  BY DEF w, n
<1>6. /\ agent' \in [Agent -> AgentState] /\ agent'[c] = w /\ agent'[r] = n
      /\ \A b \in Agent \ {c, r} : agent'[b] = agent[b]
  <2>1. agent \in [Agent -> AgentState]
    BY DEF AssistantInv, Tables
  <2> DEFINE mid == [agent EXCEPT ![c] = w]
  <2>2. agent' = [mid EXCEPT ![r] = n]
    BY <1>5
  <2>3. mid \in [Agent -> AgentState] /\ mid[c] = w /\ \A b \in Agent \ {c} : mid[b] = agent[b]
    BY <1>1, <1>3, <2>1
  <2> HIDE DEF mid
  <2> QED
    BY <1>1, <1>4, <2>2, <2>3
<1>7. /\ pending' \in [Key -> Task \cup {None}] /\ pending'[None] = r
      /\ \A p \in Prompt : pending'[p] = pending[p]
  BY <1>2, TasksAreDistinct DEF AssistantInv, Tables, Key
<1>8. Stores' /\ Breakers' /\ Jobs' /\ Tables'
  BY <1>6, <1>7 DEF AssistantInv, Stores, Breakers, Jobs, Tables
<1>9. JobTable'
  BY <1>7 DEF AssistantInv, JobTable, JobLive
<1>10. \A q \in Run : ~RunLive(q)
  <2>1. \A q \in Run : RunLive(q) => q = None
    BY DEF AssistantInv, RunTable
  <2> QED
    BY <2>1, TasksAreDistinct DEF Agent
<1>11. RunTable'
  <2>1. ASSUME NEW q \in Run, q # r
        PROVE  agent'[q].stage \notin {"new", "collecting", "waiting"}
    BY <2>1, <1>1, <1>6, <1>10 DEF RunLive, Agent
  <2> QED
    BY <2>1, <1>4, <1>6, <1>7 DEF RunTable, RunLive
<1>12. \A b \in Agent : ~(agent[b].stage = "waiting" /\ agent[b].on = r)
  BY DEF Unused, WaitsFor
<1>13. Waiters'
  <2>1. ASSUME NEW a \in Chatter \cup Run, agent'[a].stage = "waiting"
        PROVE  /\ agent'[a].on \in Job /\ job'[agent'[a].on].prompt = agent'[a].prompt
               /\ job'[agent'[a].on].stage # "idle"
    <3>1. a # r /\ a # c
      BY <1>1, <1>4, <1>6, <2>1
    <3>2. agent'[a] = agent[a]
      BY <3>1, <1>6 DEF Agent, Caller
    <3> QED
      BY <2>1, <3>2 DEF AssistantInv, Waiters
  <2>2. ASSUME NEW d \in Visitor, agent'[d].stage = "waiting"
        PROVE  /\ agent'[d].on \in Run
               /\ agent'[agent'[d].on].stage = "done" => <<"context", None>> \in cached'
    <3>1. CASE d = c
      BY <3>1, <1>3, <1>4, <1>6
    <3>2. CASE d # c
      <4>1. d \in Agent /\ agent'[d] = agent[d]
        BY <1>1, <1>6, <3>2 DEF Agent, Caller
      <4>2. agent[d].on \in Run /\ agent[d].on # r
              /\ (agent[agent[d].on].stage = "done" => <<"context", None>> \in cached)
        BY <2>2, <4>1, <1>12 DEF AssistantInv, Waiters
      <4>3. agent'[agent[d].on] = agent[agent[d].on]
        BY <4>2, <1>1, <1>6 DEF Agent
      <4> QED
        BY <4>1, <4>2, <4>3
    <3> QED
      BY <3>1, <3>2
  <2> QED
    BY <2>1, <2>2 DEF Waiters
<1> QED
  BY <1>8, <1>9, <1>11, <1>13 DEF AssistantInv

LEMMA VisitKeeps ==
  ASSUME AssistantInv, NEW c \in Visitor, Visit(c)
  PROVE  AssistantInv'
<1>1. c \in Caller /\ UNCHANGED <<circuit, cooling, kept, cached, job>>
  BY DEF Caller, Visit
<1>2. CASE /\ <<"context", None>> \in cached
           /\ agent' = [agent EXCEPT ![c] = [Fresh EXCEPT !.stage = "done"]]
           /\ pending' = [pending EXCEPT ![None] = None]
  <2>1. \A r \in Run : ~RunLive(r)
    BY <1>2 DEF AssistantInv, RunTable
  <2>2. "done" \in {"collecting"} \cup Ends
    BY DEF Ends
  <2> QED
    BY <1>1, <1>2, <2>1, <2>2, CallerEnds
<1>3. CASE /\ pending[None] # None
           /\ agent' = [agent EXCEPT ![c] = Await(c, pending[None], None, TRUE)]
           /\ UNCHANGED pending
  BY <1>1, <1>3, VisitJoinKeeps
<1>4. CASE /\ <<"context", None>> \notin cached /\ pending[None] = None
           /\ \E r \in Run :
                /\ Unused(r)
                /\ agent' = [agent EXCEPT ![c] = Await(c, r, None, FALSE),
                                          ![r] = [Fresh EXCEPT !.stage = "new"]]
                /\ pending' = [pending EXCEPT ![None] = r]
  BY <1>1, <1>4, VisitNewKeeps
<1> QED
  BY <1>2, <1>3, <1>4 DEF Visit

-----------------------------------------------------------------------------
(* Cancellation, and the clock.                                            *)

\* Of what the tables depend on, a cancellation changes the stage of the caller.
LEMMA CancelKeeps ==
  ASSUME AssistantInv, NEW c \in Caller, Cancel(c)
  PROVE  AssistantInv'
<1>1. PICK doomed :
        /\ agent' = [a \in Agent |->
             IF a = c THEN [Fresh EXCEPT !.stage = "cancelled"]
             ELSE IF a \in doomed THEN [agent[a] EXCEPT !.doomed = TRUE]
             ELSE agent[a]]
        /\ job' = [j \in Job |->
             IF j \in doomed /\ Live(j) THEN [job[j] EXCEPT !.doomed = TRUE] ELSE job[j]]
  BY DEF Cancel
<1>2. UNCHANGED <<circuit, cooling, kept, cached, pending>>
  BY DEF Cancel
<1>3. c \in Agent /\ c \notin Run
  BY TasksAreDistinct DEF Agent, Task
<1>4. \A j \in Job :
        /\ job'[j] \in JobState
        /\ job'[j].stage = job[j].stage /\ job'[j].prompt = job[j].prompt
        /\ job'[j].ran = job[j].ran /\ job'[j].at = job[j].at
        /\ job'[j].attempt = job[j].attempt /\ job'[j].late = job[j].late
  <2> SUFFICES ASSUME NEW j \in Job
               PROVE  /\ job'[j] \in JobState
                      /\ job'[j].stage = job[j].stage /\ job'[j].prompt = job[j].prompt
                      /\ job'[j].ran = job[j].ran /\ job'[j].at = job[j].at
                      /\ job'[j].attempt = job[j].attempt /\ job'[j].late = job[j].late
    OBVIOUS
  <2>1. job[j] \in JobState
    BY DEF AssistantInv, Jobs
  <2>2. job'[j] = job[j] \/ job'[j] = [job[j] EXCEPT !.doomed = TRUE]
    BY <1>1
  <2> QED
    BY <2>1, <2>2 DEF JobState
<1>5. Jobs'
  <2>1. job' \in [Job -> JobState]
    BY <1>1, <1>4
  <2>2. \A j \in Job : GoodJob(job'[j])
    BY <1>4 DEF AssistantInv, Jobs, GoodJob
  <2> QED
    BY <2>1, <2>2 DEF Jobs
<1>6. /\ agent'[c] = [Fresh EXCEPT !.stage = "cancelled"]
      /\ agent'[c] \in AgentState /\ agent'[c].stage = "cancelled"
  BY <1>1, <1>3, Records DEF Ends
<1>7. \A a \in Agent \ {c} :
        /\ agent'[a] \in AgentState /\ agent'[a].stage = agent[a].stage
        /\ agent'[a].on = agent[a].on /\ agent'[a].prompt = agent[a].prompt
  <2> SUFFICES ASSUME NEW a \in Agent \ {c}
               PROVE  /\ agent'[a] \in AgentState /\ agent'[a].stage = agent[a].stage
                      /\ agent'[a].on = agent[a].on /\ agent'[a].prompt = agent[a].prompt
    OBVIOUS
  <2>1. agent[a] \in AgentState
    BY DEF AssistantInv, Tables
  <2>2. agent'[a] = agent[a] \/ agent'[a] = [agent[a] EXCEPT !.doomed = TRUE]
    BY <1>1
  <2> QED
    BY <2>1, <2>2 DEF AgentState
<1>8. Tables'
  <2>1. \A a \in Agent : agent'[a] \in AgentState
    BY <1>6, <1>7
  <2> QED
    BY <1>1, <1>2, <2>1 DEF AssistantInv, Tables
<1>9. Stores' /\ Breakers'
  BY <1>2 DEF AssistantInv, Stores, Breakers
<1>10. JobTable'
  <2>1. \A j \in Job : job'[j].stage \in {"new", "trying", "pausing", "local", "telling"} <=> JobLive(j)
    BY <1>4 DEF JobLive
  <2>2. ASSUME NEW p \in Prompt, pending[p] # None
        PROVE  /\ job'[pending[p]].prompt = p
               /\ job'[pending[p]].stage \in {"new", "trying", "pausing", "local", "telling"}
                    \/ (job'[pending[p]].stage = "cancelled" /\ ~job'[pending[p]].ran)
    BY <1>4, <2>1, <2>2 DEF AssistantInv, JobTable
  <2>3. ASSUME NEW j \in Job, JobLive(j)
        PROVE  job'[j].prompt \in Prompt /\ pending[job'[j].prompt] = j
    BY <1>4, <2>3 DEF AssistantInv, JobTable
  <2>4. \A p \in Prompt : pending[p] \in Job \cup {None}
    BY DEF AssistantInv, JobTable
  <2> QED
    BY <1>2, <2>1, <2>2, <2>3, <2>4 DEF JobTable, JobLive
<1>11. \A r \in Run : agent'[r].stage = agent[r].stage
  BY <1>3, <1>7 DEF Agent
<1>12. RunTable'
  BY <1>2, <1>11 DEF AssistantInv, RunTable, RunLive
<1>13. Waiters'
  <2>1. ASSUME NEW a \in Chatter \cup Run, agent'[a].stage = "waiting"
        PROVE  /\ agent'[a].on \in Job /\ job'[agent'[a].on].prompt = agent'[a].prompt
               /\ job'[agent'[a].on].stage # "idle"
    <3>1. a \in Agent \ {c}
      BY <1>6, <2>1 DEF Agent, Caller
    <3> QED
      BY <1>4, <1>7, <2>1, <3>1 DEF AssistantInv, Waiters
  <2>2. ASSUME NEW d \in Visitor, agent'[d].stage = "waiting"
        PROVE  /\ agent'[d].on \in Run
               /\ agent'[agent'[d].on].stage = "done" => <<"context", None>> \in cached'
    <3>1. d \in Agent \ {c}
      BY <1>6, <2>2 DEF Agent, Caller
    <3> QED
      BY <1>2, <1>7, <1>11, <2>2, <3>1 DEF AssistantInv, Waiters
  <2> QED
    BY <2>1, <2>2 DEF Waiters
<1> QED
  BY <1>5, <1>8, <1>9, <1>10, <1>12, <1>13 DEF AssistantInv

LEMMA LapseKeeps ==
  ASSUME AssistantInv, NEW p \in Provider, Lapse(p)
  PROVE  AssistantInv'
<1>1. Breakers'
  <2>1. circuit[p] \in GoodBreaker
    BY DEF AssistantInv, Breakers
  <2>2. [circuit[p] EXCEPT !.due = TRUE] \in GoodBreaker
    BY <2>1 DEF GoodBreaker, Breaker
  <2>3. circuit' = [circuit EXCEPT ![p] = [circuit[p] EXCEPT !.due = TRUE]]
    BY DEF Lapse
  <2> QED
    BY <2>2, <2>3 DEF AssistantInv, Breakers
<1> QED
  BY <1>1 DEF Lapse, AssistantInv, Stores, Jobs, Tables, JobTable, JobLive, RunTable, RunLive, Waiters

LEMMA ThawKeeps ==
  ASSUME AssistantInv, Thaw
  PROVE  AssistantInv'
BY DEF Thaw, AssistantInv, Stores, Breakers, Jobs, Tables, JobTable, JobLive, RunTable, RunLive, Waiters

\* The answer of a run is not forgotten before those who wait for it have it.
LEMMA ForgetKeeps ==
  ASSUME AssistantInv, Forget
  PROVE  AssistantInv'
<1>1. /\ cached' \subseteq cached /\ kept' \subseteq kept
      /\ UNCHANGED <<circuit, cooling, pending, agent, job>>
  BY DEF Forget
<1>2. Stores'
  BY <1>1 DEF AssistantInv, Stores
<1>3. Breakers' /\ Jobs' /\ Tables' /\ JobTable'
  BY <1>1 DEF AssistantInv, Breakers, Jobs, Tables, JobTable, JobLive
<1>4. RunTable'
  BY <1>1 DEF AssistantInv, RunTable, RunLive
<1>5. ASSUME NEW c \in Visitor, agent[c].stage = "waiting"
      PROVE  agent[agent[c].on].stage # "done"
  <2>1. agent[c].on \in Run /\ agent[c].on \notin Job
    BY <1>5, TasksAreDistinct DEF AssistantInv, Waiters
  <2>2. Live(agent[c].on)
    BY <1>5 DEF Forget, Agent, Caller
  <2> QED
    BY <2>1, <2>2 DEF Live, StageOf, Ends
<1>6. Waiters'
  BY <1>1, <1>5 DEF AssistantInv, Waiters
<1> QED
  BY <1>2, <1>3, <1>4, <1>6 DEF AssistantInv

-----------------------------------------------------------------------------
LEMMA StepKeeps ==
  ASSUME AssistantInv, [Next]_vars
  PROVE  AssistantInv'
<1>1. CASE \E j \in Job : JobStep(j)
  BY <1>1, JobStepKeeps
<1>2. CASE \E r \in Run : RunStep(r)
  <2>1. "context" \in Route
    BY DEF Route
  <2> QED
    BY <1>2, <2>1, StartRunKeeps, CollectKeeps, FinishRunKeeps, AbortRunKeeps,
       StillbornRunKeeps DEF RunStep
<1>3. CASE \E c \in Caller : CallerStep(c)
  <2>1. "sync" \in Route
    BY DEF Route
  <2> QED
    BY <1>3, <2>1, CollectKeeps, ReceiveKeeps DEF CallerStep
<1>4. CASE \E c \in Caller : LookupFails(c)
  BY <1>4, LookupFailsKeeps
<1>5. CASE \E c \in Chatter : Ask(c)
  BY <1>5, AskKeeps
<1>6. CASE \E c \in Visitor : Visit(c)
  BY <1>6, VisitKeeps
<1>7. CASE \E c \in Cancellable : Cancel(c)
  BY <1>7, CancelKeeps, TasksAreDistinct
<1>8. CASE \E p \in Provider : Lapse(p)
  BY <1>8, LapseKeeps
<1>9. CASE Thaw
  BY <1>9, ThawKeeps
<1>10. CASE Forget
  BY <1>10, ForgetKeeps
<1>11. CASE UNCHANGED vars
  BY <1>11 DEF vars, AssistantInv, Stores, Breakers, Jobs, Tables, JobTable, JobLive,
     RunTable, RunLive, Waiters
<1> QED
  BY <1>1, <1>2, <1>3, <1>4, <1>5, <1>6, <1>7, <1>8, <1>9, <1>10, <1>11 DEF Next

LEMMA AssistantIsSound == Spec => []AssistantInv
<1>1. AssistantInv /\ [Next]_vars => AssistantInv'
  BY StepKeeps
<1> QED
  BY <1>1, InitAssistant, PTL DEF Spec

\* Jobs, runs, breakers, tables and those who wait are of their types, however
\* requests overlap and wherever they are cancelled.
THEOREM AssistantIsTyped == Spec => []TypeOK
<1>1. AssistantInv => TypeOK
  BY InvImplies
<1> QED
  BY <1>1, AssistantIsSound, PTL

\* Failures that several jobs report of one provider, in any order, leave its
\* breaker open exactly from the threshold on.
THEOREM BreakersAlwaysAgree == Spec => []BreakersAgree
<1>1. AssistantInv => BreakersAgree
  BY InvImplies
<1> QED
  BY <1>1, AssistantIsSound, PTL

\* At most one task works on a prompt, or for the visitors, and it is the one that
\* others join; an entry without such a task is that of a task cancelled before
\* its first step.
THEOREM TableOfPendingIsSound == Spec => []PendingIsSound
<1>1. AssistantInv => PendingIsSound
  BY InvImplies
<1> QED
  BY <1>1, AssistantIsSound, PTL

\* A job makes no second attempt past a breaker that others have opened.
THEOREM LateAttemptsAreFew == Spec => []OneLateAttempt
<1>1. AssistantInv => OneLateAttempt
  BY InvImplies
<1> QED
  BY <1>1, AssistantIsSound, PTL

\* Nobody is given the answer to somebody else's prompt.
THEOREM AnswersAlwaysFit == Spec => []AnswersFit
<1>1. AssistantInv => AnswersFit
  BY InvImplies
<1> QED
  BY <1>1, AssistantIsSound, PTL
=============================================================================
