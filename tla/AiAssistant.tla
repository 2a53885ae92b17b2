----------------------------- MODULE AiAssistant -----------------------------
(***************************************************************************)
(* The answers of the assistant: AIService.process_message and             *)
(* process_with_context (backend/services/ai_service.py) as the chat and    *)
(* context endpoints call them.                                            *)
(*                                                                         *)
(* A request collects market data, which together with the message makes   *)
(* its prompt.  Equal prompts share one task ("job" here), registered in    *)
(* _pending_prompts; the context endpoint wraps this in a shared task of    *)
(* its own (a "run").  A job tries the providers in turn, behind circuit    *)
(* breakers and cooldowns all jobs share, and falls back to cached and local *)
(* answers.  Everything runs on one event loop: an action is what a task    *)
(* does between two awaits.  Cancelling a task cancels what it awaits.      *)
(*                                                                         *)
(* Time is left out: Lapse(p) is the moment the breaker of p may be tried   *)
(* again, Thaw the end of a cooldown, Forget that of a cached answer.       *)
(***************************************************************************)
EXTENDS Naturals, Sequences, FiniteSets

CONSTANTS
  Chatter,      \* tasks that call process_message
  Visitor,      \* tasks that call process_with_context, all with one signature
  Run,          \* the shared tasks of process_with_context
  Job,          \* the shared tasks of process_message
  Cancellable,  \* callers whose task may be cancelled while they wait
  Prompt,
  Chain,        \* providers in the order in which they are tried
  MaxRetries,
  Threshold,
  None

Caller   == Chatter \cup Visitor
Agent    == Caller \cup Run
Task     == Job \cup Run            \* what others wait for
Key      == Prompt \cup {None}      \* None: the signature of the visitors
Provider == {Chain[i] : i \in 1 .. Len(Chain)}
Route    == {"sync", "context"}

ASSUME ChainIsNotEmpty   == Chain \in Seq({"huggingface", "mistral", "ollama"}) \ {<<>>}
ASSUME LimitsArePositive == MaxRetries \in Nat \ {0} /\ Threshold \in Nat \ {0}
ASSUME TasksAreDistinct  ==
  /\ Chatter \cap Visitor = {} /\ Caller \cap Task = {} /\ Run \cap Job = {}
  /\ None \notin Agent \cup Job \cup Prompt
  /\ Cancellable \subseteq Caller

VARIABLES
  circuit,    \* _circuit_breakers
  cooling,    \* _cooldowns that have not lapsed: pairs <<provider, route>>
  kept,       \* get_cached_response: pairs <<provider, prompt>>
  cached,     \* AICacheService: pairs <<route, key>>
  pending,    \* _pending_prompts: the job of each prompt, and the run at None
  agent,      \* the endpoints' tasks and the runs
  job         \* the jobs

vars == <<circuit, cooling, kept, cached, pending, agent, job>>

-----------------------------------------------------------------------------
(* Circuit breakers                                                        *)

\* due: next_retry_time has come.  The failures are only compared with the
\* threshold: counting stops there.
Breaker == [state : {"closed", "open", "half_open"}, count : 0 .. Threshold,
            due : BOOLEAN]

Reset == [state |-> "closed", count |-> 0, due |-> TRUE]

\* Deliberately wrong: the count starts again when the breaker opens.
RegisterFailureForgetting(b) ==
  IF b.count + 1 < Threshold
    THEN [b EXCEPT !.count = @ + 1]
    ELSE [state |-> "open", count |-> 0, due |-> FALSE]

RegisterFailure(b) ==
  IF b.count + 1 < Threshold
    THEN [b EXCEPT !.count = @ + 1]
    ELSE [state |-> "open", count |-> Threshold, due |-> FALSE]

MayTry(b) == b.state # "open" \/ b.due

\* Asking whether a breaker is ready is what opens it halfway.
Asked(b) == IF b.state = "open" /\ b.due THEN [b EXCEPT !.state = "half_open"] ELSE b

-----------------------------------------------------------------------------
(* Providers                                                               *)

\* The ai_reason a failure carries; "none" is a timeout of the loop over the
\* providers, or an error without a reason.
HuggingFaceReasons == {"timeout", "rate_limited", "server_error", "bad_response", "unknown"}

\* Mistral's client tries its models in turn, each of them several times.  What
\* is left is the reason of the last error status, or bad_response.
MistralReasons == {"timeout", "rate_limited", "server_error", "bad_response", "unknown"}

OllamaReasons == {}

Reasons(p) ==
  {"none"} \cup CASE p = "huggingface" -> HuggingFaceReasons
                 [] p = "mistral"     -> MistralReasons
                 [] OTHER             -> OllamaReasons

-----------------------------------------------------------------------------
(* Tasks                                                                   *)

Ends == {"done", "failed", "cancelled"}

\* joined: it found the task it waits for registered by somebody else.  doomed:
\* cancel() was called on it.
AgentState == [stage : {"idle", "new", "collecting", "waiting"} \cup Ends,
               prompt : Key, on : Task \cup {None},
               joined : BOOLEAN, doomed : BOOLEAN]

\* at, attempt: the place in the chain and the attempts made there.  late: the
\* attempts made there while the breaker was open, since a failure it let pass.
\* ran: the task has started.
JobState == [stage : {"idle", "new", "trying", "pausing", "local", "telling"} \cup Ends,
             prompt : Key, route : Route, at : 0 .. Len(Chain),
             attempt : 0 .. MaxRetries, late : 0 .. MaxRetries,
             ran : BOOLEAN, doomed : BOOLEAN]

TypeOK ==
  /\ circuit \in [Provider -> Breaker]
  /\ cooling \in SUBSET (Provider \X Route)
  /\ kept \in SUBSET (Provider \X Prompt)
  /\ cached \in SUBSET (Route \X Key)
  /\ pending \in [Key -> Task \cup {None}]
  /\ agent \in [Agent -> AgentState]
  /\ job \in [Job -> JobState]

Fresh == [stage |-> "idle", prompt |-> None, on |-> None,
          joined |-> FALSE, doomed |-> FALSE]

\* A job that is not at a provider, and whom nobody has cancelled.
JobRecord(stage, prompt, route, ran) ==
  [stage |-> stage, prompt |-> prompt, route |-> route, at |-> 0, attempt |-> 0,
   late |-> 0, ran |-> ran, doomed |-> FALSE]

FreshJob == JobRecord("idle", None, "sync", FALSE)

Init ==
  /\ circuit = [p \in Provider |-> Reset]
  /\ cooling = {} /\ kept = {} /\ cached = {}
  /\ pending = [k \in Key |-> None]
  /\ agent = [a \in Agent |-> Fresh]
  /\ job = [j \in Job |-> FreshJob]

StageOf(t) == IF t \in Job THEN job[t].stage ELSE agent[t].stage
Ended(t)   == StageOf(t) \in Ends
Live(t)    == StageOf(t) \notin Ends \cup {"idle"}

WaitsFor(a, t) == agent[a].stage = "waiting" /\ agent[a].on = t

\* A task nobody refers to any more.
Unused(t) ==
  /\ ~Live(t)
  /\ \A a \in Agent : ~WaitsFor(a, t)
  /\ \A k \in Key : pending[k] # t

Await(a, t, p, joined) ==
  [stage |-> "waiting", prompt |-> p, on |-> t, joined |-> joined,
   doomed |-> agent[a].doomed]

-----------------------------------------------------------------------------
(* Requests                                                                *)

\* A request to the chat endpoint: process_message starts to collect market
\* data, indicators, news and quotes.
Ask(c) ==
  /\ agent[c].stage \in {"idle"} \cup Ends
  /\ agent' = [agent EXCEPT ![c] = [Fresh EXCEPT !.stage = "collecting"]]
  /\ UNCHANGED <<circuit, cooling, kept, cached, pending, job>>

\* Deliberately wrong: any job that is registered will do.
EntryOfAnybody(p) ==
  LET jobs == {pending[q] : q \in Prompt} \ {None}
  IN  IF jobs = {} THEN None ELSE CHOOSE j \in jobs : TRUE

\* The job that is registered under a prompt.
Entry(p) == pending[p]

\* What was collected (a source that fails is left out) decides the prompt.
\* Without an await, process_message then takes the cached answer, or joins the
\* job that is registered, or creates one.
Collect(a, route) ==
  /\ agent[a].stage = "collecting" /\ ~agent[a].doomed
  /\ \E p \in Prompt :
       \/ /\ <<route, p>> \in cached
          /\ agent' = [agent EXCEPT ![a] = [Fresh EXCEPT !.stage = "done"]]
          /\ cached' = IF a \in Run THEN cached \cup {<<"context", None>>} ELSE cached
          /\ pending' = IF a \in Run THEN [pending EXCEPT ![None] = None] ELSE pending
          /\ UNCHANGED job
       \/ /\ <<route, p>> \notin cached /\ Entry(p) # None
          /\ agent' = [agent EXCEPT ![a] = Await(a, Entry(p), p, TRUE)]
          /\ UNCHANGED <<cached, pending, job>>
       \/ /\ <<route, p>> \notin cached /\ Entry(p) = None
          /\ \E j \in Job :
               /\ Unused(j)
               /\ job' = [job EXCEPT ![j] = JobRecord("new", p, route, FALSE)]
               /\ pending' = [pending EXCEPT ![p] = j]
               /\ agent' = [agent EXCEPT ![a] = Await(a, j, p, FALSE)]
          /\ UNCHANGED cached
  /\ UNCHANGED <<circuit, cooling, kept>>

\* The task a caller waits for has ended.  A visitor who had joined a run also
\* removes the entry under the signature, whatever it is by now.
Receive(c) ==
  /\ agent[c].stage = "waiting" /\ Ended(agent[c].on)
  /\ LET good == StageOf(agent[c].on) = "done" IN
     /\ agent' = [agent EXCEPT ![c] =
          [Fresh EXCEPT !.stage = IF good THEN "done" ELSE "failed"]]
     /\ pending' = IF good /\ c \in Visitor /\ agent[c].joined
                     THEN [pending EXCEPT ![None] = None] ELSE pending
  /\ UNCHANGED <<circuit, cooling, kept, cached, job>>

\* The cache raises before anything is shared: the request fails.
LookupFails(c) ==
  /\ agent[c].stage = "collecting" \/ (c \in Visitor /\ ~Live(c))
  /\ agent' = [agent EXCEPT ![c] = [Fresh EXCEPT !.stage = "failed"]]
  /\ UNCHANGED <<circuit, cooling, kept, cached, pending, job>>

\* A request to the context endpoint: the cached answer, the run that is
\* registered, or a run of its own.
Visit(c) ==
  /\ agent[c].stage \in {"idle"} \cup Ends
  /\ \/ /\ <<"context", None>> \in cached
        /\ agent' = [agent EXCEPT ![c] = [Fresh EXCEPT !.stage = "done"]]
        /\ pending' = [pending EXCEPT ![None] = None]
     \/ /\ <<"context", None>> \notin cached /\ pending[None] # None
        /\ agent' = [agent EXCEPT ![c] = Await(c, pending[None], None, TRUE)]
        /\ UNCHANGED pending
     \/ /\ <<"context", None>> \notin cached /\ pending[None] = None
        /\ \E r \in Run :
             /\ Unused(r)
             /\ agent' = [agent EXCEPT ![c] = Await(c, r, None, FALSE),
                                       ![r] = [Fresh EXCEPT !.stage = "new"]]
             /\ pending' = [pending EXCEPT ![None] = r]
  /\ UNCHANGED <<circuit, cooling, kept, cached, job>>

-----------------------------------------------------------------------------
(* Runs                                                                    *)

\* The finally clause of a run.
EndRun(r, stage) ==
  /\ agent' = [agent EXCEPT ![r] = [Fresh EXCEPT !.stage = stage]]
  /\ pending' = [pending EXCEPT ![None] = None]

StartRun(r) ==
  /\ agent[r].stage = "new" /\ ~agent[r].doomed
  /\ agent' = [agent EXCEPT ![r].stage = "collecting"]
  /\ UNCHANGED <<circuit, cooling, kept, cached, pending, job>>

\* The job has answered: the run caches the result.  The cache may raise.
FinishRun(r) ==
  /\ agent[r].stage = "waiting" /\ ~agent[r].doomed
  /\ StageOf(agent[r].on) = "done"
  /\ \/ /\ EndRun(r, "done")
        /\ cached' = cached \cup {<<"context", None>>}
     \/ /\ EndRun(r, "failed")
        /\ UNCHANGED cached
  /\ UNCHANGED <<circuit, cooling, kept, job>>

\* The job has failed or was cancelled, the cache raises, or the run itself was
\* cancelled.
AbortRun(r) ==
  /\ \/ /\ agent[r].stage = "waiting" /\ Ended(agent[r].on)
        /\ LET outcome == IF agent[r].doomed THEN "cancelled" ELSE StageOf(agent[r].on) IN
           outcome # "done" /\ EndRun(r, outcome)
     \/ /\ agent[r].stage = "collecting"
        /\ EndRun(r, IF agent[r].doomed THEN "cancelled" ELSE "failed")
  /\ UNCHANGED <<circuit, cooling, kept, cached, job>>

\* A run that is cancelled before its first step never reaches its finally clause.
StillbornRun(r) ==
  /\ agent[r].stage = "new" /\ agent[r].doomed
  /\ agent' = [agent EXCEPT ![r] = [Fresh EXCEPT !.stage = "cancelled"]]
  /\ UNCHANGED <<circuit, cooling, kept, cached, pending, job>>

-----------------------------------------------------------------------------
(* Jobs                                                                    *)

\* A job that has started goes on.
Working(j, stage, at, attempt, late) ==
  [stage |-> stage, prompt |-> job[j].prompt, route |-> job[j].route, at |-> at,
   attempt |-> attempt, late |-> late, ran |-> TRUE, doomed |-> job[j].doomed]

\* The providers from place i on that give job j nothing to wait for: no cached
\* response, and the breaker is open or the provider cools down on this route.
Skipped(j, i) ==
  /\ <<Chain[i], job[j].prompt>> \notin kept
  /\ ~MayTry(circuit[Chain[i]]) \/ <<Chain[i], job[j].route>> \in cooling

\* What is left of a task.
Over(j, stage, ran) ==
  JobRecord(stage, job[j].prompt, "sync", ran)

\* Deliberately wrong: everybody's entries are removed.
EndJobForAll(j, stage) ==
  /\ job' = [job EXCEPT ![j] = Over(j, stage, TRUE)]
  /\ pending' = [k \in Key |-> None]

\* The finally clause of a job.
EndJob(j, stage) ==
  /\ job' = [job EXCEPT ![j] = Over(j, stage, TRUE)]
  /\ pending' = [pending EXCEPT ![job[j].prompt] = None]

\* What a chain that has failed ends with: a cached response of any provider, or
\* the local answer.
Lastly(j) ==
  IF \E p \in Provider : <<p, job[j].prompt>> \in kept THEN "telling" ELSE "local"

\* The loop over the providers that goes on at place i stops at place k.
Landing(j, i, k) ==
  /\ \A l \in i .. k - 1 : Skipped(j, l)
  /\ k <= Len(Chain) => ~Skipped(j, k)

\* The loop goes on at place i with the breakers c: every provider it passes is
\* asked.  A cached response ends it and resets the breaker of its provider,
\* whether or not the provider is well.  After the last provider any cached
\* response will do (job j has looked at all of them), then the local answer.
Advance(j, i, c) ==
  \E k \in i .. Len(Chain) + 1 :
    LET found == k <= Len(Chain) /\ <<Chain[k], job[j].prompt>> \in kept IN
    /\ Landing(j, i, k)
    /\ circuit' = [p \in Provider |->
         IF \E l \in i .. k - 1 : Chain[l] = p THEN Asked(c[p])
         ELSE IF k <= Len(Chain) /\ Chain[k] = p
           THEN IF found THEN Reset ELSE Asked(c[p])
         ELSE c[p]]
    /\ job' = [job EXCEPT ![j] =
         IF found THEN Working(j, "telling", 0, 0, 0)
         ELSE IF k <= Len(Chain) THEN Working(j, "trying", k, 1, 0)
         ELSE Working(j, Lastly(j), 0, 0, 0)]

\* The loop that goes on at place i is broken off at place k, where the cache
\* raises.  That counts as a failure of the chain, after which any cached
\* response will do, then the local answer; if the cache raises once more, or
\* does so after the last provider, the job fails.
BreakOff(j, i, c) ==
  \E k \in i .. Len(Chain) + 1 :
    /\ \A l \in i .. k - 1 : Skipped(j, l)
    /\ circuit' = [p \in Provider |->
         IF \E l \in i .. k - 1 : Chain[l] = p THEN Asked(c[p]) ELSE c[p]]
    /\ \/ /\ k <= Len(Chain)
          /\ job' = [job EXCEPT ![j] = Working(j, Lastly(j), 0, 0, 0)]
          /\ UNCHANGED pending
       \/ EndJob(j, "failed")

\* The loop over the providers, from place i on.
GoOn(j, i, c) ==
  \/ Advance(j, i, c) /\ UNCHANGED pending
  \/ BreakOff(j, i, c)

Start(j) ==
  /\ job[j].stage = "new" /\ ~job[j].doomed
  /\ GoOn(j, 1, circuit)
  /\ UNCHANGED <<cooling, kept, cached, agent>>

\* The provider answers: the breaker is reset and the response kept, and the
\* event goes to the dispatcher.  If the cache raises the answer is lost with
\* the job.
Answer(j) ==
  /\ job[j].stage = "trying" /\ ~job[j].doomed
  /\ LET p == Chain[job[j].at] IN
     /\ circuit' = [circuit EXCEPT ![p] = Reset]
     /\ \/ /\ kept' = kept \cup {<<p, job[j].prompt>>}
           /\ job' = [job EXCEPT ![j] = Working(j, "telling", 0, 0, 0)]
           /\ UNCHANGED pending
        \/ EndJob(j, "failed") /\ UNCHANGED kept
  /\ UNCHANGED <<cooling, cached, agent>>

\* Deliberately wrong: retries go on although the breaker is open, or for ever.
GivesUpLate(j, b)  == job[j].attempt = MaxRetries
GivesUpNever(j, b) == b.state = "open"

\* The loop goes on to the next provider instead of trying once more.
GivesUp(j, b) == b.state = "open" \/ job[j].attempt = MaxRetries

\* The provider fails, answers nothing, or exceeds its timeout.
Fail(j) ==
  /\ job[j].stage = "trying" /\ ~job[j].doomed
  /\ LET p == Chain[job[j].at]
         c == [circuit EXCEPT ![p] = RegisterFailure(@)]
     IN  /\ \E reason \in Reasons(p) :
              cooling' = IF reason = "rate_limited"
                           THEN cooling \cup {<<p, job[j].route>>} ELSE cooling
         /\ IF GivesUp(j, c[p])
              THEN GoOn(j, job[j].at + 1, c)
              ELSE /\ circuit' = c
                   /\ UNCHANGED pending
                   /\ job' = [job EXCEPT ![j] =
                        Working(j, "pausing", job[j].at, job[j].attempt,
                                IF c[p].state = "open" THEN job[j].late ELSE 0)]
  /\ UNCHANGED <<kept, cached, agent>>

\* The pause before a retry is over.  Neither the breaker nor the cooldown is
\* looked at again.
Retry(j) ==
  /\ job[j].stage = "pausing" /\ ~job[j].doomed
  /\ LET stale == circuit[Chain[job[j].at]].state = "open" IN
     job' = [job EXCEPT ![j] =
       Working(j, "trying", job[j].at, job[j].attempt + 1,
               job[j].late + IF stale THEN 1 ELSE 0)]
  /\ UNCHANGED <<circuit, cooling, kept, cached, pending, agent>>

\* The local answer, which may ask the market service for prices.
AnswerLocally(j) ==
  /\ job[j].stage = "local" /\ ~job[j].doomed
  /\ job' = [job EXCEPT ![j] = Working(j, "telling", 0, 0, 0)]
  /\ UNCHANGED <<circuit, cooling, kept, cached, pending, agent>>

\* The dispatcher has done what it could: the answer is cached and given out.
Finish(j) ==
  /\ job[j].stage = "telling" /\ ~job[j].doomed
  /\ EndJob(j, "done")
  /\ cached' = cached \cup {<<job[j].route, job[j].prompt>>}
  /\ UNCHANGED <<circuit, cooling, kept, agent>>

\* The cache raises where the answer is stored: the answer is lost with the job.
CacheFails(j) ==
  /\ job[j].stage = "telling" /\ ~job[j].doomed
  /\ EndJob(j, "failed")
  /\ UNCHANGED <<circuit, cooling, kept, cached, agent>>

\* The CancelledError reaches a job, which unwinds if it has started.
Unwind(j) ==
  /\ Live(j) /\ job[j].doomed
  /\ IF job[j].ran THEN EndJob(j, "cancelled")
     ELSE /\ job' = [job EXCEPT ![j] = Over(j, "cancelled", FALSE)]
          /\ UNCHANGED pending
  /\ UNCHANGED <<circuit, cooling, kept, cached, agent>>

-----------------------------------------------------------------------------
(* Cancellation, and the clock                                             *)

\* A caller is cancelled: so is the run or the job he waits for, and the job the
\* run waits for.
Cancel(c) ==
  /\ agent[c].stage \in {"collecting", "waiting"}
  /\ LET t == agent[c].on
         doomed == IF t = None \/ ~Live(t) THEN {}
                   ELSE {t} \cup IF t \in Run /\ agent[t].stage = "waiting"
                                   THEN {agent[t].on} ELSE {}
     IN  /\ agent' = [a \in Agent |->
              IF a = c THEN [Fresh EXCEPT !.stage = "cancelled"]
              ELSE IF a \in doomed THEN [agent[a] EXCEPT !.doomed = TRUE]
              ELSE agent[a]]
         /\ job' = [j \in Job |->
              IF j \in doomed /\ Live(j) THEN [job[j] EXCEPT !.doomed = TRUE] ELSE job[j]]
  /\ UNCHANGED <<circuit, cooling, kept, cached, pending>>

Lapse(p) ==
  /\ ~circuit[p].due
  /\ circuit' = [circuit EXCEPT ![p].due = TRUE]
  /\ UNCHANGED <<cooling, kept, cached, pending, agent, job>>

Thaw ==
  /\ \E pair \in cooling : cooling' = cooling \ {pair}
  /\ UNCHANGED <<circuit, kept, cached, pending, agent, job>>

\* An answer outlives the turn of those who wait for it.
Forget ==
  /\ \A a \in Agent : agent[a].stage = "waiting" => Live(agent[a].on)
  /\ \/ /\ \E pair \in cached : cached' = cached \ {pair}
        /\ UNCHANGED kept
     \/ /\ \E pair \in kept : kept' = kept \ {pair}
        /\ UNCHANGED cached
  /\ UNCHANGED <<circuit, cooling, pending, agent, job>>

-----------------------------------------------------------------------------
JobStep(j) ==
  \/ Start(j) \/ Answer(j) \/ Fail(j) \/ Retry(j) \/ AnswerLocally(j)
  \/ Finish(j) \/ CacheFails(j) \/ Unwind(j)

RunStep(r) ==
  \/ StartRun(r) \/ Collect(r, "context") \/ FinishRun(r) \/ AbortRun(r)
  \/ StillbornRun(r)

CallerStep(c) == (c \in Chatter /\ Collect(c, "sync")) \/ Receive(c)

Next ==
  \/ \E j \in Job : JobStep(j)
  \/ \E r \in Run : RunStep(r)
  \/ \E c \in Caller : CallerStep(c)
  \/ \E c \in Caller : LookupFails(c)
  \/ \E c \in Chatter : Ask(c)
  \/ \E c \in Visitor : Visit(c)
  \/ \E c \in Cancellable : Cancel(c)
  \/ \E p \in Provider : Lapse(p)
  \/ Thaw
  \/ Forget

Spec == Init /\ [][Next]_vars

-----------------------------------------------------------------------------
(* Properties                                                              *)

\* The state of a breaker and its count of failures agree whatever the order in
\* which the jobs' attempts end, so a breaker that is open halfway opens again
\* with the first failure.
BreakersAgree ==
  \A p \in Provider : circuit[p].state = "closed" <=> circuit[p].count < Threshold

\* At most one job works on a prompt, and it is the one others will join.  The
\* same of the runs.
LiveWorkIsRegistered ==
  /\ \A j \in Job : Live(j) => pending[job[j].prompt] = j
  /\ \A r \in Run : Live(r) => pending[None] = r

\* An entry outlives its task only if the task was cancelled before it started:
\* then nobody ever removes it, and all who ask for the prompt get its
\* CancelledError.
DeadEntryNeverRan ==
  /\ \A p \in Prompt : LET t == pending[p] IN
       t # None /\ ~Live(t) => job[t].stage = "cancelled" /\ ~job[t].ran
  /\ LET t == pending[None] IN t # None /\ ~Live(t) => agent[t].stage = "cancelled"

\* However tasks end, the table of pending prompts is the table of live tasks.
PendingIsSound == LiveWorkIsRegistered /\ DeadEntryNeverRan

\* Retries do not look at the breaker again, but a job makes at most one attempt
\* at a provider whose breaker others have opened meanwhile (one more if a success
\* of somebody else has closed it in between).
OneLateAttempt == \A j \in Job : job[j].late <= 1

\* Whoever waits for a job waits for one that works on his own prompt, on behalf
\* of any route, and can still hear of its end.
AnswersFit ==
  \A a \in Agent, j \in Job :
    WaitsFor(a, j) => job[j].prompt = agent[a].prompt /\ job[j].stage # "idle"
=============================================================================
