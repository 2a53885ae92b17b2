------------------------------ MODULE AiStream ------------------------------
(***************************************************************************)
(* The streamed answers of the assistant: AIService.stream_generate        *)
(* (backend/services/ai_service.py), as POST /api/ai/stream and the        *)
(* insights loop of the realtime gateway use it, for one prompt.           *)
(*                                                                         *)
(* The first caller of a prompt produces the text and registers a future   *)
(* under the prompt, whoever comes meanwhile waits for that future, and a  *)
(* text that has been cached is read from the cache.  Everything runs on   *)
(* one event loop: an action is what a generator does between two awaits.  *)
(* A client may leave at any await: the generator is closed (at a yield)   *)
(* or its task cancelled, and cancelling a task that awaits a future       *)
(* cancels the future.                                                     *)
(*                                                                         *)
(* A text is its number of chunks: Segments of them and the completion     *)
(* chunk make it Whole, and Error stands for the error chunk alone.        *)
(***************************************************************************)
EXTENDS Naturals, FiniteSets

CONSTANTS
  Requests,   \* how many generators there are: one per request, each runs once
  Segments,   \* chunks of the text, without the completion chunk
  None

\* Generators are numbered in the order in which they start.
Stream == 1 .. Requests

ASSUME RequestsAreCounted == Requests \in Nat /\ None \notin Nat
ASSUME TextIsNotEmpty   == Segments \in Nat \ {0}

VARIABLES
  cache,     \* what the cache holds for the prompt
  pending,   \* _pending_prompts["stream:" + prompt]: the producer registered there
  stream,    \* the generators
  future,    \* the future each producer created
  taken      \* history: producers whose registration somebody else removed

vars == <<cache, pending, stream, future, taken>>

Whole == Segments + 1
Error == Whole + 1
Text  == 0 .. Error

\* The chunks of a text, one for the error.
Length(text) == IF text = Error THEN 1 ELSE text

Ended == {"done", "left", "failed", "broken"}
Stage == {"idle", "reading", "waiting", "producing", "error"} \cup Ended

\* count: chunks handed to the client.  text: what a reader reads.  on: the
\* producer a waiter waits for.
StreamState == [stage : Stage, count : 0 .. Whole, text : Text, on : Stream \cup {None}]

FutureState == {"none", "open", "cancelled", "resolved"}

TypeOK ==
  /\ cache \in Text \cup {None}
  /\ pending \in Stream \cup {None}
  /\ stream \in [Stream -> StreamState]
  /\ future \in [Stream -> [state : FutureState, text : Text]]
  /\ taken \in SUBSET Stream

Init ==
  /\ cache = None
  /\ pending = None
  /\ stream = [s \in Stream |->
                 [stage |-> "idle", count |-> 0, text |-> Whole, on |-> None]]
  /\ future = [s \in Stream |-> [state |-> "none", text |-> Whole]]
  /\ taken = {}

In(s, stage) == stream[s].stage = stage

End(s, stage) == stream' = [stream EXCEPT ![s].stage = stage]

-----------------------------------------------------------------------------
(* The start of a generator                                                *)

IsNext(s) == In(s, "idle") /\ \A t \in Stream : t < s => ~In(t, "idle")

Read(s, text) ==
  stream' = [stream EXCEPT ![s].stage = "reading", ![s].text = text]

\* A future that is done gives its result, or its CancelledError, at once.
Join(s, p) ==
  \/ /\ future[p].state = "open"
     /\ stream' = [stream EXCEPT ![s].stage = "waiting", ![s].on = p]
     /\ UNCHANGED pending
  \/ /\ future[p].state = "resolved"
     /\ Read(s, future[p].text)
     /\ UNCHANGED pending
  \/ /\ future[p].state = "cancelled"
     /\ stream' = [stream EXCEPT ![s].stage = "failed", ![s].on = p]
     /\ pending' = None

\* Deliberately wrong: the producer does not register.
ProduceAlone(s) ==
  /\ stream' = [stream EXCEPT ![s].stage = "producing"]
  /\ future' = [future EXCEPT ![s].state = "open"]
  /\ UNCHANGED pending

Produce(s) ==
  /\ stream' = [stream EXCEPT ![s].stage = "producing"]
  /\ future' = [future EXCEPT ![s].state = "open"]
  /\ pending' = s

\* The cache is asked, then _pending_prompts, without an await in between.
Open(s) ==
  /\ IsNext(s)
  /\ \/ /\ cache # None
        /\ Read(s, cache)
        /\ UNCHANGED <<pending, future, taken>>
     \/ /\ cache = None /\ pending # None
        /\ Join(s, pending)
        /\ taken' = IF pending' # pending THEN taken \cup {pending} ELSE taken
        /\ UNCHANGED future
     \/ /\ cache = None /\ pending = None
        /\ Produce(s)
        /\ UNCHANGED taken
  /\ UNCHANGED cache

\* The cache raises (Redis is away): the client gets an error chunk.
CacheFails(s) ==
  /\ IsNext(s)
  /\ stream' = [stream EXCEPT ![s].stage = "error", ![s].text = Error]
  /\ UNCHANGED <<cache, pending, future, taken>>

-----------------------------------------------------------------------------
(* The finally clause, run by every generator                              *)

\* Deliberately wrong: the future is left alone.
DeregisterUnresolved(s, text) ==
  /\ pending' = None
  /\ taken' = IF pending \in {None, s} THEN taken ELSE taken \cup {pending}
  /\ UNCHANGED future

\* The entry under the prompt is removed, whoever registered it; only then is
\* the future of this generator resolved.
Deregister(s, text) ==
  /\ pending' = None
  /\ taken' = IF pending \in {None, s} THEN taken ELSE taken \cup {pending}
  /\ future' =
       IF pending # None /\ future[s].state = "open"
         THEN [future EXCEPT ![s] = [state |-> "resolved", text |-> text]]
         ELSE future

\* What has been collected is cached, however little it is.  If the cache raises,
\* the rest of the clause is skipped.
KeepAndDeregister(s, text, stage) ==
  \/ /\ cache' = text
     /\ Deregister(s, text)
     /\ End(s, stage)
  \/ /\ End(s, "broken")
     /\ UNCHANGED <<cache, pending, future, taken>>

-----------------------------------------------------------------------------
(* The life of a generator                                                 *)

\* Deliberately wrong: what has been collected is cached chunk by chunk.
ChunkCached(s) ==
  /\ In(s, "producing") /\ stream[s].count < Whole
  /\ stream' = [stream EXCEPT ![s].count = @ + 1]
  /\ cache' = stream[s].count + 1
  /\ UNCHANGED <<pending, future, taken>>

\* A chunk is collected and handed to the client.
Chunk(s) ==
  /\ In(s, "producing") /\ stream[s].count < Whole
  /\ stream' = [stream EXCEPT ![s].count = @ + 1]
  /\ UNCHANGED <<cache, pending, future, taken>>

\* The completion chunk has been handed over: the future is resolved, and then
\* the finally clause runs.
Complete(s) ==
  /\ In(s, "producing") /\ stream[s].count = Whole
  /\ LET resolved == IF future[s].state = "open"
                       THEN [future EXCEPT ![s] = [state |-> "resolved", text |-> Whole]]
                       ELSE future
     IN  \/ /\ cache' = Whole
            /\ pending' = None
            /\ taken' = IF pending \in {None, s} THEN taken ELSE taken \cup {pending}
            /\ End(s, "done")
            /\ future' = resolved
         \/ /\ End(s, "broken")
            /\ future' = resolved
            /\ UNCHANGED <<cache, pending, taken>>

\* The future a waiter waits for is done.
Resume(s) ==
  /\ In(s, "waiting")
  /\ LET f == future[stream[s].on] IN
     \/ /\ f.state = "resolved"
        /\ Read(s, f.text)
        /\ UNCHANGED <<pending, taken, future>>
     \/ /\ f.state = "cancelled"
        /\ Deregister(s, stream[s].count)
        /\ End(s, "failed")
  /\ UNCHANGED cache

\* The next chunk of a text that somebody else has produced.
ReadChunk(s) ==
  /\ In(s, "reading") /\ stream[s].count < Length(stream[s].text)
  /\ stream' = [stream EXCEPT ![s].count = @ + 1]
  /\ UNCHANGED <<cache, pending, future, taken>>

\* The end of such a text, or of the error chunk.
EndReading(s) ==
  /\ \/ In(s, "reading") /\ stream[s].count = Length(stream[s].text)
     \/ In(s, "error")
  /\ Deregister(s, stream[s].count)
  /\ End(s, "done")
  /\ UNCHANGED cache

Step(s) ==
  Chunk(s) \/ Complete(s) \/ Resume(s) \/ ReadChunk(s) \/ EndReading(s)

-----------------------------------------------------------------------------
(* Clients and the clock                                                   *)

\* The client of a reader leaves.
LeaveReading(s) ==
  /\ In(s, "reading")
  /\ Deregister(s, stream[s].count)
  /\ End(s, "left")
  /\ UNCHANGED cache

\* The client leaves while the error chunk is on its way: used_cache is set only
\* after the yield, so the error is cached.
LeaveError(s) ==
  /\ In(s, "error")
  /\ KeepAndDeregister(s, Error, "left")

\* The task of a waiter is cancelled, and the future with it.
LeaveWaiting(s) ==
  /\ In(s, "waiting")
  /\ LET p == stream[s].on IN
     future' = IF future[p].state = "open"
                 THEN [future EXCEPT ![p].state = "cancelled"] ELSE future
  /\ pending' = None
  /\ taken' = IF pending = None THEN taken ELSE taken \cup {pending}
  /\ End(s, "left")
  /\ UNCHANGED cache

\* The client of a producer leaves.
LeaveProducing(s) ==
  /\ In(s, "producing")
  /\ \/ /\ stream[s].count > 0
        /\ KeepAndDeregister(s, stream[s].count, "left")
     \/ /\ stream[s].count = 0
        /\ Deregister(s, stream[s].count)
        /\ End(s, "left")
        /\ UNCHANGED cache

Leave(s) ==
  LeaveReading(s) \/ LeaveError(s) \/ LeaveWaiting(s) \/ LeaveProducing(s)

\* The time to live of the cached text is over.
Expire ==
  /\ cache # None
  /\ cache' = None
  /\ UNCHANGED <<pending, stream, future, taken>>

Next ==
  \/ \E s \in Stream : Open(s) \/ CacheFails(s) \/ Step(s) \/ Leave(s)
  \/ Expire

Spec == Init /\ [][Next]_vars

\* The event loop runs what is ready.
FairSpec == Spec /\ \A s \in Stream : WF_vars(Step(s))

-----------------------------------------------------------------------------
(* Properties                                                              *)

Waiting(w, p) == In(w, "waiting") /\ stream[w].on = p

\* What the cache and the futures hand out.
Given == {cache} \cup {future[s].text : s \in {t \in Stream : future[t].state = "resolved"}}

\* A text that is cut short comes from a producer whose client left after so
\* many chunks, and an error chunk that is kept from a client who did not wait
\* for its end: both are handed to those who stay.
CutNeedsLeaver ==
  /\ \A n \in 0 .. Segments : n \in Given =>
       \E s \in Stream : In(s, "left") /\ stream[s].count = n /\ future[s].state # "none"
  /\ Error \in Given => \E s \in Stream : In(s, "left") /\ stream[s].text = Error

\* Whoever is answered by a CancelledError without having left shares the
\* producer with a waiter who did leave.
FailureNeedsLeaver ==
  \A w \in Stream : In(w, "failed") =>
    \E v \in Stream : In(v, "left") /\ stream[v].on = stream[w].on

\* What goes wrong for those who stay takes somebody who left.
HarmNeedsLeaver == CutNeedsLeaver /\ FailureNeedsLeaver

\* The cached text is never replaced by a shorter one while it is valid: a second
\* producer exists only when the cache was empty, so it takes a theft.
CacheShrinksByTheft ==
  [][(\E m, n \in 1 .. Whole : cache = m /\ cache' = n /\ n < m)
       => taken # {} ]_vars

\* Whoever waits gets an answer, except behind a producer who was robbed of his
\* registration or whose cache write failed.
WaitersAreServed ==
  \A w \in Stream :
    In(w, "waiting") ~>
      \/ ~In(w, "waiting")
      \/ \E p \in taken \cup {q \in Stream : In(q, "broken")} : Waiting(w, p)
=============================================================================
