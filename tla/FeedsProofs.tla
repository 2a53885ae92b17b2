----------------------------- MODULE FeedsProofs -----------------------------
(***************************************************************************)
(* Proofs of the safety properties of AiStream, for any number of          *)
(* generators and chunks, and of the properties of MarketData, for any     *)
(* requests, number of attempts and time to live, and each service.        *)
(*                                                                         *)
(* Streams.  Ends are final, so whoever left stays a witness.  What        *)
(* remains is that futures belong to producers alone: the finally clause   *)
(* of a reader or a waiter, which resolves the future of its own           *)
(* generator, finds none.  Whoever waits has a producer at work, unless    *)
(* somebody robbed him (HopeInv).                                          *)
(*                                                                         *)
(* Quotes.  Each provider of the chain has let a request down or is still  *)
(* to be asked (Sound), also when somebody reorders the chain meanwhile,   *)
(* which keeps its elements.  Nothing older than the time to live is taken *)
(* from a store, and what is put there is of the request itself.           *)
(***************************************************************************)
EXTENDS AiStream, MarketData, TLAPS

\* Who has a future, and what is known of it.
FuturesSound ==
  \A s \in Stream :
    /\ stream[s].stage \in {"idle", "reading", "waiting", "error"} =>
         future[s].state = "none"
    /\ In(s, "producing") => future[s].state # "none"
    /\ In(s, "waiting") => stream[s].on \in Stream
    /\ In(s, "error") => stream[s].text = Error
    /\ future[s].state = "cancelled" =>
         \E v \in Stream : In(v, "left") /\ stream[v].on = s

\* Nobody robbed: the one producer there is is the registered one.
ProducerAlone ==
  taken = {} => \A s \in Stream : In(s, "producing") => pending = s /\ cache = None

StreamInv == TypeOK /\ FuturesSound /\ HarmNeedsLeaver /\ ProducerAlone

\* The text v is accounted for.
Caused(v) ==
  /\ v \in 0 .. Segments =>
       \E s \in Stream : In(s, "left") /\ stream[s].count = v /\ future[s].state # "none"
  /\ v = Error => \E s \in Stream : In(s, "left") /\ stream[s].text = Error

-----------------------------------------------------------------------------
LEMMA TextsAreNumbers ==
  /\ Segments \in Nat /\ Whole \in Nat /\ Error \in Nat
  /\ Whole = Segments + 1 /\ Error = Segments + 2
  /\ None \notin Nat /\ None \notin Text /\ Stream \subseteq Nat
BY TextIsNotEmpty, RequestsAreCounted DEF Whole, Error, Text, Stream

\* The first half of HarmNeedsLeaver, text by text.
LEMMA TextByText ==
  CutNeedsLeaver <=>
    /\ Caused(cache)
    /\ \A t \in Stream : future[t].state = "resolved" => Caused(future[t].text)
BY DEF CutNeedsLeaver, Caused, Given

LEMMA InitStream ==
  ASSUME Init
  PROVE  StreamInv
<1>1. TypeOK
  BY TextsAreNumbers
     DEF Init, TypeOK, StreamState, FutureState, Stage, Ended, Text
<1>2. FuturesSound /\ ProducerAlone
  BY DEF Init, FuturesSound, ProducerAlone, In
<1>3. CutNeedsLeaver
  <2>1. Caused(cache)
    BY TextsAreNumbers DEF Init, Caused
  <2> QED
    BY <2>1, TextByText DEF Init
<1>4. FailureNeedsLeaver
  BY DEF Init, FailureNeedsLeaver, In
<1> QED
  BY <1>1, <1>2, <1>3, <1>4 DEF StreamInv, HarmNeedsLeaver

\* What a step of s leaves to the others: those who left stay as they are, and
\* futures do not go back to none.
Onward(s) ==
  /\ \A t \in Stream \ {s} : stream'[t] = stream[t]
  /\ ~In(s, "left")
  /\ \A t \in Stream : future[t].state # "none" => future'[t].state # "none"

LEMMA WitnessesStay ==
  ASSUME NEW s \in Stream, Onward(s)
  PROVE  \A v : Caused(v) => Caused(v)'
BY DEF Onward, Caused, In

\* The finally clause of who has no future of his own.
LEMMA NothingToResolve ==
  ASSUME StreamInv, NEW s \in Stream, NEW text, Deregister(s, text),
         stream[s].stage \in {"reading", "waiting", "error"}
  PROVE  /\ UNCHANGED future
         /\ pending' = None
         /\ taken' = {} => taken = {} /\ pending \in {None, s}
         /\ taken' \in SUBSET Stream
BY DEF Deregister, StreamInv, FuturesSound, TypeOK

\* The generator s goes from one stage to another without touching a future.
LEMMA MoveKeeps ==
  ASSUME StreamInv, NEW s \in Stream, NEW to \in StreamState,
         stream' = [stream EXCEPT ![s] = to], UNCHANGED <<cache, future>>,
         pending' \in {pending, None}, taken' \in SUBSET Stream,
         stream[s].stage \notin Ended, to.stage \notin {"idle", "producing"},
         to.stage \in {"reading", "waiting", "error"} => future[s].state = "none",
         to.stage = "waiting" => to.on \in Stream,
         to.stage = "error" => to.text = Error,
         to.stage = "failed" => to.on \in Stream /\ future[to.on].state = "cancelled",
         taken' = {} => taken = {} /\ (pending' = pending \/ pending = s)
  PROVE  StreamInv'
<1> USE DEF StreamInv, TypeOK
<1>1. /\ stream'[s] = to
      /\ \A t \in Stream \ {s} : stream'[t] = stream[t]
  OBVIOUS
<1>2. Onward(s)
  BY <1>1 DEF Onward, In, Ended
<1>3. TypeOK'
  BY <1>1
<1>4. FuturesSound'
  BY <1>1, <1>2 DEF FuturesSound, In, Onward
<1>5. CutNeedsLeaver'
  <2>1. CutNeedsLeaver
    BY DEF HarmNeedsLeaver
  <2>2. Caused(cache)' /\ \A t \in Stream : future'[t].state = "resolved" => Caused(future[t].text)'
    BY <2>1, <1>2, TextByText, WitnessesStay
  <2> QED
    BY <2>2 DEF CutNeedsLeaver, Caused, Given
<1>6. FailureNeedsLeaver'
  <2> SUFFICES ASSUME NEW w \in Stream, stream'[w].stage = "failed"
               PROVE  \E v \in Stream : In(v, "left")' /\ stream'[v].on = stream'[w].on
    BY DEF FailureNeedsLeaver, In
  <2>1. PICK v \in Stream : In(v, "left") /\ stream[v].on = stream'[w].on
    <3>1. CASE w = s
      BY <1>1, <3>1 DEF FuturesSound
    <3>2. CASE w # s
      BY <1>1, <3>2 DEF FailureNeedsLeaver, HarmNeedsLeaver, In
    <3> QED
      BY <3>1, <3>2
  <2>2. v # s
    BY <1>2, <2>1 DEF Onward
  <2> QED
    BY <1>1, <2>1, <2>2 DEF In
<1>7. ProducerAlone'
  BY <1>1 DEF ProducerAlone, In
<1> QED
  BY <1>3, <1>4, <1>5, <1>6, <1>7 DEF HarmNeedsLeaver

-----------------------------------------------------------------------------
\* The states a generator is in.
LEMMA StreamTypes ==
  ASSUME StreamInv, NEW s \in Stream
  PROVE  /\ stream[s] \in StreamState /\ stream[s].count \in 0 .. Whole
         /\ stream[s].text \in Text /\ stream[s].on \in Stream \cup {None}
         /\ future[s].state \in FutureState /\ future[s].text \in Text
BY DEF StreamInv, TypeOK, StreamState

LEMMA OpenKeeps ==
  ASSUME StreamInv, NEW s \in Stream, Open(s)
  PROVE  StreamInv'
<1> USE TextsAreNumbers, StreamTypes DEF StreamInv, TypeOK, IsNext, In
<1>1. future[s].state = "none" /\ stream[s].stage = "idle"
  BY DEF Open, FuturesSound
<1> DEFINE reading(text) == [stream[s] EXCEPT !.stage = "reading", !.text = text]
<1>2. CASE cache # None /\ Read(s, cache) /\ UNCHANGED <<pending, future, taken>>
  <2>1. reading(cache) \in StreamState
    BY <1>2 DEF StreamState, Stage
  <2>2. stream' = [stream EXCEPT ![s] = reading(cache)]
    BY <1>2 DEF Read
  <2> HIDE DEF reading
  <2>3. reading(cache).stage = "reading"
    BY DEF reading, StreamState
  <2> QED
    BY <1>1, <1>2, <2>1, <2>2, <2>3, MoveKeeps DEF Open, Ended
<1>3. CASE /\ cache = None /\ pending # None
           /\ Join(s, pending)
           /\ taken' = IF pending' # pending THEN taken \cup {pending} ELSE taken
           /\ UNCHANGED future
  <2> DEFINE p == pending
             waiting == [stream[s] EXCEPT !.stage = "waiting", !.on = p]
             failed == [stream[s] EXCEPT !.stage = "failed", !.on = p]
  <2>1. p \in Stream
    BY <1>3
  <2>2. /\ waiting \in StreamState /\ waiting.stage = "waiting" /\ waiting.on = p
        /\ failed \in StreamState /\ failed.stage = "failed" /\ failed.on = p
    <3>1. stream[s] \in StreamState
      OBVIOUS
    <3> QED
      BY <2>1, <3>1 DEF StreamState, Stage, Ended
  <2>3. CASE stream' = [stream EXCEPT ![s] = waiting] /\ UNCHANGED pending
    <3> HIDE DEF waiting
    <3> QED
      BY <1>1, <1>3, <2>1, <2>2, <2>3, MoveKeeps DEF Open, Ended
  <2>4. CASE future[p].state = "resolved" /\ Read(s, future[p].text) /\ UNCHANGED pending
    <3>1. reading(future[p].text) \in StreamState
      <4>1. stream[s] \in StreamState /\ future[p].text \in Text
        BY <2>1
      <4> QED
        BY <4>1 DEF StreamState, Stage
    <3>2. stream' = [stream EXCEPT ![s] = reading(future[p].text)]
      BY <2>4 DEF Read
    <3> HIDE DEF reading
    <3>3. reading(future[p].text).stage = "reading"
      BY DEF reading, StreamState
    <3> QED
      BY <1>1, <1>3, <2>4, <3>1, <3>2, <3>3, MoveKeeps DEF Open, Ended
  <2>5. CASE /\ future[p].state = "cancelled"
             /\ stream' = [stream EXCEPT ![s] = failed] /\ pending' = None
    <3> HIDE DEF failed
    <3> QED
      BY <1>1, <1>3, <2>1, <2>2, <2>5, MoveKeeps DEF Open, Ended
  <2> QED
    BY <1>3, <2>3, <2>4, <2>5 DEF Join
<1>4. CASE cache = None /\ pending = None /\ Produce(s) /\ UNCHANGED taken
  <2>1. /\ stream'[s].stage = "producing"
        /\ \A t \in Stream \ {s} : stream'[t] = stream[t] /\ future'[t] = future[t]
        /\ future'[s].state = "open"
        /\ UNCHANGED cache
    BY <1>4 DEF Produce, Open, StreamState
  <2>2. Onward(s)
    BY <1>1, <2>1 DEF Onward
  <2>3. TypeOK'
    BY <1>4 DEF Produce, Open, StreamState, FutureState, Stage
  <2>4. FuturesSound'
    BY <1>1, <2>1, <2>2 DEF FuturesSound, Onward
  <2>5. CutNeedsLeaver'
    <3>1. Caused(cache)' /\ \A t \in Stream : future'[t].state = "resolved" => Caused(future[t].text)'
      BY <2>1, <2>2, TextByText, WitnessesStay DEF HarmNeedsLeaver
    <3>2. \A t \in Stream : future'[t].state = "resolved" => future'[t] = future[t]
      BY <2>1
    <3> QED
      BY <3>1, <3>2, <2>1 DEF CutNeedsLeaver, Caused, Given
  <2>6. FailureNeedsLeaver'
    BY <1>1, <2>1 DEF FailureNeedsLeaver, HarmNeedsLeaver
  <2>7. ProducerAlone'
    BY <1>1, <1>4, <2>1 DEF ProducerAlone, Produce
  <2> QED
    BY <2>3, <2>4, <2>5, <2>6, <2>7 DEF HarmNeedsLeaver
<1> QED
  BY <1>2, <1>3, <1>4 DEF Open

LEMMA CacheFailsKeeps ==
  ASSUME StreamInv, NEW s \in Stream, CacheFails(s)
  PROVE  StreamInv'
<1> DEFINE to == [stream[s] EXCEPT !.stage = "error", !.text = Error]
<1>1. to \in StreamState /\ to.stage = "error" /\ to.text = Error
  <2>1. stream[s] \in StreamState /\ Error \in Text
    BY TextsAreNumbers, StreamTypes DEF Text
  <2> QED
    BY <2>1 DEF StreamState, Stage
<1>2. stream' = [stream EXCEPT ![s] = to] /\ UNCHANGED <<cache, pending, future, taken>>
  BY DEF CacheFails
<1>3. future[s].state = "none" /\ stream[s].stage = "idle" /\ taken \in SUBSET Stream
  BY DEF CacheFails, IsNext, In, StreamInv, FuturesSound, TypeOK
<1> HIDE DEF to
<1> QED
  BY <1>1, <1>2, <1>3, MoveKeeps DEF Ended

\* A move that ends the generator.
LEMMA EndKeeps ==
  ASSUME StreamInv, NEW s \in Stream, NEW stage \in {"done", "left", "broken"},
         End(s, stage), UNCHANGED <<cache, future>>, stream[s].stage \notin Ended,
         pending' \in {pending, None}, taken' \in SUBSET Stream,
         taken' = {} => taken = {} /\ (pending' = pending \/ pending = s)
  PROVE  StreamInv'
<1> DEFINE to == [stream[s] EXCEPT !.stage = stage]
<1>1. to \in StreamState /\ to.stage = stage
  BY StreamTypes DEF StreamState, Stage, Ended
<1>2. stream' = [stream EXCEPT ![s] = to]
  BY DEF End
<1> HIDE DEF to
<1> QED
  BY <1>1, <1>2, MoveKeeps

\* The finally clause of those who have no future, and their end.
LEMMA DeregisterKeeps ==
  ASSUME StreamInv, NEW s \in Stream, NEW stage \in {"done", "left"}, NEW text,
         stream[s].stage \in {"reading", "waiting", "error"},
         Deregister(s, text), End(s, stage), UNCHANGED cache
  PROVE  StreamInv'
<1>1. stream[s].stage \notin Ended
  BY DEF Ended
<1>2. taken' = {} => taken = {} /\ (pending' = pending \/ pending = s)
  BY NothingToResolve
<1> QED
  BY <1>1, <1>2, NothingToResolve, EndKeeps

LEMMA ReadersKeep ==
  ASSUME StreamInv, NEW s \in Stream, ReadChunk(s) \/ EndReading(s) \/ LeaveReading(s)
  PROVE  StreamInv'
<1>1. CASE ReadChunk(s)
  <2> DEFINE to == [stream[s] EXCEPT !.count = @ + 1]
  <2>1. to \in StreamState /\ to.stage = "reading"
    BY <1>1, StreamTypes, TextsAreNumbers DEF StreamState, ReadChunk, Length, Text, In
  <2>2. stream' = [stream EXCEPT ![s] = to] /\ UNCHANGED <<cache, pending, future, taken>>
    BY <1>1 DEF ReadChunk
  <2>3. future[s].state = "none" /\ stream[s].stage = "reading" /\ taken \in SUBSET Stream
    BY <1>1 DEF ReadChunk, In, StreamInv, FuturesSound, TypeOK
  <2> HIDE DEF to
  <2> QED
    BY <2>1, <2>2, <2>3, MoveKeeps DEF Ended
<1>2. CASE EndReading(s)
  BY <1>2, DeregisterKeeps DEF EndReading, In
<1>3. CASE LeaveReading(s)
  BY <1>3, DeregisterKeeps DEF LeaveReading, In
<1> QED
  BY <1>1, <1>2, <1>3

LEMMA ResumeKeeps ==
  ASSUME StreamInv, NEW s \in Stream, Resume(s)
  PROVE  StreamInv'
<1> DEFINE p == stream[s].on
           reading == [stream[s] EXCEPT !.stage = "reading", !.text = future[p].text]
           failed == [stream[s] EXCEPT !.stage = "failed"]
<1>1. /\ p \in Stream /\ stream[s].stage = "waiting" /\ future[s].state = "none"
      /\ taken \in SUBSET Stream /\ UNCHANGED cache
  BY DEF Resume, In, StreamInv, FuturesSound, TypeOK
<1>2. /\ reading \in StreamState /\ reading.stage = "reading"
      /\ failed \in StreamState /\ failed.stage = "failed" /\ failed.on = p
  BY <1>1, StreamTypes DEF StreamState, Stage, Ended
<1>3. CASE Read(s, future[p].text) /\ UNCHANGED <<pending, taken, future>>
  <2>1. stream' = [stream EXCEPT ![s] = reading]
    BY <1>3 DEF Read
  <2> HIDE DEF reading
  <2> QED
    BY <1>1, <1>2, <1>3, <2>1, MoveKeeps DEF Ended
<1>4. CASE /\ future[p].state = "cancelled"
           /\ Deregister(s, stream[s].count) /\ End(s, "failed")
  <2>1. stream' = [stream EXCEPT ![s] = failed]
    BY <1>4 DEF End
  <2>2. /\ UNCHANGED future /\ pending' = None /\ taken' \in SUBSET Stream
        /\ taken' = {} => taken = {} /\ (pending' = pending \/ pending = s)
    BY <1>1, <1>4, NothingToResolve
  <2> HIDE DEF failed
  <2> QED
    BY <1>1, <1>2, <1>4, <2>1, <2>2, MoveKeeps DEF Ended
<1> QED
  BY <1>3, <1>4 DEF Resume

\* A producer hands over a chunk.
LEMMA ChunkKeeps ==
  ASSUME StreamInv, NEW s \in Stream, Chunk(s)
  PROVE  StreamInv'
<1> USE DEF StreamInv, In
<1>1. /\ stream'[s] = [stream[s] EXCEPT !.count = @ + 1]
      /\ stream[s].count + 1 \in 0 .. Whole
  BY StreamTypes, TextsAreNumbers DEF Chunk, TypeOK
<1>2. /\ stream'[s] \in StreamState
      /\ stream[s].stage = "producing" /\ stream'[s].stage = "producing"
      /\ \A t \in Stream \ {s} : stream'[t] = stream[t]
      /\ UNCHANGED <<cache, pending, future, taken>>
  BY <1>1, StreamTypes DEF Chunk, StreamState, TypeOK
<1>3. Onward(s)
  BY <1>2 DEF Onward
<1>4. TypeOK'
  BY <1>2 DEF TypeOK, Chunk
<1>5. FuturesSound'
  BY <1>2, <1>3 DEF FuturesSound, Onward
<1>6. CutNeedsLeaver'
  <2>1. CutNeedsLeaver
    BY DEF HarmNeedsLeaver
  <2>2. Caused(cache)' /\ \A t \in Stream : future'[t].state = "resolved" => Caused(future[t].text)'
    BY <1>2, <1>3, <2>1, TextByText, WitnessesStay
  <2> QED
    BY <2>2 DEF CutNeedsLeaver, Caused, Given
<1>7. FailureNeedsLeaver' /\ ProducerAlone'
  BY <1>2 DEF FailureNeedsLeaver, HarmNeedsLeaver, ProducerAlone
<1> QED
  BY <1>4, <1>5, <1>6, <1>7 DEF HarmNeedsLeaver

\* A producer, or a client with an error chunk, is through: a text that is
\* accounted for is kept and handed to those who wait.
LEMMA SettleKeeps ==
  ASSUME StreamInv, NEW s \in Stream, stream[s].stage \in {"producing", "error"},
         NEW stage \in {"done", "left", "broken"}, End(s, stage),
         NEW text \in Text, Caused(text)', cache' \in {cache, text},
         \/ future' = future
         \/ /\ future[s].state # "none"
            /\ future' = [future EXCEPT ![s] = [state |-> "resolved", text |-> text]],
         pending' \in {pending, None}, taken' \in SUBSET Stream,
         taken' = {} => /\ taken = {}
                        /\ \/ pending' = pending /\ cache' = cache
                           \/ pending \in {None, s}
  PROVE  StreamInv'
<1> USE DEF StreamInv
<1>1. /\ stream'[s].stage = stage /\ stream'[s] \in StreamState
      /\ \A t \in Stream \ {s} : stream'[t] = stream[t] /\ future'[t] = future[t]
  BY StreamTypes DEF End, TypeOK, StreamState, Stage, Ended
<1>2. \/ future' = future
      \/ /\ future[s].state # "none"
         /\ future'[s].state = "resolved" /\ future'[s].text = text
  BY DEF TypeOK
<1>3. Onward(s)
  BY <1>1, <1>2 DEF Onward, In
<1>4. TypeOK'
  BY <1>1, <1>2 DEF TypeOK, End, FutureState
<1>5. FuturesSound'
  BY <1>1, <1>2, <1>3 DEF FuturesSound, In, Onward
<1>6. CutNeedsLeaver'
  <2>1. CutNeedsLeaver
    BY DEF HarmNeedsLeaver
  <2>2. \A v : v = cache \/ (\E t \in Stream : future[t].state = "resolved" /\ v = future[t].text)
                => Caused(v)'
    BY <1>3, <2>1, TextByText, WitnessesStay
  <2>3. \A t \in Stream : future'[t].state = "resolved" =>
          future'[t].text = text \/ (future[t].state = "resolved" /\ future'[t].text = future[t].text)
    BY <1>1, <1>2
  <2> QED
    BY <2>2, <2>3 DEF CutNeedsLeaver, Caused, Given
<1>7. FailureNeedsLeaver'
  BY <1>1 DEF FailureNeedsLeaver, HarmNeedsLeaver, In
<1>8. ProducerAlone'
  BY <1>1, RequestsAreCounted, TextsAreNumbers DEF ProducerAlone, In
<1> QED
  BY <1>4, <1>5, <1>6, <1>7, <1>8 DEF HarmNeedsLeaver

LEMMA CompleteKeeps ==
  ASSUME StreamInv, NEW s \in Stream, Complete(s)
  PROVE  StreamInv'
<1>1. Whole \in Text /\ Caused(Whole)'
  BY TextsAreNumbers DEF Caused, Text
<1>2. stream[s].stage = "producing" /\ taken \subseteq Stream /\ pending \in Stream \cup {None}
  BY DEF Complete, In, StreamInv, TypeOK
<1>3. \/ future' = future
      \/ /\ future[s].state # "none"
         /\ future' = [future EXCEPT ![s] = [state |-> "resolved", text |-> Whole]]
  BY DEF Complete
<1>4. CASE /\ cache' = Whole /\ pending' = None /\ End(s, "done")
           /\ taken' = IF pending \in {None, s} THEN taken ELSE taken \cup {pending}
  BY <1>1, <1>2, <1>3, <1>4, SettleKeeps
<1>5. CASE End(s, "broken") /\ UNCHANGED <<cache, pending, taken>>
  BY <1>1, <1>2, <1>3, <1>5, SettleKeeps
<1> QED
  BY <1>4, <1>5 DEF Complete

LEMMA LeaveErrorKeeps ==
  ASSUME StreamInv, NEW s \in Stream, LeaveError(s)
  PROVE  StreamInv'
<1>1. /\ stream[s].stage = "error" /\ stream[s].text = Error /\ Error \in Text
      /\ taken \in SUBSET Stream /\ stream[s].stage \notin Ended
  BY TextsAreNumbers DEF LeaveError, In, StreamInv, FuturesSound, TypeOK, Ended, Text
<1>2. CASE cache' = Error /\ Deregister(s, Error) /\ End(s, "left")
  <2>1. Caused(Error)'
    <3>1. stream'[s].stage = "left" /\ stream'[s].text = Error
      BY <1>1, <1>2, StreamTypes DEF End, StreamInv, TypeOK, StreamState
    <3> QED
      BY <3>1, TextsAreNumbers DEF Caused, In
  <2>2. /\ UNCHANGED future /\ pending' = None /\ taken' \in SUBSET Stream
        /\ taken' = {} => taken = {} /\ pending \in {None, s}
    BY <1>1, <1>2, NothingToResolve
  <2> QED
    BY <1>1, <1>2, <2>1, <2>2, SettleKeeps
<1>3. CASE End(s, "broken") /\ UNCHANGED <<cache, pending, future, taken>>
  BY <1>1, <1>3, EndKeeps
<1> QED
  BY <1>2, <1>3 DEF LeaveError, KeepAndDeregister

LEMMA LeaveProducingKeeps ==
  ASSUME StreamInv, NEW s \in Stream, LeaveProducing(s)
  PROVE  StreamInv'
<1>0. PICK n \in Text : n = stream[s].count /\ n # Error
  BY TextsAreNumbers, StreamTypes DEF Text
<1>1. /\ stream[s].stage = "producing" /\ future[s].state # "none"
      /\ taken \in SUBSET Stream /\ pending \in Stream \cup {None}
      /\ stream[s].stage \notin Ended
  BY DEF LeaveProducing, In, StreamInv, FuturesSound, TypeOK, Ended
<1>2. CASE Deregister(s, n) /\ End(s, "left") /\ cache' \in {cache, n}
  <2>1. /\ pending' = None /\ taken' \in SUBSET Stream
        /\ taken' = {} => taken = {} /\ pending \in {None, s}
        /\ \/ future' = future
           \/ future' = [future EXCEPT ![s] = [state |-> "resolved", text |-> n]]
    BY <1>1, <1>2 DEF Deregister
  <2>2. Caused(n)'
    <3>1. stream'[s].stage = "left" /\ stream'[s].count = n
      BY <1>0, <1>2, StreamTypes DEF End, StreamInv, TypeOK, StreamState
    <3>2. future'[s].state # "none"
      BY <1>1, <2>1 DEF StreamInv, TypeOK
    <3> QED
      BY <1>0, <3>1, <3>2 DEF Caused, In
  <2> QED
    BY <1>1, <1>2, <2>1, <2>2, SettleKeeps
<1>3. CASE End(s, "broken") /\ UNCHANGED <<cache, pending, future, taken>>
  BY <1>1, <1>3, EndKeeps
<1> QED
  BY <1>0, <1>2, <1>3 DEF LeaveProducing, KeepAndDeregister

LEMMA LeaveWaitingKeeps ==
  ASSUME StreamInv, NEW s \in Stream, LeaveWaiting(s)
  PROVE  StreamInv'
<1> USE DEF StreamInv, In
<1> DEFINE p == stream[s].on
<1>1. /\ p \in Stream /\ stream[s].stage = "waiting" /\ future[s].state = "none"
      /\ pending' = None /\ UNCHANGED cache
  BY DEF LeaveWaiting, FuturesSound
<1>2. /\ stream'[s] \in StreamState
      /\ stream'[s].stage = "left" /\ stream'[s].on = p
      /\ \A t \in Stream \ {s} : stream'[t] = stream[t]
  BY <1>1, StreamTypes DEF LeaveWaiting, End, TypeOK, StreamState, Stage, Ended
<1>3. /\ \A t \in Stream : \/ future'[t] = future[t]
                           \/ /\ t = p /\ future[t].state = "open"
                              /\ future'[t].state = "cancelled"
      /\ future' \in [Stream -> [state : FutureState, text : Text]]
  BY <1>1 DEF LeaveWaiting, TypeOK, FutureState
<1>4. /\ taken' \in SUBSET Stream
      /\ taken' = {} => taken = {} /\ pending = None
  BY <1>1 DEF LeaveWaiting, TypeOK
<1> HIDE DEF p
<1>5. Onward(s)
  BY <1>1, <1>2, <1>3 DEF Onward
<1>6. TypeOK'
  BY <1>1, <1>2, <1>3, <1>4 DEF TypeOK, LeaveWaiting, End
<1>7. FuturesSound'
  BY <1>1, <1>2, <1>3, <1>5 DEF FuturesSound, Onward
<1>8. CutNeedsLeaver'
  <2>1. CutNeedsLeaver
    BY DEF HarmNeedsLeaver
  <2>2. \A v : v = cache \/ (\E t \in Stream : future[t].state = "resolved" /\ v = future[t].text)
                => Caused(v)'
    BY <1>5, <2>1, TextByText, WitnessesStay
  <2>3. \A t \in Stream : future'[t].state = "resolved" => future'[t] = future[t]
    BY <1>3
  <2> QED
    BY <1>1, <2>2, <2>3 DEF CutNeedsLeaver, Caused, Given
<1>9. FailureNeedsLeaver' /\ ProducerAlone'
  BY <1>1, <1>2, <1>4, RequestsAreCounted, TextsAreNumbers
     DEF FailureNeedsLeaver, HarmNeedsLeaver, ProducerAlone
<1> QED
  BY <1>6, <1>7, <1>8, <1>9 DEF HarmNeedsLeaver

LEMMA ExpireKeeps ==
  ASSUME StreamInv, Expire
  PROVE  StreamInv'
<1>1. TypeOK' /\ FuturesSound' /\ FailureNeedsLeaver' /\ ProducerAlone'
  BY DEF Expire, StreamInv, TypeOK, FuturesSound, HarmNeedsLeaver, FailureNeedsLeaver,
         ProducerAlone, In
<1>2. CutNeedsLeaver'
  BY TextsAreNumbers DEF Expire, StreamInv, HarmNeedsLeaver, CutNeedsLeaver, Given, In
<1> QED
  BY <1>1, <1>2 DEF StreamInv, HarmNeedsLeaver

LEMMA StreamStepKeeps ==
  ASSUME StreamInv, [Next]_vars
  PROVE  StreamInv'
<1>1. ASSUME NEW s \in Stream, Open(s) \/ CacheFails(s)
      PROVE  StreamInv'
  BY <1>1, OpenKeeps, CacheFailsKeeps
<1>2. ASSUME NEW s \in Stream, Step(s)
      PROVE  StreamInv'
  BY <1>2, ChunkKeeps, CompleteKeeps, ResumeKeeps, ReadersKeep DEF Step
<1>3. ASSUME NEW s \in Stream, Leave(s)
      PROVE  StreamInv'
  BY <1>3, ReadersKeep, LeaveErrorKeeps, LeaveWaitingKeeps, LeaveProducingKeeps DEF Leave
<1>4. CASE UNCHANGED vars
  BY <1>4 DEF vars, StreamInv, TypeOK, FuturesSound, HarmNeedsLeaver, CutNeedsLeaver, Given,
              FailureNeedsLeaver, ProducerAlone, In
<1> QED
  BY <1>1, <1>2, <1>3, <1>4, ExpireKeeps DEF Next

\* The inductive invariant holds throughout: futures belong to producers, and who
\* is not robbed of his registration produces alone.
THEOREM StreamInvariant ==
  Spec => []StreamInv
<1>1. Init => StreamInv
  BY InitStream
<1>2. StreamInv /\ [Next]_vars => StreamInv'
  BY StreamStepKeeps
<1> QED
  BY <1>1, <1>2, PTL DEF Spec

\* What goes wrong for those who stay takes somebody who left: a text cut short,
\* an error kept and a CancelledError all have their cause in a client of
\* stream_generate that went before its end.
THEOREM HarmTakesALeaver ==
  Spec => []HarmNeedsLeaver
<1>1. StreamInv => HarmNeedsLeaver
  BY DEF StreamInv
<1> QED
  BY <1>1, StreamInvariant, PTL

\* A valid cached text gives way to a shorter one only after somebody removed the
\* registration of a producer that was not his.
THEOREM CacheShrinksOnlyByTheft ==
  Spec => CacheShrinksByTheft
<1> DEFINE Shrinks == \E m, n \in 1 .. Whole : cache = m /\ cache' = n /\ n < m
           A == Shrinks => taken # {}
<1>1. StreamInv /\ [Next]_vars => [A]_vars
  <2> SUFFICES ASSUME StreamInv, Next, Shrinks, taken = {}
               PROVE  FALSE
    BY DEF vars
  <2>1. PICK m \in 1 .. Whole, n \in 1 .. Whole : cache = m /\ cache' = n /\ n < m
    OBVIOUS
  <2>2. cache # None /\ cache' # cache /\ cache' # None /\ cache' \in 1 .. Segments
    BY <2>1, TextsAreNumbers
  <2>3. PICK s \in Stream : Complete(s) \/ LeaveError(s) \/ LeaveProducing(s)
    BY <2>2 DEF Next, Open, CacheFails, Step, Leave, Chunk, Resume, ReadChunk, EndReading,
                LeaveReading, LeaveWaiting, Expire
  <2>4. In(s, "producing")
    <3>1. CASE Complete(s)
      BY <3>1 DEF Complete
    <3>2. CASE LeaveError(s)
      BY <2>2, <3>2, TextsAreNumbers DEF LeaveError, KeepAndDeregister
    <3>3. CASE LeaveProducing(s)
      BY <3>3 DEF LeaveProducing
    <3> QED
      BY <2>3, <3>1, <3>2, <3>3
  <2> QED
    BY <2>2, <2>4 DEF StreamInv, ProducerAlone
<1> QED
  BY <1>1, StreamInvariant, PTL DEF Spec, CacheShrinksByTheft

-----------------------------------------------------------------------------
(* Whoever waits for a stream has somebody to wait for                     *)

\* The producer w waits for.
On(w) == stream[w].on

\* w waits behind a producer who was robbed of his registration, or whose cache
\* write failed: what WaitersAreServed excepts.
Stranded(w) == \E p \in taken \cup {q \in Stream : In(q, "broken")} : Waiting(w, p)

Decided(p) == future[p].state \in {"resolved", "cancelled"}

\* The registered producer is at work, and whoever waits for another one has his
\* answer already.
HopeInv ==
  /\ pending # None => In(pending, "producing") \/ In(pending, "broken")
  /\ \A w \in Stream : In(w, "waiting") => Decided(On(w)) \/ On(w) = pending \/ Stranded(w)

\* How many steps the producer of w has yet to make.
Ahead(w) == IF Decided(On(w)) THEN 0 ELSE Whole + 1 - stream[On(w)].count

LEMMA StrandedBehind ==
  ASSUME NEW w \in Stream, stream[w].stage = "waiting", stream[w].on \in Stream
  PROVE  Stranded(w) <=> On(w) \in taken \/ stream[On(w)].stage = "broken"
BY DEF Stranded, Waiting, On, In

\* What a generator leaves behind when he goes, of a registration: it stays, or
\* who is deprived of it has been robbed or has decided his future.
Handover ==
  \/ pending' = pending
  \/ /\ pending' = None
     /\ pending # None => pending \in taken' \/ future'[pending].state \in {"resolved", "cancelled"}

\* The generator s moves, and nobody starts to wait or to produce.
LEMMA HopeMoves ==
  ASSUME StreamInv, HopeInv, NEW s \in Stream,
         \A t \in Stream \ {s} : stream'[t] = stream[t],
         stream[s].stage # "broken",
         stream'[s].stage = "waiting" => stream'[s] = stream[s],
         \A t \in Stream : Decided(t) => future'[t].state \in {"resolved", "cancelled"},
         taken \subseteq taken', Handover,
         pending' = s => stream'[s].stage \in {"producing", "broken"}
  PROVE  HopeInv'
<1>1. None \notin Stream /\ pending \in Stream \cup {None}
  BY TextsAreNumbers DEF StreamInv, TypeOK
<1>2. pending' # None => stream'[pending'].stage \in {"producing", "broken"}
  BY <1>1 DEF HopeInv, In, Handover
<1>3. ASSUME NEW w \in Stream, stream'[w].stage = "waiting"
      PROVE  \/ future'[stream'[w].on].state \in {"resolved", "cancelled"}
             \/ stream'[w].on = pending' \/ Stranded(w)'
  <2> DEFINE p == stream[w].on
  <2>1. stream'[w] = stream[w] /\ stream[w].stage = "waiting"
    BY <1>3
  <2>2. p \in Stream
    BY <2>1 DEF StreamInv, FuturesSound, In
  <2>3. (p \in taken' \/ stream'[p].stage = "broken") => Stranded(w)'
    BY <1>3, <2>1, <2>2 DEF Stranded, Waiting, In
  <2>4. CASE Decided(p)
    BY <2>1, <2>2, <2>4
  <2>5. CASE Stranded(w)
    BY <2>1, <2>2, <2>3, <2>5, StrandedBehind DEF On
  <2>6. CASE p = pending
    BY <1>1, <2>1, <2>2, <2>3, <2>6 DEF Handover
  <2> QED
    BY <2>1, <2>4, <2>5, <2>6 DEF HopeInv, On, In
<1> QED
  BY <1>2, <1>3 DEF HopeInv, In, Decided, On

\* The finally clause: who had registered has decided his future.
LEMMA DeregisterHands ==
  ASSUME StreamInv, HopeInv, NEW s \in Stream, NEW text, Deregister(s, text),
         stream[s].stage \in {"reading", "waiting", "error", "producing"}
  PROVE  /\ Handover /\ pending' = None /\ taken \subseteq taken'
         /\ \A t \in Stream : Decided(t) => future'[t].state \in {"resolved", "cancelled"}
<1>1. future \in [Stream -> [state : FutureState, text : Text]]
  BY DEF StreamInv, TypeOK
<1>2. pending' = None /\ taken \subseteq taken'
  BY DEF Deregister
<1>3. \A t \in Stream : Decided(t) => future'[t].state \in {"resolved", "cancelled"}
  BY <1>1 DEF Deregister, Decided
<1>4. CASE pending \notin {None, s}
  BY <1>2, <1>3, <1>4 DEF Deregister, Handover
<1>5. CASE pending = None
  BY <1>2, <1>3, <1>5 DEF Handover
<1>6. CASE pending = s /\ s # None
  <2>1. stream[s].stage = "producing"
    BY <1>6 DEF HopeInv, In
  <2>2. future[s].state \in FutureState \ {"none"}
    BY <1>1, <2>1 DEF StreamInv, FuturesSound, In
  <2>3. future'[s].state \in {"resolved", "cancelled"}
    BY <1>1, <1>6, <2>2 DEF Deregister, FutureState
  <2> QED
    BY <1>2, <1>3, <1>6, <2>3 DEF Handover
<1> QED
  BY <1>2, <1>3, <1>4, <1>5, <1>6

\* stream' = [stream EXCEPT ![s].stage = stage], field by field.
LEMMA StageBecomes ==
  ASSUME StreamInv, NEW s \in Stream, NEW stage, End(s, stage)
  PROVE  /\ stream'[s].stage = stage
         /\ \A t \in Stream \ {s} : stream'[t] = stream[t]
BY DEF StreamInv, TypeOK, StreamState, End

LEMMA DepartsWithHope ==
  ASSUME StreamInv, HopeInv, NEW s \in Stream, NEW stage \in {"done", "left", "failed"},
         End(s, stage), NEW text, Deregister(s, text),
         stream[s].stage \in {"reading", "waiting", "error", "producing"}
  PROVE  HopeInv'
BY StageBecomes, DeregisterHands, HopeMoves, TextsAreNumbers

LEMMA BreaksWithHope ==
  ASSUME StreamInv, HopeInv, NEW s \in Stream, End(s, "broken"),
         stream[s].stage # "broken", UNCHANGED <<pending, taken>>,
         \A t \in Stream : Decided(t) => future'[t].state \in {"resolved", "cancelled"}
  PROVE  HopeInv'
BY StageBecomes, HopeMoves DEF Handover

LEMMA OpenHopes ==
  ASSUME StreamInv, HopeInv, NEW s \in Stream, Open(s)
  PROVE  HopeInv'
<1>1. /\ stream[s].stage = "idle" /\ future[s].state = "none"
      /\ stream \in [Stream -> StreamState] /\ future \in [Stream -> [state : FutureState, text : Text]]
      /\ pending \in Stream \cup {None} /\ None \notin Stream
  BY TextsAreNumbers DEF Open, IsNext, In, StreamInv, FuturesSound, TypeOK
<1>2. pending # s
  BY <1>1 DEF HopeInv, In
<1>3. taken \subseteq taken'
  BY DEF Open
<1>4. ASSUME NEW text, Read(s, text), UNCHANGED <<pending, future>>
      PROVE  HopeInv'
  <2>1. stream'[s].stage = "reading" /\ \A t \in Stream \ {s} : stream'[t] = stream[t]
    BY <1>1, <1>4 DEF Read, StreamState
  <2> QED
    BY <1>1, <1>2, <1>3, <1>4, <2>1, HopeMoves DEF Handover, Decided
<1>5. CASE cache = None /\ pending # None /\ Join(s, pending) /\ UNCHANGED future
  <2>1. CASE /\ stream' = [stream EXCEPT ![s].stage = "waiting", ![s].on = pending]
             /\ UNCHANGED pending
    <3>1. /\ stream'[s].stage = "waiting" /\ stream'[s].on = pending
          /\ \A t \in Stream \ {s} : stream'[t] = stream[t]
      BY <1>1, <2>1 DEF StreamState
    <3>2. \A t \in Stream : In(t, "broken") => In(t, "broken")'
      BY <1>1, <3>1 DEF In
    <3>3. ASSUME NEW w \in Stream, In(w, "waiting")'
          PROVE  Decided(On(w))' \/ On(w)' = pending' \/ Stranded(w)'
      <4>1. CASE w = s
        BY <2>1, <3>1, <4>1 DEF On
      <4>2. CASE w # s
        <5>1. stream'[w] = stream[w] /\ In(w, "waiting") /\ UNCHANGED <<pending, future>>
          BY <1>5, <2>1, <3>1, <3>3, <4>2 DEF In
        <5>2. Stranded(w) => Stranded(w)'
          BY <1>3, <3>2, <5>1 DEF Stranded, Waiting, In
        <5> QED
          BY <5>1, <5>2 DEF HopeInv, On, Decided
      <4> QED
        BY <4>1, <4>2
    <3>4. pending' # None => In(pending, "producing")' \/ In(pending, "broken")'
      BY <1>1, <1>2, <2>1, <3>1 DEF HopeInv, In
    <3> QED
      BY <3>3, <3>4 DEF HopeInv
  <2>2. CASE Read(s, future[pending].text) /\ UNCHANGED pending
    BY <1>4, <1>5, <2>2
  <2>3. CASE /\ stream' = [stream EXCEPT ![s].stage = "failed", ![s].on = pending]
             /\ pending' = None /\ future[pending].state = "cancelled"
    <3>1. stream'[s].stage = "failed" /\ \A t \in Stream \ {s} : stream'[t] = stream[t]
      BY <1>1, <2>3 DEF StreamState
    <3> QED
      BY <1>1, <1>3, <1>5, <2>3, <3>1, HopeMoves DEF Handover, Decided
  <2> QED
    BY <1>5, <2>1, <2>2, <2>3 DEF Join
<1>6. CASE cache = None /\ pending = None /\ Produce(s)
  <2>1. /\ stream'[s].stage = "producing" /\ pending' = s
        /\ \A t \in Stream \ {s} : stream'[t] = stream[t] /\ future'[t] = future[t]
    BY <1>1, <1>6 DEF Produce, StreamState
  <2>2. ASSUME NEW w \in Stream, In(w, "waiting")'
        PROVE  Decided(On(w))' \/ Stranded(w)'
    <3>1. stream'[w] = stream[w] /\ In(w, "waiting") /\ On(w)' = On(w) /\ On(w) \in Stream
      BY <2>1, <2>2 DEF In, On, StreamInv, FuturesSound
    <3>2. Decided(On(w)) \/ Stranded(w)
      BY <1>1, <1>6, <3>1 DEF HopeInv
    <3>3. Decided(On(w)) => Decided(On(w))'
      BY <1>1, <2>1, <3>1 DEF Decided
    <3>4. Stranded(w) => Stranded(w)'
      <4>1. \A t \in Stream : In(t, "broken") => In(t, "broken")'
        BY <1>1, <2>1 DEF In
      <4> QED
        BY <1>3, <3>1, <4>1 DEF Stranded, Waiting, In
    <3> QED
      BY <3>2, <3>3, <3>4
  <2> QED
    BY <2>1, <2>2 DEF HopeInv, In
<1> QED
  BY <1>4, <1>5, <1>6 DEF Open

LEMMA HopeStep ==
  ASSUME StreamInv, HopeInv, [Next]_vars
  PROVE  HopeInv'
<1> DEFINE Kept == \A t \in Stream : Decided(t) => future'[t].state \in {"resolved", "cancelled"}
<1>1. /\ stream \in [Stream -> StreamState]
      /\ future \in [Stream -> [state : FutureState, text : Text]]
      /\ pending \in Stream \cup {None} /\ None \notin Stream
  BY TextsAreNumbers DEF StreamInv, TypeOK
<1>2. ASSUME NEW s \in Stream, CacheFails(s) \/ Chunk(s) \/ ReadChunk(s)
      PROVE  HopeInv'
  <2>1. /\ \A t \in Stream \ {s} : stream'[t] = stream[t]
        /\ stream[s].stage \in {"idle", "producing", "reading"}
        /\ stream'[s].stage = IF stream[s].stage = "idle" THEN "error" ELSE stream[s].stage
        /\ UNCHANGED <<pending, future, taken>>
    BY <1>1, <1>2 DEF CacheFails, Chunk, ReadChunk, IsNext, In, StreamState
  <2>2. pending = s => stream[s].stage = "producing"
    BY <1>1, <2>1 DEF HopeInv, In
  <2> QED
    BY <2>1, <2>2, HopeMoves DEF Handover, Decided
<1>3. ASSUME NEW s \in Stream, Complete(s)
      PROVE  HopeInv'
  <2> DEFINE resolved == IF future[s].state = "open"
                           THEN [future EXCEPT ![s] = [state |-> "resolved", text |-> Whole]]
                           ELSE future
  <2>1. stream[s].stage = "producing" /\ future[s].state \in FutureState \ {"none"}
    BY <1>1, <1>3 DEF Complete, In, StreamInv, FuturesSound
  <2>2. /\ \A t \in Stream : Decided(t) => resolved[t].state \in {"resolved", "cancelled"}
        /\ resolved[s].state \in {"resolved", "cancelled"}
    BY <1>1, <2>1 DEF Decided, FutureState
  <2> HIDE DEF resolved
  <2>3. CASE /\ pending' = None /\ End(s, "done") /\ future' = resolved
             /\ taken' = IF pending \in {None, s} THEN taken ELSE taken \cup {pending}
    <3>1. Handover /\ taken \subseteq taken'
      BY <2>2, <2>3 DEF Handover
    <3> QED
      BY <1>1, <2>1, <2>2, <2>3, <3>1, StageBecomes, HopeMoves
  <2>4. CASE End(s, "broken") /\ future' = resolved /\ UNCHANGED <<pending, taken>>
    BY <2>1, <2>2, <2>4, BreaksWithHope
  <2> QED
    BY <1>3, <2>3, <2>4 DEF Complete, resolved
<1>4. ASSUME NEW s \in Stream, Resume(s) \/ EndReading(s)
      PROVE  HopeInv'
  <2>1. stream[s].stage \in {"waiting", "reading", "error"}
    BY <1>4 DEF Resume, EndReading, In
  <2>2. CASE \E text : Read(s, text) /\ UNCHANGED <<pending, taken, future>>
    <3>1. stream'[s].stage = "reading" /\ \A t \in Stream \ {s} : stream'[t] = stream[t]
      BY <1>1, <2>2 DEF Read, StreamState
    <3>2. pending # s
      BY <1>1, <2>1 DEF HopeInv, In
    <3> QED
      BY <2>1, <2>2, <3>1, <3>2, HopeMoves DEF Handover, Decided
  <2>3. CASE Deregister(s, stream[s].count) /\ (End(s, "failed") \/ End(s, "done"))
    BY <2>1, <2>3, DepartsWithHope
  <2> QED
    BY <1>4, <2>2, <2>3 DEF Resume, EndReading
<1>5. ASSUME NEW s \in Stream, LeaveReading(s) \/ LeaveError(s) \/ LeaveProducing(s)
      PROVE  HopeInv'
  <2>1. stream[s].stage \in {"reading", "error", "producing"}
    BY <1>5 DEF LeaveReading, LeaveError, LeaveProducing, In
  <2>2. CASE \E text : Deregister(s, text) /\ End(s, "left")
    BY <2>1, <2>2, DepartsWithHope
  <2>3. CASE End(s, "broken") /\ UNCHANGED <<pending, future, taken>>
    BY <2>1, <2>3, BreaksWithHope DEF Decided
  <2> QED
    BY <1>5, <2>2, <2>3 DEF LeaveReading, LeaveError, LeaveProducing, KeepAndDeregister
<1>6. ASSUME NEW s \in Stream, LeaveWaiting(s)
      PROVE  HopeInv'
  <2>1. /\ stream[s].stage = "waiting" /\ pending' = None
        /\ taken' = IF pending = None THEN taken ELSE taken \cup {pending}
        /\ End(s, "left")
    BY <1>6 DEF LeaveWaiting, In
  <2>2. Kept
    BY <1>1, <1>6 DEF LeaveWaiting, Decided
  <2>3. Handover /\ taken \subseteq taken'
    BY <2>1 DEF Handover
  <2> QED
    BY <1>1, <2>1, <2>2, <2>3, StageBecomes, HopeMoves
<1>7. CASE Expire \/ UNCHANGED vars
  <2>1. UNCHANGED <<pending, stream, future, taken>>
    BY <1>7 DEF Expire, vars
  <2> QED
    BY <2>1 DEF HopeInv, In, Decided, On, Stranded, Waiting
<1> QED
  BY <1>2, <1>3, <1>4, <1>5, <1>6, <1>7, OpenHopes DEF Next, Step, Leave

\* The producer somebody waits for is at work until his future is decided.
LEMMA AheadIs ==
  ASSUME StreamInv, HopeInv, NEW w \in Stream, In(w, "waiting"), ~Stranded(w)
  PROVE  /\ On(w) \in Stream /\ Ahead(w) \in Nat
         /\ Decided(On(w)) <=> Ahead(w) = 0
         /\ ~Decided(On(w)) =>
              /\ On(w) = pending /\ stream[On(w)].stage = "producing"
              /\ future[On(w)].state = "open"
              /\ Ahead(w) = Whole + 1 - stream[On(w)].count
<1> DEFINE p == On(w)
<1>1. p \in Stream /\ stream[p].count \in 0 .. Whole /\ future[p].state \in FutureState
  BY StreamTypes DEF On, StreamInv, FuturesSound
<1>2. ~Decided(p) => p = pending /\ stream[p].stage = "producing"
  BY <1>1, TextsAreNumbers, StrandedBehind DEF HopeInv, In, On
<1>3. stream[p].stage = "producing" => future[p].state # "none"
  BY <1>1 DEF StreamInv, FuturesSound, In
<1>4. Ahead(w) = IF Decided(p) THEN 0 ELSE Whole + 1 - stream[p].count
  BY DEF Ahead
<1>5. ~Decided(p) => future[p].state = "open"
  BY <1>1, <1>2, <1>3 DEF Decided, FutureState
<1> HIDE DEF p
<1>6. Ahead(w) \in Nat /\ (Decided(p) <=> Ahead(w) = 0)
  BY <1>1, <1>4, TextsAreNumbers
<1> QED
  BY <1>1, <1>2, <1>4, <1>5, <1>6 DEF p

\* What no step does to the others, nor to those who remain as they are.
LEMMA OthersRemain ==
  ASSUME StreamInv, HopeInv, [Next]_vars, NEW t \in Stream
  PROVE  /\ taken \subseteq taken'
         /\ Decided(t) => future'[t].state \in {"resolved", "cancelled"}
         /\ stream[t].stage = "broken" => stream'[t] = stream[t]
         /\ stream[t].stage = "waiting" /\ stream'[t].stage = "waiting" => stream'[t] = stream[t]
         /\ stream[t].stage = "producing" =>
              stream'[t] = stream[t] \/ Chunk(t) \/ Complete(t) \/ LeaveProducing(t)
<1>1. /\ stream \in [Stream -> StreamState]
      /\ future \in [Stream -> [state : FutureState, text : Text]]
  BY DEF StreamInv, TypeOK
<1>2. ASSUME NEW s \in Stream, Open(s) \/ CacheFails(s)
      PROVE  /\ stream[s].stage = "idle" /\ taken \subseteq taken'
             /\ \A r \in Stream \ {s} : stream'[r] = stream[r] /\ future'[r] = future[r]
             /\ stream'[s].stage # "idle" /\ future[s].state = "none"
  <2>1. stream[s].stage = "idle" /\ future[s].state = "none"
    BY <1>2 DEF Open, CacheFails, IsNext, In, StreamInv, FuturesSound
  <2>2. CASE CacheFails(s)
    BY <1>1, <2>1, <2>2 DEF CacheFails, StreamState
  <2>3. CASE Open(s)
    <3>1. CASE \E text : Read(s, text) /\ UNCHANGED future
      BY <1>1, <2>1, <2>3, <3>1 DEF Read, StreamState, Open
    <3>2. CASE Produce(s)
      BY <1>1, <2>1, <2>3, <3>2 DEF Produce, StreamState, Open
    <3>3. CASE /\ \/ stream' = [stream EXCEPT ![s].stage = "waiting", ![s].on = pending]
                  \/ stream' = [stream EXCEPT ![s].stage = "failed", ![s].on = pending]
               /\ UNCHANGED future
      BY <1>1, <2>1, <2>3, <3>3 DEF StreamState, Open
    <3> QED
      BY <2>3, <3>1, <3>2, <3>3 DEF Open, Join
  <2> QED
    BY <1>2, <2>2, <2>3
<1>3. ASSUME NEW s \in Stream, Chunk(s) \/ ReadChunk(s)
      PROVE  /\ taken \subseteq taken' /\ future' = future
             /\ stream[s].stage \in {"producing", "reading"}
             /\ \A r \in Stream \ {s} : stream'[r] = stream[r]
  BY <1>1, <1>3 DEF Chunk, ReadChunk, In
<1>4. ASSUME NEW s \in Stream, NEW text, Deregister(s, text)
      PROVE  /\ taken \subseteq taken'
             /\ \A r \in Stream : Decided(r) => future'[r].state \in {"resolved", "cancelled"}
  BY <1>1, <1>4 DEF Deregister, Decided
<1>5. ASSUME NEW s \in Stream, Complete(s) \/ Resume(s) \/ EndReading(s) \/ Leave(s)
      PROVE  /\ taken \subseteq taken'
             /\ \A r \in Stream : Decided(r) => future'[r].state \in {"resolved", "cancelled"}
             /\ \A r \in Stream \ {s} : stream'[r] = stream[r]
             /\ stream[s].stage \in {"producing", "waiting", "reading", "error"}
             /\ stream[s].stage = "producing" => Complete(s) \/ LeaveProducing(s)
             /\ stream'[s].stage # "waiting"
  <2>1. stream[s].stage \in {"producing", "waiting", "reading", "error"}
    BY <1>5 DEF Complete, Resume, EndReading, Leave, LeaveReading, LeaveError, LeaveWaiting,
                LeaveProducing, In
  <2>2. stream[s].stage = "producing" => Complete(s) \/ LeaveProducing(s)
    BY <1>5 DEF Resume, EndReading, Leave, LeaveReading, LeaveError, LeaveWaiting, In
  <2>3. /\ stream'[s].stage # "waiting"
        /\ \A r \in Stream \ {s} : stream'[r] = stream[r]
    <3>1. CASE \E stage \in {"done", "left", "failed", "broken"} : End(s, stage)
      BY <3>1, StageBecomes
    <3>2. CASE \E text : Read(s, text)
      BY <1>1, <3>2 DEF Read, StreamState
    <3> QED
      BY <1>5, <3>1, <3>2
         DEF Complete, Resume, EndReading, Leave, LeaveReading, LeaveError, LeaveWaiting,
             LeaveProducing, KeepAndDeregister
  <2>4. /\ taken \subseteq taken'
        /\ \A r \in Stream : Decided(r) => future'[r].state \in {"resolved", "cancelled"}
    <3>1. CASE \E text : Deregister(s, text)
      BY <1>4, <3>1
    <3>2. CASE UNCHANGED <<future, taken>>
      BY <3>2 DEF Decided
    <3>3. CASE Complete(s) \/ LeaveWaiting(s)
      BY <1>1, <3>3 DEF Complete, LeaveWaiting, Decided
    <3> QED
      BY <1>5, <3>1, <3>2, <3>3
         DEF Resume, EndReading, Leave, LeaveReading, LeaveError, LeaveProducing,
             KeepAndDeregister
  <2> QED
    BY <2>1, <2>2, <2>3, <2>4
<1>6. CASE Expire \/ UNCHANGED vars
  BY <1>6 DEF Expire, vars, Decided
<1>7. CASE \E s \in Stream : Open(s) \/ CacheFails(s)
  BY <1>2, <1>7 DEF Decided
<1>8. CASE \E s \in Stream : Chunk(s) \/ ReadChunk(s)
  <2>1. PICK s \in Stream : Chunk(s) \/ ReadChunk(s)
    BY <1>8
  <2>2. stream[s].stage = "producing" => Chunk(s)
    BY <2>1 DEF ReadChunk, In
  <2> QED
    BY <1>3, <2>1, <2>2 DEF Decided
<1>9. CASE \E s \in Stream : Complete(s) \/ Resume(s) \/ EndReading(s) \/ Leave(s)
  BY <1>5, <1>9
<1> QED
  BY <1>6, <1>7, <1>8, <1>9 DEF Next, Step

LEMMA AheadStep ==
  ASSUME StreamInv, HopeInv, [Next]_vars,
         NEW w \in Stream, In(w, "waiting"), In(w, "waiting")', ~Stranded(w)'
  PROVE  /\ Ahead(w)' <= Ahead(w)
         /\ Step(On(w)) /\ Ahead(w) > 0 => Ahead(w)' < Ahead(w)
<1> DEFINE p == On(w)
<1>1. /\ stream \in [Stream -> StreamState]
      /\ future \in [Stream -> [state : FutureState, text : Text]]
      /\ stream'[w] = stream[w] /\ stream[w].stage = "waiting" /\ p \in Stream
  BY OthersRemain DEF StreamInv, TypeOK, In, FuturesSound, On
<1>2. ~Stranded(w) /\ stream'[p].stage # "broken"
  <2>1. On(w)' = p
    BY <1>1 DEF On
  <2>2. p \notin taken' /\ stream'[p].stage # "broken"
    BY <1>1, <2>1 DEF Stranded, Waiting, On, In
  <2>3. p \notin taken /\ stream[p].stage # "broken" /\ stream'[p].stage # "broken"
    BY <1>1, <2>2, OthersRemain
  <2> QED
    BY <1>1, <2>3, StrandedBehind DEF On
<1>3. Ahead(w)' = IF future'[p].state \in {"resolved", "cancelled"}
                  THEN 0 ELSE Whole + 1 - stream'[p].count
  BY <1>1 DEF Ahead, Decided, On, Whole
<1>4. /\ Ahead(w) \in Nat /\ (Decided(p) <=> Ahead(w) = 0)
      /\ ~Decided(p) =>
           /\ p = pending /\ stream[p].stage = "producing" /\ future[p].state = "open"
           /\ Ahead(w) = Whole + 1 - stream[p].count
      /\ stream[p].count \in Nat /\ Whole \in Nat
  <2>1. stream[p].count \in 0 .. Whole /\ Whole \in Nat
    BY <1>1, StreamTypes, TextsAreNumbers
  <2>2. stream[p].count \in Nat
    BY <2>1
  <2> QED
    BY <1>2, <2>1, <2>2, AheadIs
<1> HIDE DEF p
<1>5. CASE Decided(p)
  BY <1>1, <1>3, <1>4, <1>5, OthersRemain DEF p
<1>6. CASE ~Decided(p) /\ Chunk(p)
  <2>1. stream'[p].count = stream[p].count + 1
    BY <1>1, <1>6 DEF Chunk, StreamState
  <2> QED
    BY <1>3, <1>4, <1>6, <2>1 DEF p
<1>7. CASE ~Decided(p) /\ Complete(p)
  <2>1. future'[p].state = "resolved"
    BY <1>1, <1>4, <1>7 DEF Complete
  <2> QED
    BY <1>3, <1>4, <1>7, <2>1
<1>8. CASE ~Decided(p) /\ LeaveProducing(p)
  <2>1. ~End(p, "broken")
    BY <1>1, <1>2, StageBecomes
  <2>2. PICK text : Deregister(p, text)
    BY <1>8, <2>1 DEF LeaveProducing, KeepAndDeregister
  <2>3. pending # None
    BY <1>1, <1>4, <1>8, TextsAreNumbers
  <2>4. future'[p].state = "resolved"
    BY <1>1, <1>4, <1>8, <2>2, <2>3 DEF Deregister
  <2> QED
    BY <1>3, <1>4, <1>8, <2>4
<1>9. CASE ~Decided(p) /\ stream'[p] = stream[p]
  <2>1. ~Step(p)
    <3>1. stream[p].stage = "producing"
      BY <1>4, <1>9
    <3>2. ~Resume(p) /\ ~ReadChunk(p) /\ ~EndReading(p)
      BY <3>1 DEF Resume, ReadChunk, EndReading, In
    <3>3. ~Chunk(p)
      <4>1. Chunk(p) => stream'[p].count = stream[p].count + 1
        BY <1>1 DEF Chunk, StreamState
      <4> QED
        BY <1>4, <1>9, <4>1
    <3>4. ~Complete(p)
      <4>1. Complete(p) => End(p, "done") \/ End(p, "broken")
        BY DEF Complete
      <4> QED
        BY <1>1, <1>9, <3>1, <4>1, StageBecomes
    <3> QED
      BY <3>2, <3>3, <3>4 DEF Step
  <2> QED
    BY <1>3, <1>4, <1>9, <2>1 DEF p
<1> QED
  BY <1>1, <1>4, <1>5, <1>6, <1>7, <1>8, <1>9, OthersRemain

\* Whoever waits for a stream, but for those WaitersAreServed excepts, waits for
\* one who is at work, or has his answer already.  Nothing adds to what the
\* producer has yet to do (Ahead), which is no more than the chunks of the text,
\* and each step he takes makes it less.  With an event loop that runs the
\* generators that can go on, this is WaitersAreServed.
THEOREM WaitersAreHeard ==
  Spec => /\ [](\A w \in Stream : In(w, "waiting") /\ ~Stranded(w) =>
                  /\ Ahead(w) \in 0 .. Whole + 1
                  /\ Ahead(w) > 0 => In(On(w), "producing")
                  /\ Ahead(w) = 0 => Decided(On(w)))
          /\ [][\A w \in Stream : In(w, "waiting") /\ In(w, "waiting")' /\ ~Stranded(w)' =>
                  /\ Ahead(w)' <= Ahead(w)
                  /\ Step(On(w)) /\ Ahead(w) > 0 => Ahead(w)' < Ahead(w)]_vars
<1>1. Init => HopeInv
  BY DEF Init, HopeInv, In
<1>2. StreamInv /\ HopeInv /\ [Next]_vars => HopeInv'
  BY HopeStep
<1>3. StreamInv /\ HopeInv =>
        \A w \in Stream : In(w, "waiting") /\ ~Stranded(w) =>
          /\ Ahead(w) \in 0 .. Whole + 1
          /\ Ahead(w) > 0 => In(On(w), "producing")
          /\ Ahead(w) = 0 => Decided(On(w))
  <2> SUFFICES ASSUME StreamInv, HopeInv, NEW w \in Stream, In(w, "waiting"), ~Stranded(w)
               PROVE  /\ Ahead(w) \in 0 .. Whole + 1
                      /\ Ahead(w) > 0 => In(On(w), "producing")
                      /\ Ahead(w) = 0 => Decided(On(w))
    OBVIOUS
  <2>1. On(w) \in Stream /\ stream[On(w)].count \in 0 .. Whole
    BY AheadIs, StreamTypes
  <2> QED
    BY <2>1, AheadIs, TextsAreNumbers DEF In
<1>4. StreamInv /\ HopeInv /\ [Next]_vars =>
        [\A w \in Stream : In(w, "waiting") /\ In(w, "waiting")' /\ ~Stranded(w)' =>
           /\ Ahead(w)' <= Ahead(w)
           /\ Step(On(w)) /\ Ahead(w) > 0 => Ahead(w)' < Ahead(w)]_vars
  BY AheadStep
<1> QED
  BY <1>1, <1>2, <1>3, <1>4, StreamInvariant, PTL DEF Spec

-----------------------------------------------------------------------------
(* The quotes                                                              *)

News == {"crypto news", "finance news", "symbol news"}

Elements(list) == {list[i] : i \in 1 .. Len(list)}

\* Why a request has nothing to show.
Exhausted(q, plan, kind) ==
  \/ Elements(plan.chain) \subseteq q.lost
  \/ /\ kind \in Headline \cup Series /\ q.unfit
     /\ Elements(plan.chain) \subseteq q.lost \cup Elements(q.todo)
  \/ kind \in News /\ q.lost = {}

\* A request q of a service at the time t.  While it asks, each provider of the
\* chain has let it down or is still to be asked.
Sound(q, plan, kind, t) ==
  /\ q \in RequestState(t)
  /\ q.at \in {"idle", "lookup"} => q.lost = {} /\ q.found = Unset
  /\ q.at = "asking" =>
       q.found = Unset /\ Elements(plan.chain) \subseteq q.lost \cup Elements(q.todo)
  /\ q.at = "storing" =>
       plan.cached /\ q.found # Unset /\ (q.found = Nothing => kind \in News)
  /\ q.at \in {"stats", "binance"} => kind = "crypto"
  /\ q.age <= Ttl
  /\ q.found = Nothing => Exhausted(q, plan, kind)

\* An entry of the cache at the time t.
SoundEntry(e, kind, t) ==
  e # Unset => /\ e.kept \in 0..t /\ e.value \in 0..e.kept \cup {Nothing}
               /\ e.value = Nothing => kind \in News

StoreSound ==
  /\ service \in Services /\ apis \in {ForexOrder, PairOrder}
  /\ redis \in {"absent", "up", "down"} /\ now \in Nat
  /\ SoundEntry(remote, service, now) /\ SoundEntry(memory, service, now)
  /\ remote # Unset => now - remote.kept <= Ttl
  /\ stats # Unset => service = "crypto" /\ stats \in 0..now
  /\ ~Plan.cached => remote = Unset /\ memory = Unset

QuotesInv ==
  /\ StoreSound
  /\ req \in [Request -> RequestState(now)]
  /\ \A r \in Request : Sound(req[r], Plan, service, now)

LEMMA Providers ==
  {"CoinGecko", "Binance", "CoinMarketCap", "TwelveData", "AlphaVantage", "Yahoo",
   "CryptoPanic", "Finfeed", "NewsAPI", "Mediastack", "GoogleNews"} \subseteq Provider
BY DEF Provider, Keyed

LEMMA ChainOfNone == <<>> \in Seq(Provider) /\ Len(<<>>) = 0 /\ Elements(<<>>) = {}
BY DEF Elements

LEMMA ChainOfOne ==
  ASSUME NEW p \in Provider
  PROVE  <<p>> \in Seq(Provider) /\ Elements(<<p>>) = {p}
<1> DEFINE s == <<p>>
<1>1. s \in Seq(Provider) /\ Len(s) = 1 /\ s[1] = p
  OBVIOUS
<1> HIDE DEF s
<1>2. 1 .. 1 = {1}
  OBVIOUS
<1>3. Elements(s) = {p}
  BY <1>1, <1>2 DEF Elements
<1> QED
  BY <1>1, <1>3 DEF s

LEMMA ChainsJoined ==
  ASSUME NEW s \in Seq(Provider), NEW t \in Seq(Provider)
  PROVE  s \o t \in Seq(Provider) /\ Elements(s \o t) = Elements(s) \cup Elements(t)
<1> DEFINE u == s \o t
<1>1. /\ Len(s) \in Nat /\ Len(t) \in Nat /\ u \in Seq(Provider) /\ Len(u) = Len(s) + Len(t)
      /\ \A i \in 1 .. Len(s) + Len(t) :
           u[i] = IF i <= Len(s) THEN s[i] ELSE t[i - Len(s)]
  OBVIOUS
<1> HIDE DEF u
<1>2. ASSUME NEW i \in 1 .. Len(u) PROVE u[i] \in Elements(s) \cup Elements(t)
  <2>1. CASE i <= Len(s)
    BY <1>1, <2>1 DEF Elements
  <2>2. CASE ~(i <= Len(s))
    <3>1. i - Len(s) \in 1 .. Len(t)
      BY <1>1, <2>2
    <3> QED
      BY <1>1, <2>2, <3>1 DEF Elements
  <2> QED
    BY <2>1, <2>2
<1>3. ASSUME NEW i \in 1 .. Len(s) PROVE s[i] \in Elements(u)
  <2>1. i \in 1 .. Len(u) /\ u[i] = s[i]
    BY <1>1
  <2> QED
    BY <2>1 DEF Elements
<1>4. ASSUME NEW i \in 1 .. Len(t) PROVE t[i] \in Elements(u)
  <2>1. i + Len(s) \in 1 .. Len(u) /\ ~(i + Len(s) <= Len(s)) /\ i + Len(s) - Len(s) = i
    BY <1>1
  <2>2. u[i + Len(s)] = t[i]
    BY <1>1, <2>1
  <2> QED
    BY <2>1, <2>2 DEF Elements
<1>5. Elements(u) = Elements(s) \cup Elements(t)
  BY <1>2, <1>3, <1>4 DEF Elements
<1> QED
  BY <1>1, <1>5 DEF u

LEMMA ChainGoesOn ==
  ASSUME NEW s \in Seq(Provider), s # <<>>
  PROVE  /\ Head(s) \in Provider /\ Tail(s) \in Seq(Provider)
         /\ Len(s) \in Nat /\ Len(Tail(s)) = Len(s) - 1
         /\ Elements(s) \subseteq {Head(s)} \cup Elements(Tail(s))
<1>1. /\ Len(s) \in Nat /\ Len(s) >= 1 /\ Head(s) = s[1] /\ Head(s) \in Provider
      /\ Tail(s) \in Seq(Provider) /\ Len(Tail(s)) = Len(s) - 1
      /\ \A i \in 1 .. Len(s) - 1 : Tail(s)[i] = s[i + 1]
  OBVIOUS
<1>2. ASSUME NEW i \in 1 .. Len(s), i # 1 PROVE s[i] \in Elements(Tail(s))
  <2>1. i - 1 \in 1 .. Len(s) - 1 /\ i - 1 + 1 = i
    BY <1>1, <1>2
  <2>2. Tail(s)[i - 1] = s[i] /\ i - 1 \in 1 .. Len(Tail(s))
    BY <1>1, <2>1
  <2> QED
    BY <2>2 DEF Elements
<1> QED
  BY <1>1, <1>2 DEF Elements

LEMMA ConfiguredChain ==
  ASSUME NEW p \in Provider
  PROVE  /\ Configured(p) \in Seq(Provider)
         /\ Elements(Configured(p)) = IF Usable(p) THEN {p} ELSE {}
BY ChainOfNone, ChainOfOne DEF Configured

\* The forex providers, in whichever order.
LEMMA ForexChain ==
  ASSUME apis \in {ForexOrder, PairOrder}
  PROVE  /\ Forex.chain \in Seq(Provider)
         /\ Elements(Forex.chain) = {p \in {"TwelveData", "AlphaVantage", "Yahoo"} : Usable(p)}
<1>1. /\ apis[1] \in Provider /\ apis[2] \in Provider /\ apis[3] \in Provider
      /\ {apis[1], apis[2], apis[3]} = {"TwelveData", "AlphaVantage", "Yahoo"}
  <2>1. CASE apis = ForexOrder
    <3>1. apis[1] = "TwelveData" /\ apis[2] = "AlphaVantage" /\ apis[3] = "Yahoo"
      BY <2>1 DEF ForexOrder
    <3> QED
      BY <3>1, Providers
  <2>2. CASE apis = PairOrder
    <3>1. apis[1] = "TwelveData" /\ apis[2] = "Yahoo" /\ apis[3] = "AlphaVantage"
      BY <2>2 DEF PairOrder
    <3> QED
      BY <3>1, Providers
  <2> QED
    BY <2>1, <2>2
<1> DEFINE c == Configured(apis[1]) \o Configured(apis[2])
<1>2. /\ c \in Seq(Provider)
      /\ Elements(c) = Elements(Configured(apis[1])) \cup Elements(Configured(apis[2]))
  BY <1>1, ConfiguredChain, ChainsJoined
<1> HIDE DEF c
<1>3. /\ c \o Configured(apis[3]) \in Seq(Provider)
      /\ Elements(c \o Configured(apis[3])) = Elements(c) \cup Elements(Configured(apis[3]))
  BY <1>1, <1>2, ConfiguredChain, ChainsJoined
<1>4. Forex.chain = c \o Configured(apis[3])
  BY DEF Forex, c
<1>5. ASSUME NEW p
      PROVE  p \in Elements(Forex.chain) <=>
               p \in {"TwelveData", "AlphaVantage", "Yahoo"} /\ Usable(p)
  <2>1. p \in Elements(Forex.chain) <=>
          \/ p \in Elements(Configured(apis[1])) \/ p \in Elements(Configured(apis[2]))
          \/ p \in Elements(Configured(apis[3]))
    BY <1>2, <1>3, <1>4
  <2>2. /\ p \in Elements(Configured(apis[1])) <=> p = apis[1] /\ Usable(p)
        /\ p \in Elements(Configured(apis[2])) <=> p = apis[2] /\ Usable(p)
        /\ p \in Elements(Configured(apis[3])) <=> p = apis[3] /\ Usable(p)
    <3>1. ASSUME NEW a \in Provider
          PROVE  p \in Elements(Configured(a)) <=> p = a /\ Usable(p)
      <4>1. Elements(Configured(a)) = IF Usable(a) THEN {a} ELSE {}
        BY ConfiguredChain
      <4>2. CASE p = a
        BY <4>1, <4>2
      <4>3. CASE p # a
        BY <4>1, <4>3
      <4> QED
        BY <4>2, <4>3
    <3> QED
      BY <1>1, <3>1
  <2>3. p \in {"TwelveData", "AlphaVantage", "Yahoo"} <=>
          p = apis[1] \/ p = apis[2] \/ p = apis[3]
    BY <1>1
  <2> QED
    BY <2>1, <2>2, <2>3
<1> QED
  BY <1>1, <1>3, <1>4, <1>5

LEMMA TwoConfigured ==
  ASSUME NEW p \in Provider, NEW q \in Provider
  PROVE  Configured(p) \o Configured(q) \in Seq(Provider)
BY ConfiguredChain, ChainsJoined

LEMMA ThreeConfigured ==
  ASSUME NEW p \in Provider, NEW q \in Provider, NEW w \in Provider
  PROVE  Configured(p) \o Configured(q) \o Configured(w) \in Seq(Provider)
<1> DEFINE c == Configured(p) \o Configured(q)
<1>1. c \in Seq(Provider)
  BY TwoConfigured
<1> HIDE DEF c
<1>2. c \o Configured(w) \in Seq(Provider)
  BY <1>1, ConfiguredChain, ChainsJoined
<1> QED
  BY <1>2 DEF c

\* Each service has a chain of providers, and the news services keep nothings.
LEMMA PlanFacts ==
  ASSUME service \in Services, apis \in {ForexOrder, PairOrder}
  PROVE  /\ Plan.chain \in Seq(Provider) /\ Len(Plan.chain) \in Nat
         /\ Plan.keepsNothing => service \in News
         /\ service \in News \cup {"crypto"} => Plan.cached
<1>1. service \in Service
  BY ServicesAreKnown
<1>2. CASE service = "crypto"
  <2>1. Plan = Crypto
    BY <1>2 DEF Plan
  <2>2. Crypto.chain \in Seq(Provider) /\ ~Crypto.keepsNothing /\ Crypto.cached
    BY Providers DEF Crypto
  <2> QED
    BY <2>1, <2>2
<1>3. CASE service = "stock"
  <2>1. Plan = Stock
    BY <1>3 DEF Plan
  <2>2. Stock.chain \in Seq(Provider) /\ ~Stock.keepsNothing /\ Stock.cached
    BY Providers, ThreeConfigured DEF Stock
  <2> QED
    BY <2>1, <2>2
<1>4. CASE service = "forex"
  <2>1. Plan = Forex
    BY <1>4 DEF Plan
  <2>2. Forex.chain \in Seq(Provider) /\ ~Forex.keepsNothing /\ Forex.cached
    BY ForexChain DEF Forex
  <2> QED
    BY <2>1, <2>2
<1>5. CASE service \in {"crypto news", "finance news"}
  <2>1. Plan = Headlines("CryptoPanic") \/ Plan = Headlines("Finfeed")
    BY <1>5 DEF Plan
  <2>2. ASSUME NEW p \in Provider
        PROVE  Headlines(p).chain \in Seq(Provider) /\ Headlines(p).cached
    BY Providers, TwoConfigured DEF Headlines
  <2>3. service \in News
    BY <1>5 DEF News
  <2> QED
    BY <2>1, <2>2, <2>3, Providers
<1>6. CASE service = "symbol news"
  <2>1. Plan = SymbolNews
    BY <1>6 DEF Plan
  <2>2. SymbolNews.chain \in Seq(Provider) /\ SymbolNews.cached
    BY Providers, ThreeConfigured DEF SymbolNews
  <2>3. service \in News
    BY <1>6 DEF News
  <2> QED
    BY <2>1, <2>2, <2>3
<1>7. CASE service \in {"candles", "crypto candles", "stock candles", "odd candles"}
  <2>1. \E mode, pair : Plan = Candles(mode, pair)
    BY <1>7 DEF Plan
  <2>2. ASSUME NEW mode, NEW pair
        PROVE  Candles(mode, pair).chain \in Seq(Provider) /\ ~Candles(mode, pair).keepsNothing
    <3> DEFINE first == IF mode # "stock" /\ pair THEN <<"Binance">> ELSE <<>>
               second == IF mode # "crypto" THEN <<"Yahoo">> ELSE <<>>
    <3>1. first \in Seq(Provider) /\ second \in Seq(Provider)
      BY ChainOfNone, ChainOfOne, Providers
    <3>2. /\ Candles(mode, pair).chain = first \o second
          /\ Candles(mode, pair).keepsNothing = FALSE
      BY DEF Candles
    <3> HIDE DEF first, second
    <3> QED
      BY <3>1, <3>2, ChainsJoined
  <2>3. service \notin News \cup {"crypto"}
    BY <1>7 DEF News
  <2> QED
    BY <2>1, <2>2, <2>3
<1>8. CASE service = "chart"
  <2>1. Plan = Chart
    BY <1>8 DEF Plan
  <2>2. Chart.chain \in Seq(Provider) /\ ~Chart.keepsNothing /\ Chart.cached
    BY Providers DEF Chart
  <2> QED
    BY <2>1, <2>2
<1>9. CASE service \in {"stock series", "forex series"}
  <2>1. Plan = StockSeries
    BY <1>9 DEF Plan, StockSeries, ForexSeries
  <2>2. StockSeries.chain \in Seq(Provider) /\ ~StockSeries.keepsNothing
    BY Providers, TwoConfigured DEF StockSeries
  <2>3. service \notin News \cup {"crypto"}
    BY <1>9 DEF News
  <2> QED
    BY <2>1, <2>2, <2>3
<1>10. CASE service = "crypto series"
  <2>1. Plan = CryptoSeries
    BY <1>10 DEF Plan
  <2>2. CryptoSeries.chain \in Seq(Provider) /\ ~CryptoSeries.keepsNothing
    BY Providers DEF CryptoSeries
  <2>3. service \notin News \cup {"crypto"}
    BY <1>10 DEF News
  <2> QED
    BY <2>1, <2>2, <2>3
<1>11. Plan.chain \in Seq(Provider) => Len(Plan.chain) \in Nat
  OBVIOUS
<1> HIDE DEF Plan
<1> QED
  BY <1>1, <1>2, <1>3, <1>4, <1>5, <1>6, <1>7, <1>8, <1>9, <1>10, <1>11 DEF Service

\* While its keys and its kind last, a service keeps its providers, though the
\* order of the forex ones may change.
LEMMA PlanLasts ==
  ASSUME service \in Services, apis \in {ForexOrder, PairOrder},
         apis' \in {ForexOrder, PairOrder}, UNCHANGED fixed
  PROVE  Elements(Plan'.chain) = Elements(Plan.chain) /\ Plan'.cached = Plan.cached
<1>1. service' = service /\ keys' = keys
  BY DEF fixed
<1>2. CASE service = "forex"
  <2>1. Plan = Forex /\ Plan' = Forex'
    BY <1>1, <1>2 DEF Plan
  <2>2. (apis \in {ForexOrder, PairOrder} =>
           Elements(Forex.chain) = {p \in {"TwelveData", "AlphaVantage", "Yahoo"} : Usable(p)})'
    BY ForexChain, PTL
  <2>3. \A p : Usable(p)' <=> Usable(p)
    BY <1>1 DEF Usable
  <2>4. Elements(Forex.chain) = {p \in {"TwelveData", "AlphaVantage", "Yahoo"} : Usable(p)}
    BY ForexChain
  <2> QED
    BY <2>1, <2>2, <2>3, <2>4 DEF Forex
<1>3. CASE service # "forex"
  <2>1. Plan' = Plan
    BY <1>1, <1>3, ServicesAreKnown
       DEF Plan, Service, Crypto, Stock, Headlines, SymbolNews, Candles, Chart,
           StockSeries, ForexSeries, CryptoSeries, Configured, Usable
  <2> QED
    BY <2>1
<1> QED
  BY <1>2, <1>3

\* Only the headlines and the series may be of no use.
LEMMA UnfitOutcome ==
  ASSUME NEW p, "unfit" \in Outcomes(p)
  PROVE  service \in Headline \cup Series
BY DEF Outcomes, CryptoOutcomes, StockOutcomes, ForexOutcomes, NewsOutcomes, CandleOutcomes

LEMMA QuotesFacts ==
  ASSUME QuotesInv
  PROVE  /\ QuotesTypeOK /\ AgeBounded /\ NothingIsExhaustive
         /\ Plan.chain \in Seq(Provider) /\ Len(Plan.chain) \in Nat
         /\ Plan.keepsNothing => service \in News
         /\ service \in News \cup {"crypto"} => Plan.cached
<1>1. /\ Plan.chain \in Seq(Provider) /\ Len(Plan.chain) \in Nat
      /\ Plan.keepsNothing => service \in News
      /\ service \in News \cup {"crypto"} => Plan.cached
  BY PlanFacts DEF QuotesInv, StoreSound
<1>2. QuotesTypeOK
  BY DEF QuotesInv, StoreSound, SoundEntry, Sound, QuotesTypeOK
<1>3. AgeBounded
  BY DEF QuotesInv, Sound, AgeBounded
<1>4. NothingIsExhaustive
  <2>1. ASSUME NEW r \in Request, req[r].found = Nothing,
               Elements(Plan.chain) \subseteq req[r].lost
        PROVE  \A i \in DOMAIN Plan.chain : Plan.chain[i] \in req[r].lost
    BY <1>1, <2>1 DEF Elements
  <2>2. ASSUME NEW r \in Request, req[r].found = Nothing
        PROVE  Exhausted(req[r], Plan, service)
    BY <2>2 DEF QuotesInv, Sound
  <2>3. ASSUME NEW r \in Request,
               Elements(Plan.chain) \subseteq req[r].lost \cup Elements(req[r].todo)
        PROVE  \A i \in DOMAIN Plan.chain : Plan.chain[i] \in req[r].lost \cup StillToAsk(r)
    <3>1. req[r].todo \in Seq(Provider)
      BY DEF QuotesInv, RequestState
    <3> QED
      BY <1>1, <2>3, <3>1 DEF Elements, StillToAsk
  <2> HIDE DEF Plan
  <2> QED
    BY <2>1, <2>2, <2>3 DEF NothingIsExhaustive, Exhausted, News, Headline
<1> QED
  BY <1>1, <1>2, <1>3, <1>4

\* Time passes, the forex providers change places: nothing of it disturbs a
\* request that does not move.
LEMMA StillSound ==
  ASSUME StoreSound, NEW q, Sound(q, Plan, service, now), UNCHANGED fixed,
         apis' \in {ForexOrder, PairOrder}, now' \in Nat, now <= now'
  PROVE  Sound(q, Plan', service', now')
<1>1. Elements(Plan'.chain) = Elements(Plan.chain) /\ Plan'.cached = Plan.cached
  BY PlanLasts DEF StoreSound
<1>2. service' = service /\ now \in Nat
  BY DEF fixed, StoreSound
<1>3. q \in RequestState(now')
  BY <1>2 DEF Sound, RequestState
<1> HIDE DEF Plan
<1> QED
  BY <1>1, <1>2, <1>3 DEF Sound, Exhausted

LEMMA EntriesStay ==
  ASSUME NEW e, NEW kind, NEW t \in Nat, NEW u \in Nat, t <= u, SoundEntry(e, kind, t)
  PROVE  SoundEntry(e, kind, u)
BY DEF SoundEntry

\* One request moves and the rest of the system stays sound.
LEMMA OneMoves ==
  ASSUME QuotesInv, StoreSound', UNCHANGED <<fixed, now>>, NEW r \in Request,
         NEW q, Sound(q, Plan, service, now), req' = [req EXCEPT ![r] = q]
  PROVE  QuotesInv'
<1>1. q \in RequestState(now) /\ req \in [Request -> RequestState(now)] /\ now' = now
  BY DEF Sound, QuotesInv
<1>2. req' \in [Request -> RequestState(now')]
  BY <1>1
<1>3. ASSUME NEW s \in Request PROVE Sound(req'[s], Plan', service', now')
  <2>1. Sound(req'[s], Plan, service, now)
    BY <1>1 DEF QuotesInv
  <2>2. now \in Nat /\ now' \in Nat /\ now <= now' /\ apis' \in {ForexOrder, PairOrder}
    BY <1>1 DEF QuotesInv, StoreSound
  <2> HIDE DEF Plan
  <2> QED
    BY <2>1, <2>2, StillSound DEF QuotesInv
<1> QED
  BY <1>2, <1>3 DEF QuotesInv

\* The stores do not care for requests.
LEMMA StoresStay ==
  ASSUME StoreSound, UNCHANGED <<fixed, now, store>>, apis' \in {ForexOrder, PairOrder}
  PROVE  StoreSound'
<1>1. Plan'.cached = Plan.cached
  BY PlanLasts DEF StoreSound
<1> HIDE DEF Plan
<1> QED
  BY <1>1 DEF StoreSound, fixed, store

LEMMA InitQuotes == QuotesInit => QuotesInv
<1> SUFFICES ASSUME QuotesInit PROVE QuotesInv
  OBVIOUS
<1>1. Start \in RequestState(0) /\ Start.at = "idle" /\ Start.lost = {} /\ Start.found = Unset
      /\ Start.age = 0
  BY ChainOfNone, AttemptsAndTimes DEF Start, RequestState
<1>2. Sound(Start, Plan, service, now)
  BY <1>1, NoValueIsATime, AttemptsAndTimes DEF Sound, QuotesInit
<1>3. StoreSound
  BY DEF StoreSound, QuotesInit, SoundEntry
<1> QED
  BY <1>1, <1>2, <1>3 DEF QuotesInit, QuotesInv

LEMMA SubmitQuotes ==
  ASSUME QuotesInv, NEW r \in Request, Submit(r) \/ SubmitPair(r)
  PROVE  QuotesInv'
<1> DEFINE q == [Start EXCEPT !.at = "lookup"]
<1>1. /\ req' = [req EXCEPT ![r] = q] /\ UNCHANGED <<fixed, now, store>>
      /\ apis' \in {ForexOrder, PairOrder}
  BY DEF Submit, SubmitPair, QuotesInv, StoreSound
<1>2. /\ q \in RequestState(now) /\ q.at = "lookup" /\ q.lost = {} /\ q.found = Unset
      /\ q.age = 0
  <2>1. /\ Start \in RequestState(now) /\ Start.lost = {} /\ Start.found = Unset /\ Start.age = 0
    BY ChainOfNone, AttemptsAndTimes DEF Start, RequestState, QuotesInv, StoreSound
  <2> QED
    BY <2>1 DEF RequestState
<1> HIDE DEF q
<1>3. Sound(q, Plan, service, now)
  BY <1>2, NoValueIsATime, AttemptsAndTimes DEF Sound
<1> QED
  BY <1>1, <1>3, OneMoves, StoresStay DEF QuotesInv

LEMMA DoneQuotes ==
  ASSUME QuotesInv, NEW r \in Request, Done(r)
  PROVE  QuotesInv'
<1>1. /\ req' = [req EXCEPT ![r] = Start] /\ UNCHANGED <<fixed, now, store>>
      /\ apis' \in {ForexOrder, PairOrder}
  BY DEF Done, QuotesInv, StoreSound
<1>2. /\ Start \in RequestState(now) /\ Start.at = "idle" /\ Start.lost = {}
      /\ Start.found = Unset /\ Start.age = 0
  BY ChainOfNone, AttemptsAndTimes DEF Start, RequestState, QuotesInv, StoreSound
<1>3. Sound(Start, Plan, service, now)
  BY <1>2, NoValueIsATime, AttemptsAndTimes DEF Sound
<1> QED
  BY <1>1, <1>3, OneMoves, StoresStay DEF QuotesInv

\* What a lookup finds is live.
LEMMA HitQuotes ==
  ASSUME QuotesInv, NEW r \in Request, Hit(r)
  PROVE  QuotesInv'
<1> DEFINE e == Cached
           q == [req[r] EXCEPT !.at = AfterChain, !.found = e.value, !.age = now - e.kept]
<1>1. /\ req[r] \in RequestState(now) /\ req[r].at = "lookup" /\ req[r].lost = {}
      /\ req' = [req EXCEPT ![r] = q] /\ UNCHANGED <<fixed, apis, now, store>>
      /\ apis' \in {ForexOrder, PairOrder} /\ now \in Nat
  BY DEF Hit, QuotesInv, StoreSound, Sound
<1>2. e # Unset /\ now - e.kept <= Ttl /\ SoundEntry(e, service, now)
  BY DEF Hit, Cached, Live, QuotesInv, StoreSound
<1>3. /\ e.kept \in 0..now /\ e.value \in 0..now \cup {Nothing}
      /\ e.value = Nothing => service \in News
  BY <1>1, <1>2 DEF SoundEntry
<1>4. AfterChain \in {"stats", "answered"} /\ (AfterChain = "stats" => service = "crypto")
  BY DEF AfterChain
<1> HIDE DEF e
<1>5. /\ q \in RequestState(now) /\ q.at = AfterChain /\ q.lost = {} /\ q.found = e.value
      /\ q.age = now - e.kept
  <2> DEFINE k == now - e.kept
             v == e.value
             a == AfterChain
  <2>1. k \in Nat /\ v \in 0..now \cup {Nothing} /\ a \in {"stats", "answered"}
    BY <1>1, <1>3, <1>4
  <2>2. q = [req[r] EXCEPT !.at = a, !.found = v, !.age = k]
    OBVIOUS
  <2> HIDE DEF k, v, a, q
  <2>3. /\ q \in RequestState(now) /\ q.at = a /\ q.lost = {} /\ q.found = v /\ q.age = k
    BY <1>1, <2>1, <2>2 DEF RequestState
  <2> QED
    BY <2>3 DEF k, v, a
<1> HIDE DEF q
<1>6. Sound(q, Plan, service, now)
  BY <1>2, <1>3, <1>4, <1>5 DEF Sound, Exhausted
<1> QED
  BY <1>1, <1>6, OneMoves, StoresStay DEF QuotesInv

LEMMA MissQuotes ==
  ASSUME QuotesInv, NEW r \in Request, Miss(r)
  PROVE  QuotesInv'
<1> DEFINE q == [req[r] EXCEPT !.at = "asking", !.todo = Plan.chain]
<1>1. /\ req[r] \in RequestState(now) /\ req[r].at = "lookup" /\ req[r].found = Unset
      /\ req[r].age <= Ttl
      /\ req' = [req EXCEPT ![r] = q] /\ UNCHANGED <<fixed, apis, now>>
      /\ UNCHANGED <<redis, remote, stats>> /\ memory' \in {memory, Unset}
      /\ apis' \in {ForexOrder, PairOrder}
  BY DEF Miss, QuotesInv, StoreSound, Sound
<1>2. Plan.chain \in Seq(Provider)
  BY QuotesFacts
<1> HIDE DEF Plan
<1>3. /\ q \in RequestState(now) /\ q.at = "asking" /\ q.found = Unset
      /\ q.todo = Plan.chain /\ q.age = req[r].age
  BY <1>1, <1>2 DEF RequestState
<1> HIDE DEF q
<1>4. Sound(q, Plan, service, now)
  BY <1>1, <1>3, NoValueIsATime DEF Sound
<1>5. StoreSound'
  <2>1. Plan'.cached = Plan.cached
    BY <1>1, PlanLasts DEF QuotesInv, StoreSound
  <2> QED
    BY <1>1, <2>1 DEF QuotesInv, StoreSound, SoundEntry, fixed
<1> QED
  BY <1>1, <1>4, <1>5, OneMoves

\* A request that asks a provider.
LEMMA AskingFacts ==
  ASSUME QuotesInv, NEW r \in Request, req[r].at = "asking"
  PROVE  /\ req[r] \in RequestState(now) /\ req[r].found = Unset /\ req[r].age <= Ttl
         /\ Elements(Plan.chain) \subseteq req[r].lost \cup Elements(req[r].todo)
         /\ now \in Nat /\ apis \in {ForexOrder, PairOrder} /\ req \in [Request -> RequestState(now)]
BY DEF QuotesInv, Sound, StoreSound

LEMMA AfterChainFacts == AfterChain = IF service = "crypto" THEN "stats" ELSE "answered"
BY DEF AfterChain

LEMMA FoundQuotes ==
  ASSUME QuotesInv, NEW r \in Request, Found(r)
  PROVE  QuotesInv'
<1> DEFINE a == IF Plan.cached THEN "storing" ELSE AfterChain
           q == [req[r] EXCEPT !.found = now, !.at = a]
<1>1. /\ req[r].at = "asking" /\ req' = [req EXCEPT ![r] = q]
      /\ UNCHANGED <<fixed, apis, now, store>>
  BY DEF Found, Asks, QuotesInv
<1>2. /\ a \in {"storing", "stats", "answered"} /\ (a = "storing" => Plan.cached)
      /\ a = "stats" => service = "crypto"
  BY AfterChainFacts
<1> HIDE DEF a, Plan
<1>3. /\ q \in RequestState(now) /\ q.at = a /\ q.found = now /\ q.found \notin {Unset, Nothing}
      /\ q.age = req[r].age
  <2>1. now \in 0..now /\ now \notin {Unset, Nothing} /\ req[r] \in RequestState(now)
    BY <1>1, AskingFacts, NoValueIsATime
  <2> QED
    BY <1>2, <2>1 DEF RequestState
<1> HIDE DEF q
<1>4. Sound(q, Plan, service, now)
  BY <1>1, <1>2, <1>3, AskingFacts, NoValueIsATime DEF Sound
<1> QED
  BY <1>1, <1>4, OneMoves, StoresStay, AskingFacts DEF QuotesInv

LEMMA DiscardQuotes ==
  ASSUME QuotesInv, NEW r \in Request, Discard(r)
  PROVE  QuotesInv'
<1> DEFINE a == IF Plan.cached THEN "storing" ELSE AfterChain
           q == [req[r] EXCEPT !.found = Nothing, !.unfit = TRUE, !.at = a]
<1>1. /\ req[r].at = "asking" /\ req' = [req EXCEPT ![r] = q]
      /\ UNCHANGED <<fixed, apis, now, store>>
      /\ "unfit" \in Outcomes(Head(req[r].todo))
  BY DEF Discard, Asks, QuotesInv
<1>2. service \in Headline \cup Series
  BY <1>1, UnfitOutcome
<1>3. service \in Series => ~Plan.cached
  BY DEF Plan, Series, StockSeries, ForexSeries, CryptoSeries
<1>4. /\ a \in {"storing", "answered"}
      /\ a = "storing" => Plan.cached /\ service \in News
  BY <1>2, <1>3, AfterChainFacts DEF Headline, Series, News
<1> HIDE DEF a, Plan
<1>5. /\ q \in RequestState(now) /\ q.at = a /\ q.found = Nothing /\ q.unfit
      /\ q.age = req[r].age /\ q.lost = req[r].lost /\ q.todo = req[r].todo
  BY <1>1, <1>4, AskingFacts DEF RequestState
<1> HIDE DEF q
<1>6. Exhausted(q, Plan, service)
  BY <1>1, <1>2, <1>5, AskingFacts DEF Exhausted
<1>7. Sound(q, Plan, service, now)
  BY <1>1, <1>4, <1>5, <1>6, AskingFacts, NoValueIsATime DEF Sound
<1> QED
  BY <1>1, <1>7, OneMoves, StoresStay, AskingFacts DEF QuotesInv

LEMMA TryAgainQuotes ==
  ASSUME QuotesInv, NEW r \in Request, TryAgain(r)
  PROVE  QuotesInv'
<1> DEFINE n == req[r].tries + 1
           q == [req[r] EXCEPT !.tries = n]
<1>1. /\ req[r].at = "asking" /\ req[r].tries < RETRY_ATTEMPTS
      /\ req' = [req EXCEPT ![r] = q] /\ UNCHANGED <<fixed, apis, now, store>>
  BY DEF TryAgain, TriesAgain, Asks, QuotesInv
<1> HIDE DEF Plan
<1>2. /\ q \in RequestState(now) /\ q.at = "asking" /\ q.found = Unset /\ q.lost = req[r].lost
      /\ q.todo = req[r].todo /\ q.age = req[r].age
  <2>1. req[r] \in RequestState(now) /\ req[r].tries \in 1..RETRY_ATTEMPTS /\ RETRY_ATTEMPTS \in Nat
    BY <1>1, AskingFacts, AttemptsAndTimes DEF RequestState
  <2>2. n \in 1..RETRY_ATTEMPTS
    BY <1>1, <2>1
  <2> HIDE DEF n
  <2> QED
    BY <1>1, <2>1, <2>2, AskingFacts DEF RequestState
<1> HIDE DEF q
<1>3. Sound(q, Plan, service, now)
  BY <1>1, <1>2, AskingFacts, NoValueIsATime DEF Sound
<1> QED
  BY <1>1, <1>3, OneMoves, StoresStay, AskingFacts DEF QuotesInv

LEMMA MoveOnQuotes ==
  ASSUME QuotesInv, NEW r \in Request, MoveOn(r)
  PROVE  QuotesInv'
<1> DEFINE rest == Tail(req[r].todo)
           lost == req[r].lost \cup {Head(req[r].todo)}
           q == [req[r] EXCEPT !.todo = rest, !.tries = 1, !.lost = lost]
<1>1. /\ req[r].at = "asking" /\ req[r].todo # <<>>
      /\ req' = [req EXCEPT ![r] = q] /\ UNCHANGED <<fixed, apis, now, store>>
  BY DEF MoveOn, Rest, Asks, QuotesInv
<1> HIDE DEF Plan
<1>2. /\ rest \in Seq(Provider) /\ lost \in SUBSET Provider
      /\ Elements(Plan.chain) \subseteq lost \cup Elements(rest)
  <2>1. req[r].todo \in Seq(Provider) /\ req[r].lost \in SUBSET Provider
    BY <1>1, AskingFacts DEF RequestState
  <2> QED
    BY <1>1, <2>1, AskingFacts, ChainGoesOn
<1> HIDE DEF rest, lost
<1>3. /\ q \in RequestState(now) /\ q.at = "asking" /\ q.found = Unset /\ q.lost = lost
      /\ q.todo = rest /\ q.age = req[r].age
  <2>1. 1 \in 1..RETRY_ATTEMPTS /\ req[r] \in RequestState(now) /\ req[r].found = Unset
    BY <1>1, AskingFacts, AttemptsAndTimes
  <2> QED
    BY <1>1, <1>2, <2>1 DEF RequestState
<1> HIDE DEF q
<1>4. Sound(q, Plan, service, now)
  BY <1>1, <1>2, <1>3, AskingFacts, NoValueIsATime DEF Sound
<1> QED
  BY <1>1, <1>4, OneMoves, StoresStay, AskingFacts DEF QuotesInv

LEMMA GiveUpQuotes ==
  ASSUME QuotesInv, NEW r \in Request, GiveUp(r)
  PROVE  QuotesInv'
<1> DEFINE a == IF Plan.keepsNothing THEN "storing" ELSE AfterChain
           q == [req[r] EXCEPT !.found = Nothing, !.at = a]
<1>1. /\ req[r].at = "asking" /\ req[r].todo = <<>>
      /\ req' = [req EXCEPT ![r] = q] /\ UNCHANGED <<fixed, apis, now, store>>
  BY DEF GiveUp, QuotesInv
<1>2. /\ a \in {"storing", "stats", "answered"}
      /\ a = "storing" => Plan.cached /\ service \in News
      /\ a = "stats" => service = "crypto"
  BY AfterChainFacts, QuotesFacts
<1> HIDE DEF a, Plan
<1>3. /\ q \in RequestState(now) /\ q.at = a /\ q.found = Nothing /\ q.lost = req[r].lost
      /\ q.age = req[r].age
  BY <1>1, <1>2, AskingFacts DEF RequestState
<1>4. Elements(Plan.chain) \subseteq q.lost
  BY <1>1, <1>3, AskingFacts, ChainOfNone
<1> HIDE DEF q
<1>5. Sound(q, Plan, service, now)
  BY <1>1, <1>2, <1>3, <1>4, AskingFacts, NoValueIsATime DEF Sound, Exhausted
<1> QED
  BY <1>1, <1>5, OneMoves, StoresStay, AskingFacts DEF QuotesInv

\* What a request has found is kept, stamped with the time of the write.
LEMMA StoreQuotes ==
  ASSUME QuotesInv, NEW r \in Request, Store(r)
  PROVE  QuotesInv'
<1> DEFINE q == [req[r] EXCEPT !.at = AfterChain]
           e == Entry(req[r].found)
<1>1. /\ req[r].at = "storing" /\ req[r] \in RequestState(now) /\ Sound(req[r], Plan, service, now)
      /\ req' = [req EXCEPT ![r] = q] /\ UNCHANGED <<fixed, apis, now, redis, stats>>
      /\ apis' \in {ForexOrder, PairOrder} /\ now \in Nat
  BY DEF Store, QuotesInv, StoreSound
<1>2. \/ remote' = e /\ memory' = memory
      \/ memory' = e /\ remote' = remote
  BY DEF Store, Keep
<1>3. /\ Plan.cached /\ req[r].found \in 0..now \cup {Nothing}
      /\ req[r].found = Nothing => service \in News
  BY <1>1 DEF Sound, RequestState
<1>4. AfterChain \in {"stats", "answered"} /\ (AfterChain = "stats" => service = "crypto")
  BY AfterChainFacts
<1> HIDE DEF Plan
<1>5. /\ q \in RequestState(now) /\ q.at = AfterChain /\ q.found = req[r].found
      /\ q.lost = req[r].lost /\ q.unfit = req[r].unfit /\ q.age = req[r].age /\ q.todo = req[r].todo
  BY <1>1, <1>4 DEF RequestState
<1> HIDE DEF q
<1>6. Sound(q, Plan, service, now)
  BY <1>1, <1>4, <1>5 DEF Sound, Exhausted
<1>7. StoreSound'
  <2>1. Plan'.cached
    BY <1>1, <1>3, PlanLasts DEF QuotesInv, StoreSound
  <2>2. SoundEntry(e, service, now) /\ now - e.kept <= Ttl
    BY <1>1, <1>3, AttemptsAndTimes DEF Entry, SoundEntry
  <2> HIDE DEF e
  <2> QED
    BY <1>1, <1>2, <2>1, <2>2 DEF QuotesInv, StoreSound, fixed
<1> QED
  BY <1>1, <1>6, <1>7, OneMoves

\* A request for the statistics of Binance.
LEMMA StatsFacts ==
  ASSUME QuotesInv, NEW r \in Request, req[r].at \in {"stats", "binance"}
  PROVE  /\ Sound(req[r], Plan, service, now) /\ req[r] \in RequestState(now)
         /\ service = "crypto" /\ now \in Nat /\ now \in 0..now
         /\ apis \in {ForexOrder, PairOrder} /\ req \in [Request -> RequestState(now)]
BY DEF QuotesInv, Sound, StoreSound

\* Whoever has nothing may still take the price from the statistics.
LEMMA PriceFromStats ==
  ASSUME QuotesInv, NEW r \in Request, req[r].at \in {"stats", "binance"},
         NEW v \in 0..now,
         NEW q, q = [req[r] EXCEPT !.at = "answered",
                                   !.found = IF @ = Nothing THEN v ELSE @]
  PROVE  Sound(q, Plan, service, now)
<1> DEFINE f == IF req[r].found = Nothing THEN v ELSE req[r].found
<1>1. /\ f \in 0..now \cup {Unset, Nothing} /\ f # Nothing
      /\ q = [req[r] EXCEPT !.at = "answered", !.found = f]
  BY StatsFacts, NoValueIsATime DEF RequestState
<1> HIDE DEF f, Plan
<1>2. q \in RequestState(now) /\ q.at = "answered" /\ q.found = f /\ q.age = req[r].age
  BY <1>1, StatsFacts DEF RequestState
<1> QED
  BY <1>1, <1>2, StatsFacts DEF Sound

LEMMA StatsHitQuotes ==
  ASSUME QuotesInv, NEW r \in Request, StatsHit(r)
  PROVE  QuotesInv'
<1> DEFINE q == [req[r] EXCEPT !.at = "answered",
                               !.found = IF @ = Nothing THEN stats ELSE @]
<1>1. /\ req[r].at = "stats" /\ req' = [req EXCEPT ![r] = q]
      /\ UNCHANGED <<fixed, apis, now, store>> /\ stats \in 0..now
      /\ apis \in {ForexOrder, PairOrder}
  BY DEF StatsHit, StatsLive, QuotesInv, StoreSound
<1> HIDE DEF Plan
<1>2. Sound(q, Plan, service, now)
  BY <1>1, PriceFromStats
<1> HIDE DEF q
<1> QED
  BY <1>1, <1>2, OneMoves, StoresStay DEF QuotesInv

LEMMA StatsMissQuotes ==
  ASSUME QuotesInv, NEW r \in Request, StatsMiss(r)
  PROVE  QuotesInv'
<1> DEFINE q == [req[r] EXCEPT !.at = "binance", !.began = now]
<1>1. /\ req[r].at = "stats" /\ req' = [req EXCEPT ![r] = q]
      /\ UNCHANGED <<fixed, apis, now, store>>
  BY DEF StatsMiss, QuotesInv
<1> HIDE DEF Plan
<1>2. /\ q \in RequestState(now) /\ q.at = "binance" /\ q.found = req[r].found
      /\ q.age = req[r].age /\ q.lost = req[r].lost /\ q.unfit = req[r].unfit
      /\ q.todo = req[r].todo
  BY <1>1, StatsFacts DEF RequestState
<1> HIDE DEF q
<1>3. Sound(q, Plan, service, now)
  BY <1>1, <1>2, StatsFacts DEF Sound, Exhausted
<1> QED
  BY <1>1, <1>3, OneMoves, StoresStay, StatsFacts DEF QuotesInv

LEMMA StatsAnswerQuotes ==
  ASSUME QuotesInv, NEW r \in Request, StatsAnswer(r)
  PROVE  QuotesInv'
<1>1. /\ req[r].at = "binance" /\ UNCHANGED <<fixed, apis, now, redis, remote, memory>>
      /\ req[r].began \in 0..now
  BY StatsFacts DEF StatsAnswer, RequestState
<1>2. CASE /\ stats' = req[r].began
           /\ req' = [req EXCEPT ![r].at = "answered",
                                 ![r].found = IF @ = Nothing THEN req[r].began ELSE @]
  <2> DEFINE q == [req[r] EXCEPT !.at = "answered",
                                 !.found = IF @ = Nothing THEN req[r].began ELSE @]
  <2>1. req' = [req EXCEPT ![r] = q]
    BY <1>2
  <2>2. Sound(q, Plan, service, now)
    <3> HIDE DEF Plan
    <3> QED
      BY <1>1, PriceFromStats
  <2> HIDE DEF q
  <2>3. StoreSound'
    <3>1. Plan'.cached = Plan.cached
      BY <1>1, PlanLasts, StatsFacts DEF QuotesInv, StoreSound
    <3> HIDE DEF Plan
    <3> QED
      BY <1>1, <1>2, <3>1, StatsFacts DEF QuotesInv, StoreSound, fixed
  <2> QED
    BY <1>1, <2>1, <2>2, <2>3, OneMoves
<1>3. CASE req' = [req EXCEPT ![r].at = "answered"] /\ stats' = stats
  <2> DEFINE q == [req[r] EXCEPT !.at = "answered"]
  <2>1. req' = [req EXCEPT ![r] = q] /\ UNCHANGED <<fixed, apis, now, store>>
    BY <1>1, <1>3 DEF store
  <2> HIDE DEF Plan
  <2>2. /\ q \in RequestState(now) /\ q.at = "answered" /\ q.found = req[r].found
        /\ q.age = req[r].age /\ q.lost = req[r].lost /\ q.unfit = req[r].unfit
      /\ q.todo = req[r].todo
    BY <1>1, StatsFacts DEF RequestState
  <2> HIDE DEF q
  <2>3. Sound(q, Plan, service, now)
    BY <1>1, <2>2, StatsFacts DEF Sound, Exhausted
  <2> QED
    BY <1>1, <2>1, <2>3, OneMoves, StoresStay, StatsFacts DEF QuotesInv
<1> QED
  BY <1>2, <1>3 DEF StatsAnswer

LEMMA RestStays ==
  ASSUME QuotesInv, StoreSound', UNCHANGED <<fixed, apis, req>>, now' \in Nat, now <= now'
  PROVE  QuotesInv'
<1>1. ASSUME NEW s \in Request PROVE Sound(req'[s], Plan', service', now')
  <2>1. Sound(req'[s], Plan, service, now) /\ apis' \in {ForexOrder, PairOrder}
    BY DEF QuotesInv, StoreSound
  <2> HIDE DEF Plan
  <2> QED
    BY <2>1, StillSound DEF QuotesInv
<1>2. req' \in [Request -> RequestState(now')]
  <2>1. RequestState(now) \subseteq RequestState(now')
    BY DEF RequestState, QuotesInv, StoreSound
  <2> QED
    BY <2>1 DEF QuotesInv
<1> QED
  BY <1>1, <1>2 DEF QuotesInv

\* Redis drops an entry in time.
LEMMA TickQuotes == ASSUME QuotesInv, Tick PROVE QuotesInv'
<1>1. /\ now \in Nat /\ now' = now + 1 /\ UNCHANGED <<fixed, apis, redis, memory, stats, req>>
      /\ remote' = IF remote # Unset /\ now' - remote.kept >= Ttl THEN Unset ELSE remote
      /\ SoundEntry(remote, service, now) /\ SoundEntry(memory, service, now)
  BY DEF Tick, QuotesInv, StoreSound
<1>2. SoundEntry(remote, service, now') /\ SoundEntry(memory, service, now')
  <2>1. now' \in Nat /\ now <= now'
    BY <1>1
  <2> QED
    BY <1>1, <2>1, EntriesStay
<1>3. SoundEntry(remote', service, now') /\ (remote' # Unset => now' - remote'.kept <= Ttl)
  <2>1. CASE remote' = Unset
    BY <2>1 DEF SoundEntry
  <2>2. CASE remote' # Unset
    <3>1. remote' = remote /\ remote # Unset /\ ~(now' - remote.kept >= Ttl)
      BY <1>1, <2>2
    <3>2. remote.kept \in Nat /\ now' \in Nat /\ Ttl \in Nat
      BY <1>1, <3>1, AttemptsAndTimes DEF SoundEntry
    <3> QED
      BY <1>2, <3>1, <3>2
  <2> QED
    BY <2>1, <2>2
<1>4. StoreSound'
  <2>1. Plan'.cached = Plan.cached
    BY <1>1, PlanLasts DEF QuotesInv, StoreSound
  <2> HIDE DEF Plan
  <2>2. service' = service /\ memory' = memory /\ stats' = stats /\ redis' = redis /\ apis' = apis
    BY <1>1 DEF fixed
  <2>3. ~Plan'.cached => remote' = Unset /\ memory' = Unset
    BY <1>1, <2>1, <2>2 DEF QuotesInv, StoreSound
  <2>4. stats' # Unset => service' = "crypto" /\ stats' \in 0..now'
    BY <1>1, <2>2 DEF QuotesInv, StoreSound
  <2> QED
    BY <1>1, <1>2, <1>3, <2>2, <2>3, <2>4 DEF QuotesInv, StoreSound
<1> QED
  BY <1>1, <1>4, RestStays

LEMMA OutageQuotes == ASSUME QuotesInv, Outage PROVE QuotesInv'
<1>1. /\ now' = now /\ now \in Nat /\ UNCHANGED <<fixed, apis, remote, memory, stats, req>>
      /\ redis' \in {"up", "down"}
  BY DEF Outage, QuotesInv, StoreSound
<1>2. StoreSound'
  <2>1. Plan'.cached = Plan.cached
    BY <1>1, PlanLasts DEF QuotesInv, StoreSound
  <2> HIDE DEF Plan
  <2> QED
    BY <1>1, <2>1 DEF QuotesInv, StoreSound, fixed
<1> QED
  BY <1>1, <1>2, RestStays

LEMMA QuotesStep == QuotesInv /\ [QuotesNext]_quotes => QuotesInv'
<1> SUFFICES ASSUME QuotesInv, [QuotesNext]_quotes PROVE QuotesInv'
  OBVIOUS
<1>1. ASSUME NEW r \in Request, Submit(r) \/ SubmitPair(r) \/ Proceed(r) \/ Done(r)
      PROVE  QuotesInv'
  BY <1>1, SubmitQuotes, HitQuotes, MissQuotes, FoundQuotes, DiscardQuotes, TryAgainQuotes,
     MoveOnQuotes, GiveUpQuotes, StoreQuotes, StatsHitQuotes, StatsMissQuotes,
     StatsAnswerQuotes, DoneQuotes DEF Proceed
<1>2. CASE Tick
  BY <1>2, TickQuotes
<1>3. CASE Outage
  BY <1>3, OutageQuotes
<1>4. CASE UNCHANGED quotes
  <2>1. /\ UNCHANGED <<fixed, apis, now, store, req>> /\ now \in Nat
        /\ apis \in {ForexOrder, PairOrder}
    BY <1>4 DEF quotes, fixed, store, QuotesInv, StoreSound
  <2>2. StoreSound'
    BY <2>1, StoresStay DEF QuotesInv
  <2> QED
    BY <2>1, <2>2, RestStays
<1> QED
  BY <1>1, <1>2, <1>3, <1>4 DEF QuotesNext

\* The caches hold what was produced and kept in time, and each request has let
\* down behind it what it does not have before it.
THEOREM QuotesAreSound == QuotesSpec => []QuotesInv
BY InitQuotes, QuotesStep, PTL DEF QuotesSpec

\* The stores and the requests are well typed, and no service whose plan does
\* not cache finds anything in the cache.
THEOREM QuotesAreTyped == QuotesSpec => []QuotesTypeOK
<1>1. QuotesInv => QuotesTypeOK
  BY QuotesFacts
<1> QED
  BY <1>1, QuotesAreSound, PTL

\* CacheClient.get: whatever outages do to its two copies, nothing is served that
\* was kept longer ago than the time to live.
THEOREM AgesAreBounded == QuotesSpec => []AgeBounded
<1>1. QuotesInv => AgeBounded
  BY QuotesFacts
<1> QED
  BY <1>1, QuotesAreSound, PTL

\* A request without data has been let down by every provider that can be used,
\* in whichever order others have put them meanwhile.  The exceptions are data of
\* no use, which headlines and series end with before they have asked the
\* providers behind, and what the news services repeat from their cache.
THEOREM NothingTakesAll == QuotesSpec => []NothingIsExhaustive
<1>1. QuotesInv => NothingIsExhaustive
  BY QuotesFacts
<1> QED
  BY <1>1, QuotesAreSound, PTL

-----------------------------------------------------------------------------
(* The end of a request                                                    *)

Remaining(c, t, n, length) ==
  c * RETRY_ATTEMPTS * (length + 1) + t * RETRY_ATTEMPTS + (RETRY_ATTEMPTS - n)

\* A stage weighs more than all providers and attempts together.
LEMMA StageOutweighs ==
  ASSUME NEW c \in Nat, NEW d \in Nat, d < c, NEW length \in Nat,
         NEW t \in Nat, NEW u \in Nat, u <= t + length,
         NEW m \in 1..RETRY_ATTEMPTS, NEW n \in 1..RETRY_ATTEMPTS
  PROVE  Remaining(d, u, n, length) < Remaining(c, t, m, length)
<1> DEFINE K == RETRY_ATTEMPTS
           P == K * (length + 1)
<1>1. K \in Nat /\ K >= 1 /\ m \in Nat /\ n \in Nat /\ m <= K /\ n >= 1
  BY AttemptsAndTimes
<1> HIDE DEF K
<1>2. P \in Nat /\ P = K * length + K /\ K * length \in Nat
  BY <1>1
<1>3. c * K * (length + 1) = c * P /\ d * K * (length + 1) = d * P
  BY <1>1
<1> HIDE DEF P
<1>4. c * P \in Nat /\ d * P \in Nat /\ c * P >= d * P + P
  <2>1. PICK e \in Nat : c = d + 1 + e
    <3>1. c - d - 1 \in Nat /\ c = d + 1 + (c - d - 1)
      OBVIOUS
    <3> QED
      BY <3>1
  <2>2. c * P = d * P + P + e * P /\ e * P \in Nat /\ d * P \in Nat
    BY <1>2, <2>1
  <2> QED
    BY <1>2, <2>2
<1>5. u * K \in Nat /\ t * K \in Nat /\ u * K <= t * K + K * length
  <2>1. PICK e \in Nat : u + e = t + length
    <3>1. t + length - u \in Nat /\ u + (t + length - u) = t + length
      OBVIOUS
    <3> QED
      BY <3>1
  <2>2. u * K + e * K = t * K + K * length /\ e * K \in Nat /\ u * K \in Nat /\ t * K \in Nat
    <3>1. (u + e) * K = (t + length) * K
      BY <2>1
    <3> QED
      BY <1>1, <3>1
  <2> QED
    BY <1>2, <2>2
<1>6. d * P + u * K + (K - n) < c * P + t * K + (K - m)
  BY <1>1, <1>2, <1>4, <1>5
<1> QED
  BY <1>3, <1>6 DEF Remaining, K

\* A provider weighs more than its attempts.
LEMMA ProviderOutweighs ==
  ASSUME NEW c \in Nat, NEW length \in Nat, NEW t \in Nat \ {0},
         NEW m \in 1..RETRY_ATTEMPTS
  PROVE  Remaining(c, t - 1, 1, length) < Remaining(c, t, m, length)
<1> DEFINE K == RETRY_ATTEMPTS
           S == c * K * (length + 1)
<1>1. K \in Nat /\ K >= 1 /\ m \in Nat /\ m <= K
  BY AttemptsAndTimes
<1> HIDE DEF K
<1>2. S \in Nat /\ (t - 1) * K = t * K - K /\ t * K \in Nat
  BY <1>1
<1> HIDE DEF S
<1>3. S + (t - 1) * K + (K - 1) < S + t * K + (K - m)
  BY <1>1, <1>2
<1> QED
  BY <1>3 DEF Remaining, K, S

LEMMA AttemptCounts ==
  ASSUME NEW c \in Nat, NEW length \in Nat, NEW t \in Nat,
         NEW m \in 1..RETRY_ATTEMPTS
  PROVE  Remaining(c, t, m + 1, length) < Remaining(c, t, m, length)
<1> DEFINE K == RETRY_ATTEMPTS
           S == c * K * (length + 1)
           T == t * K
<1>1. K \in Nat /\ m \in Nat
  BY AttemptsAndTimes
<1> HIDE DEF K
<1>2. S \in Nat /\ T \in Nat
  BY <1>1
<1> HIDE DEF S, T
<1>3. S + T + (K - (m + 1)) < S + T + (K - m)
  BY <1>1, <1>2
<1> QED
  BY <1>3 DEF Remaining, K, S, T

StageOf(at) ==
  CASE at = "answered" -> 0 [] at = "binance" -> 1 [] at = "stats" -> 2
    [] at = "storing" -> 3 [] at = "asking" -> 4 [] at = "lookup" -> 5

LEMMA LeftIs ==
  ASSUME QuotesInv, NEW r \in Request, req[r].at # "idle"
  PROVE  /\ Left(r) = Remaining(StageOf(req[r].at), Len(req[r].todo), req[r].tries, Len(Plan.chain))
         /\ StageOf(req[r].at) \in Nat /\ Len(req[r].todo) \in Nat
         /\ req[r].todo \in Seq(Provider) /\ req[r].tries \in 1..RETRY_ATTEMPTS
<1>1. req[r] \in RequestState(now)
  BY DEF QuotesInv
<1>2. /\ req[r].todo \in Seq(Provider) /\ req[r].tries \in 1..RETRY_ATTEMPTS
      /\ req[r].at \in {"lookup", "asking", "storing", "stats", "binance", "answered"}
  BY <1>1 DEF RequestState
<1> HIDE DEF Plan
<1>3. /\ StageOf(req[r].at) \in Nat
      /\ [answered |-> 0, binance |-> 1, stats |-> 2, storing |-> 3,
          asking |-> 4, lookup |-> 5][req[r].at] = StageOf(req[r].at)
  BY <1>2 DEF StageOf
<1> QED
  BY <1>2, <1>3 DEF Left, Remaining

LEMMA LeftForm ==
  QuotesInv =>
    \A r \in Request : req[r].at # "idle" =>
      Left(r) = Remaining(StageOf(req[r].at), Len(req[r].todo), req[r].tries, Len(Plan.chain))
BY LeftIs

LEMMA OnlyProceeds ==
  ASSUME QuotesInv, [QuotesNext]_quotes, NEW r \in Request,
         req[r].at \notin {"idle", "answered"}, req'[r] # req[r]
  PROVE  Proceed(r) /\ UNCHANGED <<fixed, apis>>
<1>1. req \in [Request -> RequestState(now)]
  BY DEF QuotesInv
<1>2. ASSUME NEW s \in Request, Submit(s) \/ SubmitPair(s) \/ Done(s) PROVE FALSE
  <2>1. s # r => req'[r] = req[r]
    BY <1>1, <1>2 DEF Submit, SubmitPair, Done
  <2>2. s # r
    BY <1>2 DEF Submit, SubmitPair, Done
  <2> QED
    BY <2>1, <2>2
<1>3. ASSUME NEW s \in Request, Proceed(s) PROVE s = r /\ UNCHANGED <<fixed, apis>>
  <2>1. s # r => req'[r] = req[r]
    BY <1>1, <1>3
       DEF Proceed, Hit, Miss, Found, Discard, TryAgain, MoveOn, GiveUp, Store, StatsHit,
           StatsMiss, StatsAnswer
  <2>2. UNCHANGED <<fixed, apis>>
    BY <1>3
       DEF Proceed, Hit, Miss, Found, Discard, TryAgain, MoveOn, GiveUp, Store, StatsHit,
           StatsMiss, StatsAnswer
  <2> QED
    BY <2>1, <2>2
<1>4. ~Tick /\ ~Outage /\ ~UNCHANGED quotes
  BY DEF Tick, Outage, quotes
<1> QED
  BY <1>2, <1>3, <1>4 DEF QuotesNext

\* A step to a later stage, with no more left to ask than the chain has.
LEMMA NextStage ==
  ASSUME QuotesInv, NEW r \in Request, Hit(r) \/ Miss(r) \/ Found(r) \/ Discard(r)
           \/ GiveUp(r) \/ Store(r) \/ StatsHit(r) \/ StatsMiss(r) \/ StatsAnswer(r)
  PROVE  /\ req[r].at # "idle" /\ req'[r].at # "idle"
         /\ StageOf(req'[r].at) \in Nat /\ StageOf(req'[r].at) < StageOf(req[r].at)
         /\ req'[r].todo \in {req[r].todo, Plan.chain} /\ req'[r].tries = req[r].tries
<1>1. req \in [Request -> RequestState(now)] /\ Sound(req[r], Plan, service, now)
  BY DEF QuotesInv
<1>2. AfterChain \in {"stats", "answered"}
  BY AfterChainFacts
<1> HIDE DEF Plan, AfterChain
<1>3. CASE Hit(r)
  <2>1. /\ req[r].at = "lookup" /\ req'[r].at = AfterChain
        /\ req'[r].todo = req[r].todo /\ req'[r].tries = req[r].tries
    BY <1>1, <1>3 DEF Hit, RequestState
  <2> QED
    BY <1>2, <2>1 DEF StageOf
<1>4. CASE Miss(r)
  <2>1. /\ req[r].at = "lookup" /\ req'[r].at = "asking"
        /\ req'[r].todo = Plan.chain /\ req'[r].tries = req[r].tries
    BY <1>1, <1>4 DEF Miss, RequestState
  <2> QED
    BY <2>1 DEF StageOf
<1>5. CASE Found(r)
  <2>1. /\ req[r].at = "asking" /\ req'[r].at \in {"storing", AfterChain}
        /\ req'[r].todo = req[r].todo /\ req'[r].tries = req[r].tries
    BY <1>1, <1>5 DEF Found, Asks, RequestState
  <2> QED
    BY <1>2, <2>1 DEF StageOf
<1>6. CASE Discard(r)
  <2>1. /\ req[r].at = "asking" /\ req'[r].at \in {"storing", AfterChain}
        /\ req'[r].todo = req[r].todo /\ req'[r].tries = req[r].tries
    BY <1>1, <1>6 DEF Discard, Asks, RequestState
  <2> QED
    BY <1>2, <2>1 DEF StageOf
<1>7. CASE GiveUp(r)
  <2>1. /\ req[r].at = "asking" /\ req'[r].at \in {"storing", AfterChain}
        /\ req'[r].todo = req[r].todo /\ req'[r].tries = req[r].tries
    BY <1>1, <1>7 DEF GiveUp, RequestState
  <2> QED
    BY <1>2, <2>1 DEF StageOf
<1>8. CASE Store(r)
  <2>1. /\ req[r].at = "storing" /\ req'[r].at = AfterChain
        /\ req'[r].todo = req[r].todo /\ req'[r].tries = req[r].tries
    BY <1>1, <1>8 DEF Store, RequestState
  <2> QED
    BY <1>2, <2>1 DEF StageOf
<1>9. CASE StatsHit(r) \/ StatsMiss(r)
  <2>1. /\ req[r].at = "stats" /\ req'[r].at \in {"binance", "answered"}
        /\ req'[r].todo = req[r].todo /\ req'[r].tries = req[r].tries
    BY <1>1, <1>9 DEF StatsHit, StatsMiss, RequestState
  <2> QED
    BY <2>1 DEF StageOf
<1>10. CASE StatsAnswer(r)
  <2>1. /\ req[r].at = "binance" /\ req'[r].at = "answered"
        /\ req'[r].todo = req[r].todo /\ req'[r].tries = req[r].tries
    BY <1>1, <1>10 DEF StatsAnswer, RequestState
  <2> QED
    BY <2>1 DEF StageOf
<1> QED
  BY <1>3, <1>4, <1>5, <1>6, <1>7, <1>8, <1>9, <1>10

\* Whatever fails, and whatever happens to the caches, each step of a request
\* brings it nearer to its answer; so it takes finitely many.
THEOREM RequestsEnd == QuotesSpec => RequestsConverge
<1>1. (QuotesInv =>
         \A r \in Request : req[r].at # "idle" =>
           Left(r) = Remaining(StageOf(req[r].at), Len(req[r].todo), req[r].tries,
                               Len(Plan.chain)))'
  BY LeftForm, PTL
<1>2. ASSUME QuotesInv, QuotesInv', [QuotesNext]_quotes, NEW r \in Request,
             req[r].at \notin {"idle", "answered"}, req'[r] # req[r]
      PROVE  Left(r)' < Left(r)
  <2>1. Proceed(r) /\ Plan' = Plan
    <3>1. Proceed(r) /\ service' = service /\ keys' = keys /\ apis' = apis
      BY <1>2, OnlyProceeds DEF fixed
    <3> QED
      BY <3>1
         DEF Plan, Crypto, Stock, Forex, Headlines, SymbolNews, Candles, Chart, StockSeries,
             ForexSeries, CryptoSeries, Configured, Usable
  <2> DEFINE L == Len(Plan.chain)
             t == Len(req[r].todo)
             m == req[r].tries
             c == StageOf(req[r].at)
  <2>2. /\ Left(r) = Remaining(c, t, m, L) /\ c \in Nat /\ t \in Nat
        /\ req[r].todo \in Seq(Provider) /\ m \in 1..RETRY_ATTEMPTS /\ L \in Nat
    BY <1>2, LeftIs, QuotesFacts
  <2>3. req'[r].at # "idle" =>
          Left(r)' = Remaining(StageOf(req'[r].at), Len(req'[r].todo), req'[r].tries, L)
    BY <1>1, <1>2, <2>1
  <2>4. req \in [Request -> RequestState(now)]
    BY <1>2 DEF QuotesInv
  <2> HIDE DEF L, m, c
  <2>5. CASE TryAgain(r)
    <3>1. /\ req'[r].at = req[r].at /\ req'[r].todo = req[r].todo
          /\ req'[r].tries = m + 1 /\ req[r].at = "asking"
      BY <2>4, <2>5 DEF TryAgain, Asks, RequestState, m
    <3>2. Left(r)' = Remaining(c, t, m + 1, L)
      BY <2>3, <3>1 DEF c
    <3> HIDE DEF t
    <3> QED
      BY <2>2, <3>2, AttemptCounts
  <2>6. CASE MoveOn(r)
    <3>1. /\ req'[r].at = req[r].at /\ req'[r].todo = Tail(req[r].todo)
          /\ req'[r].tries = 1 /\ req[r].at = "asking" /\ req[r].todo # <<>>
      BY <2>4, <2>6 DEF MoveOn, Rest, Asks, RequestState
    <3>2. Len(req'[r].todo) = t - 1 /\ t \in Nat \ {0}
      BY <2>2, <3>1, ChainGoesOn
    <3>3. Left(r)' = Remaining(c, t - 1, 1, L)
      BY <2>3, <3>1, <3>2 DEF c
    <3> HIDE DEF t
    <3> QED
      BY <2>2, <3>2, <3>3, ProviderOutweighs
  <2>7. CASE ~TryAgain(r) /\ ~MoveOn(r)
    <3> DEFINE d == StageOf(req'[r].at)
               u == Len(req'[r].todo)
    <3>1. /\ req'[r].at # "idle" /\ d \in Nat /\ d < c
          /\ req'[r].todo \in {req[r].todo, Plan.chain} /\ req'[r].tries = m
      BY <1>2, <2>1, <2>7, NextStage DEF Proceed, c, m
    <3>2. u \in {t, L}
      BY <3>1 DEF L
    <3>3. u \in Nat /\ u <= t + L
      <4> HIDE DEF u, t
      <4> QED
        BY <2>2, <3>2
    <3>4. Left(r)' = Remaining(d, u, m, L)
      BY <2>3, <3>1
    <3> HIDE DEF d, u, t
    <3> QED
      BY <2>2, <3>1, <3>3, <3>4, StageOutweighs
  <2> QED
    BY <2>5, <2>6, <2>7
<1>3. QuotesInv /\ QuotesInv' /\ [QuotesNext]_quotes =>
        [\A r \in Request :
           req[r].at \notin {"idle", "answered"} /\ req'[r] # req[r] => Left(r)' < Left(r)]_quotes
  BY <1>2
<1> QED
  BY <1>3, QuotesAreSound, PTL DEF QuotesSpec, RequestsConverge
=============================================================================
