------------------------------ MODULE RateLimit ------------------------------
(***************************************************************************)
(* The rate limits in front of the handlers (backend/core/rate_limit.py):  *)
(* login_rate_limiter, rate_limit and SimpleRateLimiter.record_hit, for    *)
(* one key of one of them.                                                 *)
(*                                                                         *)
(* The first two ask Redis (fastapi_limiter: a counter that lives for a    *)
(* window from its first hit on) and fall back on a list of times in the   *)
(* memory of the process whenever Redis raises; the third has the list     *)
(* alone.  Neither knows what the other has let through.  The script in    *)
(* Redis and the fallback are atomic, and nothing is read in one and used  *)
(* in the other, so a request is one action.                               *)
(*                                                                         *)
(* Times are kept as ages in ticks, the oldest first.  What is as old as a *)
(* window is removed from the list before it is used, so it is left out at *)
(* once here.                                                              *)
(***************************************************************************)
EXTENDS Naturals, Sequences, FiniteSets

CONSTANTS
  Times,          \* hits admitted per window
  FallbackTimes,  \* fallback_times of rate_limit
  Weights,        \* the weights of record_hit
  Seconds         \* the window, in ticks

ASSUME LimitsArePositive ==
  /\ {Times, FallbackTimes, Seconds} \subseteq Nat \ {0}
  /\ Weights \subseteq Nat \ {0}

VARIABLES
  limiter,  \* "login", "route" (rate_limit) or "dispatch" (record_hit), fixed
  bucket,   \* the list in _IN_MEMORY_BUCKETS, as ages
  counter,  \* Redis: hits counted, and the ticks left of their window
  passed    \* history: the ages of the hits admitted, by Redis and by the list

limits == <<limiter, bucket, counter, passed>>

Age == 0 .. Seconds - 1

NoCounter == [hits |-> 0, left |-> 0]

LimitTypeOK ==
  /\ limiter \in {"login", "route", "dispatch"}
  /\ bucket \in Seq(Age)
  /\ counter \in [hits : 0 .. Times, left : 0 .. Seconds]
  /\ counter.hits = 0 <=> counter.left = 0
  /\ passed \in [{"redis", "memory"} -> Seq(Age)]

LimitInit ==
  /\ limiter \in {"login", "route", "dispatch"}
  /\ bucket = <<>>
  /\ counter = NoCounter
  /\ passed = [by \in {"redis", "memory"} |-> <<>>]

-----------------------------------------------------------------------------
\* What the list admits.
Capacity == IF limiter = "route" THEN FallbackTimes ELSE Times

Weight == IF limiter = "dispatch" THEN Weights ELSE {1}

\* Deliberately wrong: the limit is what the list may hold before the hit.
FitsLate(w) == Len(bucket) <= Capacity

\* len(window) >= times, and the two ways the others put it.
Fits(w) == Len(bucket) + w <= Capacity

Hit(list, w) == list \o [i \in 1 .. w |-> 0]

\* The counter after a hit that it admits.
Counted == [hits |-> counter.hits + 1,
            left |-> IF counter.hits = 0 THEN Seconds ELSE counter.left]

\* Redis answers.
AskRedis ==
  /\ limiter # "dispatch"
  /\ counter.hits < Times
  /\ counter' = Counted
  /\ passed' = [passed EXCEPT !["redis"] = Hit(@, 1)]
  /\ UNCHANGED <<limiter, bucket>>

RefusedByRedis ==
  /\ limiter # "dispatch"
  /\ counter.hits >= Times
  /\ UNCHANGED limits

\* Redis is asked first and raises; it may have counted the hit by then.
RedisFails ==
  \/ UNCHANGED counter
  \/ limiter # "dispatch" /\ counter.hits < Times /\ counter' = Counted

AskList(w) ==
  /\ Fits(w)
  /\ RedisFails
  /\ bucket' = Hit(bucket, w)
  /\ passed' = [passed EXCEPT !["memory"] = Hit(@, w)]
  /\ UNCHANGED limiter

\* Deliberately wrong: rate_limit does not take back the time it has added.
RefuseKeeping(w) ==
  /\ ~Fits(w)
  /\ RedisFails
  /\ bucket' = IF limiter = "route" THEN Hit(bucket, w) ELSE bucket
  /\ UNCHANGED <<limiter, passed>>

Refuse(w) ==
  /\ ~Fits(w)
  /\ RedisFails
  /\ UNCHANGED <<limiter, bucket, passed>>

\* Those that leave the window come first.
Aged(list) ==
  LET n == Cardinality({i \in DOMAIN list : list[i] = Seconds - 1})
  IN  [i \in 1 .. Len(list) - n |-> list[i + n] + 1]

LimitTick ==
  /\ bucket' = Aged(bucket)
  /\ passed' = [by \in DOMAIN passed |-> Aged(passed[by])]
  /\ counter' = IF counter.left <= 1 THEN NoCounter
                ELSE [counter EXCEPT !.left = @ - 1]
  /\ UNCHANGED limiter

LimitNext ==
  \/ AskRedis \/ RefusedByRedis \/ LimitTick
  \/ \E w \in Weight : AskList(w) \/ Refuse(w)

LimitSpec == LimitInit /\ [][LimitNext]_limits

-----------------------------------------------------------------------------
(* Properties                                                              *)

\* The price of the fallback.  In any stretch as long as the window the list
\* admits what it may.  Redis counts from the first hit on, so that the end of
\* one of its windows and the beginning of the next admit up to one less than
\* twice the limit; and a client that meets an outage gets both.
AdmissionIsBounded ==
  /\ Len(passed["memory"]) <= Capacity
  /\ Len(passed["redis"]) <= 2 * Times - 1

\* Who is turned away has lost nothing by asking: the list is full of hits that
\* were admitted, and no hit prolongs the window of the counter.
RefusalsAreFree ==
  [][/\ \A w \in Weight : Refuse(w) => Len(passed["memory"]) + w > Capacity
     /\ counter.hits > 0 => counter'.left <= counter.left]_limits
=============================================================================
