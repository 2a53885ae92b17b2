----------------------------- MODULE MarketData -----------------------------
(***************************************************************************)
(* Quotes, candles and news from outside providers: CryptoService,         *)
(* StockService, ForexService, NewsService, MarketService, the series of   *)
(* timeseries_service, and the CacheClient most of them look into first.   *)
(*                                                                         *)
(* Every one of them has a chain of providers that it asks one after the   *)
(* other, a rule for what is worth another attempt, and a way to end when  *)
(* the last has failed.  The module follows the requests for one key of    *)
(* one service.  They run concurrently on one event loop: nothing keeps    *)
(* two of them from asking the same provider, and each writes what it got  *)
(* into the cache whatever the cache holds by then.  A value is the time   *)
(* at which its provider produced it.                                      *)
(***************************************************************************)
EXTENDS Integers, Sequences

CONSTANTS
  Unset, Nothing,  \* no value yet; no data from any provider
  Request,         \* requests under way at a time
  Services,        \* the services to choose from
  Keyrings,        \* sets of providers whose API key is configured
  RETRY_ATTEMPTS,  \* 3 in the code
  Ttl,             \* time to live in CacheClient: 45 s to 600 s
  StatsTtl,        \* cache_timeout of the statistics of Binance: 2 s
  MaxTime          \* bound on the clock

Service == {"crypto", "stock", "forex", "crypto news", "finance news",
            "symbol news", "candles", "crypto candles", "stock candles",
            "odd candles", "chart", "stock series", "forex series",
            "crypto series"}

Headline == {"crypto news", "finance news"}
Series == {"stock series", "forex series", "crypto series"}

ASSUME ServicesAreKnown == Services \subseteq Service

ASSUME AttemptsAndTimes == RETRY_ATTEMPTS \in Nat \ {0} /\ Ttl \in Nat

ASSUME NoValueIsATime == Unset \notin Nat /\ Nothing \notin Nat /\ Unset # Nothing

VARIABLES
  service,  \* the service asked, fixed
  keys,     \* the keyring, fixed
  apis,     \* ForexService.apis: the order of its providers
  now,      \* the clock
  redis,    \* "absent", "up" or "down"
  remote,   \* the entry in Redis
  memory,   \* the entry in the process that CacheClient falls back on
  stats,    \* the entry of MarketService.binance_cache
  req       \* Request -> where it is

quotes == <<service, keys, apis, now, redis, remote, memory, stats, req>>

-----------------------------------------------------------------------------
(* The services.  "ok" is an answer with data, "none" one without, "unfit" *)
(* one whose data are taken but of no use to whoever asked, "error" a      *)
(* failure that the service expects and "surprise" any other exception.    *)

Keyed == {"CoinMarketCap", "TwelveData", "AlphaVantage", "NewsAPI",
          "Mediastack", "CryptoPanic", "Finfeed"}

Provider == Keyed \cup {"Binance", "CoinGecko", "GoogleNews", "Yahoo"}

Usable(p) == p \notin Keyed \/ p \in keys

\* A provider whose key is missing is passed over.
Configured(p) == IF Usable(p) THEN <<p>> ELSE <<>>

\* Handlers of CryptoService turn their failures into None; what is left is
\* the missing key and data of an unforeseen shape.
CryptoOutcomes(p) == IF Usable(p) THEN {"ok", "none", "surprise"} ELSE {"surprise"}

\* What each service asks for again.
CryptoRetried == {"none", "surprise"}
StockRetried == {"error"}
ForexRetried == {"error"}
NewsRetried == {"error"}

\* A provider without a key is asked like the others, and as often.
Crypto ==
  [chain |-> <<"CoinGecko", "Binance", "CoinMarketCap", "TwelveData", "AlphaVantage">>,
   retried |-> CryptoRetried, cached |-> TRUE, keepsNothing |-> FALSE]

Stock ==
  [chain |-> Configured("AlphaVantage") \o Configured("TwelveData") \o Configured("Yahoo"),
   retried |-> StockRetried, cached |-> TRUE, keepsNothing |-> FALSE]

Forex ==
  [chain |-> Configured(apis[1]) \o Configured(apis[2]) \o Configured(apis[3]),
   retried |-> ForexRetried, cached |-> TRUE, keepsNothing |-> FALSE]

StockOutcomes == {"ok", "error", "surprise"}
ForexOutcomes == {"ok", "error", "surprise"}

\* The headlines of NewsService.  An empty list is an answer: it is not asked
\* for again, the next source is, and the last one's is cached.  Articles
\* without a title or a date are an answer too, and nothing is left of them.
Headlines(primary) ==
  [chain |-> Configured(primary) \o Configured("NewsAPI"),
   retried |-> NewsRetried, cached |-> TRUE, keepsNothing |-> TRUE]

HeadlineOutcomes == {"ok", "unfit", "none", "error", "surprise"}

\* MarketService.get_news asks each source once.
SymbolNews ==
  [chain |-> Configured("NewsAPI") \o Configured("Mediastack") \o Configured("GoogleNews"),
   retried |-> {}, cached |-> TRUE, keepsNothing |-> TRUE]

NewsOutcomes == {"ok", "none", "surprise"}

\* Candles, by the mode the client asks for and whether the symbol looks like
\* a pair.  Without candles the request fails.
Candles(mode, pair) ==
  [chain |-> (IF mode # "stock" /\ pair THEN <<"Binance">> ELSE <<>>)
               \o (IF mode # "crypto" THEN <<"Yahoo">> ELSE <<>>),
   retried |-> {}, cached |-> TRUE, keepsNothing |-> FALSE]

CandleOutcomes == {"ok", "surprise"}

Chart ==
  [chain |-> <<"Yahoo">>, retried |-> {}, cached |-> TRUE, keepsNothing |-> FALSE]

\* The series behind the indicators are neither cached nor asked for twice.  A
\* provider that answers with a series is believed, also when the series is
\* empty or too short for the indicators: the endpoint then refuses, and nobody
\* asks the next.  Four-hour series are never asked of Alpha Vantage, which is
\* given up like after a failure.
SeriesOutcomes == {"ok", "unfit", "surprise"}

StockSeries ==
  [chain |-> Configured("TwelveData") \o Configured("AlphaVantage"),
   retried |-> {}, cached |-> FALSE, keepsNothing |-> FALSE]

ForexSeries ==
  [chain |-> Configured("TwelveData") \o Configured("AlphaVantage"),
   retried |-> {}, cached |-> FALSE, keepsNothing |-> FALSE]

CryptoSeries ==
  [chain |-> <<"Binance">>,
   retried |-> {}, cached |-> FALSE, keepsNothing |-> FALSE]

Plan ==
  CASE service = "crypto"         -> Crypto
    [] service = "stock"          -> Stock
    [] service = "forex"          -> Forex
    [] service = "crypto news"    -> Headlines("CryptoPanic")
    [] service = "finance news"   -> Headlines("Finfeed")
    [] service = "symbol news"    -> SymbolNews
    [] service = "candles"        -> Candles("auto", TRUE)
    [] service = "crypto candles" -> Candles("crypto", TRUE)
    [] service = "stock candles"  -> Candles("stock", TRUE)
    [] service = "odd candles"    -> Candles("crypto", FALSE)
    [] service = "chart"          -> Chart
    [] service = "stock series"   -> StockSeries
    [] service = "forex series"   -> ForexSeries
    [] service = "crypto series"  -> CryptoSeries

Outcomes(p) ==
  CASE service = "crypto"       -> CryptoOutcomes(p)
    [] service = "stock"        -> StockOutcomes
    [] service = "forex"        -> ForexOutcomes
    [] service \in Headline     -> HeadlineOutcomes
    [] service = "symbol news"  -> NewsOutcomes
    [] service \in Series       -> SeriesOutcomes
    [] OTHER                    -> CandleOutcomes

-----------------------------------------------------------------------------
(* CacheClient                                                             *)

Entry(v) == [value |-> v, kept |-> now]

\* Deliberately wrong: entries of the memory do not expire.
LiveForEver(e) == e # Unset

Live(e) == e # Unset /\ now - e.kept <= Ttl

\* What a lookup finds.  Redis answers for itself while it can be reached,
\* even when it has nothing; only without it is the memory looked at.
Cached ==
  CASE redis = "up" -> remote
    [] OTHER        -> IF Live(memory) THEN memory ELSE Unset

\* A set that Redis takes leaves the entry in memory as it is.
Keep(v) ==
  IF redis = "up" THEN remote' = Entry(v) /\ UNCHANGED memory
  ELSE memory' = Entry(v) /\ UNCHANGED remote

-----------------------------------------------------------------------------
\* The orders of the forex providers: as configured, and after SubmitPair.
ForexOrder == <<"TwelveData", "AlphaVantage", "Yahoo">>
PairOrder == <<"TwelveData", "Yahoo", "AlphaVantage">>

\* What a request can be at the time t.
RequestState(t) ==
  [at : {"idle", "lookup", "asking", "storing", "stats", "binance", "answered"},
   todo : Seq(Provider),   \* the providers it has yet to ask
   tries : 1..RETRY_ATTEMPTS,
   lost : SUBSET Provider, \* history: the providers it has given up
   found : 0..t \cup {Unset, Nothing},
   age : Nat,            \* history: of the entry it has hit
   began : 0..t,
   unfit : BOOLEAN]      \* history: it has taken data of no use

Start == [at |-> "idle", todo |-> <<>>, tries |-> 1, lost |-> {},
          found |-> Unset, age |-> 0, began |-> 0, unfit |-> FALSE]

QuotesInit ==
  /\ service \in Services
  /\ keys \in Keyrings
  /\ apis = ForexOrder
  /\ now = 0
  /\ redis \in {"absent", "up"}
  /\ remote = Unset /\ memory = Unset /\ stats = Unset
  /\ req = [r \in Request |-> Start]

fixed == <<service, keys>>
store == <<redis, remote, memory, stats>>

Submit(r) ==
  /\ req[r].at = "idle"
  /\ req' = [req EXCEPT ![r] = [Start EXCEPT !.at = "lookup"]]
  /\ UNCHANGED <<fixed, apis, now, store>>

\* GET /forex/{pair} first moves the providers of DEFAULT_FOREX_ORDER to the
\* front, for every later request of the process.
SubmitPair(r) ==
  /\ service = "forex" /\ req[r].at = "idle"
  /\ apis' = PairOrder
  /\ req' = [req EXCEPT ![r] = [Start EXCEPT !.at = "lookup"]]
  /\ UNCHANGED <<fixed, now, store>>

\* A request that has what it can get: a crypto quote goes on to the
\* statistics of Binance, any other is answered.
AfterChain == IF service = "crypto" THEN "stats" ELSE "answered"

Hit(r) ==
  /\ req[r].at = "lookup" /\ Plan.cached /\ Cached # Unset
  /\ req' = [req EXCEPT ![r].at = AfterChain, ![r].found = Cached.value,
                        ![r].age = now - Cached.kept]
  /\ UNCHANGED <<fixed, apis, now, store>>

\* An entry of the memory that has expired is removed on the way.
Miss(r) ==
  /\ req[r].at = "lookup" /\ (Plan.cached => Cached = Unset)
  /\ req' = [req EXCEPT ![r].at = "asking", ![r].todo = Plan.chain]
  /\ memory' = IF Plan.cached /\ redis # "up" THEN Unset ELSE memory
  /\ UNCHANGED <<fixed, apis, now, redis, remote, stats>>

Asks(r, o) ==
  /\ req[r].at = "asking" /\ req[r].todo # <<>>
  /\ o \in Outcomes(Head(req[r].todo))

Found(r) ==
  /\ Asks(r, "ok")
  /\ req' = [req EXCEPT ![r].found = now,
                        ![r].at = IF Plan.cached THEN "storing" ELSE AfterChain]
  /\ UNCHANGED <<fixed, apis, now, store>>

\* The articles of the first source that has any are all unfit to show, or the
\* series of the first that has one is empty or too short.
Discard(r) ==
  /\ Asks(r, "unfit")
  /\ req' = [req EXCEPT ![r].found = Nothing, ![r].unfit = TRUE,
                        ![r].at = IF Plan.cached THEN "storing" ELSE AfterChain]
  /\ UNCHANGED <<fixed, apis, now, store>>

TriesAgain(r, o) == o \in Plan.retried /\ req[r].tries < RETRY_ATTEMPTS

TryAgain(r) ==
  /\ \E o \in {"none", "error", "surprise"} : Asks(r, o) /\ TriesAgain(r, o)
  /\ req' = [req EXCEPT ![r].tries = @ + 1]
  /\ UNCHANGED <<fixed, apis, now, store>>

\* Deliberately wrong: a provider that failed is asked again in the end.
RestRotating(r) == Append(Tail(req[r].todo), Head(req[r].todo))

\* What is left of the chain after a provider was given up.
Rest(r) == Tail(req[r].todo)

MoveOn(r) ==
  /\ \E o \in {"none", "error", "surprise"} :
       /\ Asks(r, o) /\ ~TriesAgain(r, o)
       /\ req' = [req EXCEPT ![r].todo = Rest(r), ![r].tries = 1,
                             ![r].lost = @ \cup {Head(req[r].todo)}]
  /\ UNCHANGED <<fixed, apis, now, store>>

\* Deliberately wrong: every service keeps that there was nothing.
GiveUpKeeping(r) ==
  /\ req[r].at = "asking" /\ req[r].todo = <<>>
  /\ req' = [req EXCEPT ![r].found = Nothing,
                        ![r].at = IF Plan.cached THEN "storing" ELSE AfterChain]
  /\ UNCHANGED <<fixed, apis, now, store>>

\* The chain is over: None, an error, or for the news services an empty list,
\* which they keep.
GiveUp(r) ==
  /\ req[r].at = "asking" /\ req[r].todo = <<>>
  /\ req' = [req EXCEPT ![r].found = Nothing,
                        ![r].at = IF Plan.keepsNothing THEN "storing" ELSE AfterChain]
  /\ UNCHANGED <<fixed, apis, now, store>>

Store(r) ==
  /\ req[r].at = "storing"
  /\ Keep(req[r].found)
  /\ req' = [req EXCEPT ![r].at = AfterChain]
  /\ UNCHANGED <<fixed, apis, now, redis, stats>>

\* MarketService.get_binance_price.  An entry carries the time at which its
\* request set out.
StatsLive == stats # Unset /\ now - stats < StatsTtl

StatsHit(r) ==
  /\ req[r].at = "stats" /\ StatsLive
  /\ req' = [req EXCEPT ![r].at = "answered",
                        ![r].found = IF @ = Nothing THEN stats ELSE @]
  /\ UNCHANGED <<fixed, apis, now, store>>

StatsMiss(r) ==
  /\ req[r].at = "stats" /\ ~StatsLive
  /\ req' = [req EXCEPT ![r].at = "binance", ![r].began = now]
  /\ UNCHANGED <<fixed, apis, now, store>>

StatsAnswer(r) ==
  /\ req[r].at = "binance"
  /\ \/ /\ stats' = req[r].began
        /\ req' = [req EXCEPT ![r].at = "answered",
                              ![r].found = IF @ = Nothing THEN req[r].began ELSE @]
     \/ /\ req' = [req EXCEPT ![r].at = "answered"]
        /\ UNCHANGED stats
  /\ UNCHANGED <<fixed, apis, now, redis, remote, memory>>

Done(r) ==
  /\ req[r].at = "answered"
  /\ req' = [req EXCEPT ![r] = Start]
  /\ UNCHANGED <<fixed, apis, now, store>>

-----------------------------------------------------------------------------
\* Redis drops what has expired.
Tick ==
  /\ now < MaxTime
  /\ now' = now + 1
  /\ remote' = IF remote # Unset /\ now' - remote.kept >= Ttl THEN Unset ELSE remote
  /\ UNCHANGED <<fixed, apis, redis, memory, stats, req>>

Outage ==
  /\ redis \in {"up", "down"}
  /\ redis' = IF redis = "up" THEN "down" ELSE "up"
  /\ UNCHANGED <<fixed, apis, now, remote, memory, stats, req>>

Proceed(r) ==
  \/ Hit(r) \/ Miss(r) \/ Found(r) \/ Discard(r) \/ TryAgain(r) \/ MoveOn(r) \/ GiveUp(r)
  \/ Store(r) \/ StatsHit(r) \/ StatsMiss(r) \/ StatsAnswer(r)

QuotesNext ==
  \/ \E r \in Request : Submit(r) \/ SubmitPair(r) \/ Proceed(r) \/ Done(r)
  \/ Tick \/ Outage

QuotesSpec == QuotesInit /\ [][QuotesNext]_quotes

-----------------------------------------------------------------------------
\* The steps a request has left at most: the stages to come, then the attempts.
Left(r) ==
  LET stages == [answered |-> 0, binance |-> 1, stats |-> 2, storing |-> 3,
                 asking |-> 4, lookup |-> 5]
  IN  stages[req[r].at] * RETRY_ATTEMPTS * (Len(Plan.chain) + 1)
        + Len(req[r].todo) * RETRY_ATTEMPTS + (RETRY_ATTEMPTS - req[r].tries)

(* Type invariant: the requests are at one of the stages of their service, *)
(* nothing but a service that caches fills the cache, and what is kept or  *)
(* under way was produced in the past.                                     *)
QuotesTypeOK ==
  /\ service \in Services /\ apis \in {ForexOrder, PairOrder}
  /\ redis \in {"absent", "up", "down"} /\ now \in Nat
  /\ \A e \in {remote, memory} :
       e # Unset => e.kept \in 0..now /\ e.value \in 0..e.kept \cup {Nothing}
  /\ stats # Unset => service = "crypto" /\ stats \in 0..now
  /\ req \in [Request -> RequestState(now)]
  /\ \A r \in Request :
       /\ req[r].at = "storing" => Plan.cached
       /\ req[r].at \in {"stats", "binance"} => service = "crypto"
  /\ ~Plan.cached => remote = Unset /\ memory = Unset

(* An outage of Redis sends lookups to a second copy that Redis knows      *)
(* nothing of, and back, and slow requests write old answers late: still   *)
(* what a lookup finds was kept no longer ago than the time to live.       *)
AgeBounded == \A r \in Request : req[r].age <= Ttl

\* The providers a request has not given up, the one it asks among them.
StillToAsk(r) == {req[r].todo[i] : i \in DOMAIN req[r].todo}

(* A request comes back without data only if every provider that can be    *)
(* used has let it down.  There are two exceptions.  The headlines, and    *)
(* the series behind the indicators, stop at a provider whose data turn    *)
(* out to be of no use: those before it have still let the request down,   *)
(* and only it and those behind it have not.  And the news services, alone *)
(* of all, repeat for a time to live that an earlier request found nothing. *)
NothingIsExhaustive ==
  \A r \in Request : req[r].found = Nothing =>
    \/ \A i \in DOMAIN Plan.chain : Plan.chain[i] \in req[r].lost
    \/ /\ service \in Headline \cup Series /\ req[r].unfit
       /\ \A i \in DOMAIN Plan.chain : Plan.chain[i] \in req[r].lost \cup StillToAsk(r)
    \/ service \in Headline \cup {"symbol news"} /\ req[r].lost = {}

(* A request gets nearer to its answer with every step, whatever providers *)
(* fail and however often: what is left of the chain and of the attempts   *)
(* shrinks, and nothing that happens to the caches gives any of it back.   *)
RequestsConverge ==
  [][\A r \in Request :
       req[r].at \notin {"idle", "answered"} /\ req'[r] # req[r] => Left(r)' < Left(r)]_quotes
=============================================================================
