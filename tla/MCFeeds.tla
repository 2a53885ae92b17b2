------------------------------ MODULE MCFeeds ------------------------------
(***************************************************************************)
(* AiStream and MarketData on small instances: what the dashboard streams  *)
(* and what it quotes.  The two share nothing, so a behaviour is of one.   *)
(***************************************************************************)
EXTENDS AiStream, MarketData

VARIABLE feed   \* "text" or "quotes"

\* No key at all, two, and all of them.
Rings == {{}, {"TwelveData", "NewsAPI"}, Keyed}

\* Each service with a keyring that makes a difference to it, and Redis for
\* those whose chains are short.
MarketInit ==
  /\ QuotesInit
  /\ service \in {"forex", "finance news", "symbol news"} => keys = Keyed
  /\ service \in {"stock", "crypto news"} => keys = {"TwelveData", "NewsAPI"}
  /\ service \notin {"forex", "finance news", "symbol news", "stock",
                     "crypto news", "stock series", "forex series"} => keys = {}
  /\ redis = "up" <=> service \in {"stock", "candles", "odd candles", "crypto news"}

MCInit ==
  /\ Init
  /\ MarketInit
  /\ feed \in {"text", "quotes"}
  /\ feed = "text" => service = "chart"

MCNext ==
  /\ UNCHANGED feed
  /\ IF feed = "text" THEN Next /\ UNCHANGED quotes ELSE QuotesNext /\ UNCHANGED vars

\* The fairness of FairSpec.
MCSpec ==
  /\ MCInit
  /\ [][MCNext]_<<feed, vars, quotes>>
  /\ \A s \in Stream : WF_<<vars, quotes>>(feed = "text" /\ Step(s) /\ UNCHANGED quotes)
=============================================================================
