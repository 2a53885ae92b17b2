--------------------------- MODULE MCLoginBackoff ---------------------------
(***************************************************************************)
(* LoginBackoff on small instances and, beside it, the rate limits and the *)
(* live notifications of a tab: a behaviour is of a server without the     *)
(* soft lock, of one that has it and allows one guess less, or of one of   *)
(* the two others, which share nothing with it.                            *)
(***************************************************************************)
EXTENDS LoginBackoff, RateLimit, Notifications

VARIABLE bar   \* "hard", "soft", "rate" or "live"

Ladder == <<1, 2>>

Soft == INSTANCE LoginBackoff
          WITH SoftThreshold <- 2, Cooldown <- 3, Threshold <- Threshold - 1

beside == <<bar, limits, live>>

MCInit ==
  /\ Init
  /\ LimitInit
  /\ LiveInit
  /\ bar \in {"hard", "soft", "rate", "live"}
  /\ bar # "rate" => limiter = "login"

MCNext ==
  /\ UNCHANGED bar
  /\ \/ bar = "hard" /\ Next /\ UNCHANGED <<limits, live>>
     \/ bar = "soft" /\ Soft!Next /\ UNCHANGED <<limits, live>>
     \/ bar = "rate" /\ LimitNext /\ UNCHANGED <<vars, live>>
     \/ bar = "live" /\ LiveNext /\ UNCHANGED <<vars, limits>>

MCSpec ==
  /\ MCInit
  /\ [][MCNext]_<<vars, beside>>
  /\ WF_<<vars, beside>>(bar \in {"hard", "soft"} /\ Tick /\ UNCHANGED beside)
=============================================================================
