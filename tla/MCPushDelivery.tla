--------------------------- MODULE MCPushDelivery ---------------------------
(* PushDelivery on a small instance: a broadcast in a thread and one on    *)
(* the event loop.                                                         *)
EXTENDS PushDelivery, TLC

\* One retry for 429 and for a 5xx, none otherwise: as many branches, fewer states.
ShortDelays == [f \in Failure |-> IF f \in {"busy", "down"} THEN 1 ELSE 0]

Symmetry == Permutations(Row) \cup Permutations(Thread)
=============================================================================
