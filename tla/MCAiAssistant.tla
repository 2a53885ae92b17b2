--------------------------- MODULE MCAiAssistant ---------------------------
(***************************************************************************)
(* AiAssistant on two small instances in one: either two chat requests     *)
(* with two prompts meet at the circuit breakers, or a chat request and a  *)
(* context request share one prompt.                                       *)
(***************************************************************************)
EXTENDS AiAssistant, TLC

CONSTANTS c1, v1, p1

VARIABLE crew   \* the callers that make requests

Providers == <<"mistral", "ollama">>

MCInit == Init /\ crew \in {Chatter, {c1, v1}}

MCNext ==
  /\ Next
  /\ UNCHANGED crew
  /\ \A c \in Caller \ crew : agent'[c] = agent[c]
  /\ v1 \in crew => \A j \in Job : job'[j].prompt \in {None, p1}

MCSpec == MCInit /\ [][MCNext]_<<vars, crew>>

Symmetry == Permutations(Job) \cup Permutations(Chatter)
=============================================================================
