---------------------------- MODULE TokenLedger ----------------------------
(***************************************************************************)
(* What the refresh-token endpoints promise.  A token is unissued, then    *)
(* live, then dead, and dead for good.  It belongs to the user it was      *)
(* issued to.  It is issued by a login, or in exchange for a token of the  *)
(* same user that is dead already.  Nothing is said of how many tokens may *)
(* be issued for one: that depends on how requests overlap, see            *)
(* AuthTokens.                                                             *)
(***************************************************************************)
CONSTANTS User, Token, None

VARIABLES
  state,    \* of each token
  holder,   \* the user a token was issued to
  origin    \* the token it was issued for, None for a login

State == {"unissued", "live", "dead"}

LedgerTypeOK ==
  /\ state \in [Token -> State]
  /\ holder \in [Token -> User \cup {None}]
  /\ origin \in [Token -> Token \cup {None}]

LedgerInit ==
  /\ state = [t \in Token |-> "unissued"]
  /\ holder = [t \in Token |-> None]
  /\ origin = [t \in Token |-> None]

Record(n, u, from) ==
  /\ state[n] = "unissued"
  /\ state' = [state EXCEPT ![n] = "live"]
  /\ holder' = [holder EXCEPT ![n] = u]
  /\ origin' = [origin EXCEPT ![n] = from]

\* A login.
Issue(n, u) == Record(n, u, None)

\* A rotation: the old token is out of circulation before the new one is in.
Renew(n, from) ==
  /\ state[from] = "dead"
  /\ Record(n, holder[from], from)

\* A rotation, a logout or an expiry takes tokens of one user out.
Retire(u) ==
  /\ \E S \in SUBSET {t \in Token : state[t] = "live" /\ holder[t] = u} :
       state' = [t \in Token |-> IF t \in S THEN "dead" ELSE state[t]]
  /\ UNCHANGED <<holder, origin>>

LedgerNext ==
  \/ \E n \in Token : \E u \in User : Issue(n, u)
  \/ \E n \in Token, from \in Token : Renew(n, from)
  \/ \E u \in User : Retire(u)

LedgerSpec == LedgerInit /\ [][LedgerNext]_<<state, holder, origin>>
=============================================================================
