---------------------------- MODULE MCAuthTokens ----------------------------
(* AuthTokens on a small instance: two requests at a time.                 *)
EXTENDS AuthTokens, TLC

Symmetry == Permutations(Request) \cup Permutations(RefreshToken)
              \cup Permutations(User)
=============================================================================
