----------------------------- MODULE AuthTokens -----------------------------
(***************************************************************************)
(* The token lifecycle of the backend: POST /login, /refresh, /logout and  *)
(* /logout_all (routers/auth.py) over the tables refresh_tokens and        *)
(* sessions (services/user_service.py).                                    *)
(*                                                                         *)
(* The handlers of /refresh and of the logouts run in threads, each with   *)
(* its own database session, so what is atomic is one committed            *)
(* transaction.  A handler that commits several is a sequence of actions   *)
(* here, and between two of them any other request may run, or the request *)
(* may die.  /login is a coroutine that holds the event loop, so within    *)
(* one server process two logins do not overlap; here they may, as they    *)
(* do when several processes share the database.                           *)
(*                                                                         *)
(* Abstractions.  A refresh token is an element of RefreshToken: login and *)
(* refresh put a random jti into each, so two mintings never coincide.  An *)
(* access token of a user is told apart from his others by a jti when a    *)
(* login signed it (named by the refresh token of that login), and only by *)
(* the second it was signed in when a refresh did: that one has no jti.    *)
(* sessions holds the rows that have not expired, because every query      *)
(* filters the others out.                                                 *)
(***************************************************************************)
EXTENDS Naturals, SequencesExt

CONSTANTS
  User,          \* accounts
  RefreshToken,  \* the supply of refresh tokens (bounds a run)
  Request,       \* server threads, one request each at a time
  MaxSecond,     \* the clock stops here (bounds a run)
  MaxSessions,   \* Config.MAX_CONCURRENT_SESSIONS, 0 for no limit
  None           \* no user, no token

ASSUME BoundsAssumption == MaxSecond \in Nat /\ MaxSessions \in Nat

ASSUME NoneAssumption == None \notin User \cup RefreshToken \cup (0 .. MaxSecond)

VARIABLES
  rows,      \* table refresh_tokens: the tokens with a row
  owner,     \* the sub claim of each minted token, None while not minted
  lapsed,    \* minted tokens whose exp claim is in the past
  sessions,  \* table sessions: a user's unexpired rows in created_at order
  second,    \* wall clock, in seconds
  held,      \* refresh tokens that were sent to a client
  req,       \* the request each thread is serving
  parent,    \* history: the token a token was exchanged for
  overlaps   \* history: registrations of a user that overlapped another one

vars == <<rows, owner, lapsed, sessions, second, held, req, parent, overlaps>>

AccessToken == RefreshToken \cup (0 .. MaxSecond)

\* Where a handler stands: what it does next.
Stage == {"idle",
          "delete",    \* refresh: row found, delete it        (auth.py:581)
          "insert",    \* refresh: insert the successor        (auth.py:584)
          "fallback",  \* refresh: no row, rotate in service   (auth.py:605)
          "count",     \* register the session: read the rows  (user_service.py:491)
          "commit",    \* register the session: evict, insert  (user_service.py:504)
          "revoke"}    \* logout_all: delete the user's rows   (user_service.py:365)

RequestState ==
  [pc : Stage, user : User \cup {None}, token : RefreshToken \cup {None},
   fresh : RefreshToken \cup {None}, access : AccessToken \cup {None},
   victim : AccessToken \cup {None}, raced : BOOLEAN]

\* No request: the answer, whatever it was, has been given.
NoRequest ==
  [pc |-> "idle", user |-> None, token |-> None, fresh |-> None,
   access |-> None, victim |-> None, raced |-> FALSE]

Minted == {t \in RefreshToken : owner[t] # None}

RowsOf(u) == {t \in rows : owner[t] = u}

\* s without the row of access token a, if it is there.
Delete(s, a) ==
  IF a \in ToSet(s) THEN RemoveAt(s, CHOOSE i \in DOMAIN s : s[i] = a) ELSE s

TypeOK ==
  /\ rows \subseteq Minted
  /\ owner \in [RefreshToken -> User \cup {None}]
  /\ lapsed \subseteq Minted
  /\ sessions \in [User -> Seq(AccessToken)]
  /\ second \in 0 .. MaxSecond
  /\ held \subseteq Minted
  /\ req \in [Request -> RequestState]
  /\ parent \in [RefreshToken -> RefreshToken \cup {None}]
  /\ overlaps \in [User -> Nat]

Init ==
  /\ rows = {}
  /\ owner = [t \in RefreshToken |-> None]
  /\ lapsed = {}
  /\ sessions = [u \in User |-> <<>>]
  /\ second = 0
  /\ held = {}
  /\ req = [r \in Request |-> NoRequest]
  /\ parent = [t \in RefreshToken |-> None]
  /\ overlaps = [u \in User |-> 0]

-----------------------------------------------------------------------------
(* Helpers shared by the handlers.                                         *)

Idle(r) == req[r].pc = "idle"

\* The row is inserted without its user_id: a deliberately wrong Store.
StoreWithoutUser(n, u, from) ==
  /\ n \notin Minted
  /\ parent' = [parent EXCEPT ![n] = from]
  /\ UNCHANGED owner

\* Sign a new refresh token n for u and commit its row.
Store(n, u, from) ==
  /\ n \notin Minted
  /\ owner' = [owner EXCEPT ![n] = u]
  /\ parent' = [parent EXCEPT ![n] = from]

\* Answer the request: nothing of it stays behind.
Answer(r) == req' = [req EXCEPT ![r] = NoRequest]

\* The part of the state only session registration touches.
sessionVars == <<sessions, overlaps>>

\* The clock and the clients.
worldVars == <<lapsed, second, held>>

-----------------------------------------------------------------------------
(* Deliberately wrong variants of the definitions below, for checking that *)
(* the properties notice.  No specification uses them.                     *)

\* The lookup does not insist on a row.
LookupWithoutRow(r, t) ==
  /\ Idle(r)
  /\ t \in held \ lapsed
  /\ req' = [req EXCEPT ![r] = [NoRequest EXCEPT !.pc = "delete",
                                  !.user = owner[t], !.token = t]]
  /\ UNCHANGED <<rows, owner, parent, sessionVars, worldVars>>

\* The exchanged token keeps its row.
RotateKeepingOld(r) ==
  /\ req[r].pc = "delete"
  /\ req' = [req EXCEPT ![r].pc = "insert"]
  /\ UNCHANGED <<rows, owner, parent, sessionVars, worldVars>>

\* rotate_refresh_token trusts the signature and needs no row.
FallbackWithoutRow(r) ==
  /\ req[r].pc = "fallback"
  /\ \E n \in RefreshToken :
       /\ Store(n, req[r].user, req[r].token)
       /\ rows' = rows \cup {n}
       /\ req' = [req EXCEPT ![r].pc = "count", ![r].fresh = n, ![r].access = n]
  /\ UNCHANGED <<sessionVars, worldVars>>

\* One session too many is let in: > for >=.
CountOneTooMany(r) ==
  LET active == sessions[req[r].user] IN
  /\ req[r].pc = "count"
  /\ req' = [req EXCEPT ![r].pc = "commit",
               ![r].victim = IF MaxSessions > 0 /\ Len(active) > MaxSessions
                             THEN Head(active) ELSE None]
  /\ UNCHANGED <<rows, owner, parent, sessionVars, worldVars>>

\* The WHERE user_id is missing.
RevokeEverybody(r) ==
  /\ req[r].pc = "revoke"
  /\ rows' = {}
  /\ Answer(r)
  /\ UNCHANGED <<owner, parent, sessionVars, worldVars>>

-----------------------------------------------------------------------------
(* POST /login                                                             *)

\* Right password: store_refresh_token commits the row, then the session is
\* registered with an access token that carries a jti of its own.
Login(r, u) ==
  /\ Idle(r)
  /\ \E n \in RefreshToken :
       /\ Store(n, u, None)
       /\ rows' = rows \cup {n}
       /\ req' = [req EXCEPT ![r] =
                    [NoRequest EXCEPT !.pc = "count", !.user = u,
                       !.fresh = n, !.access = n]]
  /\ UNCHANGED <<sessionVars, worldVars>>

-----------------------------------------------------------------------------
(* POST /refresh                                                           *)

\* The lookup of the presented token: three ways on.
RefreshLookup(r, t) ==
  /\ Idle(r)
  /\ t \in held
  /\ \/ /\ t \in rows
        /\ t \notin lapsed
        /\ req' = [req EXCEPT ![r] =
                     [NoRequest EXCEPT !.pc = "delete",
                        !.user = owner[t], !.token = t]]
        /\ UNCHANGED rows
     \/ /\ t \in rows
        /\ t \in lapsed
        /\ rows' = rows \ {t}
        /\ Answer(r)
     \/ /\ t \notin rows
        /\ req' = [req EXCEPT ![r] =
                     [NoRequest EXCEPT !.pc = "fallback",
                        !.user = owner[t], !.token = t]]
        /\ UNCHANGED rows
  /\ UNCHANGED <<owner, parent, sessionVars, worldVars>>

\* db.delete(db_token); db.commit().  Deleting a row that is gone already is
\* no error: the mapper only warns.
RotateDelete(r) ==
  /\ req[r].pc = "delete"
  /\ rows' = rows \ {req[r].token}
  /\ req' = [req EXCEPT ![r].pc = "insert"]
  /\ UNCHANGED <<owner, parent, sessionVars, worldVars>>

\* The successor is committed in a transaction of its own, and the access
\* token is signed: no jti, so the second is what tells it apart.
RotateInsert(r) ==
  /\ req[r].pc = "insert"
  /\ \E n \in RefreshToken :
       /\ Store(n, req[r].user, req[r].token)
       /\ rows' = rows \cup {n}
       /\ req' = [req EXCEPT ![r].pc = "count", ![r].fresh = n,
                    ![r].access = second]
  /\ UNCHANGED <<sessionVars, worldVars>>

\* rotate_refresh_token.  decode_refresh raises PyJWTError for an expired
\* token and nothing catches it; no row is invalid_refresh; with a row the
\* token would be exchanged in one transaction.
Fallback(r) ==
  LET t == req[r].token IN
  /\ req[r].pc = "fallback"
  /\ IF t \notin lapsed /\ t \in rows
     THEN \E n \in RefreshToken :
            /\ Store(n, req[r].user, t)
            /\ rows' = (rows \ {t}) \cup {n}
            /\ req' = [req EXCEPT ![r].pc = "count", ![r].fresh = n,
                         ![r].access = n]
     ELSE /\ Answer(r)
          /\ UNCHANGED <<rows, owner, parent>>
  /\ UNCHANGED <<sessionVars, worldVars>>

-----------------------------------------------------------------------------
(* register_external_session, the tail of both handlers.                   *)

\* The query for the user's active sessions, and the oldest as the victim
\* when there are too many.
CountSessions(r) ==
  LET active == sessions[req[r].user] IN
  /\ req[r].pc = "count"
  /\ req' = [req EXCEPT ![r].pc = "commit",
               ![r].victim = IF MaxSessions > 0 /\ Len(active) >= MaxSessions
                             THEN Head(active) ELSE None]
  /\ UNCHANGED <<rows, owner, parent, sessionVars, worldVars>>

\* What request r's commit does to a request q: if q has counted the same
\* user's sessions its count is out of date, and if it chose the same victim
\* its DELETE will match no row.
Overtake(r, q) ==
  IF q # r /\ req[q].pc = "commit" /\ req[q].user = req[r].user
  THEN [req[q] EXCEPT !.raced = TRUE,
                      !.victim = IF @ = req[r].victim THEN None ELSE @]
  ELSE req[q]

\* Delete the victim, insert the row, commit, and send both tokens.  A client
\* that never uses them stands for a response that is lost.
CommitSession(r) ==
  LET u == req[r].user
      kept == Delete(sessions[u], req[r].victim) IN
  /\ req[r].pc = "commit"
  /\ req[r].access \notin ToSet(kept)
  /\ sessions' = [sessions EXCEPT ![u] = Append(kept, req[r].access)]
  /\ overlaps' = [overlaps EXCEPT ![u] = IF req[r].raced THEN @ + 1 ELSE @]
  /\ req' = [q \in Request |-> IF q = r THEN NoRequest ELSE Overtake(r, q)]
  /\ held' = held \cup {req[r].fresh}
  /\ UNCHANGED <<rows, owner, parent, lapsed, second>>

\* sessions.token is unique: IntegrityError, the transaction rolls back and
\* the handler answers 500.
SessionConflict(r) ==
  /\ req[r].pc = "commit"
  /\ req[r].access \in ToSet(Delete(sessions[req[r].user], req[r].victim))
  /\ Answer(r)
  /\ UNCHANGED <<rows, owner, parent, sessionVars, worldVars>>

-----------------------------------------------------------------------------
(* POST /logout and /logout_all                                            *)

\* One token: delete its row, whatever its state.
Logout(r, t) ==
  /\ Idle(r)
  /\ t \in held
  /\ rows' = rows \ {t}
  /\ Answer(r)
  /\ UNCHANGED <<owner, parent, sessionVars, worldVars>>

\* revoke_all: any token that still decodes names the user; else 400.
LogoutRevokeAll(r, t) ==
  /\ Idle(r)
  /\ t \in held \ lapsed
  /\ rows' = rows \ RowsOf(owner[t])
  /\ Answer(r)
  /\ UNCHANGED <<owner, parent, sessionVars, worldVars>>

\* /logout_all authenticates with an access token (get_current_user) ...
LogoutAll(r, u) ==
  /\ Idle(r)
  /\ sessions[u] # <<>>
  /\ req' = [req EXCEPT ![r] = [NoRequest EXCEPT !.pc = "revoke", !.user = u]]
  /\ UNCHANGED <<rows, owner, parent, sessionVars, worldVars>>

\* ... and then deletes the refresh tokens of the user (revoke_all_tokens).
RevokeAllTokens(r) ==
  /\ req[r].pc = "revoke"
  /\ rows' = rows \ RowsOf(req[r].user)
  /\ Answer(r)
  /\ UNCHANGED <<owner, parent, sessionVars, worldVars>>

-----------------------------------------------------------------------------
(* The environment                                                         *)

\* A database error or a crash of the server ends a request where it stands.
Die(r) ==
  /\ ~Idle(r)
  /\ Answer(r)
  /\ UNCHANGED <<rows, owner, parent, sessionVars, worldVars>>

\* The exp claim of a refresh token passes.
RefreshLapses(t) ==
  /\ t \in Minted \ lapsed
  /\ lapsed' = lapsed \cup {t}
  /\ UNCHANGED <<rows, owner, parent, sessionVars, second, held, req>>

\* The expires_at of a session passes, minutes after its token was signed.
SessionLapses(u, i) ==
  /\ i \in DOMAIN sessions[u]
  /\ sessions[u][i] # second
  /\ sessions' = [sessions EXCEPT ![u] = RemoveAt(@, i)]
  /\ UNCHANGED <<rows, owner, parent, overlaps, worldVars, req>>

Tick ==
  /\ second < MaxSecond
  /\ second' = second + 1
  /\ UNCHANGED <<rows, owner, parent, sessionVars, lapsed, held, req>>

Next ==
  \/ \E r \in Request :
       \/ \E u \in User : Login(r, u) \/ LogoutAll(r, u)
       \/ \E t \in RefreshToken :
            RefreshLookup(r, t) \/ Logout(r, t) \/ LogoutRevokeAll(r, t)
       \/ RotateDelete(r) \/ RotateInsert(r) \/ Fallback(r)
       \/ CountSessions(r) \/ CommitSession(r) \/ SessionConflict(r)
       \/ RevokeAllTokens(r)
       \/ Die(r)
  \/ \E t \in RefreshToken : RefreshLapses(t)
  \/ \E u \in User : \E i \in DOMAIN sessions[u] : SessionLapses(u, i)
  \/ Tick

Spec == Init /\ [][Next]_vars

-----------------------------------------------------------------------------
(* Properties                                                              *)

\* The exchange is not one transaction, but its order is right: while a
\* token still has its row, no successor of it has been minted, so a token
\* and the one it was exchanged for are never both accepted.
ExchangedIsDead ==
  \A n \in RefreshToken : parent[n] # None => parent[n] \notin rows

\* Request r has found t's row and not yet minted the successor.
Rotating(r, t) == req[r].pc \in {"delete", "insert"} /\ req[r].token = t

Successors(t) == {n \in RefreshToken : parent[n] = t}

Retired(t) == t \notin rows /\ \A r \in Request : ~Rotating(r, t)

\* Replay protection.  Two requests that both found the row may each mint a
\* successor; but once the row is gone and the requests that had found it are
\* over, presenting the token again, however often and through whichever
\* branch of the handler, never mints another.
NoLateSuccessor ==
  [][\A t \in Minted :
       Retired(t) => Retired(t)' /\ Successors(t)' = Successors(t)]_vars

\* u has no refresh token and no rotation of u's is under way.
SignedOut(u) ==
  /\ RowsOf(u) = {}
  /\ \A r \in Request : req[r].pc \in {"delete", "insert"} => req[r].user # u

\* Revocation lasts.  After /logout_all (or the last /logout) has met no
\* rotation under way, no sequence of requests with old tokens gives the user
\* a refresh token again: only a login does.
OnlyLoginRevives ==
  [][\A u \in User :
       SignedOut(u) => SignedOut(u)' \/ \A n \in RowsOf(u)' : parent'[n] = None]_vars

\* The session limit under concurrency.  register_external_session counts,
\* then inserts: a user exceeds MAX_CONCURRENT_SESSIONS by at most the number
\* of registrations that committed after another one of the same user had
\* committed since their count.
SessionCap ==
  MaxSessions > 0 =>
    \A u \in User : Len(sessions[u]) <= MaxSessions + overlaps[u]

\* The endpoints implement the ledger.
Ledger == INSTANCE TokenLedger WITH
  Token  <- RefreshToken,
  state  <- [t \in RefreshToken |-> IF t \in rows THEN "live"
                                    ELSE IF t \in Minted THEN "dead" ELSE "unissued"],
  holder <- owner,
  origin <- parent

LedgerRefined == Ledger!LedgerSpec

\* The answer of /logout_all, "All sessions revoked" (routers/auth.py:763),
\* read literally: afterwards no session of the user is accepted.
AllSessionsRevoked ==
  [][\A r \in Request, u \in User :
       RevokeAllTokens(r) /\ req[r].user = u => sessions'[u] = <<>>]_vars

\* A login or a refresh that has stored its tokens is answered 200, as
\* tests/test_auth_refresh.py:70-74 expects: the insert of its session meets
\* no row with the same token.
RefreshIsAnswered ==
  \A r \in Request :
    req[r].pc = "commit" =>
      req[r].access \notin ToSet(Delete(sessions[req[r].user], req[r].victim))
=============================================================================
