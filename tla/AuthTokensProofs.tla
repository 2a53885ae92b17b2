-------------------------- MODULE AuthTokensProofs --------------------------
(***************************************************************************)
(* Proofs about AuthTokens, for every set of users, tokens and requests    *)
(* and every limit.  The inductive invariant is IInv: the type invariant,  *)
(* what a request in the middle of its transactions knows (RequestsOK),    *)
(* the lineage of the tokens (Lineage), and what a count of the sessions   *)
(* is still worth when it is used (CountsOK).                              *)
(***************************************************************************)
EXTENDS AuthTokens, SequenceTheorems, TLAPS

\* What a request in state s knows of the tables R and O.  Past its first
\* transaction it belongs to a user; a rotation holds a token of that user,
\* which after RotateDelete, and in the fallback branch, has no row.
Sound(s, R, O) ==
  /\ s.pc # "idle" => s.user \in User
  /\ s.pc \in {"delete", "insert", "fallback"} =>
       s.token \in RefreshToken /\ O[s.token] = s.user
  /\ s.pc \in {"insert", "fallback"} => s.token \notin R
  /\ s.pc \in {"count", "commit"} =>
       s.fresh \in RefreshToken /\ O[s.fresh] # None /\ s.access \in AccessToken

RequestsOK == \A r \in Request : Sound(req[r], rows, owner)

\* A token was exchanged for a token of the same user that has no row.
Lineage ==
  \A n \in RefreshToken :
    parent[n] # None =>
      n \in Minted /\ parent[n] \in Minted \ rows /\ owner[parent[n]] = owner[n]

TokenInv == TypeOK /\ RequestsOK /\ Lineage

\* All that a step does to the tables of tokens: it takes rows of one user
\* out, or it mints one token, for a login or for a token of the same user
\* that has no row.
Removes(u) == rows' \subseteq rows /\ rows \ rows' \subseteq RowsOf(u) /\ UNCHANGED <<owner, parent>>

Mints(n, u, from) ==
  /\ Store(n, u, from)
  /\ rows' = rows \cup {n}
  /\ from # None => from \in Minted \ rows /\ owner[from] = u

TableStep ==
  \/ UNCHANGED <<rows, owner, parent>>
  \/ \E u \in User : Removes(u)
  \/ \E n \in RefreshToken, u \in User, from \in RefreshToken \cup {None} : Mints(n, u, from)

\* u has room for one more session.
Room(u) == Len(sessions[u]) < MaxSessions + overlaps[u]

\* What a request that no other commit has overtaken can rely on: there is
\* room, or its victim still has a row.
CountsOK ==
  MaxSessions > 0 =>
    \A r \in Request :
      req[r].pc = "commit" /\ ~req[r].raced =>
        \/ Room(req[r].user)
        \/ req[r].victim \in ToSet(sessions[req[r].user])

IInv == TokenInv /\ CountsOK /\ SessionCap

-----------------------------------------------------------------------------
(* Sequences                                                               *)

\* RemoveAt drops exactly one element.
LEMMA RemoveAtProperties ==
  ASSUME NEW S, NEW s \in Seq(S), NEW i \in 1 .. Len(s)
  PROVE  RemoveAt(s, i) \in Seq(S) /\ Len(RemoveAt(s, i)) = Len(s) - 1
<1>. DEFINE p == SubSeq(s, 1, i - 1)
            q == SubSeq(s, i + 1, Len(s))
<1>1. p \in Seq(S) /\ Len(p) = i - 1
  BY SubSeqProperties
<1>2. q \in Seq(S) /\ Len(q) = Len(s) - i
  BY SubSeqProperties
<1>3. RemoveAt(s, i) = p \o q
  BY DEF RemoveAt
<1>. HIDE DEF p, q
<1>4. p \o q \in Seq(S) /\ Len(p \o q) = Len(p) + Len(q)
  BY <1>1, <1>2, ConcatProperties
<1>. QED BY <1>1, <1>2, <1>3, <1>4

\* Deleting the row of a: one row less if it is there, nothing otherwise.
LEMMA DeleteProperties ==
  ASSUME NEW S, NEW s \in Seq(S), NEW a
  PROVE  /\ Delete(s, a) \in Seq(S)
         /\ a \in ToSet(s) => Len(Delete(s, a)) = Len(s) - 1
         /\ a \notin ToSet(s) => Delete(s, a) = s
<1>1. CASE a \in ToSet(s)
  <2>1. PICK i \in DOMAIN s : s[i] = a
    BY <1>1 DEF ToSet
  <2>2. (CHOOSE j \in DOMAIN s : s[j] = a) \in 1 .. Len(s)
    BY <2>1
  <2>. QED BY <1>1, <2>2, RemoveAtProperties DEF Delete
<1>2. CASE a \notin ToSet(s)
  BY <1>2 DEF Delete
<1>. QED BY <1>1, <1>2

-----------------------------------------------------------------------------
(* The token part of the invariant                                         *)

LEMMA NoRequestType == NoRequest \in RequestState /\ NoRequest.pc = "idle"
BY DEF NoRequest, RequestState, Stage

LEMMA TokenInvInit == Init => TokenInv
<1>. SUFFICES ASSUME Init PROVE TokenInv
  OBVIOUS
<1>. USE NoRequestType, BoundsAssumption DEF Init
<1>1. TypeOK
  BY DEF TypeOK, Minted
<1>2. RequestsOK
  BY DEF RequestsOK, Sound, NoRequest
<1>3. Lineage
  BY DEF Lineage
<1>. QED BY <1>1, <1>2, <1>3 DEF TokenInv

\* Minting n adds n, and only n, to the minted tokens.
LEMMA StoreProperties ==
  ASSUME TypeOK, NEW n \in RefreshToken, NEW u \in User,
         NEW from \in RefreshToken \cup {None}, Store(n, u, from)
  PROVE  /\ owner' \in [RefreshToken -> User \cup {None}]
         /\ parent' \in [RefreshToken -> RefreshToken \cup {None}]
         /\ n \notin Minted
         /\ Minted' = Minted \cup {n}
         /\ owner'[n] = u /\ parent'[n] = from
         /\ \A t \in RefreshToken \ {n} : owner'[t] = owner[t] /\ parent'[t] = parent[t]
BY NoneAssumption DEF TypeOK, Store, Minted

\* What a step does to the tables keeps their types, the lineage, and what a
\* request knows of them.
LEMMA TableStepKeeps ==
  ASSUME TokenInv, TableStep
  PROVE  /\ rows' \subseteq Minted' /\ Minted \subseteq Minted'
         /\ owner' \in [RefreshToken -> User \cup {None}]
         /\ parent' \in [RefreshToken -> RefreshToken \cup {None}]
         /\ Lineage'
         /\ \A s : Sound(s, rows, owner) => Sound(s, rows', owner')
<1>1. CASE rows' \subseteq rows /\ UNCHANGED <<owner, parent>>
  BY <1>1 DEF TokenInv, TypeOK, Minted, Lineage, Sound
<1>2. ASSUME NEW n \in RefreshToken, NEW u \in User, NEW from \in RefreshToken \cup {None},
             Mints(n, u, from)
      PROVE  /\ rows' \subseteq Minted' /\ Minted \subseteq Minted'
             /\ owner' \in [RefreshToken -> User \cup {None}]
             /\ parent' \in [RefreshToken -> RefreshToken \cup {None}]
             /\ Lineage'
             /\ \A s : Sound(s, rows, owner) => Sound(s, rows', owner')
  <2>1. /\ owner' \in [RefreshToken -> User \cup {None}]
        /\ parent' \in [RefreshToken -> RefreshToken \cup {None}]
        /\ n \notin Minted
        /\ Minted' = Minted \cup {n}
        /\ owner'[n] = u /\ parent'[n] = from
        /\ \A t \in RefreshToken \ {n} : owner'[t] = owner[t] /\ parent'[t] = parent[t]
    BY <1>2, StoreProperties DEF Mints, TokenInv
  <2>2. rows' = rows \cup {n} /\ (from # None => from \in Minted \ rows /\ owner[from] = u)
    BY <1>2 DEF Mints
  <2>3. rows \subseteq Minted
    BY DEF TokenInv, TypeOK
  <2>4. Lineage'
    BY <2>1, <2>2 DEF TokenInv, Lineage, Minted
  <2>5. ASSUME NEW s, Sound(s, rows, owner) PROVE Sound(s, rows', owner')
    <3>1. owner[n] = None
      BY <2>1 DEF Minted
    <3>. QED BY <2>1, <2>2, <2>5, <3>1, NoneAssumption DEF Sound
  <2>. QED BY <2>1, <2>2, <2>3, <2>4, <2>5
<1>3. CASE UNCHANGED <<rows, owner, parent>>
  BY <1>1, <1>3
<1>4. CASE \E u \in User : Removes(u)
  BY <1>1, <1>4 DEF Removes
<1>. QED BY <1>2, <1>3, <1>4 DEF TableStep

\* A step of request r that leaves it in a sound state keeps the invariant.
LEMMA RequestStep ==
  ASSUME TokenInv, TableStep, UNCHANGED <<sessions, overlaps, lapsed, second, held>>,
         NEW r \in Request, NEW new \in RequestState,
         req' = [req EXCEPT ![r] = new], Sound(new, rows', owner')
  PROVE  TokenInv'
<1>1. TypeOK'
  BY TableStepKeeps DEF TokenInv, TypeOK
<1>2. \A q \in Request : req'[q] = IF q = r THEN new ELSE req[q]
  BY DEF TokenInv, TypeOK
<1>3. \A q \in Request : Sound(req'[q], rows', owner')
  BY <1>2, TableStepKeeps DEF TokenInv, RequestsOK
<1>. QED BY <1>1, <1>3, TableStepKeeps DEF TokenInv, RequestsOK

\* In particular a step that ends the request.
LEMMA AnswerStep ==
  ASSUME TokenInv, TableStep, UNCHANGED <<sessions, overlaps, lapsed, second, held>>,
         NEW r \in Request, Answer(r)
  PROVE  TokenInv'
BY RequestStep, NoRequestType DEF Answer, Sound, NoRequest

-----------------------------------------------------------------------------
(* One lemma per action that changes the tables or the stage of a request: *)
(* what it does to the tables, and that it keeps TokenInv.                 *)

\* The record of a request is what its last update says it is.
LEMMA LoginStep ==
  ASSUME TokenInv, NEW r \in Request, NEW u \in User, Login(r, u)
  PROVE  TokenInv' /\ \E n \in RefreshToken : Mints(n, u, None)
<1>. DEFINE new(n) == [NoRequest EXCEPT !.pc = "count", !.user = u, !.fresh = n, !.access = n]
<1>1. PICK n \in RefreshToken :
        Store(n, u, None) /\ rows' = rows \cup {n} /\ req' = [req EXCEPT ![r] = new(n)]
  BY DEF Login
<1>2. UNCHANGED <<sessions, overlaps, lapsed, second, held>>
  BY DEF Login, sessionVars, worldVars
<1>3. Mints(n, u, None)
  BY <1>1 DEF Mints
<1>4. TableStep
  BY <1>3 DEF TableStep
<1>5. new(n) \in RequestState
  BY DEF NoRequest, RequestState, Stage, AccessToken
<1>6. owner'[n] = u
  BY <1>1, StoreProperties DEF TokenInv
<1>7. Sound(new(n), rows', owner')
  BY <1>6, NoneAssumption DEF Sound, NoRequest, AccessToken
<1>. HIDE DEF new
<1>. QED BY <1>1, <1>2, <1>3, <1>4, <1>5, <1>7, RequestStep

LEMMA RefreshLookupStep ==
  ASSUME TokenInv, NEW r \in Request, NEW t \in RefreshToken, RefreshLookup(r, t)
  PROVE  /\ TokenInv'
         /\ \E u \in User : Removes(u)
         /\ req'[r].pc = "delete" => t \in rows /\ req'[r].user = owner[t] /\ req'[r].token = t
         /\ req'[r].pc # "insert"
<1>. DEFINE new(p) == [NoRequest EXCEPT !.pc = p, !.user = owner[t], !.token = t]
<1>1. owner[t] \in User
  BY DEF RefreshLookup, TokenInv, TypeOK, Minted
<1>2. UNCHANGED <<owner, parent, sessions, overlaps, lapsed, second, held>>
  BY DEF RefreshLookup, sessionVars, worldVars
<1>3. \A p \in Stage : new(p) \in RequestState
  BY <1>1 DEF NoRequest, RequestState, Stage
<1>4. CASE t \in rows /\ rows' = rows /\ req' = [req EXCEPT ![r] = new("delete")]
  <2>1. Sound(new("delete"), rows', owner')
    BY <1>1, <1>2 DEF Sound, NoRequest
  <2>2. TokenInv'
    BY <1>2, <1>3, <1>4, <2>1, RequestStep DEF Stage, TableStep
  <2>. QED BY <1>1, <1>2, <1>4, <2>2 DEF TokenInv, TypeOK, Removes, NoRequest
<1>5. CASE t \notin rows /\ rows' = rows /\ req' = [req EXCEPT ![r] = new("fallback")]
  <2>1. Sound(new("fallback"), rows', owner')
    BY <1>1, <1>2, <1>5 DEF Sound, NoRequest
  <2>2. TokenInv'
    BY <1>2, <1>3, <1>5, <2>1, RequestStep DEF Stage, TableStep
  <2>. QED BY <1>1, <1>2, <1>5, <2>2 DEF TokenInv, TypeOK, Removes, NoRequest
<1>6. CASE t \in rows /\ rows' = rows \ {t} /\ Answer(r)
  <2>1. Removes(owner[t])
    BY <1>1, <1>2, <1>6 DEF Removes, RowsOf
  <2>2. TokenInv'
    BY <1>1, <1>2, <1>6, <2>1, AnswerStep DEF TableStep
  <2>. QED BY <1>1, <1>6, <2>1, <2>2 DEF TokenInv, TypeOK, Answer, NoRequest
<1>. QED BY <1>4, <1>5, <1>6 DEF RefreshLookup

LEMMA RotateDeleteStep ==
  ASSUME TokenInv, NEW r \in Request, RotateDelete(r)
  PROVE  TokenInv' /\ \E u \in User : Removes(u)
<1>. DEFINE new == [req[r] EXCEPT !.pc = "insert"]
<1>1. /\ req[r] \in RequestState /\ req[r].pc = "delete" /\ rows' = rows \ {req[r].token}
      /\ req' = [req EXCEPT ![r] = new]
      /\ UNCHANGED <<owner, parent, sessions, overlaps, lapsed, second, held>>
  BY DEF RotateDelete, TokenInv, TypeOK, sessionVars, worldVars
<1>2. req[r].user \in User /\ req[r].token \in RefreshToken /\ owner[req[r].token] = req[r].user
  BY <1>1 DEF TokenInv, RequestsOK, Sound
<1>3. Removes(req[r].user)
  BY <1>1, <1>2 DEF Removes, RowsOf
<1>4. new \in RequestState
  BY <1>1 DEF RequestState, Stage
<1>5. Sound(new, rows', owner')
  BY <1>1, <1>2 DEF Sound, RequestState
<1>6. TableStep
  BY <1>2, <1>3 DEF TableStep
<1>. HIDE DEF new
<1>. QED BY <1>1, <1>2, <1>3, <1>4, <1>5, <1>6, RequestStep

LEMMA RotateInsertStep ==
  ASSUME TokenInv, NEW r \in Request, RotateInsert(r)
  PROVE  TokenInv' /\ \E n \in RefreshToken : Mints(n, req[r].user, req[r].token)
<1>. DEFINE new(n) == [req[r] EXCEPT !.pc = "count", !.fresh = n, !.access = second]
<1>1. PICK n \in RefreshToken :
        /\ Store(n, req[r].user, req[r].token)
        /\ rows' = rows \cup {n}
        /\ req' = [req EXCEPT ![r].pc = "count", ![r].fresh = n, ![r].access = second]
  BY DEF RotateInsert
<1>2. /\ req[r] \in RequestState /\ req[r].pc = "insert"
      /\ UNCHANGED <<sessions, overlaps, lapsed, second, held>>
  BY DEF RotateInsert, TokenInv, TypeOK, sessionVars, worldVars
<1>3. req' = [req EXCEPT ![r] = new(n)]
  BY <1>1, <1>2 DEF TokenInv, TypeOK, RequestState
<1>4. /\ req[r].user \in User /\ req[r].token \in RefreshToken
      /\ owner[req[r].token] = req[r].user /\ req[r].token \notin rows
  BY <1>2 DEF TokenInv, RequestsOK, Sound
<1>5. Mints(n, req[r].user, req[r].token)
  BY <1>1, <1>4, NoneAssumption DEF Mints, Minted
<1>6. new(n) \in RequestState
  BY <1>2 DEF RequestState, Stage, AccessToken, TokenInv, TypeOK
<1>7. owner'[n] = req[r].user
  BY <1>1, <1>4, StoreProperties DEF TokenInv
<1>8. Sound(new(n), rows', owner')
  BY <1>2, <1>4, <1>7, NoneAssumption DEF Sound, RequestState, AccessToken, TokenInv, TypeOK
<1>9. TableStep
  BY <1>4, <1>5 DEF TableStep
<1>. HIDE DEF new
<1>. QED BY <1>2, <1>3, <1>5, <1>6, <1>8, <1>9, RequestStep

\* The fallback branch never exchanges anything: it is only reached by a token
\* without a row, and a token that has lost its row never has one again.
LEMMA FallbackStep ==
  ASSUME TokenInv, NEW r \in Request, Fallback(r)
  PROVE  TokenInv' /\ UNCHANGED <<rows, owner, parent>> /\ Answer(r)
<1>1. req[r].token \notin rows
  BY DEF Fallback, TokenInv, RequestsOK, Sound
<1>2. UNCHANGED <<rows, owner, parent>> /\ Answer(r)
  BY <1>1 DEF Fallback
<1>. QED BY <1>2, AnswerStep DEF Fallback, TableStep, sessionVars, worldVars

\* A logout, of one token or of all of a user's.
LEMMA LogoutStep ==
  ASSUME TokenInv, NEW r \in Request, NEW u \in User,
         rows' \subseteq rows, rows \ rows' \subseteq RowsOf(u), Answer(r),
         UNCHANGED <<owner, parent, sessions, overlaps, lapsed, second, held>>
  PROVE  TokenInv' /\ Removes(u)
BY AnswerStep DEF Removes, TableStep

LEMMA CountSessionsStep ==
  ASSUME TokenInv, NEW r \in Request, CountSessions(r)
  PROVE  /\ TokenInv'
         /\ req' = [req EXCEPT ![r] = [req[r] EXCEPT !.pc = "commit", !.victim = req'[r].victim]]
         /\ req'[r].victim =
              IF MaxSessions > 0 /\ Len(sessions[req[r].user]) >= MaxSessions
              THEN Head(sessions[req[r].user]) ELSE None
<1>. DEFINE active == sessions[req[r].user]
            v == IF MaxSessions > 0 /\ Len(active) >= MaxSessions THEN Head(active) ELSE None
            new == [req[r] EXCEPT !.pc = "commit", !.victim = v]
<1>1. /\ req[r] \in RequestState /\ req[r].pc = "count"
      /\ req' = [req EXCEPT ![r].pc = "commit", ![r].victim = v]
      /\ UNCHANGED <<rows, owner, parent, sessions, overlaps, lapsed, second, held>>
  BY DEF CountSessions, TokenInv, TypeOK, sessionVars, worldVars
<1>2. req[r].user \in User
  BY <1>1 DEF TokenInv, RequestsOK, Sound
<1>3. active \in Seq(AccessToken)
  BY <1>2 DEF TokenInv, TypeOK
<1>4. v \in AccessToken \cup {None}
  <2>1. CASE MaxSessions > 0 /\ Len(active) >= MaxSessions
    <3>1. active # <<>>
      BY <2>1, <1>3, BoundsAssumption
    <3>. QED BY <2>1, <3>1, <1>3, HeadTailProperties
  <2>. QED BY <2>1
<1>. HIDE DEF v
<1>5. req' = [req EXCEPT ![r] = new]
  BY <1>1 DEF TokenInv, TypeOK, RequestState
<1>6. new \in RequestState
  BY <1>1, <1>4 DEF RequestState, Stage
<1>7. Sound(new, rows', owner')
  BY <1>1 DEF Sound, TokenInv, RequestsOK, RequestState
<1>8. req'[r] = new /\ new.victim = v
  BY <1>1, <1>5 DEF TokenInv, TypeOK, RequestState
<1>9. TokenInv'
  <2>. HIDE DEF new
  <2>. QED BY <1>1, <1>5, <1>6, <1>7, RequestStep DEF TableStep
<1>. QED BY <1>5, <1>8, <1>9 DEF v

\* A commit hands out the tokens of its request, makes room if it can, and
\* marks the requests it has overtaken.
LEMMA CommitSessionStep ==
  ASSUME TokenInv, NEW r \in Request, CommitSession(r)
  PROVE  TokenInv'
<1>. DEFINE u == req[r].user
            kept == Delete(sessions[u], req[r].victim)
<1>1. /\ req[r] \in RequestState /\ req[r].pc = "commit" /\ req[r].user \in User
      /\ req[r].fresh \in Minted /\ req[r].access \in AccessToken
  BY DEF CommitSession, TokenInv, TypeOK, RequestsOK, Sound, Minted
<1>2. /\ sessions' = [sessions EXCEPT ![u] = Append(kept, req[r].access)]
      /\ overlaps' = [overlaps EXCEPT ![u] = IF req[r].raced THEN @ + 1 ELSE @]
      /\ req' = [q \in Request |-> IF q = r THEN NoRequest ELSE Overtake(r, q)]
      /\ held' = held \cup {req[r].fresh}
      /\ UNCHANGED <<rows, owner, parent, lapsed, second, Minted>>
  BY DEF CommitSession, Minted
<1>3. \A q \in Request : Overtake(r, q) \in RequestState /\ Sound(Overtake(r, q), rows, owner)
  <2>. SUFFICES ASSUME NEW q \in Request
                PROVE  Overtake(r, q) \in RequestState /\ Sound(Overtake(r, q), rows, owner)
    OBVIOUS
  <2>1. req[q] \in RequestState /\ Sound(req[q], rows, owner)
    BY DEF TokenInv, TypeOK, RequestsOK
  <2>2. Overtake(r, q) \in RequestState
    BY <2>1 DEF Overtake, RequestState
  <2>. QED BY <2>1, <2>2 DEF Overtake, Sound, RequestState
<1>4. kept \in Seq(AccessToken)
  BY <1>1, DeleteProperties DEF TokenInv, TypeOK
<1>5. Append(kept, req[r].access) \in Seq(AccessToken)
  BY <1>1, <1>4, AppendProperties
<1>6. sessions' \in [User -> Seq(AccessToken)] /\ overlaps' \in [User -> Nat]
  <2>. HIDE DEF kept
  <2>. QED BY <1>1, <1>2, <1>5 DEF TokenInv, TypeOK
<1>7. req' \in [Request -> RequestState]
  BY <1>2, <1>3, NoRequestType
<1>8. TypeOK'
  BY <1>1, <1>2, <1>6, <1>7 DEF TokenInv, TypeOK
<1>9. RequestsOK'
  BY <1>2, <1>3, NoRequestType DEF RequestsOK, Sound
<1>. QED BY <1>2, <1>8, <1>9 DEF TokenInv, Lineage

LEMMA SessionLapsesStep ==
  ASSUME TokenInv, NEW u \in User, NEW i \in DOMAIN sessions[u], SessionLapses(u, i)
  PROVE  TokenInv' /\ Len(sessions'[u]) = Len(sessions[u]) - 1
<1>1. sessions[u] \in Seq(AccessToken) /\ i \in 1 .. Len(sessions[u])
  BY DEF TokenInv, TypeOK
<1>2. /\ RemoveAt(sessions[u], i) \in Seq(AccessToken)
      /\ Len(RemoveAt(sessions[u], i)) = Len(sessions[u]) - 1
  BY <1>1, RemoveAtProperties
<1>3. /\ sessions' = [sessions EXCEPT ![u] = RemoveAt(sessions[u], i)]
      /\ UNCHANGED <<rows, owner, parent, overlaps, lapsed, second, held, req, Minted>>
  BY DEF SessionLapses, worldVars, Minted
<1>4. TypeOK'
  BY <1>2, <1>3 DEF TokenInv, TypeOK
<1>5. RequestsOK' /\ Lineage'
  BY <1>3 DEF TokenInv, RequestsOK, Lineage, Minted
<1>. QED BY <1>2, <1>3, <1>4, <1>5 DEF TokenInv, TypeOK

\* The clock, the expiry of a refresh token, and stuttering.
LEMMA WorldStep ==
  ASSUME TokenInv, (\E t \in RefreshToken : RefreshLapses(t)) \/ Tick \/ UNCHANGED vars
  PROVE  TokenInv' /\ UNCHANGED <<rows, owner, parent, sessions, overlaps, req>>
<1>1. UNCHANGED <<rows, owner, parent, sessions, overlaps, req, held, Minted>>
  BY DEF RefreshLapses, Tick, vars, sessionVars, Minted
<1>2. lapsed' \subseteq Minted /\ second' \in 0 .. MaxSecond
  BY BoundsAssumption DEF RefreshLapses, Tick, vars, TokenInv, TypeOK
<1>3. TypeOK'
  BY <1>1, <1>2 DEF TokenInv, TypeOK
<1>. QED BY <1>1, <1>3 DEF TokenInv, RequestsOK, Lineage, Minted

\* The remaining ways a request ends: the table loses rows of one user at most.
LEMMA EndStep ==
  ASSUME TokenInv, NEW r \in Request,
         \/ \E t \in RefreshToken : Logout(r, t) \/ LogoutRevokeAll(r, t)
         \/ RevokeAllTokens(r) \/ SessionConflict(r) \/ Die(r)
  PROVE  /\ TokenInv' /\ Answer(r) /\ UNCHANGED <<sessions, overlaps>>
         /\ UNCHANGED <<rows, owner, parent>> \/ \E u \in User : Removes(u)
<1>. USE DEF sessionVars, worldVars
<1>1. ASSUME NEW t \in RefreshToken, Logout(r, t) \/ LogoutRevokeAll(r, t)
      PROVE  TokenInv' /\ Answer(r) /\ Removes(owner[t]) /\ owner[t] \in User
                       /\ UNCHANGED <<sessions, overlaps>>
  <2>1. owner[t] \in User
    BY <1>1 DEF Logout, LogoutRevokeAll, TokenInv, TypeOK, Minted
  <2>2. /\ rows' \subseteq rows /\ rows \ rows' \subseteq RowsOf(owner[t]) /\ Answer(r)
        /\ UNCHANGED <<owner, parent, sessions, overlaps, lapsed, second, held>>
    BY <1>1 DEF Logout, LogoutRevokeAll, RowsOf
  <2>. QED BY <2>1, <2>2, LogoutStep
<1>2. CASE RevokeAllTokens(r)
  <2>1. req[r].user \in User
    BY <1>2 DEF RevokeAllTokens, TokenInv, RequestsOK, Sound
  <2>2. /\ rows' \subseteq rows /\ rows \ rows' \subseteq RowsOf(req[r].user) /\ Answer(r)
        /\ UNCHANGED <<owner, parent, sessions, overlaps, lapsed, second, held>>
    BY <1>2 DEF RevokeAllTokens
  <2>. QED BY <2>1, <2>2, LogoutStep
<1>3. CASE SessionConflict(r) \/ Die(r)
  BY <1>3, AnswerStep DEF SessionConflict, Die, TableStep
<1>. QED BY <1>1, <1>2, <1>3

LEMMA LogoutAllStep ==
  ASSUME TokenInv, NEW r \in Request, NEW u \in User, LogoutAll(r, u)
  PROVE  TokenInv'
<1>. DEFINE new == [NoRequest EXCEPT !.pc = "revoke", !.user = u]
<1>1. /\ req' = [req EXCEPT ![r] = new]
      /\ UNCHANGED <<rows, owner, parent, sessions, overlaps, lapsed, second, held>>
  BY DEF LogoutAll, sessionVars, worldVars
<1>2. new \in RequestState /\ Sound(new, rows', owner')
  BY DEF NoRequest, RequestState, Stage, Sound
<1>. QED BY <1>1, <1>2, RequestStep DEF TableStep

LEMMA TokenInvStep == TokenInv /\ [Next]_vars => TokenInv'
<1>. SUFFICES ASSUME TokenInv, [Next]_vars PROVE TokenInv'
  OBVIOUS
<1>1. ASSUME NEW r \in Request, NEW u \in User, Login(r, u) \/ LogoutAll(r, u) PROVE TokenInv'
  BY <1>1, LoginStep, LogoutAllStep
<1>2. ASSUME NEW r \in Request, NEW t \in RefreshToken, RefreshLookup(r, t) PROVE TokenInv'
  BY <1>2, RefreshLookupStep
<1>3. ASSUME NEW r \in Request,
             \/ \E t \in RefreshToken : Logout(r, t) \/ LogoutRevokeAll(r, t)
             \/ RevokeAllTokens(r) \/ SessionConflict(r) \/ Die(r)
      PROVE  TokenInv'
  BY <1>3, EndStep
<1>4. ASSUME NEW r \in Request, RotateDelete(r) \/ RotateInsert(r) \/ Fallback(r) PROVE TokenInv'
  BY <1>4, RotateDeleteStep, RotateInsertStep, FallbackStep
<1>5. ASSUME NEW r \in Request, CountSessions(r) \/ CommitSession(r) PROVE TokenInv'
  BY <1>5, CountSessionsStep, CommitSessionStep
<1>6. ASSUME NEW u \in User, NEW i \in DOMAIN sessions[u], SessionLapses(u, i) PROVE TokenInv'
  BY <1>6, SessionLapsesStep
<1>7. CASE (\E t \in RefreshToken : RefreshLapses(t)) \/ Tick \/ UNCHANGED vars
  BY <1>7, WorldStep
<1>. QED BY <1>1, <1>2, <1>3, <1>4, <1>5, <1>6, <1>7 DEF Next

\* Type correctness, with what requests know and the lineage.
THEOREM TokenInvariance == Spec => []TokenInv
<1>. QED BY TokenInvInit, TokenInvStep, PTL DEF Spec

\* Every reachable state of the token endpoints is well typed; in particular
\* every row, every expired token and every token a client holds was minted.
THEOREM TypeCorrect == Spec => []TypeOK
<1>1. TokenInv => TypeOK
  BY DEF TokenInv
<1>. QED BY <1>1, TokenInvariance, PTL

\* A token that has a row has no successor, however requests interleave.
THEOREM ExchangedTokensAreDead == Spec => []ExchangedIsDead
<1>1. TokenInv => ExchangedIsDead
  BY DEF TokenInv, Lineage, ExchangedIsDead
<1>. QED BY <1>1, TokenInvariance, PTL

-----------------------------------------------------------------------------
(* The session limit                                                       *)

LEMMA CountsInit == Init => CountsOK /\ SessionCap
<1>. SUFFICES ASSUME Init PROVE CountsOK /\ SessionCap
  OBVIOUS
<1>1. \A r \in Request : req[r].pc = "idle"
  BY NoRequestType DEF Init
<1>2. \A u \in User : Len(sessions[u]) = 0 /\ overlaps[u] = 0
  BY DEF Init
<1>. QED BY <1>1, <1>2, BoundsAssumption DEF CountsOK, SessionCap

\* A step that leaves the sessions alone matters only if a request begins to
\* rely on its count: the count holds in the very step that takes it.
LEMMA QuietStep ==
  ASSUME IInv, TokenInv', UNCHANGED <<sessions, overlaps>>,
         \A q \in Request : req'[q].pc = "commit" => req'[q] = req[q]
  PROVE  CountsOK' /\ SessionCap'
BY DEF IInv, CountsOK, SessionCap, Room

LEMMA CountSessionsCounts ==
  ASSUME IInv, NEW r \in Request, CountSessions(r)
  PROVE  CountsOK' /\ SessionCap'
<1>. DEFINE u == req[r].user
<1>1. /\ TokenInv
      /\ UNCHANGED <<sessions, overlaps>>
      /\ req[r] \in RequestState /\ u \in User
      /\ sessions[u] \in Seq(AccessToken) /\ overlaps[u] \in Nat
  BY DEF IInv, CountSessions, sessionVars, TokenInv, TypeOK, RequestsOK, Sound
<1>2. /\ req' = [req EXCEPT ![r] = [req[r] EXCEPT !.pc = "commit", !.victim = req'[r].victim]]
      /\ req'[r].victim = IF MaxSessions > 0 /\ Len(sessions[u]) >= MaxSessions
                          THEN Head(sessions[u]) ELSE None
  BY <1>1, CountSessionsStep
<1>3. (\A q \in Request : q # r => req'[q] = req[q]) /\ req'[r].user = u
  BY <1>1, <1>2 DEF TokenInv, TypeOK, RequestState
<1>4. ASSUME MaxSessions > 0
      PROVE  Len(sessions[u]) < MaxSessions + overlaps[u] \/ req'[r].victim \in ToSet(sessions[u])
  <2>1. CASE Len(sessions[u]) >= MaxSessions
    <3>1. sessions[u] # <<>> /\ req'[r].victim = Head(sessions[u])
      BY <1>1, <1>2, <1>4, <2>1, BoundsAssumption
    <3>2. Head(sessions[u]) = sessions[u][1] /\ 1 \in DOMAIN sessions[u]
      BY <1>1, <3>1
    <3>. QED BY <3>1, <3>2 DEF ToSet
  <2>2. CASE ~(Len(sessions[u]) >= MaxSessions)
    BY <1>1, <2>2, BoundsAssumption
  <2>. QED BY <2>1, <2>2
<1>5. CountsOK'
  BY <1>1, <1>3, <1>4 DEF IInv, CountsOK, Room
<1>. QED BY <1>1, <1>5 DEF IInv, SessionCap

\* An expiry makes room for everyone who counts on it.
LEMMA SessionLapsesCounts ==
  ASSUME IInv, NEW u \in User, NEW i \in DOMAIN sessions[u], SessionLapses(u, i)
  PROVE  CountsOK' /\ SessionCap'
<1>1. /\ Len(sessions'[u]) = Len(sessions[u]) - 1
      /\ UNCHANGED <<overlaps, req>>
      /\ \A v \in User : v # u => sessions'[v] = sessions[v]
      /\ \A v \in User : Len(sessions[v]) \in Nat /\ overlaps[v] \in Nat
  <2>1. Len(sessions'[u]) = Len(sessions[u]) - 1
    BY SessionLapsesStep DEF IInv
  <2>2. sessions \in [User -> Seq(AccessToken)] /\ overlaps \in [User -> Nat]
    BY DEF IInv, TokenInv, TypeOK
  <2>3. /\ UNCHANGED <<overlaps, req>>
        /\ sessions' = [sessions EXCEPT ![u] = RemoveAt(sessions[u], i)]
    BY DEF SessionLapses
  <2>4. \A v \in User : Len(sessions[v]) \in Nat /\ overlaps[v] \in Nat
    BY <2>2
  <2>. QED BY <2>1, <2>2, <2>3, <2>4
<1>2. MaxSessions > 0 => Len(sessions'[u]) < MaxSessions + overlaps'[u]
  BY <1>1, BoundsAssumption DEF IInv, SessionCap
<1>3. SessionCap'
  BY <1>1, <1>2, BoundsAssumption DEF IInv, SessionCap
<1>4. CountsOK'
  BY <1>1, <1>2 DEF IInv, CountsOK, Room, TokenInv, RequestsOK, Sound
<1>. QED BY <1>3, <1>4

\* A commit that was not overtaken keeps the user within his bound; one that
\* was raises the bound with the number of sessions.  Either way every other
\* count of the same user is out of date and relies on nothing any more.
LEMMA CommitSessionCounts ==
  ASSUME IInv, NEW r \in Request, CommitSession(r)
  PROVE  CountsOK' /\ SessionCap'
<1>. DEFINE u == req[r].user
            old == sessions[u]
            v == req[r].victim
            kept == Delete(old, v)
<1>1. /\ req[r].pc = "commit" /\ u \in User /\ req[r].access \in AccessToken
      /\ req[r].raced \in BOOLEAN
      /\ old \in Seq(AccessToken) /\ overlaps[u] \in Nat
  BY DEF IInv, CommitSession, TokenInv, TypeOK, RequestState, RequestsOK, Sound
<1>2. /\ sessions' = [sessions EXCEPT ![u] = Append(kept, req[r].access)]
      /\ overlaps' = [overlaps EXCEPT ![u] = IF req[r].raced THEN @ + 1 ELSE @]
      /\ req' = [q \in Request |-> IF q = r THEN NoRequest ELSE Overtake(r, q)]
  BY DEF CommitSession
<1>3. /\ kept \in Seq(AccessToken)
      /\ v \in ToSet(old) => Len(kept) = Len(old) - 1
      /\ v \notin ToSet(old) => kept = old
  BY <1>1, DeleteProperties
<1>. HIDE DEF kept
<1>4. Len(sessions'[u]) = Len(kept) + 1
  BY <1>1, <1>2, <1>3, AppendProperties DEF IInv, TokenInv, TypeOK
<1>5. overlaps'[u] = IF req[r].raced THEN overlaps[u] + 1 ELSE overlaps[u]
  BY <1>1, <1>2 DEF IInv, TokenInv, TypeOK
<1>6. \A w \in User : w # u => sessions'[w] = sessions[w] /\ overlaps'[w] = overlaps[w]
  BY <1>2 DEF IInv, TokenInv, TypeOK
<1>7. ASSUME MaxSessions > 0 PROVE Len(sessions'[u]) <= MaxSessions + overlaps'[u]
  <2>1. Len(old) <= MaxSessions + overlaps[u] /\ Len(old) \in Nat
    BY <1>1, <1>7 DEF IInv, SessionCap
  <2>2. Len(kept) <= Len(old) /\ Len(kept) \in Nat
    BY <1>1, <1>3
  <2>3. CASE req[r].raced
    BY <1>1, <1>4, <1>5, <2>1, <2>2, <2>3, BoundsAssumption
  <2>4. CASE ~req[r].raced
    <3>1. Len(old) < MaxSessions + overlaps[u] \/ v \in ToSet(old)
      BY <1>1, <1>7, <2>4 DEF IInv, CountsOK, Room
    <3>. QED BY <1>1, <1>3, <1>4, <1>5, <2>1, <2>2, <2>4, <3>1, BoundsAssumption
  <2>. QED BY <2>3, <2>4
<1>8. SessionCap'
  BY <1>6, <1>7 DEF IInv, SessionCap
<1>9. ASSUME MaxSessions > 0, NEW q \in Request, req'[q].pc = "commit", ~req'[q].raced
      PROVE  req'[q] = req[q] /\ req[q].user # u
  <2>1. q # r /\ req'[q] = Overtake(r, q)
    BY <1>2, <1>9, NoRequestType
  <2>2. req[q] \in RequestState
    BY DEF IInv, TokenInv, TypeOK
  <2>. QED BY <1>9, <2>1, <2>2 DEF Overtake, RequestState
<1>10. CountsOK'
  BY <1>6, <1>9 DEF IInv, CountsOK, Room, TokenInv, RequestsOK, Sound
<1>. QED BY <1>8, <1>10

\* Every other step of a request leaves the sessions alone, and leaves no
\* request at "commit" that was not there.
LEMMA OtherSteps ==
  ASSUME IInv, NEW r \in Request,
         \/ \E u \in User : Login(r, u) \/ LogoutAll(r, u)
         \/ \E t \in RefreshToken :
              RefreshLookup(r, t) \/ Logout(r, t) \/ LogoutRevokeAll(r, t)
         \/ RotateDelete(r) \/ RotateInsert(r) \/ Fallback(r)
         \/ SessionConflict(r) \/ RevokeAllTokens(r) \/ Die(r)
  PROVE  CountsOK' /\ SessionCap'
<1>1. req \in [Request -> RequestState]
  BY DEF IInv, TokenInv, TypeOK
<1>2. TokenInv'
  BY TokenInvStep DEF IInv, Next
<1>3. /\ UNCHANGED <<sessions, overlaps>>
      /\ req'[r].pc # "commit" /\ \A q \in Request : q # r => req'[q] = req[q]
  <2>. USE DEF sessionVars
  <2>1. CASE Answer(r) /\ UNCHANGED <<sessions, overlaps>>
    BY <1>1, <2>1, NoRequestType DEF Answer
  <2>2. ASSUME NEW u \in User, Login(r, u)
        PROVE  UNCHANGED <<sessions, overlaps>> /\ req'[r].pc = "count"
                 /\ \A q \in Request : q # r => req'[q] = req[q]
    BY <1>1, <2>2 DEF Login, NoRequest
  <2>3. ASSUME NEW u \in User, LogoutAll(r, u)
        PROVE  UNCHANGED <<sessions, overlaps>> /\ req'[r].pc = "revoke"
                 /\ \A q \in Request : q # r => req'[q] = req[q]
    BY <1>1, <2>3 DEF LogoutAll, NoRequest
  <2>4. ASSUME NEW t \in RefreshToken, RefreshLookup(r, t)
        PROVE  UNCHANGED <<sessions, overlaps>> /\ req'[r].pc # "commit"
                 /\ \A q \in Request : q # r => req'[q] = req[q]
    <3>1. UNCHANGED <<sessions, overlaps>>
      BY <2>4 DEF RefreshLookup
    <3>2. \/ req' = [req EXCEPT ![r] = [NoRequest EXCEPT !.pc = "delete", !.user = owner[t], !.token = t]]
          \/ req' = [req EXCEPT ![r] = [NoRequest EXCEPT !.pc = "fallback", !.user = owner[t], !.token = t]]
          \/ Answer(r)
      BY <2>4 DEF RefreshLookup
    <3>. QED BY <1>1, <3>1, <3>2, NoRequestType DEF NoRequest, Answer
  <2>5. ASSUME RotateDelete(r)
        PROVE  UNCHANGED <<sessions, overlaps>> /\ req'[r].pc # "commit"
                 /\ \A q \in Request : q # r => req'[q] = req[q]
    BY <1>1, <2>5 DEF RotateDelete, RequestState
  <2>6. ASSUME RotateInsert(r)
        PROVE  UNCHANGED <<sessions, overlaps>> /\ req'[r].pc # "commit"
                 /\ \A q \in Request : q # r => req'[q] = req[q]
    <3>1. req \in [Request -> RequestState] /\ UNCHANGED <<sessions, overlaps>>
      BY <1>1, <2>6 DEF RotateInsert
    <3>2. PICK n \in RefreshToken :
             req' = [req EXCEPT ![r].pc = "count", ![r].fresh = n, ![r].access = second]
      BY <2>6 DEF RotateInsert
    <3>3. \A q \in Request : q # r => req'[q] = req[q]
      BY <3>1, <3>2
    <3>4. req'[r].pc = "count"
      BY <3>1, <3>2 DEF RequestState
    <3>. QED BY <3>1, <3>3, <3>4
  <2>7. CASE Fallback(r)
    BY <2>7, <2>1, FallbackStep DEF Fallback, IInv
  <2>8. CASE \/ \E t \in RefreshToken : Logout(r, t) \/ LogoutRevokeAll(r, t)
             \/ SessionConflict(r) \/ RevokeAllTokens(r) \/ Die(r)
    BY <2>1, <2>8, EndStep DEF IInv
  <2>. QED BY <2>2, <2>3, <2>4, <2>5, <2>6, <2>7, <2>8
<1>4. \A q \in Request : req'[q].pc = "commit" => req'[q] = req[q]
  BY <1>1, <1>3
<1>. QED BY <1>2, <1>3, <1>4, QuietStep

LEMMA CountsStep == IInv /\ [Next]_vars => IInv'
<1>. SUFFICES ASSUME IInv, [Next]_vars PROVE IInv'
  OBVIOUS
<1>1. TokenInv'
  BY TokenInvStep DEF IInv
<1>2. CASE (\E t \in RefreshToken : RefreshLapses(t)) \/ Tick \/ UNCHANGED vars
  <2>1. UNCHANGED <<sessions, overlaps, req>>
    BY <1>2, WorldStep DEF IInv
  <2>. QED BY <1>1, <2>1, QuietStep DEF IInv
<1>3. ASSUME NEW r \in Request, CountSessions(r) PROVE CountsOK' /\ SessionCap'
  BY <1>3, CountSessionsCounts
<1>4. ASSUME NEW r \in Request, CommitSession(r) PROVE CountsOK' /\ SessionCap'
  BY <1>4, CommitSessionCounts
<1>5. ASSUME NEW u \in User, NEW i \in DOMAIN sessions[u], SessionLapses(u, i)
      PROVE  CountsOK' /\ SessionCap'
  BY <1>5, SessionLapsesCounts
<1>. QED BY <1>1, <1>2, <1>3, <1>4, <1>5, OtherSteps DEF IInv, Next

\* A user has at most MAX_CONCURRENT_SESSIONS sessions, and one more for each
\* registration that was overtaken by another one of his.
THEOREM SessionsAreCapped == Spec => []SessionCap
<1>1. Init => IInv
  BY TokenInvInit, CountsInit DEF IInv
<1>2. IInv => SessionCap
  BY DEF IInv
<1>. QED BY <1>1, <1>2, CountsStep, PTL DEF Spec

-----------------------------------------------------------------------------
(* Replay and revocation                                                   *)

\* The four things a step can do to the tables of tokens.
LEMMA TableSteps ==
  ASSUME TokenInv, [Next]_vars
  PROVE  \/ UNCHANGED <<rows, owner, parent>>
         \/ \E u \in User : Removes(u)
         \/ \E n \in RefreshToken, u \in User : Mints(n, u, None)
         \/ \E r \in Request, n \in RefreshToken :
              req[r].pc = "insert" /\ Mints(n, req[r].user, req[r].token)
<1>1. ASSUME NEW r \in Request, NEW u \in User, Login(r, u)
      PROVE  \E n \in RefreshToken : Mints(n, u, None)
  BY <1>1, LoginStep
<1>2. ASSUME NEW r \in Request, NEW t \in RefreshToken, RefreshLookup(r, t)
      PROVE  \E u \in User : Removes(u)
  BY <1>2, RefreshLookupStep
<1>3. ASSUME NEW r \in Request,
             \/ \E t \in RefreshToken : Logout(r, t) \/ LogoutRevokeAll(r, t)
             \/ RevokeAllTokens(r) \/ SessionConflict(r) \/ Die(r)
      PROVE  UNCHANGED <<rows, owner, parent>> \/ \E u \in User : Removes(u)
  BY <1>3, EndStep
<1>4. ASSUME NEW r \in Request, RotateDelete(r)
      PROVE  \E u \in User : Removes(u)
  BY <1>4, RotateDeleteStep
<1>5. ASSUME NEW r \in Request, RotateInsert(r)
      PROVE  req[r].pc = "insert" /\ \E n \in RefreshToken : Mints(n, req[r].user, req[r].token)
  BY <1>5, RotateInsertStep DEF RotateInsert
<1>6. ASSUME NEW r \in Request, Fallback(r)
      PROVE  UNCHANGED <<rows, owner, parent>>
  BY <1>6, FallbackStep
<1>7. ASSUME NEW r \in Request, (\E u \in User : LogoutAll(r, u)) \/ CountSessions(r) \/ CommitSession(r)
      PROVE  UNCHANGED <<rows, owner, parent>>
  BY <1>7 DEF LogoutAll, CountSessions, CommitSession
<1>8. ASSUME NEW u \in User, NEW i \in DOMAIN sessions[u], SessionLapses(u, i)
      PROVE  UNCHANGED <<rows, owner, parent>>
  BY <1>8 DEF SessionLapses
<1>9. CASE (\E t \in RefreshToken : RefreshLapses(t)) \/ Tick \/ UNCHANGED vars
  BY <1>9, WorldStep
<1>. QED BY <1>1, <1>2, <1>3, <1>4, <1>5, <1>6, <1>7, <1>8, <1>9 DEF Next

\* A rotation under way after a step was under way before it, or it has just
\* found the row of its token.
Begun(q) ==
  req'[q].pc \in {"delete", "insert"} =>
    \/ /\ req[q].pc \in {"delete", "insert"}
       /\ req'[q].user = req[q].user /\ req'[q].token = req[q].token
    \/ /\ req'[q].token \in rows
       /\ req'[q].user = owner[req'[q].token]

LEMMA RotationSteps ==
  ASSUME TokenInv, [Next]_vars, NEW q \in Request
  PROVE  Begun(q)
<1>. USE NoRequestType DEF Begun
<1>1. req \in [Request -> RequestState] /\ req[q] \in RequestState
  BY DEF TokenInv, TypeOK
<1>2. CASE UNCHANGED req
  BY <1>2
<1>3. ASSUME NEW r \in Request, Answer(r) PROVE Begun(q)
  BY <1>1, <1>3 DEF Answer
<1>4. ASSUME NEW r \in Request, NEW u \in User, Login(r, u) \/ LogoutAll(r, u) PROVE Begun(q)
  <2>1. CASE q = r
    <3>1. req'[q].pc \in {"count", "revoke"}
      BY <1>1, <1>4, <2>1 DEF Login, LogoutAll, NoRequest
    <3>. QED BY <3>1
  <2>2. CASE q # r
    <3>1. req'[q] = req[q]
      BY <1>1, <1>4, <2>2 DEF Login, LogoutAll
    <3>. QED BY <3>1
  <2>. QED BY <2>1, <2>2
<1>5. ASSUME NEW r \in Request, NEW t \in RefreshToken, RefreshLookup(r, t) PROVE Begun(q)
  <2>1. CASE /\ t \in rows
             /\ req' = [req EXCEPT ![r] = [NoRequest EXCEPT !.pc = "delete", !.user = owner[t], !.token = t]]
    <3>1. CASE q = r
      <4>1. req'[r].user = owner[t] /\ req'[r].token = t
        BY <1>1, <2>1 DEF NoRequest
      <4>. QED BY <2>1, <3>1, <4>1
    <3>2. CASE q # r
      BY <1>1, <2>1, <3>2
    <3>. QED BY <3>1, <3>2
  <2>2. CASE req' = [req EXCEPT ![r] = [NoRequest EXCEPT !.pc = "fallback", !.user = owner[t], !.token = t]]
    BY <1>1, <2>2 DEF NoRequest
  <2>. QED BY <1>3, <1>5, <2>1, <2>2 DEF RefreshLookup
<1>6. ASSUME NEW r \in Request, RotateDelete(r) PROVE Begun(q)
  BY <1>1, <1>6 DEF RotateDelete, RequestState
<1>7. ASSUME NEW r \in Request, RotateInsert(r) PROVE Begun(q)
  BY <1>1, <1>7 DEF RotateInsert, RequestState
<1>8. ASSUME NEW r \in Request, CountSessions(r) PROVE Begun(q)
  BY <1>1, <1>8 DEF CountSessions, RequestState
<1>9. ASSUME NEW r \in Request, CommitSession(r) PROVE Begun(q)
  BY <1>1, <1>9 DEF CommitSession, Overtake, RequestState
<1>10. ASSUME NEW r \in Request, Fallback(r) PROVE Begun(q)
  BY <1>3, <1>10, FallbackStep
<1>11. ASSUME NEW r \in Request,
              \/ \E t \in RefreshToken : Logout(r, t) \/ LogoutRevokeAll(r, t)
              \/ RevokeAllTokens(r) \/ SessionConflict(r) \/ Die(r)
       PROVE  Begun(q)
  BY <1>3, <1>11, EndStep
<1>12. ASSUME NEW u \in User, NEW i \in DOMAIN sessions[u], SessionLapses(u, i)
       PROVE  UNCHANGED req
  BY <1>12 DEF SessionLapses
<1>13. CASE (\E t \in RefreshToken : RefreshLapses(t)) \/ Tick \/ UNCHANGED vars
  BY <1>2, <1>13, WorldStep
<1>. HIDE DEF Begun
<1>. QED BY <1>2, <1>4, <1>5, <1>6, <1>7, <1>8, <1>9, <1>10, <1>11, <1>12, <1>13 DEF Next

LEMMA RetiredStep ==
  ASSUME TokenInv, [Next]_vars, NEW t \in Minted, Retired(t)
  PROVE  Retired(t)' /\ Successors(t)' = Successors(t)
<1>1. \A q \in Request : ~Rotating(q, t)'
  BY RotationSteps DEF Begun, Retired, Rotating
<1>2. t \in RefreshToken /\ t # None
  BY NoneAssumption DEF Minted
<1>3. ASSUME NEW n \in RefreshToken, NEW u \in User, NEW from \in RefreshToken \cup {None},
             Mints(n, u, from), from # t
      PROVE  t \notin rows' /\ Successors(t)' = Successors(t)
  <2>1. /\ n \notin Minted /\ parent'[n] = from /\ rows' = rows \cup {n}
        /\ \A m \in RefreshToken \ {n} : parent'[m] = parent[m]
    BY <1>3, StoreProperties DEF Mints, TokenInv
  <2>2. parent[n] = None
    BY <2>1 DEF TokenInv, Lineage
  <2>. QED BY <1>2, <1>3, <2>1, <2>2 DEF Successors, Retired
<1>4. t \notin rows' /\ Successors(t)' = Successors(t)
  <2>1. CASE UNCHANGED <<rows, owner, parent>> \/ \E u \in User : Removes(u)
    BY <2>1 DEF Removes, Retired, Successors
  <2>2. CASE \E n \in RefreshToken, u \in User : Mints(n, u, None)
    BY <1>2, <1>3, <2>2
  <2>3. ASSUME NEW r \in Request, NEW n \in RefreshToken, req[r].pc = "insert",
               Mints(n, req[r].user, req[r].token)
        PROVE  t \notin rows' /\ Successors(t)' = Successors(t)
    <3>1. req[r].user \in User /\ req[r].token \in RefreshToken
      BY <2>3 DEF TokenInv, RequestsOK, Sound
    <3>2. req[r].token # t
      BY <2>3 DEF Retired, Rotating
    <3>. QED BY <1>3, <2>3, <3>1, <3>2
  <2>. QED BY <2>1, <2>2, <2>3, TableSteps
<1>. QED BY <1>1, <1>4 DEF Retired

\* Replay protection: once its row is gone and the requests that had found it
\* are over, a refresh token never mints a successor again.
THEOREM NoReplay == Spec => NoLateSuccessor
<1>1. TokenInv /\ [Next]_vars =>
        [\A t \in Minted : Retired(t) => Retired(t)' /\ Successors(t)' = Successors(t)]_vars
  BY RetiredStep
<1>. QED BY <1>1, TokenInvariance, PTL DEF Spec, NoLateSuccessor

LEMMA SignedOutStep ==
  ASSUME TokenInv, [Next]_vars, NEW u \in User, SignedOut(u)
  PROVE  SignedOut(u)' \/ \A n \in RowsOf(u)' : parent'[n] = None
<1>1. \A q \in Request : req'[q].pc \in {"delete", "insert"} => req'[q].user # u
  BY RotationSteps DEF Begun, SignedOut, RowsOf
<1>2. ASSUME NEW n \in RefreshToken, NEW w \in User, NEW from \in RefreshToken \cup {None},
             Mints(n, w, from)
      PROVE  RowsOf(u)' \subseteq {n} /\ parent'[n] = from /\ (w # u => RowsOf(u)' = {})
  <2>1. /\ rows' = rows \cup {n} /\ owner'[n] = w /\ parent'[n] = from
        /\ rows \subseteq RefreshToken
        /\ \A t \in RefreshToken \ {n} : owner'[t] = owner[t]
    BY <1>2, StoreProperties DEF Mints, TokenInv, TypeOK, Minted
  <2>. QED BY <2>1 DEF SignedOut, RowsOf
<1>3. CASE UNCHANGED <<rows, owner, parent>> \/ \E w \in User : Removes(w)
  <2>1. RowsOf(u)' = {}
    BY <1>3 DEF Removes, RowsOf, SignedOut
  <2>. QED BY <2>1
<1>4. CASE \E n \in RefreshToken, w \in User : Mints(n, w, None)
  BY <1>2, <1>4
<1>5. ASSUME NEW r \in Request, NEW n \in RefreshToken, req[r].pc = "insert",
             Mints(n, req[r].user, req[r].token)
      PROVE  RowsOf(u)' = {}
  <2>1. req[r].user \in User /\ req[r].token \in RefreshToken /\ req[r].user # u
    BY <1>5 DEF TokenInv, RequestsOK, Sound, SignedOut
  <2>. QED BY <1>2, <1>5, <2>1
<1>. QED BY <1>3, <1>4, <1>5, TableSteps

\* Revocation lasts: a user without a refresh token, and without a rotation
\* under way, gets one from a login only.
THEOREM RevocationLasts == Spec => OnlyLoginRevives
<1>1. TokenInv /\ [Next]_vars =>
        [\A u \in User :
           SignedOut(u) => SignedOut(u)' \/ \A n \in RowsOf(u)' : parent'[n] = None]_vars
  BY SignedOutStep
<1>. QED BY <1>1, TokenInvariance, PTL DEF Spec, OnlyLoginRevives

-----------------------------------------------------------------------------
(* Refinement                                                              *)

\* The state of the ledger.
Mapped ==
  [t \in RefreshToken |-> IF t \in rows THEN "live"
                          ELSE IF t \in Minted THEN "dead" ELSE "unissued"]

LEMMA LedgerStep ==
  ASSUME TokenInv, [Next]_vars
  PROVE  Ledger!LedgerNext \/ (Mapped' = Mapped /\ UNCHANGED <<owner, parent>>)
<1>1. CASE UNCHANGED <<rows, owner, parent>>
  BY <1>1 DEF Mapped, Minted
<1>2. ASSUME NEW u \in User, Removes(u)
      PROVE  Ledger!Retire(u)
  <2>. DEFINE S == rows \ rows'
  <2>1. rows' \subseteq rows /\ rows \subseteq Minted /\ Minted' = Minted /\ S \subseteq RowsOf(u)
        /\ UNCHANGED <<owner, parent>>
    BY <1>2 DEF Removes, TokenInv, TypeOK, Minted
  <2>2. S \in SUBSET {t \in RefreshToken : Mapped[t] = "live" /\ owner[t] = u}
    BY <2>1 DEF RowsOf, Mapped, Minted
  <2>3. Mapped' = [t \in RefreshToken |-> IF t \in S THEN "dead" ELSE Mapped[t]]
    BY <2>1 DEF Mapped
  <2>. HIDE DEF S
  <2>. QED BY <2>1, <2>2, <2>3 DEF Ledger!Retire, Mapped
<1>3. ASSUME NEW n \in RefreshToken, NEW u \in User, NEW from \in RefreshToken \cup {None},
             Mints(n, u, from)
      PROVE  Ledger!Record(n, u, from)
  <2>1. /\ n \notin Minted /\ Minted' = Minted \cup {n} /\ rows' = rows \cup {n}
        /\ rows \subseteq Minted
    BY <1>3, StoreProperties DEF Mints, TokenInv, TypeOK
  <2>2. Mapped[n] = "unissued" /\ Mapped' = [Mapped EXCEPT ![n] = "live"]
    BY <2>1 DEF Mapped
  <2>. QED BY <1>3, <2>2 DEF Ledger!Record, Mapped, Mints, Store
<1>4. ASSUME NEW n \in RefreshToken, NEW u \in User, Mints(n, u, None)
      PROVE  Ledger!Issue(n, u)
  BY <1>3, <1>4 DEF Ledger!Issue
<1>5. ASSUME NEW r \in Request, NEW n \in RefreshToken, req[r].pc = "insert",
             Mints(n, req[r].user, req[r].token)
      PROVE  req[r].token \in RefreshToken /\ Ledger!Renew(n, req[r].token)
  <2>. DEFINE from == req[r].token
  <2>1. /\ req[r].user \in User /\ from \in RefreshToken /\ owner[from] = req[r].user
        /\ from \in Minted \ rows
    BY <1>5, NoneAssumption DEF TokenInv, RequestsOK, Sound, Minted
  <2>2. Ledger!Record(n, owner[from], from)
    BY <1>3, <1>5, <2>1 DEF Mints, Store, Ledger!Record
  <2>3. Mapped[from] = "dead"
    BY <2>1 DEF Mapped
  <2>. QED BY <2>1, <2>2, <2>3 DEF Ledger!Renew, Mapped
<1>. QED BY <1>1, <1>2, <1>4, <1>5, TableSteps DEF Ledger!LedgerNext

\* The endpoints implement the ledger: a token is issued once, to one user,
\* by a login or in exchange for a dead token of his, and dies for good.
THEOREM LedgerIsImplemented == Spec => LedgerRefined
<1>1. Init => Ledger!LedgerInit
  BY DEF Init, Ledger!LedgerInit, Minted
<1>2. TokenInv /\ [Next]_vars => [Ledger!LedgerNext]_<<Mapped, owner, parent>>
  BY LedgerStep
<1>. QED BY <1>1, <1>2, TokenInvariance, PTL DEF Spec, LedgerRefined, Ledger!LedgerSpec, Mapped
=============================================================================
