----------------------------- MODULE AlertsProofs -----------------------------
(***************************************************************************)
(* Proofs of the safety properties of Alerts, for any alerts, users,       *)
(* handlers, market data, conditions and edits, and of AlertChannel, for   *)
(* any sockets and addresses.                                              *)
(*                                                                         *)
(* The properties of Alerts hold because of what the copies under way may  *)
(* differ in from the rows they were read from: RequestsSound says it of   *)
(* the copies of handlers, PassSound of those of an evaluation.  Both are  *)
(* about the copies alone, so nothing that others do disturbs them.        *)
(*                                                                         *)
(* Those of AlertChannel lean on each other and on RefIsWatched: what the  *)
(* timer will connect to is right because a close event is heard from the  *)
(* right socket only, which in turn is the one that was connected last.    *)
(***************************************************************************)
EXTENDS Alerts, AlertChannel, TLAPS

Updating == [at : {"update"}, alert : Alert, old : Row, new : Row]

Doubling == [at : {"twin"}, user : User, active : BOOLEAN]

Running ==
  [at : {"running"}, market : Market, old : [Alert -> Row \cup {None}],
   new : [Alert -> Row \cup {None}], todo : SUBSET Alert, met : SUBSET Alert]

\* What a row or a copy is; histories are of created alerts.
Shapes ==
  /\ rows \in [Alert -> Row \cup {None}]
  /\ said \in [Alert -> Row \cup {None}]
  /\ request \in [Worker -> {Idle} \cup Doubling \cup Updating]
  /\ pass \in {Quiet} \cup Running
  /\ silenced \subseteq Alert
  /\ \A a \in Alert : said[a] = None =>
       /\ rows[a] = None
       /\ a \notin gone \cup fired \cup raced \cup silenced \cup gap

\* An edit keeps the owner, and a new rule is to be delivered anew.
RequestsSound ==
  \A w \in Worker : request[w].at = "update" =>
    /\ request[w].new.owner = request[w].old.owner
    /\ request[w].new.rule # request[w].old.rule => request[w].new.pending
    /\ request[w].old.pending => request[w].new.pending

\* What the pass has made of one copy: it never changes what the owner says, it
\* turns off malformed rules only, and settles those that were met.
CopySound(p, a) ==
  /\ p.old[a] = None <=> p.new[a] = None
  /\ p.old[a] = None => a \notin p.todo
  /\ p.old[a] # None =>
       /\ p.new[a].owner = p.old[a].owner
       /\ p.new[a].rule = p.old[a].rule
       /\ p.new[a].push = p.old[a].push
       /\ p.new[a].active => p.old[a].active
       /\ p.old[a].active /\ ~p.new[a].active =>
            Evaluate(p.old[a].rule, p.market) = "malformed"
       /\ p.old[a].pending /\ ~p.new[a].pending => a \in p.met

PassSound == pass.at = "running" => \A a \in Alert : CopySound(pass, a)

AlertInv ==
  /\ Shapes
  /\ RequestsSound
  /\ PassSound
  /\ RowSaysWhatOwnerSaid
  /\ SilencedForCause
  /\ SettledRuleFired

-----------------------------------------------------------------------------
\* The fields of a row, of which an UPDATE writes those that were changed.
LEMMA MergeFields ==
  ASSUME NEW cur \in Row, NEW old \in Row, NEW new \in Row
  PROVE  LET m == Merge(cur, old, new) IN
         /\ m \in Row
         /\ m.owner   = IF new.owner # old.owner THEN new.owner ELSE cur.owner
         /\ m.rule    = IF new.rule # old.rule THEN new.rule ELSE cur.rule
         /\ m.push    = IF new.push # old.push THEN new.push ELSE cur.push
         /\ m.active  = IF new.active # old.active THEN new.active ELSE cur.active
         /\ m.pending = IF new.pending # old.pending THEN new.pending ELSE cur.pending
<1>1. DOMAIN cur = {"owner", "rule", "push", "active", "pending"}
  BY DEF Row
<1>2. Merge(cur, old, new) =
        [f \in {"owner", "rule", "push", "active", "pending"} |->
           IF new[f] # old[f] THEN new[f] ELSE cur[f]]
  BY <1>1 DEF Merge
<1>3. Merge(cur, old, new) =
        [owner   |-> IF new.owner # old.owner THEN new.owner ELSE cur.owner,
         rule    |-> IF new.rule # old.rule THEN new.rule ELSE cur.rule,
         push    |-> IF new.push # old.push THEN new.push ELSE cur.push,
         active  |-> IF new.active # old.active THEN new.active ELSE cur.active,
         pending |-> IF new.pending # old.pending THEN new.pending ELSE cur.pending]
  BY <1>2
<1> QED
  BY <1>3 DEF Row

\* What an edit makes of the row it has read.
LEMMA EditedFields ==
  ASSUME NEW row \in Row, NEW e \in Edit
  PROVE  /\ Edited(row, e) \in Row
         /\ Edited(row, e).owner = row.owner
         /\ Edited(row, e).rule # row.rule => Edited(row, e).pending
         /\ row.pending => Edited(row, e).pending
<1> DEFINE rule   == IF e.rule = None THEN row.rule ELSE e.rule
           push   == IF e.push = None THEN row.push ELSE e.push
           active == IF e.active = None THEN row.active ELSE e.active
           pending == row.pending \/ e.rule # None
           edited == [owner |-> row.owner, rule |-> rule, push |-> push,
                      active |-> active, pending |-> pending]
<1>1. /\ e.rule = None \/ e.rule \in Rule
      /\ e.push = None \/ e.push \in BOOLEAN
      /\ e.active = None \/ e.active \in BOOLEAN
  BY EditAssumption DEF Edits
<1>2. /\ row.owner \in User /\ row.rule \in Rule \cup {Twin}
      /\ row.push \in BOOLEAN /\ row.active \in BOOLEAN
  BY DEF Row
<1>3. /\ rule \in Rule \cup {Twin} /\ push \in BOOLEAN
      /\ active \in BOOLEAN /\ pending \in BOOLEAN
  BY <1>1, <1>2
<1>4. (rule # row.rule => pending) /\ (row.pending => pending)
  OBVIOUS
<1>5. Edited(row, e) = edited
  BY DEF Edited
<1> HIDE DEF rule, push, active, pending
<1>6. edited \in Row
  BY <1>2, <1>3 DEF Row
<1>7. edited.owner = row.owner /\ edited.rule = rule /\ edited.pending = pending
  OBVIOUS
<1> HIDE DEF edited
<1> QED
  BY <1>4, <1>5, <1>6, <1>7

AlertsSound ==
  /\ rows \in [Alert -> Row \cup {None}]
  /\ silenced \subseteq Alert
  /\ said \in [Alert -> Row \cup {None}]
  /\ \A a \in Alert : said[a] = None =>
       /\ rows[a] = None
       /\ a \notin gone \cup fired \cup raced \cup silenced \cup gap
  /\ RowSaysWhatOwnerSaid
  /\ SilencedForCause
  /\ SettledRuleFired

HandlersSound ==
  /\ request \in [Worker -> {Idle} \cup Doubling \cup Updating]
  /\ RequestsSound

EvaluationSound == pass \in {Quiet} \cup Running /\ PassSound

\* The three parts of the invariant: the alerts, the handlers, the pass.
LEMMA Parts == AlertInv <=> AlertsSound /\ HandlersSound /\ EvaluationSound
BY DEF AlertInv, Shapes, AlertsSound, HandlersSound, EvaluationSound

LEMMA PartsNext == AlertsSound' /\ HandlersSound' /\ EvaluationSound' => AlertInv'
BY DEF AlertInv, Shapes, AlertsSound, HandlersSound, EvaluationSound

\* None of them is disturbed by a step that leaves what it speaks of alone.
LEMMA AlertsStill ==
  AlertsSound /\ UNCHANGED <<rows, said, gone, fired, raced, silenced, gap>>
    => AlertsSound'
BY DEF AlertsSound, RowSaysWhatOwnerSaid, SilencedForCause, SettledRuleFired

LEMMA HandlersStill == HandlersSound /\ UNCHANGED request => HandlersSound'
BY DEF HandlersSound, RequestsSound

LEMMA EvaluationStill == EvaluationSound /\ UNCHANGED pass => EvaluationSound'
BY DEF EvaluationSound, PassSound

\* A handler that is done, or that goes on to store a twin.
LEMMA HandlerIdles ==
  ASSUME HandlersSound, NEW w \in Worker, NEW q \in {Idle} \cup Doubling,
         request' = [request EXCEPT ![w] = q]
  PROVE  HandlersSound'
<1>1. request' \in [Worker -> {Idle} \cup Doubling \cup Updating]
  BY DEF HandlersSound
<1>2. q.at # "update"
  BY DEF Idle, Doubling
<1>3. ASSUME NEW v \in Worker, request'[v].at = "update"
      PROVE  request'[v] = request[v]
  BY <1>2, <1>3 DEF HandlersSound
<1> QED
  BY <1>1, <1>3 DEF HandlersSound, RequestsSound

-----------------------------------------------------------------------------
LEMMA InitAlerts == Init => AlertInv
<1> SUFFICES ASSUME Init PROVE AlertInv
  OBVIOUS
<1>1. Shapes
  BY DEF Init, Shapes, NoRows
<1>2. RequestsSound /\ PassSound
  BY DEF Init, RequestsSound, PassSound, Idle, Quiet
<1>3. RowSaysWhatOwnerSaid /\ SilencedForCause /\ SettledRuleFired
  BY DEF Init, RowSaysWhatOwnerSaid, SilencedForCause, SettledRuleFired, NoRows
<1> QED
  BY <1>1, <1>2, <1>3 DEF AlertInv

\* The alert that is created is as its owner says, and waits for delivery.
LEMMA InsertKeeps ==
  ASSUME AlertsSound, NEW a \in Alert, NEW row \in Row, row.pending,
         Fresh(a), Insert(a, row), UNCHANGED history
  PROVE  AlertsSound'
<1>1. /\ rows' \in [Alert -> Row \cup {None}] /\ said' \in [Alert -> Row \cup {None}]
      /\ rows'[a] = row /\ said'[a] = row
      /\ \A b \in Alert \ {a} : rows'[b] = rows[b] /\ said'[b] = said[b]
  BY DEF AlertsSound, Insert
<1>2. row # None
  BY NoneAssumption
<1>3. a \notin gone \cup fired \cup raced \cup silenced \cup gap
  BY DEF AlertsSound, Fresh
<1>4. /\ gone' = gone /\ fired' = fired /\ raced' = raced
      /\ silenced' = silenced /\ gap' = gap
  BY DEF history
<1>5. \A b \in Alert : said'[b] = None =>
        /\ rows'[b] = None
        /\ b \notin gone' \cup fired' \cup raced' \cup silenced' \cup gap'
  BY <1>1, <1>2, <1>4 DEF AlertsSound
<1>6. RowSaysWhatOwnerSaid'
  BY <1>1, <1>3, <1>4 DEF AlertsSound, RowSaysWhatOwnerSaid
<1>7. SilencedForCause'
  <2> SUFFICES ASSUME NEW b \in silenced', rows'[b] # None, Sound(rows'[b].rule)
               PROVE  b \in gap' \/ b \in raced'
    BY DEF SilencedForCause
  <2>1. b # a
    BY <1>3, <1>4
  <2>2. rows'[b] = rows[b]
    BY <2>1, <1>1 DEF Insert, AlertsSound
  <2> QED
    BY <2>2, <1>4 DEF AlertsSound, SilencedForCause
<1>8. SettledRuleFired'
  BY <1>1, <1>4 DEF AlertsSound, SettledRuleFired
<1>9. silenced' \subseteq Alert
  BY <1>4 DEF AlertsSound
<1> QED
  BY <1>1, <1>5, <1>6, <1>7, <1>8, <1>9 DEF AlertsSound

LEMMA NewRowFields ==
  ASSUME NEW u \in User, NEW r \in Rule \cup {Twin}, NEW p \in BOOLEAN, NEW on \in BOOLEAN
  PROVE  NewRow(u, r, p, on) \in Row /\ NewRow(u, r, p, on).pending
BY DEF NewRow, Row

LEMMA CreateKeeps ==
  ASSUME AlertInv, NEW w \in Worker, NEW u \in User, NEW a \in Alert, Create(w, u, a)
  PROVE  AlertInv'
<1>1. PICK r \in Rule, p \in BOOLEAN, on \in BOOLEAN, legacy \in BOOLEAN :
        /\ Insert(a, NewRow(u, r, p, on))
        /\ request' = [request EXCEPT ![w] =
             IF legacy THEN [at |-> "twin", user |-> u, active |-> on] ELSE Idle]
  BY DEF Create
<1>2. AlertsSound'
  BY <1>1, Parts, InsertKeeps, NewRowFields DEF Create
<1>3. (IF legacy THEN [at |-> "twin", user |-> u, active |-> on] ELSE Idle)
        \in {Idle} \cup Doubling
  BY DEF Doubling
<1>4. HandlersSound'
  BY <1>1, <1>3, Parts, HandlerIdles
<1>5. EvaluationSound'
  BY Parts, EvaluationStill DEF Create
<1> QED
  BY <1>2, <1>4, <1>5, PartsNext

LEMMA CreateTwinKeeps ==
  ASSUME AlertInv, NEW w \in Worker, NEW a \in Alert, CreateTwin(w, a)
  PROVE  AlertInv'
<1>1. request[w] \in Doubling
  BY Parts DEF CreateTwin, HandlersSound, Idle, Updating
<1>2. request[w].user \in User /\ request[w].active \in BOOLEAN
  BY <1>1 DEF Doubling
<1>3. AlertsSound'
  BY <1>2, Parts, InsertKeeps, NewRowFields DEF CreateTwin
<1>4. HandlersSound'
  BY Parts, HandlerIdles DEF CreateTwin
<1>5. EvaluationSound'
  BY Parts, EvaluationStill DEF CreateTwin
<1> QED
  BY <1>3, <1>4, <1>5, PartsNext

\* A handler that ends without a change.
LEMMA DropKeeps ==
  ASSUME AlertInv, NEW w \in Worker, SkipTwin(w) \/ LoseUpdate(w)
  PROVE  AlertInv'
<1>1. /\ request' = [request EXCEPT ![w] = Idle]
      /\ UNCHANGED <<rows, pass, said, history>>
  BY DEF SkipTwin, LoseUpdate
<1>2. AlertsSound'
  BY <1>1, Parts, AlertsStill DEF history
<1>3. HandlersSound'
  BY <1>1, Parts, HandlerIdles
<1>4. EvaluationSound'
  BY <1>1, Parts, EvaluationStill
<1> QED
  BY <1>2, <1>3, <1>4, PartsNext

LEMMA LoadForUpdateKeeps ==
  ASSUME AlertInv, NEW w \in Worker, NEW u \in User, NEW a \in Alert, NEW e \in Edit,
         LoadForUpdate(w, u, a, e)
  PROVE  AlertInv'
<1> DEFINE q == [at |-> "update", alert |-> a, old |-> rows[a], new |-> Edited(rows[a], e)]
<1>1. rows[a] \in Row
  BY Parts DEF LoadForUpdate, Finds, AlertsSound
<1>2. /\ q \in Updating /\ q.new.owner = q.old.owner
      /\ q.new.rule # q.old.rule => q.new.pending
      /\ q.old.pending => q.new.pending
  BY <1>1, EditedFields DEF Updating
<1>3. request' = [request EXCEPT ![w] = q]
  BY DEF LoadForUpdate
<1> HIDE DEF q
<1>4. request' \in [Worker -> {Idle} \cup Doubling \cup Updating]
  BY <1>2, <1>3, Parts DEF HandlersSound
<1>5. request'[w] = q /\ \A v \in Worker \ {w} : request'[v] = request[v]
  BY <1>3, Parts DEF HandlersSound
<1>6. RequestsSound'
  BY <1>2, <1>5, Parts DEF HandlersSound, RequestsSound
<1>7. AlertsSound' /\ EvaluationSound'
  BY Parts, AlertsStill, EvaluationStill DEF LoadForUpdate, history
<1> QED
  BY <1>4, <1>6, <1>7, PartsNext DEF HandlersSound

-----------------------------------------------------------------------------
\* An UPDATE of a handler writes what its owner said, and nothing else.
LEMMA CommitUpdateKeeps ==
  ASSUME AlertInv, NEW w \in Worker, CommitUpdate(w)
  PROVE  AlertInv'
<1> DEFINE r == request[w]
           a == r.alert
           row == Merge(rows[a], r.old, r.new)
           word == Merge(said[a], r.old, r.new)
<1>1. r \in Updating
  BY Parts DEF CommitUpdate, HandlersSound, Idle, Doubling
<1>2. a \in Alert /\ r.old \in Row /\ r.new \in Row
  BY <1>1 DEF Updating
<1>3. rows[a] \in Row /\ said[a] \in Row
  BY <1>2, Parts DEF CommitUpdate, AlertsSound
<1>4. /\ r.new.owner = r.old.owner
      /\ r.new.rule # r.old.rule => r.new.pending
      /\ r.old.pending => r.new.pending
  BY Parts DEF CommitUpdate, HandlersSound, RequestsSound
<1>5. /\ row \in Row
      /\ row.owner   = rows[a].owner
      /\ row.rule    = IF r.new.rule # r.old.rule THEN r.new.rule ELSE rows[a].rule
      /\ row.push    = IF r.new.push # r.old.push THEN r.new.push ELSE rows[a].push
      /\ row.active  = IF r.new.active # r.old.active THEN r.new.active ELSE rows[a].active
      /\ row.pending = IF r.new.pending # r.old.pending THEN r.new.pending ELSE rows[a].pending
  BY <1>2, <1>3, <1>4, MergeFields
<1>6. /\ word \in Row
      /\ word.owner   = said[a].owner
      /\ word.rule    = IF r.new.rule # r.old.rule THEN r.new.rule ELSE said[a].rule
      /\ word.push    = IF r.new.push # r.old.push THEN r.new.push ELSE said[a].push
      /\ word.active  = IF r.new.active # r.old.active THEN r.new.active ELSE said[a].active
  BY <1>2, <1>3, <1>4, MergeFields
<1>7. /\ r.at = "update" /\ rows[a] # None
      /\ rows' = [rows EXCEPT ![a] = row]
      /\ said' = [said EXCEPT ![a] = [word EXCEPT !.pending = row.pending]]
      /\ silenced' = IF r.new.active # r.old.active THEN silenced \ {a} ELSE silenced
      /\ r.new.rule # r.old.rule =>
           /\ fired' = fired \ {a}
           /\ raced' = IF a \in silenced' \/ (r.old.pending /\ ~row.pending)
                       THEN raced \cup {a} ELSE raced \ {a}
      /\ r.new.rule = r.old.rule => UNCHANGED <<fired, raced>>
      /\ request' = [request EXCEPT ![w] = Idle]
      /\ UNCHANGED <<pass, sched, gone, gap>>
  BY DEF CommitUpdate
<1> DEFINE told == [word EXCEPT !.pending = row.pending]
<1>8. /\ told \in Row /\ told.owner = word.owner /\ told.rule = word.rule
      /\ told.push = word.push /\ told.active = word.active
  BY <1>5, <1>6 DEF Row
<1> HIDE DEF r, a, row, word, told
<1>9. /\ rows' \in [Alert -> Row \cup {None}] /\ said' \in [Alert -> Row \cup {None}]
      /\ rows'[a] = row /\ said'[a] = told
      /\ \A b \in Alert \ {a} : rows'[b] = rows[b] /\ said'[b] = said[b]
  BY <1>2, <1>5, <1>7, <1>8, Parts DEF AlertsSound, told
<1>10. row # None /\ told # None
  BY <1>5, <1>8, NoneAssumption
<1>11. fired' \subseteq fired \cup {a} /\ raced' \subseteq raced \cup {a}
         /\ silenced' \subseteq silenced
  BY <1>7
<1>12. \A b \in Alert : said'[b] = None =>
        /\ rows'[b] = None
        /\ b \notin gone' \cup fired' \cup raced' \cup silenced' \cup gap'
  BY <1>7, <1>9, <1>10, <1>11, Parts DEF AlertsSound
<1>13. RowSaysWhatOwnerSaid'
  <2> SUFFICES ASSUME NEW b \in Alert, rows'[b] # None
               PROVE  /\ b \notin gone'
                      /\ rows'[b].owner = said'[b].owner
                      /\ rows'[b].rule = said'[b].rule
                      /\ rows'[b].push = said'[b].push
                      /\ rows'[b].active => said'[b].active
    BY DEF RowSaysWhatOwnerSaid
  <2>1. CASE b # a
    BY <2>1, <1>7, <1>9, Parts DEF AlertsSound, RowSaysWhatOwnerSaid
  <2>2. CASE b = a
    <3>1. /\ a \notin gone /\ rows[a].owner = said[a].owner
          /\ rows[a].rule = said[a].rule /\ rows[a].push = said[a].push
          /\ rows[a].active => said[a].active
      BY <1>2, <1>7, Parts DEF AlertsSound, RowSaysWhatOwnerSaid
    <3>2. /\ row.owner = told.owner /\ row.rule = told.rule /\ row.push = told.push
      BY <3>1, <1>5, <1>6, <1>8
    <3>3. row.active => told.active
      BY <3>1, <1>5, <1>6, <1>8
    <3> QED
      BY <2>2, <3>1, <3>2, <3>3, <1>7, <1>9
  <2> QED
    BY <2>1, <2>2
<1>14. SilencedForCause'
  <2> SUFFICES ASSUME NEW b \in silenced', rows'[b] # None, Sound(rows'[b].rule)
               PROVE  b \in gap' \/ b \in raced'
    BY DEF SilencedForCause
  <2>1. b \in Alert
    BY <1>11, Parts DEF AlertsSound
  <2>2. CASE b # a
    <3>1. b \in silenced /\ rows'[b] = rows[b]
      BY <2>1, <2>2, <1>9, <1>11
    <3>2. b \in gap \/ b \in raced
      BY <3>1, Parts DEF AlertsSound, SilencedForCause
    <3>3. b \in raced => b \in raced'
      BY <2>2, <1>7
    <3> QED
      BY <3>2, <3>3, <1>7
  <2>3. CASE b = a /\ r.new.rule # r.old.rule
    BY <2>3, <1>7
  <2>4. CASE b = a /\ r.new.rule = r.old.rule
    <3>1. rows'[b].rule = rows[b].rule /\ b \in silenced /\ rows[b] # None
      BY <2>4, <1>5, <1>7, <1>9, <1>11
    <3>2. b \in gap \/ b \in raced
      BY <3>1, Parts DEF AlertsSound, SilencedForCause
    <3> QED
      BY <3>2, <2>4, <1>7
  <2> QED
    BY <2>2, <2>3, <2>4
<1>15. SettledRuleFired'
  <2> SUFFICES ASSUME NEW b \in Alert, rows'[b] # None, ~rows'[b].pending
               PROVE  b \in fired' \/ b \in raced'
    BY DEF SettledRuleFired
  <2>1. CASE b # a
    <3>1. b \in fired \/ b \in raced
      BY <2>1, <1>9, Parts DEF AlertsSound, SettledRuleFired
    <3> QED
      BY <3>1, <2>1, <1>7
  <2>2. CASE b = a
    <3>1. ~row.pending
      BY <2>2, <1>9
    <3>2. r.new.pending \in BOOLEAN /\ r.old.pending \in BOOLEAN
      BY <1>2 DEF Row
    <3>3. r.new.pending = r.old.pending /\ ~rows[a].pending
      BY <3>1, <3>2, <1>4, <1>5
    <3>4. a \in fired \/ a \in raced
      BY <3>3, <1>2, <1>7, Parts DEF AlertsSound, SettledRuleFired
    <3>5. CASE r.new.rule # r.old.rule
      BY <3>1, <3>3, <3>5, <1>4, <1>7, <2>2
    <3>6. CASE r.new.rule = r.old.rule
      BY <3>4, <3>6, <1>7, <2>2
    <3> QED
      BY <3>5, <3>6
  <2> QED
    BY <2>1, <2>2
<1>16. silenced' \subseteq Alert
  BY <1>11, Parts DEF AlertsSound
<1>17. AlertsSound'
  BY <1>9, <1>12, <1>13, <1>14, <1>15, <1>16 DEF AlertsSound
<1>18. HandlersSound'
  BY <1>7, Parts, HandlerIdles
<1>19. EvaluationSound'
  BY <1>7, Parts, EvaluationStill
<1> QED
  BY <1>17, <1>18, <1>19, PartsNext

-----------------------------------------------------------------------------
\* Deleted alerts are gone, and what was said of the others stays true.
LEMMA RemoveKeeps ==
  ASSUME AlertInv, NEW A \in SUBSET {a \in Alert : rows[a] # None}, Remove(A)
  PROVE  AlertInv'
<1>1. /\ rows' = [a \in Alert |-> IF a \in A THEN None ELSE rows[a]]
      /\ gone' = gone \cup A
      /\ UNCHANGED <<request, pass, sched, said, fired, raced, silenced, gap>>
  BY DEF Remove
<1>2. \A a \in Alert : rows'[a] # None => a \notin A /\ rows'[a] = rows[a]
  BY <1>1
<1>3. \A a \in Alert : said[a] = None => a \notin A
  BY Parts DEF AlertsSound
<1>4. rows' \in [Alert -> Row \cup {None}] /\ said' \in [Alert -> Row \cup {None}]
  BY <1>1, Parts DEF AlertsSound
<1>5. \A a \in Alert : said'[a] = None =>
        /\ rows'[a] = None
        /\ a \notin gone' \cup fired' \cup raced' \cup silenced' \cup gap'
  BY <1>1, <1>2, <1>3, Parts DEF AlertsSound
<1>6. RowSaysWhatOwnerSaid'
  BY <1>1, <1>2, Parts DEF AlertsSound, RowSaysWhatOwnerSaid
<1>7. SilencedForCause'
  <2> SUFFICES ASSUME NEW b \in silenced', rows'[b] # None, Sound(rows'[b].rule)
               PROVE  b \in gap' \/ b \in raced'
    BY DEF SilencedForCause
  <2>1. b \in Alert /\ b \in silenced
    BY <1>1, Parts DEF AlertsSound
  <2>2. rows'[b] = rows[b]
    BY <1>2, <2>1
  <2> QED
    BY <1>1, <2>1, <2>2, Parts DEF AlertsSound, SilencedForCause
<1>8. SettledRuleFired'
  BY <1>1, <1>2, Parts DEF AlertsSound, SettledRuleFired
<1>9. AlertsSound'
  BY <1>1, <1>4, <1>5, <1>6, <1>7, <1>8, Parts DEF AlertsSound
<1> QED
  BY <1>1, <1>9, Parts, HandlersStill, EvaluationStill, PartsNext

LEMMA DeleteKeeps ==
  ASSUME AlertInv, NEW u \in User,
         DeleteAll(u) \/ \E a \in Alert : Delete(u, a)
  PROVE  AlertInv'
<1>1. CASE DeleteAll(u)
  BY <1>1, RemoveKeeps DEF DeleteAll, Finds
<1>2. ASSUME NEW a \in Alert, Delete(u, a) PROVE AlertInv'
  <2>1. {a} \in SUBSET {b \in Alert : rows[b] # None}
    BY <1>2 DEF Delete, Finds
  <2> QED
    BY <1>2, <2>1, RemoveKeeps DEF Delete
<1> QED
  BY <1>1, <1>2

-----------------------------------------------------------------------------
LEMMA SelectKeeps ==
  ASSUME AlertInv, NEW m \in Market, Select(m)
  PROVE  AlertInv'
<1> DEFINE batch == [a \in Alert |-> IF rows[a] # None /\ rows[a].active
                                     THEN rows[a] ELSE None]
<1>1. /\ pass' = [at |-> "running", market |-> m, old |-> batch, new |-> batch,
                  todo |-> {a \in Alert : batch[a] # None}, met |-> {}]
      /\ UNCHANGED <<rows, request, sched, said, history>>
  BY DEF Select
<1>2. batch \in [Alert -> Row \cup {None}]
  BY Parts DEF AlertsSound
<1>3. pass' \in Running
  BY <1>1, <1>2 DEF Running
<1> HIDE DEF batch
<1>4. \A a \in Alert : CopySound(pass', a)
  BY <1>1 DEF CopySound
<1>5. EvaluationSound'
  BY <1>3, <1>4 DEF EvaluationSound, PassSound
<1> QED
  BY <1>1, <1>5, Parts, AlertsStill, HandlersStill, PartsNext DEF history

\* One alert of the pass: see CopySound.
LEMMA EvaluateOneKeeps ==
  ASSUME AlertInv, NEW a \in Alert, NEW delivered \in BOOLEAN, EvaluateOne(a, delivered)
  PROVE  AlertInv'
<1> DEFINE v == Evaluate(pass.old[a].rule, pass.market)
           copy == Judged(a, v, delivered)
<1>1. /\ pass.at = "running" /\ a \in pass.todo
      /\ pass' = [pass EXCEPT !.todo = @ \ {a}, !.new[a] = copy,
                              !.met = IF v = "true" THEN @ \cup {a} ELSE @]
      /\ UNCHANGED <<rows, request, sched, said, history>>
  BY DEF EvaluateOne
<1>2. pass \in Running
  BY <1>1, Parts DEF EvaluationSound, Quiet
<1>3. \A b \in Alert : CopySound(pass, b)
  BY <1>1, Parts DEF EvaluationSound, PassSound
<1>4. pass.old[a] # None /\ pass.new[a] # None
  BY <1>1, <1>3 DEF CopySound
<1>5. pass.old[a] \in Row /\ pass.new[a] \in Row
  BY <1>2, <1>4 DEF Running
<1>6. /\ copy \in Row /\ copy.owner = pass.new[a].owner
      /\ copy.rule = pass.new[a].rule /\ copy.push = pass.new[a].push
      /\ copy.active = (pass.new[a].active /\ v # "malformed")
      /\ copy.pending = IF v = "true" THEN pass.old[a].push /\ delivered
                        ELSE pass.new[a].pending
  <2> HIDE DEF v
  <2> QED
    BY <1>5 DEF Judged, Row
<1> HIDE DEF copy
<1>7. /\ pass'.at = "running" /\ pass'.market = pass.market /\ pass'.old = pass.old
      /\ pass'.new = [pass.new EXCEPT ![a] = copy]
      /\ pass'.todo = pass.todo \ {a}
      /\ pass'.met = IF v = "true" THEN pass.met \cup {a} ELSE pass.met
  <2> HIDE DEF v
  <2> QED
    BY <1>1, <1>2 DEF Running
<1>8. pass' \in Running
  <2> HIDE DEF v
  <2> QED
    BY <1>1, <1>2, <1>6 DEF Running
<1>9. ASSUME NEW b \in Alert PROVE CopySound(pass', b)
  <2>1. CASE b # a
    <3>1. /\ pass'.new[b] = pass.new[b] /\ (b \in pass'.todo <=> b \in pass.todo)
          /\ b \in pass.met => b \in pass'.met
      BY <2>1, <1>2, <1>7 DEF Running
    <3> QED
      BY <3>1, <1>3, <1>7 DEF CopySound
  <2>2. CASE b = a
    <3>1. pass'.new[a] = copy
      BY <1>2, <1>7 DEF Running
    <3>2. copy # None
      BY <1>6, NoneAssumption
    <3>3. /\ copy.owner = pass.old[a].owner /\ copy.rule = pass.old[a].rule
          /\ copy.push = pass.old[a].push
          /\ copy.active => pass.old[a].active
      BY <1>3, <1>4, <1>6 DEF CopySound
    <3>4. pass.old[a].active /\ ~copy.active => v = "malformed"
      BY <1>3, <1>4, <1>6 DEF CopySound
    <3>5. pass.old[a].pending /\ ~copy.pending => a \in pass'.met
      BY <1>3, <1>4, <1>6, <1>7 DEF CopySound
    <3>6. pass.old[a].active /\ ~copy.active =>
            Evaluate(pass.old[a].rule, pass.market) = "malformed"
      BY <3>4
    <3>7. a \notin pass'.todo
      BY <1>7
    <3>8. pass'.old = pass.old /\ pass'.market = pass.market
      BY <1>7
    <3> HIDE DEF v
    <3>9. CopySound(pass', a)
      BY <3>1, <3>2, <3>3, <3>5, <3>6, <3>7, <3>8, <1>4 DEF CopySound
    <3> QED
      BY <2>2, <3>9
  <2> QED
    BY <2>1, <2>2
<1>10. EvaluationSound'
  BY <1>8, <1>9 DEF EvaluationSound, PassSound
<1> QED
  BY <1>1, <1>10, Parts, AlertsStill, HandlersStill, PartsNext DEF history

\* A rule whose evaluation fails on complete market data is not sound.
LEMMA SoundEvaluates ==
  ASSUME NEW r, NEW m \in Market, Sound(r), Evaluate(r, m) = "malformed"
  PROVE  \E k \in Metric : m[k] = "missing"
<1> SUFFICES ASSUME \A k \in Metric : m[k] # "missing" PROVE FALSE
  OBVIOUS
<1>1. m \in [Metric -> {"low", "high"}]
  BY MarketAssumption
<1> QED
  BY <1>1 DEF Sound

\* The UPDATE of a pass writes over a row only what the pass has found.
LEMMA WrittenFields ==
  ASSUME AlertInv, pass \in Running, PassSound, NEW a \in Alert,
         a \in Touched => rows[a] # None
  PROVE  /\ Written(a) \in Row \cup {None}
         /\ Written(a) = None <=> rows[a] = None
         /\ rows[a] # None =>
              /\ Written(a).owner = rows[a].owner
              /\ Written(a).rule = rows[a].rule
              /\ Written(a).push = rows[a].push
              /\ Written(a).active => rows[a].active
              /\ rows[a].pending /\ ~Written(a).pending => a \in Touched /\ a \in pass.met
<1>1. CopySound(pass, a)
  BY DEF PassSound, Running
<1>2. CASE a \notin Touched
  BY <1>2, Parts DEF Written, AlertsSound
<1>3. CASE a \in Touched
  <2> DEFINE old == pass.old[a]
             new == pass.new[a]
             row == Merge(rows[a], old, new)
  <2>1. rows[a] \in Row
    BY <1>3, Parts DEF AlertsSound
  <2>2. old # None /\ new # None
    BY <1>1, <1>3 DEF CopySound, Touched
  <2>3. old \in Row /\ new \in Row
    BY <2>2 DEF Running
  <2>4. /\ new.owner = old.owner /\ new.rule = old.rule /\ new.push = old.push
        /\ new.active => old.active
        /\ old.pending /\ ~new.pending => a \in pass.met
    BY <1>1, <2>2 DEF CopySound
  <2>5. Written(a) = row
    BY <1>3 DEF Written
  <2> HIDE DEF old, new
  <2>6. /\ row \in Row /\ row.owner = rows[a].owner
        /\ row.rule = rows[a].rule /\ row.push = rows[a].push
        /\ row.active  = IF new.active # old.active THEN new.active ELSE rows[a].active
        /\ row.pending = IF new.pending # old.pending THEN new.pending ELSE rows[a].pending
    BY <2>1, <2>3, <2>4, MergeFields
  <2> HIDE DEF row
  <2>7. /\ old.active \in BOOLEAN /\ new.active \in BOOLEAN /\ rows[a].active \in BOOLEAN
        /\ old.pending \in BOOLEAN /\ new.pending \in BOOLEAN
    BY <2>1, <2>3 DEF Row
  <2>8. row.active => rows[a].active
    BY <2>4, <2>6, <2>7
  <2>9. rows[a].pending /\ ~row.pending => a \in pass.met
    BY <2>4, <2>6, <2>7
  <2>10. row # None
    BY <2>6, NoneAssumption
  <2> QED
    BY <1>3, <2>1, <2>5, <2>6, <2>8, <2>9, <2>10
<1> QED
  BY <1>2, <1>3

LEMMA CommitPassKeeps ==
  ASSUME AlertInv, CommitPass
  PROVE  AlertInv'
<1> DEFINE off == {a \in Touched : pass.old[a].active /\ ~pass.new[a].active}
           replaced == {a \in Touched : rows[a] # None /\ rows[a].rule # pass.old[a].rule}
           lacking == {a \in off : \E k \in Metric : pass.market[k] = "missing"}
<1>1. /\ pass.at = "running"
      /\ \A a \in Touched : rows[a] # None
      /\ rows' = [a \in Alert |-> Written(a)]
      /\ fired' = fired \cup {a \in pass.met : rows[a] # None /\ rows[a].rule = pass.old[a].rule}
      /\ raced' = raced \cup replaced
      /\ silenced' = silenced \cup off
      /\ gap' = (gap \ off) \cup lacking
      /\ pass' = Quiet
      /\ UNCHANGED <<request, sched, said, gone>>
  BY DEF CommitPass
<1>2. pass \in Running /\ PassSound /\ \A a \in Alert : CopySound(pass, a)
  BY <1>1, Parts DEF EvaluationSound, Quiet, PassSound
<1>3. /\ pass.market \in Market /\ pass.met \subseteq Alert /\ Touched \subseteq Alert
      /\ off \subseteq Touched
  BY <1>2 DEF Running, Touched
<1>4. ASSUME NEW a \in Alert
      PROVE  /\ rows'[a] \in Row \cup {None}
             /\ rows'[a] = None <=> rows[a] = None
             /\ rows[a] # None =>
                  /\ rows'[a].owner = rows[a].owner
                  /\ rows'[a].rule = rows[a].rule
                  /\ rows'[a].push = rows[a].push
                  /\ rows'[a].active => rows[a].active
                  /\ rows[a].pending /\ ~rows'[a].pending => a \in Touched /\ a \in pass.met
  <2>1. rows'[a] = Written(a)
    BY <1>1
  <2> QED
    BY <2>1, <1>1, <1>2, WrittenFields
<1>5. rows' \in [Alert -> Row \cup {None}]
  BY <1>1, <1>4
<1>6. \A a \in Alert : said'[a] = None =>
        /\ rows'[a] = None
        /\ a \notin gone' \cup fired' \cup raced' \cup silenced' \cup gap'
  <2> SUFFICES ASSUME NEW a \in Alert, said[a] = None
               PROVE  /\ rows'[a] = None
                      /\ a \notin gone' \cup fired' \cup raced' \cup silenced' \cup gap'
    BY <1>1
  <2>1. rows[a] = None /\ a \notin gone \cup fired \cup raced \cup silenced \cup gap
    BY Parts DEF AlertsSound
  <2>2. a \notin Touched
    BY <2>1, <1>1
  <2> QED
    BY <2>1, <2>2, <1>1, <1>4
<1>7. RowSaysWhatOwnerSaid'
  <2> SUFFICES ASSUME NEW a \in Alert, rows'[a] # None
               PROVE  /\ a \notin gone'
                      /\ rows'[a].owner = said'[a].owner
                      /\ rows'[a].rule = said'[a].rule
                      /\ rows'[a].push = said'[a].push
                      /\ rows'[a].active => said'[a].active
    BY DEF RowSaysWhatOwnerSaid
  <2>1. /\ a \notin gone /\ rows[a].owner = said[a].owner
        /\ rows[a].rule = said[a].rule /\ rows[a].push = said[a].push
        /\ rows[a].active => said[a].active
    BY <1>4, Parts DEF AlertsSound, RowSaysWhatOwnerSaid
  <2> QED
    BY <2>1, <1>1, <1>4
<1>8. SilencedForCause'
  <2> SUFFICES ASSUME NEW a \in silenced', rows'[a] # None, Sound(rows'[a].rule)
               PROVE  a \in gap' \/ a \in raced'
    BY DEF SilencedForCause
  <2>1. a \in Alert
    BY <1>1, <1>3, Parts DEF AlertsSound
  <2>2. rows[a] # None /\ rows'[a].rule = rows[a].rule
    BY <2>1, <1>4
  <2>3. CASE a \in off
    <3>1. CASE rows[a].rule # pass.old[a].rule
      BY <2>2, <2>3, <3>1, <1>1
    <3>2. CASE rows[a].rule = pass.old[a].rule
      <4>1. pass.old[a] # None
        BY <2>1, <2>3, <1>2 DEF CopySound, Touched
      <4>2. Evaluate(pass.old[a].rule, pass.market) = "malformed"
        BY <2>1, <2>3, <4>1, <1>2 DEF CopySound
      <4>3. Sound(pass.old[a].rule)
        BY <2>2, <3>2
      <4>4. \E k \in Metric : pass.market[k] = "missing"
        BY <4>2, <4>3, <1>3, SoundEvaluates
      <4> QED
        BY <2>3, <4>4, <1>1
    <3> QED
      BY <3>1, <3>2
  <2>4. CASE a \notin off
    <3>1. a \in silenced
      BY <2>4, <1>1
    <3>2. a \in gap \/ a \in raced
      BY <2>2, <3>1, Parts DEF AlertsSound, SilencedForCause
    <3> QED
      BY <2>4, <3>2, <1>1
  <2> QED
    BY <2>3, <2>4
<1>9. SettledRuleFired'
  <2> SUFFICES ASSUME NEW a \in Alert, rows'[a] # None, ~rows'[a].pending
               PROVE  a \in fired' \/ a \in raced'
    BY DEF SettledRuleFired
  <2>1. rows[a] # None
    BY <1>4
  <2>2. CASE rows[a].pending
    <3>1. a \in Touched /\ a \in pass.met
      BY <2>1, <2>2, <1>4
    <3> QED
      BY <2>1, <3>1, <1>1
  <2>3. CASE ~rows[a].pending
    BY <2>1, <2>3, <1>1, Parts DEF AlertsSound, SettledRuleFired
  <2> QED
    BY <2>2, <2>3
<1>10. silenced' \subseteq Alert
  BY <1>1, <1>3, Parts DEF AlertsSound
<1>11. said' \in [Alert -> Row \cup {None}]
  BY <1>1, Parts DEF AlertsSound
<1>12. AlertsSound'
  BY <1>5, <1>6, <1>7, <1>8, <1>9, <1>10, <1>11 DEF AlertsSound
<1>13. EvaluationSound'
  BY <1>1 DEF EvaluationSound, PassSound, Quiet
<1> QED
  BY <1>1, <1>12, <1>13, Parts, HandlersStill, PartsNext

LEMMA AbortPassKeeps ==
  ASSUME AlertInv, AbortPass
  PROVE  AlertInv'
<1>1. pass' = Quiet /\ UNCHANGED <<rows, request, sched, said, history>>
  BY DEF AbortPass
<1>2. EvaluationSound'
  BY <1>1 DEF EvaluationSound, PassSound, Quiet
<1> QED
  BY <1>1, <1>2, Parts, AlertsStill, HandlersStill, PartsNext DEF history

-----------------------------------------------------------------------------
\* The scheduler only reads the alerts, and a stuttering step does nothing.
LEMMA StillKeeps ==
  ASSUME AlertInv, UNCHANGED <<rows, request, pass, said, history>>
  PROVE  AlertInv'
BY Parts, AlertsStill, HandlersStill, EvaluationStill, PartsNext DEF history

LEMMA SchedulerKeeps ==
  ASSUME AlertInv, Scheduler
  PROVE  AlertInv'
<1>1. UNCHANGED <<rows, request, pass, said, history>>
  BY DEF Scheduler, StartScheduler, StopScheduler, Fetch, EndJob, Resolve
<1> QED
  BY <1>1, StillKeeps

LEMMA NextKeeps ==
  ASSUME AlertInv, [Next]_vars
  PROVE  AlertInv'
<1>1. CASE Serve
  BY <1>1, CreateKeeps, CreateTwinKeeps, LoadForUpdateKeeps, CommitUpdateKeeps,
     DropKeeps, DeleteKeeps DEF Serve
<1>2. CASE Evaluation
  BY <1>2, CommitPassKeeps, AbortPassKeeps, SelectKeeps, EvaluateOneKeeps DEF Evaluation
<1>3. CASE Scheduler
  BY <1>3, SchedulerKeeps
<1>4. CASE UNCHANGED vars
  BY <1>4, StillKeeps DEF vars, history
<1> QED
  BY <1>1, <1>2, <1>3, <1>4 DEF Next

\* The inductive invariant: what the copies under way may differ in from the
\* rows they were read from, with the three properties that follow from it.
THEOREM CopiesAreSound == Spec => []AlertInv
<1>1. Init => AlertInv
  BY InitAlerts
<1>2. AlertInv /\ [Next]_vars => AlertInv'
  BY NextKeeps
<1> QED
  BY <1>1, <1>2, PTL DEF Spec

\* Passes that write stale copies back, and edits that overlap, never undo what
\* the owner of an alert last said of it, and bring no deleted alert back.
THEOREM OwnersWordStands == Spec => []RowSaysWhatOwnerSaid
<1>1. AlertInv => RowSaysWhatOwnerSaid
  BY DEF AlertInv
<1> QED
  BY <1>1, CopiesAreSound, PTL

\* An evaluation silences no alert whose rule can be evaluated, unless the
\* market data were incomplete or the rule was replaced meanwhile.
THEOREM NoneSilencedAtWill == Spec => []SilencedForCause
<1>1. AlertInv => SilencedForCause
  BY DEF AlertInv
<1> QED
  BY <1>1, CopiesAreSound, PTL

\* An alert is settled only when its condition has held, unless the condition
\* was replaced while a pass was judging the old one.
THEOREM SettledOnlyWhenMet == Spec => []SettledRuleFired
<1>1. AlertInv => SettledRuleFired
  BY DEF AlertInv
<1> QED
  BY <1>1, CopiesAreSound, PTL

-----------------------------------------------------------------------------
(* The channel                                                             *)

\* The socket the hook refers to is listened to, unless the hook is deaf, and
\* the hook is deaf to nothing else.
RefIsWatched ==
  /\ hook.ref # Nil => (sock[hook.ref].heard \/ hook.deaf)
  /\ hook.deaf => hook.ref # Nil /\ ~sock[hook.ref].heard

HookInv == OneSocket /\ KeepsTrying /\ StatusIsTrue /\ RefIsWatched

ChannelInv == ChannelTypeOK /\ HookInv /\ ManagerKnowsTheLive

-----------------------------------------------------------------------------
LEMMA InitChannel ==
  ASSUME ChannelInit
  PROVE  ChannelInv
<1>1. ChannelTypeOK
  BY DEF ChannelInit, ChannelTypeOK, HookState, SocketState
<1>2. HookInv
  BY DEF ChannelInit, HookInv, OneSocket, KeepsTrying, StatusIsTrue, RefIsWatched
<1>3. ManagerKnowsTheLive
  BY DEF ChannelInit, ManagerKnowsTheLive
<1> QED
  BY <1>1, <1>2, <1>3 DEF ChannelInv

\* A hook that is released listens to nothing.
LEMMA DetachedIsUnheard ==
  ASSUME ChannelInv
  PROVE  /\ Detached \in [Socket -> SocketState]
         /\ \A s \in Socket : ~Detached[s].heard
         /\ \A s \in Socket : Detached[s].ready \in {"connecting", "open"} =>
                                Detached[s].ready = sock[s].ready
<1> USE DEF ChannelInv, ChannelTypeOK
<1>1. ASSUME NEW s \in Socket
      PROVE  /\ Detached[s] \in SocketState
             /\ ~Detached[s].heard
             /\ Detached[s].ready \in {"connecting", "open"} =>
                  Detached[s].ready = sock[s].ready
  <2>1. sock[s] \in SocketState
    OBVIOUS
  <2>2. sock[s].heard => s = hook.ref
    BY DEF HookInv, OneSocket
  <2>3. CASE s = hook.ref
    <3>1. Detached[s] = [sock[s] EXCEPT !.heard = FALSE,
                           !.ready = IF @ = "closed" THEN @ ELSE "closing"]
      BY <2>3 DEF Detached
    <3> QED
      BY <2>1, <3>1 DEF SocketState
  <2>4. CASE s # hook.ref
    <3>1. Detached[s] = sock[s]
      BY <2>4 DEF Detached
    <3> QED
      BY <2>1, <2>2, <2>4, <3>1 DEF SocketState
  <2> QED
    BY <2>3, <2>4
<1> QED
  BY <1>1 DEF Detached

\* connect(), from refs h and sockets k that listen to nothing.
LEMMA ConnectKeeps ==
  ASSUME ChannelInv,
         NEW u \in Url, NEW h \in HookState, NEW k \in [Socket -> SocketState],
         h.timer = Nil,
         \A s \in Socket : ~k[s].heard,
         \A s \in Socket : k[s].ready \in {"connecting", "open"} =>
                             k[s].ready = sock[s].ready,
         url' = u, Connect(u, h, k), UNCHANGED <<conns, todo>>
  PROVE  ChannelInv'
<1>1. PICK s \in Unused :
        /\ hook' = [h EXCEPT !.ref = s, !.manual = FALSE, !.deaf = FALSE,
                             !.status = "connecting"]
        /\ sock' = [k EXCEPT ![s] = [url |-> u, heard |-> TRUE, ready |-> "connecting"]]
        /\ server' = [server EXCEPT ![s] = "checking"]
  BY DEF Connect
<1>2. s \in Socket /\ server[s] = "none"
  BY <1>1 DEF Unused
<1>3. /\ hook'.ref = s /\ hook'.manual = FALSE /\ hook'.deaf = FALSE
      /\ hook'.status = "connecting" /\ hook'.timer = Nil
      /\ hook' \in HookState
  BY <1>1, <1>2 DEF HookState
<1>4. /\ sock'[s] = [url |-> u, heard |-> TRUE, ready |-> "connecting"]
      /\ \A t \in Socket \ {s} : sock'[t] = k[t]
      /\ sock' \in [Socket -> SocketState]
  BY <1>1, <1>2 DEF SocketState
<1>5. ChannelTypeOK'
  BY <1>1, <1>2, <1>3, <1>4 DEF ChannelTypeOK, ChannelInv
<1>6. HookInv'
  <2>1. OneSocket'
    BY <1>2, <1>3, <1>4 DEF OneSocket
  <2>2. KeepsTrying' /\ RefIsWatched'
    BY <1>2, <1>3, <1>4, NilAssumption DEF KeepsTrying, RefIsWatched
  <2>3. StatusIsTrue'
    BY <1>2, <1>3, <1>4, NilAssumption DEF StatusIsTrue
  <2> QED
    BY <2>1, <2>2, <2>3 DEF HookInv
<1>7. ManagerKnowsTheLive'
  <2>1. \A t \in Socket \ {s} : server'[t] = server[t]
    BY <1>1, <1>2 DEF ChannelInv, ChannelTypeOK
  <2>2. server'[s] = "checking"
    BY <1>1, <1>2 DEF ChannelInv, ChannelTypeOK
  <2>3. s \notin conns
    BY <1>2 DEF ChannelInv, ManagerKnowsTheLive
  <2>4. \A t \in Socket \ {s} : Active(t)' => Active(t)
    BY <1>4 DEF Active
  <2> QED
    BY <2>1, <2>2, <2>3, <2>4 DEF ManagerKnowsTheLive, ChannelInv, ChannelTypeOK
<1> QED
  BY <1>5, <1>6, <1>7 DEF ChannelInv

\* Nothing the hook does to itself without a new socket touches the manager's
\* view, as long as no socket becomes active by it.
LEMMA ManagerUntouched ==
  ASSUME ChannelInv, UNCHANGED <<server, conns>>,
         \A s \in Socket : sock'[s].ready \in {"connecting", "open"} =>
                             sock[s].ready \in {"connecting", "open"}
  PROVE  ManagerKnowsTheLive'
BY DEF ManagerKnowsTheLive, ChannelInv, Active

LEMMA ReleasedTypes ==
  ASSUME ChannelInv
  PROVE  /\ Released(hook) \in HookState
         /\ Released(hook).ref = Nil /\ Released(hook).timer = Nil
         /\ Released(hook).manual = TRUE /\ Released(hook).deaf = FALSE
         /\ Released(hook).status = "closed"
BY DEF ChannelInv, ChannelTypeOK, HookState, Released

\* cleanup() and close() without a new connection.
LEMMA ReleaseKeeps ==
  ASSUME ChannelInv, url' \in Url \cup {Nil},
         hook' = Released(hook), sock' = Detached,
         UNCHANGED <<server, conns, todo>>
  PROVE  ChannelInv'
<1>1. ChannelTypeOK'
  BY DetachedIsUnheard, ReleasedTypes DEF ChannelTypeOK, ChannelInv
<1>2. HookInv'
  BY DetachedIsUnheard, ReleasedTypes
     DEF HookInv, OneSocket, KeepsTrying, StatusIsTrue, RefIsWatched
<1>3. ManagerKnowsTheLive'
  BY DetachedIsUnheard, ManagerUntouched
<1> QED
  BY <1>1, <1>2, <1>3 DEF ChannelInv

-----------------------------------------------------------------------------
(* One lemma for each action of the browser                                *)

LEMMA RenderKeeps ==
  ASSUME ChannelInv, NEW u \in Url \cup {Nil}, Render(u)
  PROVE  ChannelInv'
<1>1. CASE u = Nil
  BY <1>1, ReleaseKeeps DEF Render
<1>2. CASE u # Nil
  <2>1. Connect(u, Released(hook), Detached) /\ url' = u /\ UNCHANGED <<conns, todo>>
    BY <1>2 DEF Render
  <2> QED
    BY <1>2, <2>1, DetachedIsUnheard, ReleasedTypes, ConnectKeeps
<1> QED
  BY <1>1, <1>2

LEMMA DisconnectKeeps ==
  ASSUME ChannelInv, Disconnect
  PROVE  ChannelInv'
BY ReleaseKeeps DEF Disconnect, ChannelInv, ChannelTypeOK

LEMMA ReconnectKeeps ==
  ASSUME ChannelInv, Reconnect
  PROVE  ChannelInv'
<1> DEFINE h == [hook EXCEPT !.manual = FALSE, !.timer = Nil, !.deaf = hook.ref # Nil]
           k == [s \in Socket |->
                   IF s = hook.ref THEN [sock[s] EXCEPT !.heard = FALSE] ELSE sock[s]]
<1>1. /\ h \in HookState /\ h.timer = Nil /\ h.ref = hook.ref /\ h.manual = FALSE
      /\ h.deaf = (hook.ref # Nil) /\ h.status = hook.status
  BY DEF ChannelInv, ChannelTypeOK, HookState
<1>2. k \in [Socket -> SocketState]
  BY DEF ChannelInv, ChannelTypeOK, SocketState
<1>3. \A s \in Socket : ~k[s].heard /\ k[s].ready = sock[s].ready
  BY DEF ChannelInv, ChannelTypeOK, SocketState, HookInv, OneSocket
<1>4. CASE ~(url = Nil \/ Active(hook.ref))
  <2>1. Connect(url, h, k) /\ url' = url /\ UNCHANGED <<conns, todo>>
    BY <1>4 DEF Reconnect
  <2>2. url \in Url
    BY <1>4 DEF ChannelInv, ChannelTypeOK
  <2> HIDE DEF h, k
  <2> QED
    BY <1>1, <1>2, <1>3, <2>1, <2>2, ConnectKeeps
<1>5. CASE url = Nil \/ Active(hook.ref)
  <2>1. hook' = h /\ sock' = k /\ UNCHANGED <<url, server, conns, todo>>
    BY <1>5 DEF Reconnect
  <2> HIDE DEF h, k
  <2>2. ChannelTypeOK'
    BY <1>1, <1>2, <2>1 DEF ChannelTypeOK, ChannelInv
  <2>3. HookInv'
    <3>1. hook.ref # Nil => hook.ref \in Socket
      BY DEF ChannelInv, ChannelTypeOK, HookState
    <3>2. OneSocket' /\ RefIsWatched'
      BY <1>1, <1>3, <2>1, <3>1 DEF OneSocket, RefIsWatched
    <3>3. KeepsTrying'
      BY <1>1, <1>5, <2>1 DEF KeepsTrying, Active
    <3>4. StatusIsTrue'
      BY <1>1, <2>1 DEF StatusIsTrue, ChannelInv, HookInv, RefIsWatched
    <3> QED
      BY <3>2, <3>3, <3>4 DEF HookInv
  <2>4. ManagerKnowsTheLive'
    BY <1>3, <2>1, ManagerUntouched
  <2> QED
    BY <2>2, <2>3, <2>4 DEF ChannelInv
<1> QED
  BY <1>4, <1>5

LEMMA TimerKeeps ==
  ASSUME ChannelInv, TimerFires
  PROVE  ChannelInv'
<1> DEFINE h == [hook EXCEPT !.timer = Nil]
<1>1. hook.timer = url /\ hook.ref = Nil /\ url \in Url
  BY DEF TimerFires, ChannelInv, ChannelTypeOK, HookInv, OneSocket
<1>2. h \in HookState /\ h.timer = Nil
  BY DEF ChannelInv, ChannelTypeOK, HookState
<1>3. Connect(url, h, sock) /\ url' = url /\ UNCHANGED <<conns, todo>>
  BY <1>1 DEF TimerFires, Active
<1>4. \A s \in Socket : ~sock[s].heard
  BY <1>1, NilAssumption DEF ChannelInv, ChannelTypeOK, SocketState, HookInv, OneSocket
<1>5. sock \in [Socket -> SocketState]
  BY DEF ChannelInv, ChannelTypeOK
<1> HIDE DEF h
<1> QED
  BY <1>1, <1>2, <1>3, <1>4, <1>5, ConnectKeeps

LEMMA OpenedKeeps ==
  ASSUME ChannelInv, NEW s \in Socket, Opened(s)
  PROVE  ChannelInv'
<1>1. /\ sock[s] \in SocketState /\ sock[s].ready = "connecting"
      /\ hook \in HookState
      /\ sock' = [sock EXCEPT ![s].ready = "open"]
      /\ UNCHANGED <<url, server, conns, todo>>
  BY DEF Opened, ChannelInv, ChannelTypeOK
<1>2. /\ sock' \in [Socket -> SocketState]
      /\ sock'[s].ready = "open" /\ sock'[s].heard = sock[s].heard
      /\ sock'[s].url = sock[s].url
      /\ \A t \in Socket \ {s} : sock'[t] = sock[t]
  BY <1>1 DEF ChannelInv, ChannelTypeOK, SocketState
<1>3. /\ hook' \in HookState
      /\ hook'.ref = hook.ref /\ hook'.timer = hook.timer
      /\ hook'.manual = hook.manual /\ hook'.deaf = hook.deaf
      /\ hook'.status = IF sock[s].heard THEN "open" ELSE hook.status
  BY <1>1 DEF Opened, HookState
<1>4. hook.ref # Nil => hook.ref \in Socket
  BY <1>1 DEF HookState
<1>5. ChannelTypeOK'
  BY <1>1, <1>2, <1>3 DEF ChannelInv, ChannelTypeOK
<1>6. HookInv'
  <2>1. OneSocket' /\ KeepsTrying' /\ RefIsWatched'
    BY <1>1, <1>2, <1>3, <1>4
       DEF ChannelInv, HookInv, OneSocket, KeepsTrying, RefIsWatched
  <2>2. StatusIsTrue'
    BY <1>1, <1>2, <1>3, <1>4, NilAssumption
       DEF ChannelInv, HookInv, OneSocket, StatusIsTrue, RefIsWatched
  <2> QED
    BY <2>1, <2>2 DEF HookInv
<1>7. ManagerKnowsTheLive'
  BY <1>1, <1>2, ManagerUntouched
<1> QED
  BY <1>5, <1>6, <1>7 DEF ChannelInv

LEMMA ClosedKeeps ==
  ASSUME ChannelInv, NEW s \in Socket, Closed(s)
  PROVE  ChannelInv'
<1>1. /\ sock[s] \in SocketState /\ hook \in HookState
      /\ sock' = [sock EXCEPT ![s].ready = "closed", ![s].heard = FALSE]
      /\ UNCHANGED <<url, server, conns, todo>>
  BY DEF Closed, ChannelInv, ChannelTypeOK
<1>2. /\ sock' \in [Socket -> SocketState]
      /\ sock'[s].ready = "closed" /\ sock'[s].heard = FALSE
      /\ \A t \in Socket \ {s} : sock'[t] = sock[t]
  BY <1>1 DEF ChannelInv, ChannelTypeOK, SocketState
<1>3. hook.ref # Nil => hook.ref \in Socket
  BY <1>1 DEF HookState
<1>4. ManagerKnowsTheLive'
  BY <1>1, <1>2, ManagerUntouched
<1>5. CASE sock[s].heard
  <2>1. s = hook.ref /\ sock[s].url = url /\ ~hook.manual /\ hook.timer = Nil
    BY <1>5, NilAssumption DEF ChannelInv, HookInv, OneSocket
  <2>2. ~hook.deaf
    BY <1>5, <2>1 DEF ChannelInv, HookInv, RefIsWatched
  <2>3. /\ hook' \in HookState
        /\ hook'.ref = Nil /\ hook'.timer = url /\ hook'.manual = hook.manual
        /\ hook'.deaf = hook.deaf /\ hook'.status = "closed"
    BY <1>1, <1>5, <2>1 DEF Closed, OnClose, HookState, SocketState
  <2>4. ChannelTypeOK'
    BY <1>1, <1>2, <2>3 DEF ChannelInv, ChannelTypeOK
  <2>5. HookInv'
    BY <1>1, <1>2, <2>1, <2>2, <2>3
       DEF ChannelInv, HookInv, OneSocket, KeepsTrying, StatusIsTrue, RefIsWatched
  <2> QED
    BY <1>4, <2>4, <2>5 DEF ChannelInv
<1>6. CASE ~sock[s].heard
  <2>1. hook' = hook
    BY <1>6 DEF Closed
  <2>2. ChannelTypeOK'
    BY <1>1, <1>2, <2>1 DEF ChannelInv, ChannelTypeOK
  <2>3. s = hook.ref => hook.deaf
    BY <1>3, <1>6, NilAssumption DEF ChannelInv, HookInv, RefIsWatched
  <2>4. OneSocket' /\ KeepsTrying' /\ RefIsWatched'
    BY <1>1, <1>2, <1>3, <1>6, <2>1, <2>3
       DEF ChannelInv, HookInv, OneSocket, KeepsTrying, RefIsWatched
  <2>5. StatusIsTrue'
    BY <1>2, <1>3, <2>1, <2>3 DEF ChannelInv, HookInv, StatusIsTrue
  <2> QED
    BY <1>4, <2>2, <2>4, <2>5 DEF ChannelInv, HookInv
<1> QED
  BY <1>5, <1>6

\* Open sockets that begin to close, and nothing else in the browser.
LEMMA ClosingKeeps ==
  ASSUME ChannelInv, UNCHANGED <<url, hook>>,
         \A s \in Socket :
           /\ sock'[s].heard = sock[s].heard /\ sock'[s].url = sock[s].url
           /\ \/ sock'[s].ready = sock[s].ready
              \/ sock[s].ready = "open" /\ sock'[s].ready = "closing"
  PROVE  HookInv'
<1>1. hook.ref # Nil => hook.ref \in Socket
  BY DEF ChannelInv, ChannelTypeOK, HookState
<1>2. OneSocket' /\ KeepsTrying' /\ RefIsWatched'
  BY <1>1 DEF ChannelInv, HookInv, OneSocket, KeepsTrying, RefIsWatched
<1>3. StatusIsTrue'
  BY <1>1 DEF ChannelInv, HookInv, StatusIsTrue
<1> QED
  BY <1>2, <1>3 DEF HookInv

LEMMA SocketDropKeeps ==
  ASSUME ChannelInv, NEW s \in Socket, Drop(s)
  PROVE  ChannelInv'
<1>1. /\ sock' = [sock EXCEPT ![s].ready = "closing"] /\ sock[s].ready = "open"
      /\ UNCHANGED <<url, hook, server, conns, todo>>
  BY DEF Drop
<1>2. /\ sock' \in [Socket -> SocketState]
      /\ \A t \in Socket :
           /\ sock'[t].heard = sock[t].heard /\ sock'[t].url = sock[t].url
           /\ \/ sock'[t].ready = sock[t].ready
              \/ sock[t].ready = "open" /\ sock'[t].ready = "closing"
  BY <1>1 DEF ChannelInv, ChannelTypeOK, SocketState
<1>3. HookInv'
  BY <1>1, <1>2, ClosingKeeps
<1>4. ManagerKnowsTheLive'
  BY <1>1, <1>2, ManagerUntouched
<1> QED
  BY <1>1, <1>2, <1>3, <1>4 DEF ChannelInv, ChannelTypeOK

-----------------------------------------------------------------------------
(* The server                                                              *)

\* What the server does to itself leaves the hook's properties as they are.
LEMMA HookUntouched ==
  ASSUME ChannelInv, UNCHANGED <<url, hook, sock>>
  PROVE  HookInv'
BY DEF ChannelInv, HookInv, OneSocket, KeepsTrying, StatusIsTrue, RefIsWatched

LEMMA EndpointKeeps ==
  ASSUME ChannelInv, NEW s \in Socket, Endpoint(s)
  PROVE  ChannelInv'
<1>1. UNCHANGED <<url, hook, sock, todo>>
  BY DEF Endpoint, Check, Register, Greet, Leave
<1>2. HookInv'
  BY <1>1, HookUntouched
<1>3. \A t \in Socket : Active(t)' = Active(t)
  BY <1>1 DEF Active
<1> USE DEF ChannelInv, ChannelTypeOK
<1>4. CASE Check(s)
  <2>1. ChannelTypeOK'
    BY <1>1, <1>4 DEF Check
  <2>2. ManagerKnowsTheLive'
    BY <1>3, <1>4 DEF Check, ManagerKnowsTheLive
  <2> QED
    BY <1>2, <2>1, <2>2
<1>5. CASE Register(s)
  <2>1. ChannelTypeOK'
    BY <1>1, <1>5 DEF Register
  <2>2. ManagerKnowsTheLive'
    BY <1>3, <1>5 DEF Register, ManagerKnowsTheLive
  <2> QED
    BY <1>2, <2>1, <2>2
<1>6. CASE Greet(s)
  <2>1. ChannelTypeOK'
    BY <1>1, <1>6 DEF Greet
  <2>2. ManagerKnowsTheLive'
    BY <1>3, <1>6 DEF Greet, ManagerKnowsTheLive
  <2> QED
    BY <1>2, <2>1, <2>2
<1>7. CASE Leave(s)
  <2>1. ChannelTypeOK'
    BY <1>1, <1>7 DEF Leave
  <2>2. ManagerKnowsTheLive'
    BY <1>3, <1>7 DEF Leave, ManagerKnowsTheLive
  <2> QED
    BY <1>2, <2>1, <2>2
<1> QED
  BY <1>4, <1>5, <1>6, <1>7 DEF Endpoint

\* A broadcast removes nobody but who is gone.
LEMMA BroadcastKeeps ==
  ASSUME ChannelInv, Snapshot \/ \E s \in Socket : Send(s)
  PROVE  ChannelInv'
<1>1. UNCHANGED <<url, hook, sock, server>>
  BY DEF Snapshot, Send
<1>2. HookInv'
  BY <1>1, HookUntouched
<1>3. \A t \in Socket : Active(t)' = Active(t)
  BY <1>1 DEF Active
<1>4. ChannelTypeOK'
  BY <1>1 DEF ChannelInv, ChannelTypeOK, Snapshot, Send
<1>5. ManagerKnowsTheLive'
  BY <1>1, <1>3 DEF ChannelInv, ManagerKnowsTheLive, Snapshot, Send
<1> QED
  BY <1>2, <1>4, <1>5 DEF ChannelInv

LEMMA RestartKeeps ==
  ASSUME ChannelInv, Restart
  PROVE  ChannelInv'
<1>1. ASSUME NEW s \in Socket
      PROVE  /\ sock'[s] \in SocketState
             /\ sock'[s].heard = sock[s].heard /\ sock'[s].url = sock[s].url
             /\ \/ sock'[s].ready = sock[s].ready
                \/ sock[s].ready = "open" /\ sock'[s].ready = "closing"
  BY DEF Restart, ChannelInv, ChannelTypeOK, SocketState
<1>2. sock' \in [Socket -> SocketState]
  BY <1>1 DEF Restart
<1>3. HookInv'
  BY <1>1, ClosingKeeps DEF Restart
<1>4. ChannelTypeOK' /\ ManagerKnowsTheLive'
  BY <1>2 DEF Restart, ChannelInv, ChannelTypeOK, ManagerKnowsTheLive
<1> QED
  BY <1>3, <1>4 DEF ChannelInv

-----------------------------------------------------------------------------
LEMMA StepKeeps ==
  ASSUME ChannelInv, [ChannelNext]_channel
  PROVE  ChannelInv'
<1>1. CASE \E u \in Url \cup {Nil} : Render(u)
  BY <1>1, RenderKeeps
<1>2. CASE Disconnect \/ Reconnect \/ TimerFires
  BY <1>2, DisconnectKeeps, ReconnectKeeps, TimerKeeps
<1>3. CASE \E s \in Socket : Browser(s)
  BY <1>3, OpenedKeeps, ClosedKeeps, SocketDropKeeps DEF Browser
<1>4. CASE \E s \in Socket : Endpoint(s)
  BY <1>4, EndpointKeeps
<1>5. CASE Snapshot \/ \E s \in Socket : Send(s)
  BY <1>5, BroadcastKeeps
<1>6. CASE Restart
  BY <1>6, RestartKeeps
<1>7. CASE UNCHANGED channel
  BY <1>7 DEF channel, ChannelInv, ChannelTypeOK, HookInv, OneSocket, KeepsTrying, StatusIsTrue,
              RefIsWatched, ManagerKnowsTheLive, Active
<1> QED
  BY <1>1, <1>2, <1>3, <1>4, <1>5, <1>6, <1>7 DEF ChannelNext

\* The inductive invariant holds throughout: the refs of the hook, the handlers
\* on its sockets and the manager's set of connections fit each other.
THEOREM ChannelInvariant ==
  ChannelSpec => []ChannelInv
<1>1. ChannelInit => ChannelInv
  BY InitChannel
<1>2. ChannelInv /\ [ChannelNext]_channel => ChannelInv'
  BY StepKeeps
<1> QED
  BY <1>1, <1>2, PTL DEF ChannelSpec

\* Alerts are heard from one socket, that of the last render's token (the refs
\* and handlers of useAlertsWebSocket).
THEOREM ListensToOne ==
  ChannelSpec => []OneSocket
<1>1. ChannelInv => OneSocket
  BY DEF ChannelInv, HookInv
<1> QED
  BY <1>1, ChannelInvariant, PTL

\* A hook that should be connected is, or is about to try again (the close
\* handler and its timer), unless reconnect() made it deaf.
THEOREM AlwaysTries ==
  ChannelSpec => []KeepsTrying
<1>1. ChannelInv => KeepsTrying
  BY DEF ChannelInv, HookInv
<1> QED
  BY <1>1, ChannelInvariant, PTL

\* The status shown by the panel is that of the socket it listens to (setStatus
\* in connect, its handlers and disconnect), with the same exception.
THEOREM StatusIsRight ==
  ChannelSpec => []StatusIsTrue
<1>1. ChannelInv => StatusIsTrue
  BY DEF ChannelInv, HookInv
<1> QED
  BY <1>1, ChannelInvariant, PTL

\* The connections of AlertWebSocketManager are those of endpoints that run, and
\* no broadcast removes a live one.
THEOREM ManagerIsRight ==
  ChannelSpec => []ManagerKnowsTheLive
<1>1. ChannelInv => ManagerKnowsTheLive
  BY DEF ChannelInv
<1> QED
  BY <1>1, ChannelInvariant, PTL
=============================================================================
