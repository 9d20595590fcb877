-------------------------- MODULE SourceLedgerProofs --------------------------
(***************************************************************************)
(* For any sources, usernames, runs and operators: SourceLedger keeps its  *)
(* types, and with them unique names and dismissal ids; and, however the   *)
(* requests of operators overlap, no run publishes a source that was known *)
(* when it was claimed.                                                    *)
(***************************************************************************)
EXTENDS SourceLedger, WellFoundedInduction, TLAPS

\* The row ids in use have an upper bound.
IdsBounded ==
    \E m \in Nat : \A p \in Peer : dismissed[p] # None => dismissed[p].id <= m

\* A run that is not over has started.
RunStarted == phase # "over" => run \in Run

\* The ledgers hold what operators have seen and hidden, what a run suppresses holds
\* what was known when it was claimed, and what it will read nothing of that.
KnownIsLeftOut ==
    /\ \A p \in hid : dismissed[p] # None
    /\ \A p \in shown : presented[p] = "quality"
    /\ phase = "search" => known \subseteq index
    /\ phase = "read" => \A p \in known : pool[p] = None

IInv ==
    /\ TypeOK
    /\ IdsBounded
    /\ RunStarted
    /\ KnownIsLeftOut

-------------------------------------------------------------------------------
(* A bounded set of row ids has a greatest one: the least of its upper bounds. *)
LEMMA GreatestExists ==
  ASSUME NEW S \in SUBSET Nat, NEW b \in Nat, \A x \in S : x <= b, S # {}
  PROVE  \E x \in S : \A y \in S : x >= y
<1> DEFINE B == {m \in Nat : \A x \in S : x <= m}
<1>1. PICK m \in B : \A n \in B : ~(<<n, m>> \in OpToRel(<, Nat))
  <2>1. B \subseteq Nat /\ B # {}
    OBVIOUS
  <2> HIDE DEF B
  <2> QED
    BY <2>1, WFMin, NatLessThanWellFounded
<1>2. ASSUME m \notin S PROVE FALSE
  <2>1. \A x \in S : x <= m - 1
    BY <1>2
  <2>2. m # 0
    <3>1. PICK x \in S : TRUE
      OBVIOUS
    <3>2. x \in Nat /\ x <= m /\ x # m
      BY <1>2
    <3> QED
      BY <3>2
  <2>3. m - 1 \in B /\ m - 1 < m
    BY <2>1, <2>2
  <2>4. <<m - 1, m>> \in {p \in Nat \X Nat : p[1] < p[2]}
    BY <2>3
  <2> QED
    BY <1>1, <2>3, <2>4, Zenon DEF OpToRel
<1> QED
  BY <1>2

(* The id of a new row is above all others. *)
LEMMA NextIdIsNew ==
  ASSUME TypeOK, IdsBounded
  PROVE  /\ NextId \in Nat
         /\ \A p \in Peer : dismissed[p] # None => dismissed[p].id < NextId
<1> DEFINE S == {0} \cup {dismissed[p].id : p \in {q \in Peer : dismissed[q] # None}}
<1>1. S \in SUBSET Nat /\ S # {}
  BY DEF TypeOK, Dismissal
<1>2. PICK m \in Nat : \A x \in S : x <= m
  BY DEF IdsBounded
<1>3. \E x \in S : \A y \in S : x >= y
  <2> HIDE DEF S
  <2> QED
    BY <1>1, <1>2, GreatestExists
<1>4. Max(S) \in S /\ \A y \in S : Max(S) >= y
  <2> HIDE DEF S
  <2> QED
    BY <1>3 DEF Max
<1>5. \A p \in Peer : dismissed[p] # None => dismissed[p].id \in S
  OBVIOUS
<1>6. NextId = Max(S) + 1
  BY DEF NextId
<1>7. PICK g \in S : g = Max(S) /\ \A x \in S : g >= x
  BY <1>4
<1>8. NextId = g + 1
  BY <1>6, <1>7
<1> HIDE DEF S
<1>9. g \in Nat /\ \A x \in S : x < g + 1
  BY <1>1, <1>7
<1>10. NextId \in Nat
  BY <1>8, <1>9
<1>11. ASSUME NEW p \in Peer, dismissed[p] # None PROVE dismissed[p].id < NextId
  <2>1. dismissed[p].id \in S
    BY <1>5, <1>11
  <2> QED
    BY <1>8, <1>9, <2>1
<1> QED
  BY <1>10, <1>11

(* A registered source has a row with a name. *)
LEMMA RowTypes ==
  ASSUME TypeOK
  PROVE  /\ \A p \in Registered : registry[p] \in SourceRow
         /\ \A p \in Peer : dismissed[p] # None => dismissed[p] \in Dismissal
         /\ \A r \in Run, p \in Peer : snaps[r][p] # None => snaps[r][p] \in Snapshot
  BY DEF TypeOK, Registered

(* The initial state satisfies the invariant. *)
LEMMA InitInv == Init => IInv
<1> SUFFICES ASSUME Init PROVE IInv
  OBVIOUS
<1>1. Registered = {}
  BY DEF Init, Registered
<1>2. TypeOK
  BY <1>1, SourceLedgerAssumption DEF Init, TypeOK, RowOf
<1>3. IdsBounded /\ RunStarted /\ KnownIsLeftOut
  BY DEF Init, IdsBounded, RunStarted, KnownIsLeftOut
<1> QED
  BY <1>2, <1>3 DEF IInv

-------------------------------------------------------------------------------
(* Steps that leave the rows alone *)

\* What the rows keep when they are not touched
LEMMA RowsUnchanged ==
  ASSUME IInv, UNCHANGED <<registry, dismissed, snaps>>
  PROVE  /\ Registered' = Registered
         /\ \A p, q \in Registered' : registry'[p].name = registry'[q].name => p = q
         /\ \A p \in Peer : dismissed'[p] # None => RowOf(dismissed[p].id)' = {p}
         /\ \A r \in Run, p \in Peer : snaps'[r][p] # None =>
                (snaps'[r][p].source # None => snaps'[r][p].source \in Registered')
         /\ IdsBounded'
  BY DEF IInv, TypeOK, Registered, RowOf, IdsBounded

\* A username changes on Telegram only.
LEMMA RenameInv ==
  ASSUME IInv, NEW p \in Peer, NEW n \in Name, Rename(p, n)
  PROVE  IInv'
<1>1. name' \in [Peer -> Name] /\ IsInjective(name')
  BY DEF IInv, TypeOK, Rename, IsInjective, Range
<1>2. acts' \in 0 .. MaxActs
  BY SourceLedgerAssumption DEF IInv, TypeOK, Rename, Act
<1>3. TypeOK'
  BY <1>1, <1>2, RowsUnchanged DEF IInv, TypeOK, Rename, ledgers, worker, ui, history
<1> QED
  BY <1>3, RowsUnchanged DEF IInv, RunStarted, KnownIsLeftOut, Rename, ledgers, worker, history

\* What is known when a run is claimed is suppressed by it.
LEMMA ClaimInv ==
  ASSUME IInv, Claim
  PROVE  IInv'
<1>1. run' \in Run /\ run' \in 0 .. MaxRuns /\ phase' = "search"
  BY SourceLedgerAssumption DEF IInv, TypeOK, RunStarted, Claim, Run
<1>2. index' \subseteq Peer /\ known' \subseteq Peer
  BY DEF IInv, TypeOK, Claim, Suppressed, Registered
<1>3. TypeOK'
  BY <1>1, <1>2, RowsUnchanged DEF IInv, TypeOK, Claim, ledgers, ui
<1>4. KnownIsLeftOut'
  BY <1>1 DEF IInv, TypeOK, KnownIsLeftOut, Claim, Suppressed, Registered, ledgers
<1> QED
  BY <1>1, <1>3, <1>4, RowsUnchanged DEF IInv, RunStarted, Claim, ledgers

\* What the run will read is not suppressed.
LEMMA FixPoolInv ==
  ASSUME IInv, NEW found \in SUBSET Peer, FixPool(found)
  PROVE  IInv'
<1>1. pool' \in [Peer -> Name \cup {None}]
  BY DEF IInv, TypeOK, FixPool
<1>2. TypeOK'
  BY <1>1, RowsUnchanged DEF IInv, TypeOK, FixPool, ledgers, ui, history
<1>3. KnownIsLeftOut'
  BY <1>3 DEF IInv, TypeOK, KnownIsLeftOut, FixPool, ledgers, history
<1> QED
  BY <1>2, <1>3, RowsUnchanged DEF IInv, RunStarted, FixPool, ledgers

\* A run that ends forgets its pool.
LEMMA EndRunInv ==
  ASSUME IInv, EndRun
  PROVE  IInv'
<1>1. TypeOK'
  BY RowsUnchanged DEF IInv, TypeOK, EndRun, ledgers, ui
<1> QED
  BY <1>1, RowsUnchanged DEF IInv, RunStarted, KnownIsLeftOut, EndRun, ledgers

\* A request that begins, a form that is opened and an approval that begins or fails
\* touch no row.
LEMMA RequestInv ==
  ASSUME IInv, UNCHANGED <<name, ledgers, worker, history>>, acts' \in 0 .. MaxActs,
         requests' \subseteq [verdict : {"promote", "dismiss"}, run : Run, peer : Peer],
         form' \in [peer : Peer, id : Nat, version : Nat] \cup {None},
         approving' \in Registered \cup {None},
         deciding' \subseteq [peer : Registered, to : SourceStates]
  PROVE  IInv'
<1>1. TypeOK'
  BY RowsUnchanged DEF IInv, TypeOK, ledgers, worker, history
<1> QED
  BY <1>1, RowsUnchanged DEF IInv, RunStarted, KnownIsLeftOut, ledgers, worker, history

LEMMA ReviewInv ==
  ASSUME IInv, NEW verdict \in {"promote", "dismiss"}, NEW r \in Run, NEW p \in Peer,
         Review(verdict, r, p)
  PROVE  IInv'
<1>1. acts' \in 0 .. MaxActs
  BY SourceLedgerAssumption DEF IInv, TypeOK, Review, Act
<1>2. requests' \subseteq [verdict : {"promote", "dismiss"}, run : Run, peer : Peer]
  BY DEF IInv, TypeOK, Review
<1> QED
  BY <1>1, <1>2, RequestInv DEF IInv, TypeOK, Review

LEMMA ReviewFailsInv ==
  ASSUME IInv, NEW q \in requests, ReviewFails(q)
  PROVE  IInv'
  BY RequestInv DEF IInv, TypeOK, ReviewFails

LEMMA OpenFormInv ==
  ASSUME IInv, NEW p \in Peer, OpenForm(p)
  PROVE  IInv'
<1>1. acts' \in 0 .. MaxActs
  BY SourceLedgerAssumption DEF IInv, TypeOK, OpenForm, Act
<1>2. form' \in [peer : Peer, id : Nat, version : Nat]
  BY RowTypes DEF IInv, OpenForm, Dismissal
<1> QED
  BY <1>1, <1>2, RequestInv DEF IInv, TypeOK, OpenForm

LEMMA ApproveInv ==
  ASSUME IInv, NEW p \in Peer, Approve(p)
  PROVE  IInv'
<1>1. acts' \in 0 .. MaxActs
  BY SourceLedgerAssumption DEF IInv, TypeOK, Approve, Act
<1> QED
  BY <1>1, RequestInv DEF IInv, TypeOK, Approve

LEMMA ApproveFailsInv ==
  ASSUME IInv, ApproveFails
  PROVE  IInv'
  BY RequestInv DEF IInv, TypeOK, ApproveFails

-------------------------------------------------------------------------------
(* Steps that write a row *)

\* A row that a step writes is one, so what was registered or shown stays so.
LEMMA RowsAreNotNone ==
  /\ \A x \in SourceRow : x # None
  /\ \A x \in Dismissal : x # None
  /\ \A x \in Snapshot : x # None
  BY NoneAssumption

\* A result is new; it is one of a source that the run had not left out.
LEMMA PublishInv ==
  ASSUME IInv, NEW p \in Peer, NEW quality \in BOOLEAN, Publish(p, quality)
  PROVE  IInv'
<1> DEFINE new == [name |-> pool[p], review |-> "unreviewed", source |-> None]
<1>1. run \in Run /\ new \in Snapshot
  BY DEF IInv, TypeOK, RunStarted, Publish, Snapshot
<1>2. /\ snaps' \in [Run -> [Peer -> Snapshot \cup {None}]]
      /\ \A r \in Run, q \in Peer : snaps'[r][q] = IF r = run /\ q = p THEN new ELSE snaps[r][q]
  <2> HIDE DEF new
  <2> QED
    BY <1>1 DEF IInv, TypeOK, Publish, new
<1>3. presented' \in [Peer -> {None, "quality", "non_quality"}]
  BY DEF IInv, TypeOK, Publish, Presented
<1>4. /\ Registered' = Registered
      /\ \A q \in Peer : RowOf(dismissed[q].id)' = RowOf(dismissed[q].id)
  BY DEF Registered, RowOf, Publish
<1>5. \A r \in Run, q \in Peer : snaps'[r][q] # None =>
          (snaps'[r][q].source # None => snaps'[r][q].source \in Registered')
  BY <1>2, <1>4 DEF IInv, TypeOK
<1>6. shown' \subseteq Peer
  BY DEF IInv, TypeOK, Publish
<1>7. UNCHANGED <<name, acts, registry, dismissed, worker, ui, hid, known>>
  BY DEF Publish
<1> HIDE DEF new
<1>8. TypeOK'
  BY <1>2, <1>3, <1>4, <1>5, <1>6, <1>7 DEF IInv, TypeOK, worker, ui
<1>9. KnownIsLeftOut'
  BY <1>9 DEF IInv, TypeOK, KnownIsLeftOut, Publish, Presented, worker
<1> QED
  BY <1>7, <1>8, <1>9 DEF IInv, RunStarted, IdsBounded, worker

\* Retention takes results away, and nothing else.
LEMMA PurgeInv ==
  ASSUME IInv, NEW r \in Run, Purge(r)
  PROVE  IInv'
<1>1. /\ snaps' \in [Run -> [Peer -> Snapshot \cup {None}]]
      /\ \A q \in Run, p \in Peer : snaps'[q][p] \in {None, snaps[q][p]}
  BY DEF IInv, TypeOK, Purge
<1>2. /\ Registered' = Registered
      /\ \A q \in Peer : RowOf(dismissed[q].id)' = RowOf(dismissed[q].id)
  BY DEF Registered, RowOf, Purge
<1>3. \A q \in Run, p \in Peer : snaps'[q][p] # None =>
          (snaps'[q][p].source # None => snaps'[q][p].source \in Registered')
  BY <1>1, <1>2 DEF IInv, TypeOK
<1>4. TypeOK'
  BY <1>1, <1>2, <1>3 DEF IInv, TypeOK, Purge, worker, ui, history
<1> QED
  BY <1>4 DEF IInv, RunStarted, IdsBounded, KnownIsLeftOut, Purge, worker, history

\* A verdict on a result writes it, and a new row of the registry or of the dismissals.
LEMMA PromoteTypes ==
  ASSUME IInv, NEW r \in Run, NEW p \in Peer, snaps[r][p] # None, Promote(r, p)
  PROVE  /\ registry' \in [Peer -> SourceRow \cup {None}]
         /\ Registered \subseteq Registered'
         /\ \A q, t \in Registered' : registry'[q].name = registry'[t].name => q = t
         /\ snaps' \in [Run -> [Peer -> Snapshot \cup {None}]]
         /\ \A k \in Run, q \in Peer : snaps'[k][q] # None =>
                (snaps'[k][q].source # None => snaps'[k][q].source \in Registered')
<1> DEFINE n      == snaps[r][p].name
           found  == FindSource(p, n)
           source == IF found = {} THEN p ELSE CHOOSE q \in found : TRUE
           new    == [state |-> "candidate", name |-> n]
           result == [snaps[r][p] EXCEPT !.review = "promoted", !.source = source]
<1>1. snaps[r][p] \in Snapshot /\ n \in Name
  BY RowTypes DEF IInv, Snapshot
<1>2. new \in SourceRow /\ new # None
  BY <1>1, RowsAreNotNone DEF SourceRow, SourceStates
<1>3. found \subseteq Registered /\ source \in Peer
  BY DEF FindSource, Registered
<1>4. registry' = IF found = {} THEN [registry EXCEPT ![p] = new] ELSE registry
  BY DEF Promote
<1>5. snaps' = [snaps EXCEPT ![r][p] = result]
  BY DEF Promote
<1>6. result \in Snapshot /\ result.source = source
  <2> HIDE DEF source
  <2> QED
    BY <1>1, <1>3 DEF Snapshot
<1>7. found = {} => p \notin Registered /\ \A q \in Registered : registry[q].name # n
  BY DEF FindSource
<1> HIDE DEF n, found, new, result
<1>8. registry' \in [Peer -> SourceRow \cup {None}]
  BY <1>2, <1>4 DEF IInv, TypeOK
<1>9. Registered' = IF found = {} THEN Registered \cup {p} ELSE Registered
  BY <1>2, <1>4 DEF IInv, TypeOK, Registered
<1>10. \A q, t \in Registered' : registry'[q].name = registry'[t].name => q = t
  <2>1. new.name = n
    BY DEF new
  <2> QED
    BY <1>4, <1>7, <1>9, <2>1 DEF IInv, TypeOK, Registered
<1>11. source \in Registered'
  BY <1>3, <1>9
<1>12. /\ snaps' \in [Run -> [Peer -> Snapshot \cup {None}]]
       /\ \A k \in Run, q \in Peer :
              snaps'[k][q] = IF k = r /\ q = p THEN result ELSE snaps[k][q]
  BY <1>5, <1>6 DEF IInv, TypeOK
<1> HIDE DEF source
<1>13. \A k \in Run, q \in Peer : snaps'[k][q] # None =>
           (snaps'[k][q].source # None => snaps'[k][q].source \in Registered')
  BY <1>6, <1>9, <1>11, <1>12 DEF IInv, TypeOK
<1> QED
  BY <1>8, <1>9, <1>10, <1>12, <1>13

LEMMA DismissTypes ==
  ASSUME IInv, NEW r \in Run, NEW p \in Peer, snaps[r][p] # None, Dismiss(r, p)
  PROVE  /\ dismissed' \in [Peer -> Dismissal \cup {None}]
         /\ \A q \in Peer : dismissed'[q] # None => RowOf(dismissed[q].id)' = {q}
         /\ \A q \in Peer : dismissed[q] # None \/ q = p => dismissed'[q] # None
         /\ IdsBounded'
         /\ snaps' \in [Run -> [Peer -> Snapshot \cup {None}]]
         /\ \A k \in Run, q \in Peer : snaps'[k][q] # None =>
                (snaps'[k][q].source # None => snaps'[k][q].source \in Registered)
<1> DEFINE row    == Upserted(dismissed[p])
           result == [snaps[r][p] EXCEPT !.review = "dismissed"]
<1>1. NextId \in Nat /\ \A q \in Peer : dismissed[q] # None => dismissed[q].id < NextId
  BY NextIdIsNew DEF IInv
<1>2. /\ row \in Dismissal /\ row # None
      /\ row.id = IF dismissed[p] = None THEN NextId ELSE dismissed[p].id
  BY <1>1, RowTypes, RowsAreNotNone DEF IInv, Upserted, Dismissal
<1>3. result \in Snapshot /\ result.source = snaps[r][p].source
  BY RowTypes DEF IInv, Snapshot
<1>4. dismissed' = [dismissed EXCEPT ![p] = row] /\ snaps' = [snaps EXCEPT ![r][p] = result]
  BY DEF Dismiss
<1> HIDE DEF row, result
<1>5. /\ dismissed' \in [Peer -> Dismissal \cup {None}]
      /\ \A q \in Peer : dismissed'[q] = IF q = p THEN row ELSE dismissed[q]
  BY <1>2, <1>4 DEF IInv, TypeOK
<1>6. \A q, t \in Peer : dismissed'[q] # None /\ dismissed'[t] # None
                            /\ dismissed'[q].id = dismissed'[t].id => q = t
  BY <1>1, <1>2, <1>5, RowTypes DEF IInv, TypeOK, RowOf, Dismissal
<1>7. \A q \in Peer : dismissed'[q] # None => RowOf(dismissed[q].id)' = {q}
  BY <1>6 DEF RowOf
<1>8. IdsBounded'
  <2>1. PICK m \in Nat : \A q \in Peer : dismissed[q] # None => dismissed[q].id <= m
    BY DEF IInv, IdsBounded
  <2>2. \A q \in Peer : dismissed'[q] # None => dismissed'[q].id <= m + NextId
    BY <1>1, <1>2, <1>5, <2>1, RowTypes DEF IInv, Dismissal
  <2>3. m + NextId \in Nat
    BY <1>1, <2>1
  <2> QED
    BY <2>2, <2>3 DEF IdsBounded
<1>9. /\ snaps' \in [Run -> [Peer -> Snapshot \cup {None}]]
      /\ \A k \in Run, q \in Peer :
             snaps'[k][q] = IF k = r /\ q = p THEN result ELSE snaps[k][q]
  BY <1>3, <1>4 DEF IInv, TypeOK
<1>10. \A k \in Run, q \in Peer : snaps'[k][q] # None =>
           (snaps'[k][q].source # None => snaps'[k][q].source \in Registered)
  BY <1>3, <1>9 DEF IInv, TypeOK
<1> QED
  BY <1>2, <1>5, <1>7, <1>8, <1>9, <1>10

LEMMA ReviewedInv ==
  ASSUME IInv, NEW q \in requests, Reviewed(q)
  PROVE  IInv'
<1>1. /\ q.run \in Run /\ q.peer \in Peer /\ snaps[q.run][q.peer] # None
      /\ UNCHANGED <<name, acts, presented, worker, form, approving, shown, known>>
      /\ requests' \subseteq requests
  BY DEF IInv, TypeOK, Reviewed
<1>2. CASE Promote(q.run, q.peer)
  <2>1. UNCHANGED <<dismissed, hid>>
    BY <1>2 DEF Promote
  <2>2. \A p \in Peer : RowOf(dismissed[p].id)' = RowOf(dismissed[p].id)
    BY <2>1 DEF RowOf
  <2>3. deciding' \subseteq [peer : Registered', to : SourceStates]
    BY <1>1, <1>2, PromoteTypes DEF IInv, TypeOK, Reviewed
  <2>4. TypeOK'
    BY <1>1, <1>2, <2>1, <2>2, <2>3, PromoteTypes DEF IInv, TypeOK, worker
  <2> QED
    BY <1>1, <2>1, <2>4 DEF IInv, IdsBounded, RunStarted, KnownIsLeftOut, worker
<1>3. CASE Dismiss(q.run, q.peer)
  <2>1. registry' = registry /\ hid' = hid \cup {q.peer}
    BY <1>3 DEF Dismiss
  <2>2. Registered' = Registered
    BY <2>1 DEF Registered
  <2>3. deciding' \subseteq [peer : Registered', to : SourceStates]
    BY <2>2 DEF IInv, TypeOK, Reviewed
  <2>4. TypeOK'
    BY <1>1, <1>3, <2>1, <2>2, <2>3, DismissTypes DEF IInv, TypeOK, worker
  <2>5. KnownIsLeftOut'
    BY <1>1, <1>3, <2>1, DismissTypes DEF IInv, TypeOK, KnownIsLeftOut, worker
  <2> QED
    BY <1>1, <1>3, <2>4, <2>5, DismissTypes DEF IInv, RunStarted, worker
<1> QED
  BY <1>2, <1>3 DEF Reviewed

\* A form lifts the suppression of the source whose row it names, and no other.
LEMMA ReconsiderInv ==
  ASSUME IInv, Reconsider
  PROVE  IInv'
<1>1. PICK p \in Peer :
        /\ p \in (IF RowOf(form.id) # {} THEN RowOf(form.id) ELSE {form.peer})
        /\ dismissed' = [dismissed EXCEPT ![p] = None]
        /\ hid' = hid \ {p}
  BY DEF IInv, TypeOK, Reconsider, RowOf
<1>2. \A q \in Peer : dismissed'[q] = IF q = p THEN None ELSE dismissed[q]
  BY <1>1 DEF IInv, TypeOK
<1>3. Registered' = Registered
  BY DEF Registered, Reconsider
<1>4. \A q \in Peer : dismissed'[q] # None => RowOf(dismissed[q].id)' = {q}
  BY <1>2 DEF IInv, TypeOK, RowOf
<1>5. dismissed' \in [Peer -> Dismissal \cup {None}]
  BY <1>1 DEF IInv, TypeOK
<1>6. UNCHANGED <<name, acts, registry, presented, snaps, worker, ui, shown, known>>
  BY DEF Reconsider
<1>7. /\ approving' \in Registered' \cup {None}
      /\ deciding' \subseteq [peer : Registered', to : SourceStates]
  BY <1>3, <1>6 DEF IInv, TypeOK, ui
<1>8. hid' \subseteq Peer
  BY <1>1 DEF IInv, TypeOK
<1>9. TypeOK'
  BY <1>3, <1>4, <1>5, <1>6, <1>7, <1>8 DEF IInv, TypeOK, worker, ui
<1>10. IdsBounded'
  BY <1>2 DEF IInv, IdsBounded
<1>11. KnownIsLeftOut'
  BY <1>1, <1>2, <1>6 DEF IInv, TypeOK, KnownIsLeftOut, worker
<1> QED
  BY <1>6, <1>9, <1>10, <1>11 DEF IInv, RunStarted, worker

\* A source of the registry gets another state, and no name that another has.
LEMMA RegistryStepInv ==
  ASSUME IInv, NEW p \in Registered, NEW row \in SourceRow,
         registry' = [registry EXCEPT ![p] = row],
         \A q \in Registered \ {p} : registry[q].name # row.name,
         UNCHANGED <<name, acts, dismissed, presented, snaps, worker, requests, form, history>>,
         approving' \in {approving, None}, deciding' \subseteq deciding
  PROVE  IInv'
<1>1. /\ registry' \in [Peer -> SourceRow \cup {None}]
      /\ \A q \in Peer : registry'[q] = IF q = p THEN row ELSE registry[q]
  BY DEF IInv, TypeOK, Registered
<1>2. Registered' = Registered
  BY <1>1, RowsAreNotNone DEF Registered
<1>3. \A q, t \in Registered' : registry'[q].name = registry'[t].name => q = t
  BY <1>1, <1>2 DEF IInv, TypeOK, Registered
<1>4. \A q \in Peer : RowOf(dismissed[q].id)' = RowOf(dismissed[q].id)
  BY DEF RowOf
<1>5. TypeOK'
  BY <1>1, <1>2, <1>3, <1>4 DEF IInv, TypeOK, worker, history
<1> QED
  BY <1>5 DEF IInv, IdsBounded, RunStarted, KnownIsLeftOut, worker, history

LEMMA ApprovedInv ==
  ASSUME IInv, Approved
  PROVE  IInv'
<1> DEFINE row == [state |-> "monitoring", name |-> name[approving]]
<1>1. approving \in Registered /\ approving \in Peer
  BY DEF IInv, TypeOK, Approved, Registered
<1>2. row \in SourceRow /\ row.name = name[approving]
  BY <1>1 DEF IInv, TypeOK, SourceRow, SourceStates
<1>3. registry' = [registry EXCEPT ![approving] = row]
  BY DEF Approved
<1>4. \A q \in Registered \ {approving} : registry[q].name # row.name
  BY <1>2 DEF Approved
<1>5. /\ UNCHANGED <<name, acts, dismissed, presented, snaps, worker, requests, form, history>>
      /\ approving' \in {approving, None} /\ deciding' \subseteq deciding
  BY DEF Approved
<1> HIDE DEF row
<1> QED
  BY <1>1, <1>2, <1>3, <1>4, <1>5, RegistryStepInv

\* A decision is one on a row of the registry, ...
LEMMA DecideInv ==
  ASSUME IInv, NEW p \in Peer, NEW to \in SourceStates, Decide(p, to)
  PROVE  IInv'
<1>1. acts' \in 0 .. MaxActs
  BY SourceLedgerAssumption DEF IInv, TypeOK, Decide, Act
<1>2. deciding' \subseteq [peer : Registered, to : SourceStates]
  BY DEF IInv, TypeOK, Decide
<1> QED
  BY <1>1, <1>2, RequestInv DEF IInv, TypeOK, Decide

LEMMA DecideFailsInv ==
  ASSUME IInv, NEW d \in deciding, DecideFails(d)
  PROVE  IInv'
  BY RequestInv DEF IInv, TypeOK, DecideFails

\* ... which is still there when it is written.
LEMMA TransitionInv ==
  ASSUME IInv, NEW d \in deciding, Transition(d)
  PROVE  IInv'
<1> DEFINE row == [registry[d.peer] EXCEPT !.state = d.to]
<1>1. d.peer \in Registered /\ d.to \in SourceStates
  BY DEF IInv, TypeOK
<1>2. row \in SourceRow /\ row.name = registry[d.peer].name
  BY <1>1, RowTypes DEF IInv, SourceRow
<1>3. \A q \in Registered \ {d.peer} : registry[q].name # row.name
  BY <1>1, <1>2 DEF IInv, TypeOK
<1>4. registry' = [registry EXCEPT ![d.peer] = row]
  BY DEF Transition
<1>5. /\ UNCHANGED <<name, acts, dismissed, presented, snaps, worker, requests, form, history>>
      /\ approving' \in {approving, None} /\ deciding' \subseteq deciding
  BY DEF Transition
<1> HIDE DEF row
<1> QED
  BY <1>1, <1>2, <1>3, <1>4, <1>5, RegistryStepInv

-------------------------------------------------------------------------------
LEMMA NextInv == IInv /\ [Next]_vars => IInv'
<1> SUFFICES ASSUME IInv, [Next]_vars PROVE IInv'
  OBVIOUS
<1>1. ASSUME NEW p \in Peer, NEW n \in Name, Rename(p, n) PROVE IInv'
  BY <1>1, RenameInv
<1>2. CASE Claim
  BY <1>2, ClaimInv
<1>3. CASE EndRun
  BY <1>3, EndRunInv
<1>4. ASSUME NEW found \in SUBSET Peer, FixPool(found) PROVE IInv'
  BY <1>4, FixPoolInv
<1>5. ASSUME NEW p \in Peer, NEW quality \in BOOLEAN, Publish(p, quality) PROVE IInv'
  BY <1>5, PublishInv
<1>6. ASSUME NEW r \in Run, Purge(r) PROVE IInv'
  BY <1>6, PurgeInv
<1>7. ASSUME NEW verdict \in {"promote", "dismiss"}, NEW r \in Run, NEW p \in Peer,
             Review(verdict, r, p)
      PROVE  IInv'
  BY <1>7, ReviewInv
<1>8. ASSUME NEW q \in requests, Reviewed(q) \/ ReviewFails(q) PROVE IInv'
  BY <1>8, ReviewedInv, ReviewFailsInv
<1>9. ASSUME NEW p \in Peer, OpenForm(p) \/ Approve(p) PROVE IInv'
  BY <1>9, OpenFormInv, ApproveInv
<1>10. CASE Reconsider \/ Approved \/ ApproveFails
  BY <1>10, ReconsiderInv, ApprovedInv, ApproveFailsInv
<1>11. ASSUME NEW p \in Peer, NEW to \in SourceStates, Decide(p, to) PROVE IInv'
  BY <1>11, DecideInv
<1>12. ASSUME NEW d \in deciding, Transition(d) \/ DecideFails(d) PROVE IInv'
  BY <1>12, TransitionInv, DecideFailsInv
<1>13. CASE UNCHANGED vars
  <2>1. UNCHANGED <<name, acts, ledgers, worker, ui, history>>
    BY <1>13 DEF vars
  <2> QED
    BY <2>1, RequestInv DEF IInv, TypeOK, ui
<1> QED
  BY <1>1, <1>2, <1>3, <1>4, <1>5, <1>6, <1>7, <1>8, <1>9, <1>10, <1>11, <1>12, <1>13 DEF Next

\* The invariant holds in every reachable state.
THEOREM SourceLedgerInvariant == Spec => []IInv
<1> QED
  BY InitInv, NextInv, PTL DEF Spec

\* Type correctness; no two sources of the registry ever have one name, and no two
\* dismissals one row id, whatever requests overlap (SRC-022, SRC-035).
THEOREM SourceLedgerTypes == Spec => []TypeOK
<1>1. IInv => TypeOK
  BY DEF IInv
<1> QED
  BY <1>1, SourceLedgerInvariant, PTL

\* A run publishes nothing that was registered, dismissed or shown when it was claimed,
\* whatever requests act on rows that have changed since they read them (SRC-031,
\* SRC-035, SRC-041).
THEOREM KnownStaysHidden == Spec => HiddenWhileKnown
<1> DEFINE A == \A p \in Peer :
                   (phase = "read" /\ snaps[run][p] = None /\ snaps'[run][p] # None)
                       => p \notin known
<1>1. ASSUME IInv, Next PROVE A
  <2> SUFFICES ASSUME NEW p \in Peer, phase = "read",
                      snaps[run][p] = None, snaps'[run][p] # None
               PROVE  p \notin known
    OBVIOUS
  <2>1. KnownIsLeftOut /\ run \in Run
    BY <1>1 DEF IInv, RunStarted
  <2>2. ASSUME NEW s \in Peer, NEW quality \in BOOLEAN, Publish(s, quality)
        PROVE  p \notin known
    <3>1. \A q \in Peer \ {s} : snaps'[run][q] = snaps[run][q]
      BY <1>1, <2>1, <2>2 DEF IInv, TypeOK, Publish
    <3> QED
      BY <2>1, <2>2, <3>1 DEF KnownIsLeftOut, Publish
  <2>3. ASSUME NEW r \in Run, Purge(r) PROVE FALSE
    BY <2>1, <2>3 DEF Purge
  <2>4. ASSUME NEW q \in requests, Reviewed(q) PROVE FALSE
    <3>1. q.run \in Run /\ q.peer \in Peer /\ snaps[q.run][q.peer] # None
      BY <1>1, <2>4 DEF IInv, TypeOK, Reviewed
    <3>2. p # q.peer \/ run # q.run
      BY <3>1
    <3>3. snaps'[run][p] = snaps[run][p]
      BY <1>1, <2>1, <2>4, <3>1, <3>2 DEF IInv, TypeOK, Reviewed, Promote, Dismiss
    <3> QED
      BY <3>3
  <2>5. snaps' # snaps
    OBVIOUS
  <2> QED
    BY <1>1, <2>2, <2>3, <2>4, <2>5
    DEF Next, Rename, Claim, EndRun, FixPool, Review, ReviewFails, OpenForm, Approve,
        Reconsider, Approved, ApproveFails, Decide, Transition, DecideFails, ledgers
<1> HIDE DEF A
<1>2. IInv /\ [Next]_vars => [A]_vars
  BY <1>1
<1>3. []IInv /\ [][Next]_vars => [][A]_vars
  BY <1>2, PTL
<1> QED
  BY <1>3, SourceLedgerInvariant DEF Spec, HiddenWhileKnown, A

===============================================================================
