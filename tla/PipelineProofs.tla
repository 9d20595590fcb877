---------------------------- MODULE PipelineProofs ----------------------------
(***************************************************************************)
(* For every set of messages and texts, every window and every band the    *)
(* scoring may give: Pipeline keeps its types, its duplicate links go back *)
(* in the canonical order and, when the window covers all messages, no two *)
(* active copies of a text are both canonical; the text shown is that of   *)
(* the last settled envelope, what is not analysed has failed for good,    *)
(* and a hot lead has been alerted unless delivery was off when it turned  *)
(* hot.  The last part is about the manual history scans of the same       *)
(* processing worker: for every set of scans and targets the outcome of a  *)
(* scan is that of its targets.                                            *)
(***************************************************************************)
EXTENDS Pipeline, HistoryScan, WellFoundedInduction, TLAPS

\* The links of deleted and unknown messages, too, go back or stay.
AllLinksPointBack == \A m \in Msg : linked[m] <= m

IInv ==
    /\ TypeOK
    /\ AllLinksPointBack
    /\ LinksPointBack
    /\ OneCanonical

-------------------------------------------------------------------------------
(* A non-empty set of messages has a first one in the canonical order. *)
LEMMA FirstIsLeast ==
  ASSUME NEW S \in SUBSET Msg, S # {}
  PROVE  /\ First(S) \in S
         /\ \A n \in S : First(S) <= n
<1>1. S \subseteq Nat
  BY PipelineAssumption
<1>2. PICK x \in S : \A y \in S : ~(<<y, x>> \in OpToRel(<, Nat))
  BY <1>1, WFMin, NatLessThanWellFounded
<1>3. \A y \in S : ~(y < x)
  <2> SUFFICES ASSUME NEW y \in S, y < x PROVE FALSE
    OBVIOUS
  <2>1. <<y, x>> \in {p \in Nat \X Nat : p[1] < p[2]}
    BY <1>1
  <2> QED
    BY <1>2, <2>1, Zenon DEF OpToRel
<1>4. \A y \in S : x <= y
  BY <1>1, <1>3
<1> QED
  BY <1>4 DEF First

(* The group of a message holds it, and otherwise active messages. *)
LEMMA MembersInMsg ==
  ASSUME TypeOK, NEW m \in Msg, NEW text
  PROVE  /\ Members(m, text) \in SUBSET Msg
         /\ m \in Members(m, text)
         /\ Members(m, text) \subseteq Active \cup {m}
         /\ \A p \in Members(m, text) : p # m => Current(p) = text
         /\ text # NoText => \A p \in Active : Current(p) = text /\ Near(m, p)
                                 => p \in Members(m, text)
  BY DEF Members, Peers, Active, Recorded

(* The initial state satisfies the invariant. *)
LEMMA InitInv == Init => IInv
<1> SUFFICES ASSUME Init PROVE IInv
  OBVIOUS
<1>1. TypeOK
  <2>1. delivery \in BOOLEAN /\ rules \in BOOLEAN
    BY Zenon DEF Init
  <2>2. /\ deleted \in [Msg -> BOOLEAN] /\ canonical \in [Msg -> BOOLEAN]
        /\ linked \in [Msg -> Msg] /\ analysed \in [Msg -> Nat]
        /\ band \in [Msg -> {"none", "hot", "warm", "irrelevant"}]
    BY DEF Init
  <2>3. /\ inbox \in Seq(Envelope) /\ revisions \in [Msg -> Seq(Version)]
        /\ scores \in [Msg -> Seq({"hot", "warm"})]
        /\ alerts \subseteq Msg \X Nat /\ silent \subseteq Msg \X Nat
        /\ changes \in 0 .. MaxChanges
    BY PipelineAssumption DEF Init
  <2> QED
    BY <2>1, <2>2, <2>3 DEF TypeOK
<1>2. Active = {}
  BY DEF Init, Active, Recorded
<1>3. AllLinksPointBack
  BY PipelineAssumption DEF Init, AllLinksPointBack
<1> QED
  BY <1>1, <1>2, <1>3 DEF IInv, LinksPointBack, OneCanonical

-------------------------------------------------------------------------------
(* A step that leaves the messages and their groups alone keeps what is said of
   them. *)
LEMMA GroupUnchanged ==
  ASSUME IInv, TypeOK', UNCHANGED group
  PROVE  IInv'
<1>1. Active' = Active
  BY DEF group, Active, Recorded
<1>2. \A m \in Msg : Current(m)' = Current(m)
  BY DEF group, Current, Latest
<1> QED
  BY <1>1, <1>2 DEF IInv, AllLinksPointBack, LinksPointBack, OneCanonical, group, Near, Active, Recorded

\* A new envelope touches no message.
LEMMA AcceptInv ==
  ASSUME IInv, NEW type \in {"new", "edited", "deleted"}, NEW m \in Msg,
         NEW v \in Version \cup {Gone}, Accept(type, m, v)
  PROVE  IInv'
<1>1. inbox' \in Seq(Envelope)
  BY DEF IInv, TypeOK, Accept, Envelope
<1>2. TypeOK'
  BY <1>1 DEF IInv, TypeOK, Accept, group, leads, setup
<1> QED
  BY <1>2, GroupUnchanged DEF Accept

\* What the operator changes touches neither messages nor envelopes.
LEMMA OperatorInv ==
  ASSUME IInv, ChangeRules \/ SwitchDelivery
  PROVE  IInv'
<1>1. TypeOK'
  <2>1. CASE ChangeRules
    BY <2>1, PipelineAssumption DEF IInv, TypeOK, ChangeRules, group, leads
  <2>2. CASE SwitchDelivery
    BY <2>2, PipelineAssumption DEF IInv, TypeOK, SwitchDelivery, group, leads
  <2> QED
    BY <2>1, <2>2
<1> QED
  BY <1>1, GroupUnchanged DEF ChangeRules, SwitchDelivery

(* A row of the inbox, and what settling does to the inbox. *)
LEMMA EnvelopeTypes ==
  ASSUME TypeOK, NEW i \in DOMAIN inbox
  PROVE  inbox[i] \in Envelope /\ inbox[i].msg \in Msg /\ inbox[i].post \in Version \cup {Gone}
<1>1. inbox[i] \in Envelope
  BY DEF TypeOK
<1> QED
  BY <1>1 DEF Envelope

\* Settling an envelope keeps the type of the inbox.
LEMMA SettleTypes ==
  ASSUME TypeOK, NEW i \in DOMAIN inbox, NEW s \in {"queued", "acked", "failed_permanent"},
         Settle(i, s)
  PROVE  inbox' \in Seq(Envelope)
<1>1. inbox' = [inbox EXCEPT ![i] = [inbox[i] EXCEPT !.state = s]]
  BY DEF Settle
<1>2. [inbox[i] EXCEPT !.state = s] \in Envelope
  BY EnvelopeTypes DEF Envelope
<1> QED
  BY <1>1, <1>2 DEF TypeOK

\* A deletion changes neither groups nor links.
LEMMA ProcessDeleteInv ==
  ASSUME IInv, NEW i \in DOMAIN inbox, ProcessDelete(i)
  PROVE  IInv'
<1>1. inbox[i].msg \in Msg
  BY EnvelopeTypes DEF IInv
<1>2. TypeOK'
  <2>1. deleted' \in [Msg -> BOOLEAN] /\ canonical' \in [Msg -> BOOLEAN]
    BY <1>1 DEF IInv, TypeOK, ProcessDelete
  <2> QED
    BY <2>1, SettleTypes DEF IInv, TypeOK, ProcessDelete, leads, setup
<1>3. Active' \subseteq Active
  BY DEF IInv, TypeOK, ProcessDelete, Active, Recorded
<1>4. \A m \in Active' : canonical'[m] = canonical[m]
  BY <1>1 DEF IInv, TypeOK, ProcessDelete, Active, Recorded
<1>5. \A m \in Msg : Current(m)' = Current(m)
  BY DEF ProcessDelete, Current, Latest
<1>6. AllLinksPointBack' /\ LinksPointBack'
  BY <1>3, <1>4 DEF IInv, AllLinksPointBack, LinksPointBack, ProcessDelete
<1>7. OneCanonical'
  BY <1>3, <1>4, <1>5 DEF IInv, OneCanonical, Near, Active, Recorded
<1> QED
  BY <1>2, <1>6, <1>7 DEF IInv

\* A replay only settles its envelope.
LEMMA ProcessReplayInv ==
  ASSUME IInv, NEW i \in DOMAIN inbox, ProcessReplay(i)
  PROVE  IInv'
<1>1. TypeOK'
  BY SettleTypes DEF IInv, TypeOK, ProcessReplay, group, leads, setup
<1> QED
  BY <1>1, GroupUnchanged DEF ProcessReplay

-------------------------------------------------------------------------------
(* What a new revision and its duplicate group do to the messages. *)
LEMMA ReviseGroup ==
  ASSUME IInv, NEW i \in DOMAIN inbox, Revise(i), inbox[i].post \in Version
  PROVE  /\ revisions' \in [Msg -> Seq(Version)]
         /\ deleted' \in [Msg -> BOOLEAN] /\ canonical' \in [Msg -> BOOLEAN]
         /\ linked' \in [Msg -> Msg]
         /\ AllLinksPointBack'
         /\ LinksPointBack'
         /\ OneCanonical'
<1>1. PICK m \in Msg : m = inbox[i].msg
  BY EnvelopeTypes DEF IInv
<1>2. PICK text : text = inbox[i].post.text
  OBVIOUS
<1>3. PICK S : S = Members(m, text)
  OBVIOUS
<1>4. /\ revisions' = [revisions EXCEPT ![m] = Append(@, inbox[i].post)]
      /\ deleted' = deleted
      /\ canonical' = [n \in Msg |-> IF n \in S THEN n = First(S) ELSE canonical[n]]
      /\ linked' = [n \in Msg |-> IF n \in S THEN First(S) ELSE linked[n]]
  BY <1>1, <1>2, <1>3 DEF Revise, Dedupe
<1>5. revisions' \in [Msg -> Seq(Version)]
  BY <1>1, <1>4 DEF IInv, TypeOK
<1>6. /\ S \in SUBSET Msg /\ m \in S /\ S \subseteq Active \cup {m}
      /\ \A p \in S : p # m => Current(p) = text
      /\ text # NoText => \A p \in Active : Current(p) = text /\ Near(m, p) => p \in S
  BY <1>3, MembersInMsg DEF IInv
<1>7. First(S) \in S /\ \A n \in S : First(S) <= n
  BY <1>6, FirstIsLeast
<1>8. deleted' \in [Msg -> BOOLEAN] /\ canonical' \in [Msg -> BOOLEAN] /\ linked' \in [Msg -> Msg]
  BY <1>4, <1>6, <1>7 DEF IInv, TypeOK
<1>9. AllLinksPointBack'
  BY <1>4, <1>6, <1>7 DEF IInv, AllLinksPointBack
<1>10. Active' \subseteq Active \cup {m}
  BY <1>1, <1>4 DEF IInv, TypeOK, Active, Recorded
<1>11. LinksPointBack'
  BY <1>4, <1>6, <1>7, <1>9, <1>10 DEF IInv, AllLinksPointBack, LinksPointBack, Active, Recorded
<1>12. Current(m)' = text
  <2>1. revisions[m] \in Seq(Version) /\ revisions'[m] = Append(revisions[m], inbox[i].post)
    BY <1>1, <1>4 DEF IInv, TypeOK
  <2>2. revisions'[m][Len(revisions'[m])] = inbox[i].post
    BY <2>1
  <2> QED
    BY <1>2, <2>2 DEF Current, Latest
<1>13. \A n \in Msg : n # m => Current(n)' = Current(n)
  BY <1>1, <1>4 DEF IInv, TypeOK, Current, Latest
<1>14. OneCanonical'
  <2> SUFFICES ASSUME \A a, b \in Msg : Near(a, b),
                      NEW a \in Active', NEW b \in Active',
                      canonical'[a], canonical'[b], Current(a)' = Current(b)',
                      Current(a)' # NoText
               PROVE  a = b
    BY DEF OneCanonical, Near
  <2>1. a \in Msg /\ b \in Msg
    BY DEF Active, Recorded
  <2>2. CASE a \in S /\ b \in S
    BY <1>4, <2>1, <2>2
  <2>3. CASE a \notin S /\ b \notin S
    <3>1. a # m /\ b # m
      BY <1>6, <2>3
    <3>2. a \in Active /\ b \in Active /\ canonical[a] /\ canonical[b]
      BY <1>4, <1>10, <2>1, <2>3, <3>1
    <3> QED
      BY <1>13, <2>1, <3>1, <3>2 DEF IInv, OneCanonical
  <2>4. \A x \in S, y \in Msg \ S :
           Current(x)' = Current(y)' /\ Current(x)' # NoText => y \notin Active'
    <3> SUFFICES ASSUME NEW x \in S, NEW y \in Msg \ S, y \in Active',
                        Current(x)' = Current(y)', Current(x)' # NoText
                 PROVE  FALSE
      OBVIOUS
    <3>1. y # m /\ y \in Active
      BY <1>6, <1>10
    <3>2. Current(x)' = text
      <4>1. x \in Msg
        BY <1>6
      <4> QED
        BY <1>6, <1>12, <1>13, <4>1
    <3>3. Current(y) = text /\ text # NoText /\ Near(m, y)
      BY <1>1, <1>13, <3>1, <3>2
    <3> QED
      BY <1>6, <3>1, <3>3
  <2> QED
    BY <2>1, <2>2, <2>3, <2>4
<1> QED
  BY <1>5, <1>8, <1>9, <1>11, <1>14

(* The columns a processed envelope leaves in the leads. *)
LEMMA ScoreTypes ==
  ASSUME TypeOK, NEW m \in Msg, NEW new \in {"hot", "warm", "irrelevant"}, Score(m, new)
  PROVE  /\ scores' \in [Msg -> Seq({"hot", "warm"})]
         /\ band' \in [Msg -> {"none", "hot", "warm", "irrelevant"}]
         /\ alerts' \subseteq Msg \X Nat /\ silent' \subseteq Msg \X Nat
<1>1. CASE new = "irrelevant"
  BY <1>1 DEF TypeOK, Score
<1>2. CASE new # "irrelevant"
  <2>1. new \in {"hot", "warm"} /\ scores[m] \in Seq({"hot", "warm"})
    BY <1>2 DEF TypeOK
  <2>2. Append(scores[m], new) \in Seq({"hot", "warm"})
    BY <2>1
  <2>3. scores' = [scores EXCEPT ![m] = Append(scores[m], new)] /\ band' = [band EXCEPT ![m] = new]
    BY <1>2 DEF Score
  <2>4. scores' \in [Msg -> Seq({"hot", "warm"})] /\ band' \in [Msg -> {"none", "hot", "warm", "irrelevant"}]
    BY <2>1, <2>2, <2>3 DEF TypeOK
  <2>5. <<m, Len(scores[m]) + 1>> \in Msg \X Nat
    BY DEF TypeOK
  <2>6. alerts' = Alerted(m, new)
    BY <1>2 DEF Score
  <2>7. silent' = silent \/ silent' = silent \cup {<<m, Len(scores[m]) + 1>>}
    <3>1. scores'[m] = Append(scores[m], new)
      BY <2>3 DEF TypeOK
    <3>2. Len(scores'[m]) = Len(scores[m]) + 1
      BY <2>1, <3>1
    <3> QED
      BY <1>2, <3>2 DEF Score
  <2> QED
    BY <2>4, <2>5, <2>6, <2>7 DEF TypeOK, Alerted
<1> QED
  BY <1>1, <1>2

(* An envelope that is no deletion carries a version. *)
TextsHaveVersions ==
    \A i \in DOMAIN inbox : inbox[i].type # "deleted" => inbox[i].post \in Version

\* An invalid rule set fails the envelope after its revision was kept and grouped.
LEMMA FailRuleSetInv ==
  ASSUME IInv, TextsHaveVersions, NEW i \in DOMAIN inbox, FailRuleSet(i)
  PROVE  IInv'
<1>1. Revise(i) /\ inbox[i].post \in Version
  BY DEF FailRuleSet, Revise, TextsHaveVersions
<1>2. TypeOK'
  BY <1>1, ReviseGroup, SettleTypes DEF IInv, TypeOK, FailRuleSet, Revise, leads, setup
<1> QED
  BY <1>1, <1>2, ReviseGroup DEF IInv

\* A duplicate is kept, grouped and settled without a lead.
LEMMA SuppressInv ==
  ASSUME IInv, TextsHaveVersions, NEW i \in DOMAIN inbox, Suppress(i)
  PROVE  IInv'
<1>1. Revise(i) /\ inbox[i].post \in Version
  BY DEF Suppress, Revise, TextsHaveVersions
<1>2. inbox[i].msg \in Msg /\ revisions' \in [Msg -> Seq(Version)]
  BY <1>1, ReviseGroup, EnvelopeTypes DEF IInv
<1>3. analysed' \in [Msg -> Nat]
  BY <1>2 DEF IInv, TypeOK, Suppress
<1>4. TypeOK'
  BY <1>1, <1>3, ReviseGroup, SettleTypes DEF IInv, TypeOK, Suppress, Revise, setup
<1> QED
  BY <1>1, <1>4, ReviseGroup DEF IInv

\* An analysed envelope changes groups as any revision does, and then the leads.
LEMMA AnalyseInv ==
  ASSUME IInv, TextsHaveVersions, NEW i \in DOMAIN inbox, Analyse(i)
  PROVE  IInv'
<1>1. Revise(i) /\ inbox[i].post \in Version
  BY DEF Analyse, Revise, TextsHaveVersions
<1>2. inbox[i].msg \in Msg /\ revisions' \in [Msg -> Seq(Version)]
  BY <1>1, ReviseGroup, EnvelopeTypes DEF IInv
<1>3. analysed' \in [Msg -> Nat]
  BY <1>2 DEF IInv, TypeOK, Analyse
<1>4. PICK new \in Bands[inbox[i].post.text] : Score(inbox[i].msg, new)
  BY DEF Analyse
<1>5. new \in {"hot", "warm", "irrelevant"}
  BY <1>1, PipelineAssumption DEF Version
<1>6. inbox' \in Seq(Envelope)
  BY SettleTypes DEF IInv, Analyse
<1>7. /\ scores' \in [Msg -> Seq({"hot", "warm"})]
      /\ band' \in [Msg -> {"none", "hot", "warm", "irrelevant"}]
      /\ alerts' \subseteq Msg \X Nat /\ silent' \subseteq Msg \X Nat
  BY <1>2, <1>4, <1>5, ScoreTypes DEF IInv
<1>8. delivery' \in BOOLEAN /\ rules' \in BOOLEAN /\ changes' \in 0 .. MaxChanges
  BY <1>1 DEF IInv, TypeOK, Revise, setup
<1>9. TypeOK'
  BY <1>1, <1>3, <1>6, <1>7, <1>8, ReviseGroup DEF TypeOK
<1> QED
  BY <1>1, <1>9, ReviseGroup DEF IInv

(* Accepted envelopes have the version the other lemmas need; no step changes it. *)
LEMMA TextsHaveVersionsStep ==
  ASSUME TypeOK, TextsHaveVersions, [Next]_vars
  PROVE  TextsHaveVersions'
<1>1. ASSUME NEW type, NEW m, NEW v, type = "deleted" \/ v \in Version, Accept(type, m, v)
      PROVE  TextsHaveVersions'
  BY <1>1 DEF TypeOK, TextsHaveVersions, Accept
<1>2. ASSUME NEW i \in DOMAIN inbox, NEW s, Settle(i, s)
      PROVE  TextsHaveVersions'
  <2>1. DOMAIN inbox' = DOMAIN inbox
    BY <1>2 DEF TypeOK, Settle
  <2>2. \A k \in DOMAIN inbox : inbox'[k].type = inbox[k].type /\ inbox'[k].post = inbox[k].post
    <3> SUFFICES ASSUME NEW k \in DOMAIN inbox
                 PROVE  inbox'[k].type = inbox[k].type /\ inbox'[k].post = inbox[k].post
      OBVIOUS
    <3>1. inbox[k] \in Envelope
      BY EnvelopeTypes
    <3> QED
      BY <1>2, <3>1 DEF Settle, Envelope
  <2> QED
    BY <2>1, <2>2 DEF TextsHaveVersions
<1>3. ASSUME UNCHANGED inbox PROVE TextsHaveVersions'
  BY <1>3 DEF TextsHaveVersions
<1>4. CASE Collect
  BY <1>1, <1>4 DEF Collect, AcceptNew, AcceptEdit, AcceptDelete
<1>5. CASE Process
  <2> PICK i \in DOMAIN inbox :
        ProcessDelete(i) \/ ProcessReplay(i) \/ FailRuleSet(i) \/ Suppress(i) \/ Analyse(i)
    BY <1>5 DEF Process
  <2> QED
    BY <1>2 DEF ProcessDelete, ProcessReplay, FailRuleSet, Suppress, Analyse
<1>6. CASE ChangeRules \/ SwitchDelivery \/ Idle \/ UNCHANGED vars
  BY <1>3, <1>6 DEF ChangeRules, SwitchDelivery, Idle, vars
<1> QED
  BY <1>4, <1>5, <1>6 DEF Next

\* Every step of the specification keeps the invariant.
LEMMA NextInv ==
  ASSUME IInv, TextsHaveVersions, [Next]_vars
  PROVE  IInv'
<1>1. CASE Collect
  BY <1>1, AcceptInv DEF Collect, AcceptNew, AcceptEdit, AcceptDelete
<1>2. CASE Process
  BY <1>2, ProcessDeleteInv, ProcessReplayInv, FailRuleSetInv, SuppressInv, AnalyseInv
     DEF Process
<1>3. CASE ChangeRules \/ SwitchDelivery
  BY <1>3, OperatorInv
<1>4. CASE Idle \/ UNCHANGED vars
  <2>1. UNCHANGED <<inbox, group, leads, setup>>
    BY <1>4 DEF Idle, vars
  <2>2. TypeOK'
    BY <2>1 DEF IInv, TypeOK, group, leads, setup
  <2> QED
    BY <2>1, <2>2, GroupUnchanged
<1> QED
  BY <1>1, <1>2, <1>3, <1>4 DEF Next

-------------------------------------------------------------------------------
(* What the envelopes, the processing results and the leads have to do with each
   other.  Envelopes are settled in the order of their ids. *)
SettledFirst == \A i, j \in DOMAIN inbox : i < j /\ Open(i) => Open(j)

\* An alert, made or not made for want of delivery, names a score of the lead.
AlertsHaveScores == \A a \in alerts \cup silent : a[2] \in DOMAIN scores[a[1]]

\* The inductive invariant of the envelopes and the leads.
FlowInv ==
    /\ SettledFirst
    /\ CurrentIsLastSettled
    /\ AnalysedOrFailed
    /\ AlertsHaveScores
    /\ HotLeadsAlerted

(* Settling changes the state of one envelope and nothing else of the inbox. *)
LEMMA SettleRows ==
  ASSUME TypeOK, NEW i \in DOMAIN inbox, NEW s, Settle(i, s)
  PROVE  /\ DOMAIN inbox' = DOMAIN inbox /\ Len(inbox') = Len(inbox)
         /\ inbox'[i].state = s
         /\ \A k \in DOMAIN inbox : inbox'[k].type = inbox[k].type
                                     /\ inbox'[k].msg = inbox[k].msg
                                     /\ inbox'[k].post = inbox[k].post
         /\ \A k \in DOMAIN inbox : k # i => inbox'[k] = inbox[k]
<1>1. \A k \in DOMAIN inbox : inbox[k] \in Envelope
  BY EnvelopeTypes
<1>2. inbox' = [inbox EXCEPT ![i] = [inbox[i] EXCEPT !.state = s]]
  BY DEF Settle
<1>3. DOMAIN inbox' = DOMAIN inbox
  BY <1>2
<1>4. /\ inbox'[i].state = s
      /\ inbox'[i].type = inbox[i].type
      /\ inbox'[i].msg = inbox[i].msg
      /\ inbox'[i].post = inbox[i].post
  BY <1>1, <1>2 DEF Envelope
<1>5. Len(inbox') = Len(inbox)
  BY <1>2 DEF TypeOK
<1> QED
  BY <1>2, <1>3, <1>4, <1>5

\* After the first open envelope is settled, the settled ones still come first.
LEMMA SettleFirst ==
  ASSUME TypeOK, SettledFirst, NEW i \in DOMAIN inbox, NEW s \in {"acked", "failed_permanent"},
         Claimed(i), Settle(i, s)
  PROVE  /\ SettledFirst'
         /\ \A k \in DOMAIN inbox : ~Open(k)' <=> k <= i
<1>1. DOMAIN inbox = 1 .. Len(inbox) /\ Len(inbox) \in Nat
  BY DEF TypeOK
<1>2. DOMAIN inbox' = DOMAIN inbox /\ ~Open(i)'
  BY SettleRows DEF Open
<1>3. \A k \in DOMAIN inbox : k # i => (Open(k)' <=> Open(k))
  BY SettleRows DEF Open
<1>4. \A k \in DOMAIN inbox : k < i => ~Open(k)
  BY <1>1 DEF Claimed
<1>5. \A k \in DOMAIN inbox : i < k => Open(k)
  BY DEF Claimed, SettledFirst
<1>6. \A k \in DOMAIN inbox : ~Open(k)' <=> k <= i
  BY <1>1, <1>2, <1>3, <1>4, <1>5
<1>7. SettledFirst'
  BY <1>1, <1>2, <1>6 DEF SettledFirst
<1> QED
  BY <1>6, <1>7

(* A claimed envelope that is settled, and leaves its message as it says, is the last
   word about it; the other messages keep theirs. *)
LEMMA LastSettledStep ==
  ASSUME TypeOK, SettledFirst, CurrentIsLastSettled,
         NEW i \in DOMAIN inbox, NEW s \in {"acked", "failed_permanent"},
         Claimed(i), Settle(i, s),
         NEW m \in Msg, m = inbox[i].msg,
         inbox[i].type # "deleted" => m \in Recorded' /\ Latest(m)' = inbox[i].post,
         \A n \in Msg : n # m \/ inbox[i].type = "deleted" =>
             (n \in Recorded => n \in Recorded') /\ Latest(n)' = Latest(n)
  PROVE  CurrentIsLastSettled'
<1> SUFFICES ASSUME NEW k \in DOMAIN inbox', NEW n, n = inbox'[k].msg,
                    inbox'[k].type # "deleted", ~Open(k)',
                    \A j \in k + 1 .. Len(inbox') :
                        inbox'[j].msg = n => inbox'[j].type = "deleted" \/ Open(j)'
             PROVE  n \in Recorded' /\ Latest(n)' = inbox'[k].post
  BY DEF CurrentIsLastSettled, Latest, Recorded, Open
<1>1. DOMAIN inbox = 1 .. Len(inbox) /\ Len(inbox) \in Nat
  BY DEF TypeOK
<1>2. /\ DOMAIN inbox' = DOMAIN inbox /\ Len(inbox') = Len(inbox)
      /\ \A j \in DOMAIN inbox : /\ inbox'[j].type = inbox[j].type
                                 /\ inbox'[j].msg = inbox[j].msg
                                 /\ inbox'[j].post = inbox[j].post
      /\ \A j \in DOMAIN inbox : j # i => inbox'[j] = inbox[j]
  BY SettleRows
<1>3. k \in DOMAIN inbox /\ k <= i
  BY <1>2, SettleFirst
<1>4. CASE k = i
  BY <1>2, <1>4
<1>5. CASE k # i
  <2>1. k < i /\ ~Open(k) /\ i \in k + 1 .. Len(inbox')
    BY <1>1, <1>2, <1>3, <1>5 DEF Open
  <2>2. m # n \/ inbox[i].type = "deleted"
    BY <1>2, <1>3, <2>1, SettleFirst
  <2>3. \A j \in k + 1 .. Len(inbox) :
           inbox[j].msg = n => inbox[j].type = "deleted" \/ Open(j)
    <3> SUFFICES ASSUME NEW j \in k + 1 .. Len(inbox), inbox[j].msg = n
                 PROVE  inbox[j].type = "deleted" \/ Open(j)
      OBVIOUS
    <3>1. j \in DOMAIN inbox /\ j \in k + 1 .. Len(inbox')
      BY <1>1, <1>2, <1>3
    <3>2. CASE j = i
      BY <2>2, <3>2
    <3>3. CASE j # i
      <4>1. inbox'[j] = inbox[j] /\ inbox'[k].msg = n
        BY <1>2, <1>3, <3>1, <3>3
      <4> QED
        BY <3>1, <4>1 DEF Open
    <3> QED
      BY <3>2, <3>3
  <2>4. n \in Recorded /\ Latest(n) = inbox[k].post
    BY <1>2, <1>3, <2>1, <2>3 DEF CurrentIsLastSettled
  <2>5. n \in Msg
    BY <1>2, <1>3, EnvelopeTypes
  <2> QED
    BY <1>2, <1>3, <2>2, <2>4, <2>5
<1> QED
  BY <1>4, <1>5

\* A failed envelope stays failed: only open ones are settled.
LEMMA FailedStays ==
  ASSUME TypeOK, NEW i \in DOMAIN inbox, NEW s, Claimed(i), Settle(i, s),
         NEW k \in DOMAIN inbox, inbox[k].state = "failed_permanent"
  PROVE  k \in DOMAIN inbox' /\ inbox'[k].msg = inbox[k].msg
             /\ inbox'[k].state = "failed_permanent"
<1>1. k # i
  BY DEF Claimed, Open
<1> QED
  BY <1>1, SettleRows

-------------------------------------------------------------------------------
(* A new envelope is open and last. *)
LEMMA AcceptFlow ==
  ASSUME TypeOK, FlowInv, NEW type \in {"new", "edited", "deleted"}, NEW m \in Msg,
         NEW v \in Version \cup {Gone}, Accept(type, m, v)
  PROVE  FlowInv'
<1>1. PICK e : inbox' = Append(inbox, e) /\ e.state = "queued"
  BY DEF Accept
<1>2. /\ Len(inbox) \in Nat /\ DOMAIN inbox = 1 .. Len(inbox)
      /\ Len(inbox') = Len(inbox) + 1 /\ DOMAIN inbox' = 1 .. Len(inbox) + 1
      /\ \A k \in DOMAIN inbox : inbox'[k] = inbox[k]
      /\ inbox'[Len(inbox) + 1] = e
  BY <1>1 DEF TypeOK
<1>3. /\ \A k : k = Len(inbox) + 1 => Open(k)'
      /\ \A k \in DOMAIN inbox : Open(k)' <=> Open(k)
  BY <1>1, <1>2 DEF Open
<1>4. \A k \in DOMAIN inbox' : k \in DOMAIN inbox \/ k = Len(inbox) + 1
  BY <1>2
<1>5. SettledFirst'
  BY <1>2, <1>3, <1>4 DEF FlowInv, SettledFirst
<1>6. Recorded' = Recorded /\ \A n \in Msg : Latest(n)' = Latest(n)
  BY DEF Accept, group, Recorded, Latest
<1>7. CurrentIsLastSettled'
  <2> SUFFICES ASSUME NEW k \in DOMAIN inbox', NEW n, n = inbox'[k].msg,
                      inbox'[k].type # "deleted", ~Open(k)',
                      \A j \in k + 1 .. Len(inbox') :
                          inbox'[j].msg = n => inbox'[j].type = "deleted" \/ Open(j)'
               PROVE  n \in Recorded' /\ Latest(n)' = inbox'[k].post
    BY DEF CurrentIsLastSettled, Latest, Recorded, Open
  <2>1. k \in DOMAIN inbox
    BY <1>3, <1>4
  <2>2. \A j \in k + 1 .. Len(inbox) :
           inbox[j].msg = n => inbox[j].type = "deleted" \/ Open(j)
    BY <1>2, <1>3, <2>1
  <2>3. n \in Recorded /\ Latest(n) = inbox[k].post
    BY <1>2, <1>3, <2>1, <2>2 DEF FlowInv, CurrentIsLastSettled
  <2> QED
    BY <1>2, <1>6, <2>1, <2>3, EnvelopeTypes
<1>8. AnalysedOrFailed'
  BY <1>2, <1>4 DEF FlowInv, AnalysedOrFailed, Accept, group, leads
<1> QED
  BY <1>5, <1>7, <1>8 DEF FlowInv, AlertsHaveScores, HotLeadsAlerted, Accept, leads

\* A step that leaves the inbox, the revisions and the leads alone.
LEMMA FlowUnchanged ==
  ASSUME FlowInv, UNCHANGED <<inbox, revisions, leads>>
  PROVE  FlowInv'
  BY DEF FlowInv, SettledFirst, CurrentIsLastSettled, AnalysedOrFailed, AlertsHaveScores,
         HotLeadsAlerted, Open, Recorded, Latest, leads

\* A deletion settles its envelope; the revisions and the leads stay.
LEMMA ProcessDeleteFlow ==
  ASSUME TypeOK, FlowInv, NEW i \in DOMAIN inbox, ProcessDelete(i)
  PROVE  FlowInv'
<1>1. /\ Claimed(i) /\ inbox[i].type = "deleted" /\ Settle(i, "acked")
      /\ revisions' = revisions /\ UNCHANGED leads
  BY DEF ProcessDelete
<1>2. Recorded' = Recorded /\ \A n \in Msg : Latest(n)' = Latest(n)
  BY <1>1 DEF Recorded, Latest
<1> PICK m \in Msg : m = inbox[i].msg
  BY EnvelopeTypes
<1>3. SettledFirst' /\ CurrentIsLastSettled'
  BY <1>1, <1>2, SettleFirst, LastSettledStep DEF FlowInv
<1>4. AnalysedOrFailed'
  BY <1>1, FailedStays DEF FlowInv, AnalysedOrFailed, leads
<1> QED
  BY <1>1, <1>3, <1>4 DEF FlowInv, AlertsHaveScores, HotLeadsAlerted, leads

\* A replay settles its envelope, whose version the message has already.
LEMMA ProcessReplayFlow ==
  ASSUME TypeOK, FlowInv, NEW i \in DOMAIN inbox, ProcessReplay(i)
  PROVE  FlowInv'
<1>1. /\ Claimed(i) /\ Replayed(i) /\ Settle(i, "acked")
      /\ UNCHANGED group /\ UNCHANGED leads
  BY DEF ProcessReplay
<1>2. Recorded' = Recorded /\ \A n \in Msg : Latest(n)' = Latest(n)
  BY <1>1 DEF Recorded, Latest, group
<1> PICK m \in Msg : m = inbox[i].msg
  BY EnvelopeTypes
<1>3. m \in Recorded' /\ Latest(m)' = inbox[i].post
  BY <1>1, <1>2 DEF Replayed
<1>4. SettledFirst' /\ CurrentIsLastSettled'
  BY <1>1, <1>2, <1>3, SettleFirst, LastSettledStep DEF FlowInv
<1>5. AnalysedOrFailed'
  BY <1>1, FailedStays DEF FlowInv, AnalysedOrFailed, leads, group
<1> QED
  BY <1>1, <1>4, <1>5 DEF FlowInv, AlertsHaveScores, HotLeadsAlerted, leads

(* A revision is what its message shows. *)
LEMMA ReviseFlow ==
  ASSUME TypeOK, FlowInv, NEW i \in DOMAIN inbox, Revise(i),
         NEW s \in {"acked", "failed_permanent"}, Settle(i, s)
  PROVE  /\ SettledFirst' /\ CurrentIsLastSettled'
         /\ \A m \in Msg : m # inbox[i].msg => revisions'[m] = revisions[m]
         /\ revisions'[inbox[i].msg] = Append(revisions[inbox[i].msg], inbox[i].post)
<1>1. PICK m \in Msg : m = inbox[i].msg
  BY EnvelopeTypes
<1>2. Claimed(i) /\ revisions' = [revisions EXCEPT ![m] = Append(@, inbox[i].post)]
  BY <1>1 DEF Revise
<1>3. /\ \A n \in Msg : n # m => revisions'[n] = revisions[n]
      /\ revisions'[m] = Append(revisions[m], inbox[i].post)
      /\ revisions[m] \in Seq(Version)
  BY <1>2 DEF TypeOK
<1>4. /\ revisions'[m] # <<>>
      /\ revisions'[m][Len(revisions'[m])] = inbox[i].post
  BY <1>3
<1>5. /\ m \in Recorded' /\ Latest(m)' = inbox[i].post
      /\ \A n \in Msg : n # m => (n \in Recorded => n \in Recorded') /\ Latest(n)' = Latest(n)
  BY <1>3, <1>4 DEF Recorded, Latest
<1>6. inbox[i].type # "deleted"
  BY DEF Revise
<1>7. SettledFirst' /\ CurrentIsLastSettled'
  BY <1>1, <1>2, <1>5, <1>6, SettleFirst, LastSettledStep DEF FlowInv
<1> QED
  BY <1>1, <1>3, <1>7

\* Without rules the revision has no result, and the envelope says so.
LEMMA FailRuleSetFlow ==
  ASSUME TypeOK, FlowInv, NEW i \in DOMAIN inbox, FailRuleSet(i)
  PROVE  FlowInv'
<1>1. Revise(i) /\ Claimed(i) /\ Settle(i, "failed_permanent") /\ UNCHANGED leads
  BY DEF FailRuleSet, Revise
<1>2. AnalysedOrFailed'
  <2> SUFFICES ASSUME NEW m \in Msg
               PROVE  analysed'[m] = Len(revisions'[m])
                        \/ \E k \in DOMAIN inbox' :
                               inbox'[k].msg = m /\ inbox'[k].state = "failed_permanent"
    BY DEF AnalysedOrFailed
  <2>1. CASE m = inbox[i].msg
    BY <1>1, <2>1, SettleRows
  <2>2. CASE m # inbox[i].msg
    BY <1>1, <2>2, ReviseFlow, FailedStays DEF FlowInv, AnalysedOrFailed, leads
  <2> QED
    BY <2>1, <2>2
<1> QED
  BY <1>1, <1>2, ReviseFlow DEF FlowInv, AlertsHaveScores, HotLeadsAlerted, leads

\* A result for the new revision.
LEMMA AnalysedFlow ==
  ASSUME TypeOK, FlowInv, NEW i \in DOMAIN inbox, Revise(i), Settle(i, "acked"),
         analysed' = [analysed EXCEPT ![inbox[i].msg] = Len(revisions'[inbox[i].msg])]
  PROVE  AnalysedOrFailed'
<1>1. Claimed(i) /\ inbox[i].msg \in Msg
  BY EnvelopeTypes DEF Revise
<1> SUFFICES ASSUME NEW m \in Msg
             PROVE  analysed'[m] = Len(revisions'[m])
                      \/ \E k \in DOMAIN inbox' :
                             inbox'[k].msg = m /\ inbox'[k].state = "failed_permanent"
  BY DEF AnalysedOrFailed
<1>2. CASE m = inbox[i].msg
  BY <1>1, <1>2 DEF TypeOK
<1>3. CASE m # inbox[i].msg
  <2>1. analysed'[m] = analysed[m] /\ revisions'[m] = revisions[m]
    BY <1>1, <1>3, ReviseFlow DEF TypeOK
  <2> QED
    BY <1>1, <2>1, FailedStays DEF FlowInv, AnalysedOrFailed
<1> QED
  BY <1>2, <1>3

\* A duplicate has a result and no lead.
LEMMA SuppressFlow ==
  ASSUME TypeOK, FlowInv, NEW i \in DOMAIN inbox, Suppress(i)
  PROVE  FlowInv'
<1>1. Revise(i) /\ Settle(i, "acked") /\ UNCHANGED <<scores, band, alerts, silent>>
  BY DEF Suppress
<1>2. AnalysedOrFailed'
  BY <1>1, AnalysedFlow DEF Suppress
<1> QED
  BY <1>1, <1>2, ReviseFlow DEF FlowInv, AlertsHaveScores, HotLeadsAlerted

(* The alert of a lead is made, or not made for want of delivery, with the score
   that turns it hot. *)
LEMMA ScoreFlow ==
  ASSUME TypeOK, AlertsHaveScores, HotLeadsAlerted,
         NEW m \in Msg, NEW new \in {"hot", "warm", "irrelevant"}, Score(m, new)
  PROVE  AlertsHaveScores' /\ HotLeadsAlerted'
<1>1. CASE new = "irrelevant"
  <2>1. /\ scores' = scores /\ alerts' = alerts /\ silent' = silent
        /\ \A n \in Msg : band'[n] = "hot" => band[n] = "hot"
    BY <1>1 DEF Score, TypeOK
  <2> QED
    BY <2>1 DEF AlertsHaveScores, HotLeadsAlerted
<1>2. CASE new # "irrelevant"
  <2> DEFINE key == <<m, Len(scores[m]) + 1>>
  <2>1. /\ scores' = [scores EXCEPT ![m] = Append(@, new)]
        /\ band' = [band EXCEPT ![m] = new]
        /\ alerts' = Alerted(m, new)
    BY <1>2 DEF Score
  <2>2. /\ scores[m] \in Seq({"hot", "warm"}) /\ Len(scores[m]) \in Nat
        /\ DOMAIN scores[m] = 1 .. Len(scores[m])
    BY DEF TypeOK
  <2>3. /\ scores'[m] = Append(scores[m], new)
        /\ \A n \in Msg : n # m => scores'[n] = scores[n] /\ band'[n] = band[n]
        /\ band'[m] = new
    BY <2>1 DEF TypeOK
  <2>4. /\ Len(scores'[m]) = Len(scores[m]) + 1
        /\ DOMAIN scores'[m] = 1 .. Len(scores[m]) + 1
        /\ scores'[m][Len(scores[m]) + 1] = new
        /\ \A v \in DOMAIN scores[m] : scores'[m][v] = scores[m][v]
    BY <2>2, <2>3
  <2>5. \A n \in Msg : \A v \in DOMAIN scores[n] :
           v \in DOMAIN scores'[n] /\ scores'[n][v] = scores[n][v]
    BY <2>2, <2>3, <2>4
  <2>6. \A a \in alerts \cup silent : a[1] \in Msg /\ a[2] \in Nat
    BY DEF TypeOK
  <2>7. band[m] = "hot" => scores[m] # <<>>
    BY DEF HotLeadsAlerted, AlertsHaveScores
  <2>8. key \notin alerts \cup silent
    BY <2>2 DEF AlertsHaveScores
  <2>9. silent' = IF ~delivery /\ band[m] # "hot" /\ new = "hot" THEN silent \cup {key} ELSE silent
    BY <1>2, <2>3, <2>4 DEF Score
  <2>10. CASE new = "hot" /\ band[m] # "hot"
    <3>1. /\ alerts' \cup silent' = alerts \cup silent \cup {key}
          /\ alerts' \subseteq alerts \cup {key}
          /\ key \in alerts' => alerts' = alerts \cup {key} /\ silent' = silent
          /\ key \notin alerts' => alerts' = alerts /\ silent' = silent \cup {key}
      BY <2>1, <2>8, <2>9, <2>10 DEF Alerted
    <3>2. AlertsHaveScores'
      BY <2>2, <2>4, <2>5, <2>6, <3>1 DEF AlertsHaveScores
    <3>3. \A a \in alerts' : scores'[a[1]][a[2]] = "hot" /\ a \notin silent'
      <4> SUFFICES ASSUME NEW a \in alerts'
                   PROVE  scores'[a[1]][a[2]] = "hot" /\ a \notin silent'
        OBVIOUS
      <4>1. CASE a = key
        BY <2>4, <2>8, <2>10, <3>1, <4>1
      <4>2. CASE a # key
        <5>1. a \in alerts /\ a \notin silent /\ scores[a[1]][a[2]] = "hot"
          BY <3>1, <4>2 DEF HotLeadsAlerted
        <5>2. scores'[a[1]][a[2]] = "hot"
          BY <2>5, <2>6, <5>1 DEF AlertsHaveScores
        <5> QED
          BY <3>1, <4>2, <5>1, <5>2
      <4> QED
        BY <4>1, <4>2
    <3>4. \A n \in Msg : band'[n] = "hot" =>
             \E a \in alerts' \cup silent' :
                 a[1] = n /\ \A v \in a[2] .. Len(scores'[n]) : scores'[n][v] = "hot"
      <4> SUFFICES ASSUME NEW n \in Msg, band'[n] = "hot"
                   PROVE  \E a \in alerts' \cup silent' :
                            a[1] = n /\ \A v \in a[2] .. Len(scores'[n]) : scores'[n][v] = "hot"
        OBVIOUS
      <4>1. CASE n = m
        <5>1. \A v \in Len(scores[m]) + 1 .. Len(scores'[m]) : scores'[m][v] = "hot"
          BY <2>2, <2>4, <2>10
        <5>2. key \in alerts' \cup silent'
          BY <3>1
        <5> QED
          BY <4>1, <5>1, <5>2
      <4>2. CASE n # m
        BY <2>3, <3>1, <4>2 DEF HotLeadsAlerted
      <4> QED
        BY <4>1, <4>2
    <3> QED
      BY <3>2, <3>3, <3>4 DEF HotLeadsAlerted
  <2>11. CASE ~(new = "hot" /\ band[m] # "hot")
    <3>1. alerts' = alerts /\ silent' = silent
      BY <2>1, <2>7, <2>9, <2>11 DEF Alerted
    <3>2. AlertsHaveScores'
      BY <2>5, <2>6, <3>1 DEF AlertsHaveScores
    <3>3. \A a \in alerts' : scores'[a[1]][a[2]] = "hot" /\ a \notin silent'
      BY <2>5, <2>6, <3>1 DEF AlertsHaveScores, HotLeadsAlerted
    <3>4. \A n \in Msg : band'[n] = "hot" =>
             \E a \in alerts' \cup silent' :
                 a[1] = n /\ \A v \in a[2] .. Len(scores'[n]) : scores'[n][v] = "hot"
      <4> SUFFICES ASSUME NEW n \in Msg, band'[n] = "hot"
                   PROVE  \E a \in alerts' \cup silent' :
                            a[1] = n /\ \A v \in a[2] .. Len(scores'[n]) : scores'[n][v] = "hot"
        OBVIOUS
      <4>1. band[n] = "hot"
        BY <2>3, <2>11
      <4>2. PICK a \in alerts \cup silent :
                 a[1] = n /\ \A v \in a[2] .. Len(scores[n]) : scores[n][v] = "hot"
        BY <4>1 DEF HotLeadsAlerted
      <4>3. CASE n = m
        <5>1. new = "hot" /\ a[2] \in 1 .. Len(scores[m])
          BY <2>2, <2>3, <4>2, <4>3 DEF AlertsHaveScores
        <5>2. \A v \in a[2] .. Len(scores'[m]) : scores'[m][v] = "hot"
          BY <2>2, <2>4, <4>2, <4>3, <5>1
        <5> QED
          BY <3>1, <4>2, <4>3, <5>2
      <4>4. CASE n # m
        BY <2>3, <3>1, <4>2, <4>4
      <4> QED
        BY <4>3, <4>4
    <3> QED
      BY <3>2, <3>3, <3>4 DEF HotLeadsAlerted
  <2> QED
    BY <2>10, <2>11
<1> QED
  BY <1>1, <1>2

\* An analysed revision has a result, and its lead an alert when it turned hot.
LEMMA AnalyseFlow ==
  ASSUME TypeOK, TextsHaveVersions, FlowInv, NEW i \in DOMAIN inbox, Analyse(i)
  PROVE  FlowInv'
<1>1. Revise(i) /\ Settle(i, "acked") /\ inbox[i].post \in Version
  BY DEF Analyse, Revise, TextsHaveVersions
<1>2. AnalysedOrFailed'
  BY <1>1, AnalysedFlow DEF Analyse
<1>3. PICK new \in Bands[inbox[i].post.text] : Score(inbox[i].msg, new)
  BY DEF Analyse
<1>4. new \in {"hot", "warm", "irrelevant"} /\ inbox[i].msg \in Msg
  BY <1>1, EnvelopeTypes, PipelineAssumption DEF Version
<1>5. AlertsHaveScores' /\ HotLeadsAlerted'
  BY <1>3, <1>4, ScoreFlow DEF FlowInv
<1> QED
  BY <1>1, <1>2, <1>5, ReviseFlow DEF FlowInv

\* Every step keeps the envelopes, the results and the leads together.
LEMMA NextFlow ==
  ASSUME TypeOK, TextsHaveVersions, FlowInv, [Next]_vars
  PROVE  FlowInv'
<1>1. CASE Collect
  BY <1>1, AcceptFlow DEF Collect, AcceptNew, AcceptEdit, AcceptDelete
<1>2. CASE Process
  BY <1>2, ProcessDeleteFlow, ProcessReplayFlow, FailRuleSetFlow, SuppressFlow, AnalyseFlow
     DEF Process
<1>3. CASE ChangeRules \/ SwitchDelivery \/ Idle \/ UNCHANGED vars
  BY <1>3, FlowUnchanged DEF ChangeRules, SwitchDelivery, Idle, vars, group
<1> QED
  BY <1>1, <1>2, <1>3 DEF Next

-------------------------------------------------------------------------------
(* The invariant holds in every reachable state: the base of the theorems below. *)
THEOREM PipelineInvariant == Spec => [](IInv /\ FlowInv)
<1>1. Init => IInv /\ TextsHaveVersions /\ FlowInv
  <2>1. Init => FlowInv
    BY DEF Init, FlowInv, SettledFirst, CurrentIsLastSettled, AnalysedOrFailed,
           AlertsHaveScores, HotLeadsAlerted
  <2> QED
    BY <2>1, InitInv DEF Init, TextsHaveVersions
<1>2. IInv /\ TextsHaveVersions /\ FlowInv /\ [Next]_vars
        => (IInv /\ TextsHaveVersions /\ FlowInv)'
  BY NextInv, NextFlow, TextsHaveVersionsStep DEF IInv
<1> QED
  BY <1>1, <1>2, PTL DEF Spec

(* claim_envelope and process_envelope keep the types of every table. *)
THEOREM PipelineTypes == Spec => []TypeOK
  BY PipelineInvariant, PTL DEF IInv

(* _apply_exact_dedupe never leaves two active copies of a text canonical when
   the window covers all messages. *)
THEOREM OneCanonicalAlways == Spec => []OneCanonical
  BY PipelineInvariant, PTL DEF IInv

(* canonical_message_id always points to the message itself or to one before it
   in the canonical order, and to itself only for a canonical message. *)
THEOREM LinksAlwaysPointBack == Spec => []LinksPointBack
  BY PipelineInvariant, PTL DEF IInv

(* claim_envelope takes envelopes in the order of their ids, so the text a message
   shows is that of its last settled envelope. *)
THEOREM CurrentIsAlwaysLastSettled == Spec => []CurrentIsLastSettled
  BY PipelineInvariant, PTL DEF FlowInv

(* process_envelope leaves a result for the current revision, or an envelope that
   failed for good when the rule set could not be loaded. *)
THEOREM AlwaysAnalysedOrFailed == Spec => []AnalysedOrFailed
  BY PipelineInvariant, PTL DEF FlowInv

(* enqueue_hot_lead alerts at the score that makes a lead hot, and at no other;
   a score made while delivery was off gets no alert then or later. *)
THEOREM HotLeadsAlwaysAlerted == Spec => []HotLeadsAlerted
  BY PipelineInvariant, PTL DEF FlowInv

-------------------------------------------------------------------------------
(* Manual history scans (HistoryScan): a component with constants and variables of its
   own, which the theorems above do not mention.                                    *)

ScanEnd == {"succeeded", "partial", "failed", "cancelled"}   \* the scan is over

\* A scan that is not inserted yet has no targets, no pages and no job, and one that
\* is has them all.
InsertedAtOnce ==
    \A s \in Scan :
        /\ request[s] # "done" => scan[s] = "absent"
        /\ scan[s] = "absent" =>
              /\ job[s] = [state |-> "absent", attempt |-> 0]
              /\ \A t \in Target : target[s][t] = "absent" /\ read[s][t] = 0
        /\ scan[s] # "absent" =>
              /\ job[s].state # "absent"
              /\ \A t \in Target : target[s][t] # "absent"

\* The loop works on a scan that is active, whose claim counted an attempt, and on a
\* target that is still to be read.
LoopAtWork ==
    pc # "idle" =>
        /\ cur \in Scan /\ scan[cur] \in ACTIVE_STATES /\ job[cur].attempt > 0
        /\ pc = "fetch" => tgt \in Target /\ target[cur][tgt] \in Pending

\* A scan that is over has a job no claim takes again.
ScanOverWithJob ==
    \A s \in Scan :
        scan[s] \in ScanEnd => job[s].state \in {"succeeded", "failed", "cancelled"}

\* A target that is still to be read has a page left.
PagesLeft ==
    \A s \in Scan : \A t \in Target :
        target[s][t] \in Pending => read[s][t] < Pages[t]

\* A target is cancelled only when the cancellation of its scan was requested, and the
\* closing transaction of such a scan has seen the request.
CancelledSeen ==
    /\ \A s \in Scan : \A t \in Target : target[s][t] = "cancelled" => cancel[s]
    /\ pc = "close" /\ ~sawCancel => \A t \in Target : target[cur][t] # "cancelled"

\* The inductive invariant of the scans.
ScanInv ==
    /\ ScanTypeOK /\ read \in [Scan -> [Target -> Nat]]
    /\ InsertedAtOnce /\ LoopAtWork /\ ScanOverWithJob /\ PagesLeft /\ CancelledSeen
    /\ OutcomeMatchesTargets

LEMMA ScanInitInv ==
    ASSUME HistoryScanAssumption, ScanInit
    PROVE  ScanInv
<1> USE HistoryScanAssumption
    DEF ScanInit, ACTIVE_STATES, Pending, JobState
<1>1. \A t \in Target : 0 \in 0 .. Pages[t]
    OBVIOUS
<1>2. 0 \in 0 .. MaxFaults /\ 0 \in 0 .. MaxFloods
    OBVIOUS
<1>3. ScanTypeOK /\ read \in [Scan -> [Target -> Nat]]
    BY <1>1, <1>2 DEF ScanTypeOK
<1> QED
    BY <1>3 DEF ScanInv, InsertedAtOnce, LoopAtWork, ScanOverWithJob, ScanEnd, PagesLeft,
                CancelledSeen, OutcomeMatchesTargets, In

\* A job whose state is set stays a job.
LEMMA JobStateSet ==
    ASSUME job \in [Scan -> [state : JobState, attempt : Nat]], NEW s \in Scan,
           NEW e \in JobState
    PROVE  [job EXCEPT ![s].state = e] \in [Scan -> [state : JobState, attempt : Nat]]
<1> DEFINE set == [job[s] EXCEPT !.state = e]
<1>1. set \in [state : JobState, attempt : Nat]
    OBVIOUS
<1>2. [job EXCEPT ![s].state = e] = [job EXCEPT ![s] = set]
    OBVIOUS
<1> HIDE DEF set
<1> QED
    BY <1>1, <1>2

LEMMA CommitPageStep ==
    ASSUME HistoryScanAssumption, ScanInv, CommitPage
    PROVE  ScanInv'
<1> USE HistoryScanAssumption
    DEF ScanInv, ACTIVE_STATES, Pending, JobState, In
<1>1. /\ cur \in Scan /\ tgt \in Target /\ pc = "fetch" /\ pc' = "closing"
      /\ scan[cur] \in ACTIVE_STATES /\ target[cur][tgt] \in Pending
      /\ read[cur][tgt] < Pages[tgt] /\ read[cur][tgt] \in Nat /\ Pages[tgt] \in Nat
      /\ UNCHANGED <<request, cancel, job, cur, tgt, sawCancel, retried, faults, floods>>
    BY DEF CommitPage, bounds, LoopAtWork, PagesLeft
<1>2. CASE cancel[cur]
    <2>1. /\ target' = [target EXCEPT ![cur][tgt] = "cancelled"]
          /\ UNCHANGED <<scan, read>>
        BY <1>2 DEF CommitPage
    <2>2. ScanTypeOK' /\ (read \in [Scan -> [Target -> Nat]])'
        BY <1>1, <2>1 DEF ScanTypeOK
    <2> QED
        BY <1>1, <1>2, <2>1, <2>2
            DEF ScanTypeOK, InsertedAtOnce, LoopAtWork, ScanOverWithJob,
            ScanEnd, PagesLeft, CancelledSeen, OutcomeMatchesTargets
<1>3. CASE ~cancel[cur]
    <2>1. PICK e \in {"running", "succeeded"} :
              /\ scan' = [scan EXCEPT ![cur] = "running"]
              /\ target' = [target EXCEPT ![cur][tgt] = e]
              /\ read' = [read EXCEPT ![cur][tgt] = @ + 1]
              /\ e = "succeeded" <=> read[cur][tgt] + 1 = Pages[tgt]
        BY <1>3 DEF CommitPage, LastPage
    <2>2. /\ read' \in [Scan -> [Target -> Nat]]
          /\ read'[cur][tgt] = read[cur][tgt] + 1
          /\ \A s \in Scan : \A t \in Target :
                <<s, t>> # <<cur, tgt>> => read'[s][t] = read[s][t]
        BY <1>1, <2>1
    <2>3. read'[cur][tgt] \in 0 .. Pages[tgt]
        BY <1>1, <2>2
    <2>4. \A s \in Scan : \A t \in Target : read'[s][t] \in 0 .. Pages[t]
        BY <2>2, <2>3 DEF ScanTypeOK
    <2>5. /\ target'[cur][tgt] = e
          /\ \A s \in Scan : \A t \in Target :
                <<s, t>> # <<cur, tgt>> => target'[s][t] = target[s][t]
        BY <1>1, <2>1 DEF ScanTypeOK
    <2>6. ScanTypeOK'
        BY <1>1, <2>1, <2>4 DEF ScanTypeOK
    <2>7. InsertedAtOnce' /\ LoopAtWork' /\ ScanOverWithJob' /\ CancelledSeen'
        BY <1>1, <2>1, <2>2, <2>5
            DEF ScanTypeOK, InsertedAtOnce, LoopAtWork, ScanOverWithJob,
            ScanEnd, CancelledSeen
    <2>8. PagesLeft' /\ OutcomeMatchesTargets'
        BY <1>1, <2>1, <2>2, <2>5 DEF ScanTypeOK, PagesLeft, OutcomeMatchesTargets
    <2> QED
        BY <2>2, <2>6, <2>7, <2>8
<1> QED
    BY <1>2, <1>3

LEMMA TargetErrorStep ==
    ASSUME HistoryScanAssumption, ScanInv, TargetError
    PROVE  ScanInv'
<1> USE HistoryScanAssumption
    DEF ScanInv, ACTIVE_STATES, Pending, JobState, In
<1>1. PICK e \in {"skipped", "failed"} :
          /\ cur \in Scan /\ tgt \in Target /\ pc = "fetch" /\ pc' = "closing"
          /\ scan[cur] \in ACTIVE_STATES /\ target[cur][tgt] \in Pending
          /\ target' = [target EXCEPT ![cur][tgt] = e]
          /\ scan' = [scan EXCEPT ![cur] = "running"]
          /\ UNCHANGED <<request, cancel, read, job, cur, tgt, sawCancel, retried, faults,
                         floods>>
    BY DEF TargetError, bounds, LoopAtWork
<1>2. /\ target'[cur][tgt] = e /\ scan'[cur] = "running"
      /\ \A s \in Scan : \A t \in Target :
            <<s, t>> # <<cur, tgt>> => target'[s][t] = target[s][t]
      /\ \A s \in Scan : s # cur => scan'[s] = scan[s]
    BY <1>1 DEF ScanTypeOK
<1>3. ScanTypeOK' /\ (read \in [Scan -> [Target -> Nat]])'
    BY <1>1, <1>2 DEF ScanTypeOK
<1> QED
    BY <1>1, <1>2, <1>3
        DEF ScanTypeOK, InsertedAtOnce, LoopAtWork, ScanOverWithJob, ScanEnd,
        PagesLeft, CancelledSeen, OutcomeMatchesTargets

\* What the closing transaction writes: an end state only if it is that of the targets.
LEMMA CloseSettles ==
    ASSUME HistoryScanAssumption, ScanInv, Close
    PROVE  \E js \in {"queued", "succeeded", "failed", "cancelled"} :
           \E ss \in ACTIVE_STATES \cup ScanEnd :
               /\ job' = [job EXCEPT ![cur].state = js]
               /\ scan' = [scan EXCEPT ![cur] = ss]
               /\ ss \in ScanEnd => js # "queued"
               /\ ss = "succeeded" => \A t \in Target : target[cur][t] = "succeeded"
               /\ ss = "partial" => /\ In(cur, {"succeeded"})
                                    /\ In(cur, {"skipped", "failed"})
                                    /\ ~In(cur, Pending)
<1> USE HistoryScanAssumption DEF ScanInv, ACTIVE_STATES, Pending, ScanEnd
<1>1. cur \in Scan /\ scan[cur] \in ACTIVE_STATES /\ pc = "close"
    BY DEF Close, LoopAtWork
<1>2. scan = [scan EXCEPT ![cur] = scan[cur]]
    BY <1>1 DEF ScanTypeOK
<1>3. CASE sawCancel
    BY <1>3 DEF Close
<1>4. CASE ~sawCancel /\ In(cur, Pending)
    <2>1. /\ scan' = [scan EXCEPT ![cur] = scan[cur]]
          /\ job' = [job EXCEPT ![cur].state = "queued"]
        BY <1>2, <1>4 DEF Close, JobAfterPage
    <2> QED
        BY <1>1, <2>1
<1>5. CASE ~sawCancel /\ ~In(cur, Pending)
    <2>1. /\ scan' = [scan EXCEPT ![cur] = EndState(cur)]
          /\ job' = [job EXCEPT ![cur].state =
                         IF EndState(cur) = "failed" THEN "failed" ELSE "succeeded"]
        BY <1>5 DEF Close, JobAfterPage
    <2>2. /\ EndState(cur) \in {"partial", "succeeded", "failed"}
          /\ EndState(cur) = "partial" =>
                In(cur, {"succeeded"}) /\ In(cur, {"skipped", "failed"})
          /\ EndState(cur) = "succeeded" => ~In(cur, {"skipped", "failed"})
        BY DEF EndState
    <2>3. ASSUME EndState(cur) = "succeeded", NEW t \in Target
          PROVE  target[cur][t] = "succeeded"
        <3>1. target[cur][t] \notin {"skipped", "failed"} \cup Pending
            BY <1>5, <2>2, <2>3 DEF In
        <3>2. target[cur][t] \notin {"absent", "cancelled"}
            BY <1>1, <1>5 DEF InsertedAtOnce, CancelledSeen
        <3> QED
            BY <1>1, <3>1, <3>2 DEF ScanTypeOK
    <2> QED
        BY <1>5, <2>1, <2>2, <2>3
<1> QED
    BY <1>3, <1>4, <1>5

LEMMA CloseStep ==
    ASSUME HistoryScanAssumption, ScanInv, Close
    PROVE  ScanInv'
<1> USE HistoryScanAssumption
    DEF ScanInv, ACTIVE_STATES, Pending, JobState, ScanEnd
<1>1. /\ cur \in Scan /\ scan[cur] \in ACTIVE_STATES /\ pc = "close" /\ pc' = "idle"
      /\ UNCHANGED <<request, cancel, target, read, retried, faults, floods>>
      /\ cur' = NoScan /\ tgt' = 0 /\ sawCancel' = FALSE
    BY DEF Close, LoopIdle, bounds, LoopAtWork
<1>2. PICK js \in {"queued", "succeeded", "failed", "cancelled"},
             ss \in ACTIVE_STATES \cup ScanEnd :
          /\ job' = [job EXCEPT ![cur].state = js]
          /\ scan' = [scan EXCEPT ![cur] = ss]
          /\ ss \in ScanEnd => js # "queued"
          /\ ss = "succeeded" => \A t \in Target : target[cur][t] = "succeeded"
          /\ ss = "partial" => /\ In(cur, {"succeeded"})
                               /\ In(cur, {"skipped", "failed"})
                               /\ ~In(cur, Pending)
    BY CloseSettles
<1>3. /\ job'[cur].state = js /\ job'[cur].attempt = job[cur].attempt /\ scan'[cur] = ss
      /\ \A s \in Scan : s # cur => job'[s] = job[s] /\ scan'[s] = scan[s]
    BY <1>1, <1>2 DEF ScanTypeOK
<1>4. ScanTypeOK' /\ (read \in [Scan -> [Target -> Nat]])'
    BY <1>1, <1>2, <1>3 DEF ScanTypeOK
<1>5. InsertedAtOnce' /\ LoopAtWork' /\ ScanOverWithJob' /\ PagesLeft' /\ CancelledSeen'
    BY <1>1, <1>2, <1>3
        DEF ScanTypeOK, InsertedAtOnce, LoopAtWork, ScanOverWithJob, PagesLeft,
        CancelledSeen
<1>6. OutcomeMatchesTargets'
    BY <1>1, <1>2, <1>3 DEF ScanTypeOK, OutcomeMatchesTargets, In
<1> QED
    BY <1>4, <1>5, <1>6

\* Every step keeps the invariant; the three above settle targets or the scan, the
\* others change little of what it relates.
LEMMA ScanNextInv ==
    ASSUME HistoryScanAssumption, ScanInv, [ScanNext]_scanVars
    PROVE  ScanInv'
<1> USE HistoryScanAssumption
    DEF ScanInv, ACTIVE_STATES, Pending, JobState, In, loop,
    bounds, LoopIdle
<1>1. ASSUME NEW s \in Scan, CheckCreate(s) PROVE ScanInv'
    <2>1. ScanTypeOK' /\ (read \in [Scan -> [Target -> Nat]])'
        BY <1>1 DEF CheckCreate, ScanTypeOK, LoopAtWork
    <2> QED
        BY <1>1, <2>1
            DEF CheckCreate, ScanTypeOK, InsertedAtOnce, LoopAtWork,
            ScanOverWithJob, ScanEnd, PagesLeft,
            CancelledSeen, OutcomeMatchesTargets
<1>2. ASSUME NEW s \in Scan, InsertScan(s) PROVE ScanInv'
    <2>1. job' \in [Scan -> [state : JobState, attempt : Nat]]
        BY <1>2, JobStateSet DEF InsertScan, ScanTypeOK
    <2>2. ScanTypeOK' /\ (read \in [Scan -> [Target -> Nat]])'
        BY <1>2, <2>1 DEF InsertScan, ScanTypeOK
    <2>3. InsertedAtOnce' /\ LoopAtWork' /\ ScanOverWithJob' /\ CancelledSeen'
        BY <1>2, <2>2
            DEF InsertScan, ScanTypeOK, InsertedAtOnce, LoopAtWork,
            ScanOverWithJob, ScanEnd, PagesLeft,
            CancelledSeen, OutcomeMatchesTargets
    <2>4. read' = read /\ \A t \in Target : read[s][t] = 0 /\ Pages[t] \in Nat \ {0}
        BY <1>2 DEF InsertScan, InsertedAtOnce
    <2>5. /\ scan'[s] = "queued" /\ \A t \in Target : target'[s][t] = "queued"
          /\ \A r \in Scan : r # s => target'[r] = target[r] /\ scan'[r] = scan[r]
        BY <1>2 DEF InsertScan, ScanTypeOK
    <2>6. PagesLeft' /\ OutcomeMatchesTargets'
        BY <2>4, <2>5 DEF PagesLeft, OutcomeMatchesTargets
    <2> QED
        BY <2>2, <2>3, <2>6
<1>3. ASSUME NEW s \in Scan, Cancel(s) PROVE ScanInv'
    <2>1. ScanTypeOK' /\ (read \in [Scan -> [Target -> Nat]])'
        BY <1>3 DEF Cancel, ScanTypeOK, LoopAtWork
    <2> QED
        BY <1>3, <2>1
            DEF Cancel, ScanTypeOK, InsertedAtOnce, LoopAtWork, ScanOverWithJob,
            ScanEnd, PagesLeft,
            CancelledSeen, OutcomeMatchesTargets
<1>4. ASSUME NEW s \in Scan, RecoverStale(s) PROVE ScanInv'
    <2>1. job' \in [Scan -> [state : JobState, attempt : Nat]]
        BY <1>4, JobStateSet DEF RecoverStale, ScanTypeOK
    <2>2. ScanTypeOK' /\ (read \in [Scan -> [Target -> Nat]])'
        BY <1>4, <2>1 DEF RecoverStale, ScanTypeOK
    <2> QED
        BY <1>4, <2>2
            DEF RecoverStale, ScanTypeOK, InsertedAtOnce, LoopAtWork,
            ScanOverWithJob, ScanEnd, PagesLeft,
            CancelledSeen, OutcomeMatchesTargets
<1>5. ASSUME NEW s \in Scan, Claim(s) PROVE ScanInv'
    <2>1. ScanTypeOK' /\ (read \in [Scan -> [Target -> Nat]])'
        BY <1>5 DEF Claim, ScanTypeOK, LoopAtWork
    <2> QED
        BY <1>5, <2>1
            DEF Claim, ScanTypeOK, InsertedAtOnce, LoopAtWork, ScanOverWithJob,
            ScanEnd, PagesLeft,
            CancelledSeen, OutcomeMatchesTargets
<1>6. CASE Select
    <2>1. ScanTypeOK' /\ (read \in [Scan -> [Target -> Nat]])'
        BY <1>6 DEF Select, NextTarget, ScanTypeOK, LoopAtWork
    <2> QED
        BY <1>6, <2>1
            DEF Select, NextTarget, ScanTypeOK, InsertedAtOnce, LoopAtWork,
            ScanOverWithJob, ScanEnd, PagesLeft,
            CancelledSeen, OutcomeMatchesTargets
<1>7. CASE CommitPage
    BY <1>7, CommitPageStep
<1>8. CASE TargetError
    BY <1>8, TargetErrorStep
<1>9. CASE FloodWait
    <2>1. cur \in Scan /\ job[cur].attempt \in Nat \ {0} /\ floods' \in 0 .. MaxFloods
        BY <1>9 DEF FloodWait, LoopAtWork, ScanTypeOK
    <2>2. [state |-> "retry_wait", attempt |-> job[cur].attempt - 1]
              \in [state : JobState, attempt : Nat]
        BY <2>1
    <2>3. job' \in [Scan -> [state : JobState, attempt : Nat]]
        BY <1>9, <2>1, <2>2 DEF FloodWait, ScanTypeOK
    <2>4. ScanTypeOK' /\ (read \in [Scan -> [Target -> Nat]])'
        BY <1>9, <2>1, <2>3 DEF FloodWait, ScanTypeOK
    <2> QED
        BY <1>9, <2>4
            DEF FloodWait, ScanTypeOK, InsertedAtOnce, LoopAtWork,
            ScanOverWithJob, ScanEnd, PagesLeft,
            CancelledSeen, OutcomeMatchesTargets
<1>10. CASE Transient
    <2>1. cur \in Scan /\ retried' \in [Scan -> Nat]
        BY <1>10 DEF Transient, LoopAtWork, ScanTypeOK
    <2>2. PICK e \in {"dead", "retry_wait"} : job' = [job EXCEPT ![cur].state = e]
        BY <1>10 DEF Transient
    <2>3. job' \in [Scan -> [state : JobState, attempt : Nat]]
        BY <2>1, <2>2, JobStateSet DEF ScanTypeOK
    <2>4. ScanTypeOK' /\ (read \in [Scan -> [Target -> Nat]])'
        BY <1>10, <2>1, <2>3 DEF Transient, ScanTypeOK
    <2> QED
        BY <1>10, <2>4
            DEF Transient, ScanTypeOK, InsertedAtOnce, LoopAtWork,
            ScanOverWithJob, ScanEnd, PagesLeft,
            CancelledSeen, OutcomeMatchesTargets
<1>11. CASE FailScan
    <2>1. cur \in Scan /\ job' = [job EXCEPT ![cur].state = "failed"]
        BY <1>11 DEF FailScan, LoopAtWork
    <2>2. job' \in [Scan -> [state : JobState, attempt : Nat]]
        BY <2>1, JobStateSet DEF ScanTypeOK
    <2>3. ScanTypeOK' /\ (read \in [Scan -> [Target -> Nat]])'
        BY <1>11, <2>1, <2>2 DEF FailScan, ScanTypeOK
    <2> QED
        BY <1>11, <2>3
            DEF FailScan, ScanTypeOK, InsertedAtOnce, LoopAtWork,
            ScanOverWithJob, ScanEnd, PagesLeft,
            CancelledSeen, OutcomeMatchesTargets
<1>12. CASE ReadCancel
    <2>1. ScanTypeOK' /\ (read \in [Scan -> [Target -> Nat]])'
        BY <1>12 DEF ReadCancel, ScanTypeOK, LoopAtWork
    <2> QED
        BY <1>12, <2>1
            DEF ReadCancel, ScanTypeOK, InsertedAtOnce, LoopAtWork,
            ScanOverWithJob, ScanEnd, PagesLeft,
            CancelledSeen, OutcomeMatchesTargets
<1>13. CASE Close
    BY <1>13, CloseStep
<1>14. CASE Crash
    <2>1. faults' \in 0 .. MaxFaults /\ request' \in [Scan -> {"none", "checked", "done"}]
        BY <1>14 DEF Crash, ScanTypeOK
    <2>2. ScanTypeOK' /\ (read \in [Scan -> [Target -> Nat]])'
        BY <1>14, <2>1 DEF Crash, ScanTypeOK
    <2> QED
        BY <1>14, <2>2
            DEF Crash, ScanTypeOK, InsertedAtOnce, LoopAtWork, ScanOverWithJob,
            ScanEnd, PagesLeft,
            CancelledSeen, OutcomeMatchesTargets
<1>15. CASE Poll \/ UNCHANGED scanVars
    <2>1. ScanTypeOK' /\ (read \in [Scan -> [Target -> Nat]])'
        BY <1>15 DEF Poll, scanVars, ScanTypeOK, LoopAtWork
    <2> QED
        BY <1>15, <2>1
            DEF Poll, scanVars, ScanTypeOK, InsertedAtOnce, LoopAtWork,
            ScanOverWithJob, ScanEnd, PagesLeft,
            CancelledSeen, OutcomeMatchesTargets
<1> QED
    BY <1>1, <1>2, <1>3, <1>4, <1>5, <1>6, <1>7, <1>8, <1>9, <1>10, <1>11, <1>12, <1>13,
        <1>14, <1>15 DEF ScanNext

\* The inductive invariant of the scans holds throughout.
THEOREM ScanInvariant ==
    ASSUME HistoryScanAssumption
    PROVE  ScanSpec => []ScanInv
<1>1. ScanInit => ScanInv
    BY ScanInitInv
<1>2. ScanInv /\ [ScanNext]_scanVars => ScanInv'
    BY ScanNextInv
<1> QED
    BY <1>1, <1>2, PTL DEF ScanSpec

\* Every variable of the scans keeps its type: a target is never read past its period
\* (_process_one_target), a job's attempt is never given back below zero (_retry_job).
THEOREM ScanTypes ==
    ASSUME HistoryScanAssumption
    PROVE  ScanSpec => []ScanTypeOK
<1>1. ScanInv => ScanTypeOK
    BY DEF ScanInv
<1> QED
    BY <1>1, ScanInvariant, PTL

\* The outcome a scan reports is that of its targets, and a target that succeeded was
\* read to the start of its period, for every number of scans, targets and pages and
\* whatever crashes, flood waits, errors, requeued leases and cancellations come
\* between the transactions (_process_one_target, _finish_page_job).
THEOREM OutcomeAlwaysMatchesTargets ==
    ASSUME HistoryScanAssumption
    PROVE  ScanSpec => []OutcomeMatchesTargets
<1>1. ScanInv => OutcomeMatchesTargets
    BY DEF ScanInv
<1> QED
    BY <1>1, ScanInvariant, PTL
===============================================================================
