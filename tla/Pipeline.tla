------------------------------- MODULE Pipeline -------------------------------
(***************************************************************************)
(* Message processing (processing/pipeline.py): from the persisted inbox   *)
(* to messages, duplicate groups, leads and hot-lead alerts.               *)
(*                                                                         *)
(* The one processing loop claims an envelope and processes it in one      *)
(* transaction, so "processing" is never committed and an exception or a   *)
(* crash leaves the database as it was: a stuttering step.  Envelopes come *)
(* from two readers: the live stream, in order, and history pages, which   *)
(* may be stored long after they were read.                                *)
(***************************************************************************)
EXTENDS Integers, Sequences, FiniteSets

CONSTANTS Msg,       \* messages, numbered by (published_at, source_id, telegram_message_id)
          SourceOf,  \* the source of each message
          Day,       \* the day each message was published
          Window,    \* DEDUPE_WINDOW_DAYS
          Text,      \* normalized texts
          NoText,    \* the empty one
          Bands,     \* the bands each text can score: freshness and quality decide
          MaxVersions, MaxInbox, \* bounds: edits of a message, envelopes
          MaxChanges \* bound: how often the operator changes the rules or the delivery

ASSUME PipelineAssumption ==
    /\ Msg \subseteq Nat /\ IsFiniteSet(Msg)
    /\ Day \in [Msg -> Nat] /\ \A m, n \in Msg : m < n => Day[m] <= Day[n]
    /\ Window \in Nat
    /\ Bands \in [Text -> SUBSET {"hot", "warm", "irrelevant"}]
    /\ {MaxVersions, MaxInbox, MaxChanges} \subseteq Nat

VARIABLES inbox,     \* TelegramEventEnvelope rows by id
          revisions, \* a message's revisions; <<>> without a message row
          deleted,   \* deleted_at is set
          canonical, \* is_canonical
          linked,    \* canonical_message_id
          analysed,  \* the last revision with a ProcessingResult
          scores,    \* the bands of a lead's LeadScore rows; <<>> without a lead
          band,      \* Lead.band
          alerts,    \* hot_lead outbox rows by their key: lead and score version
          delivery,  \* delivery_mode is live and the notification secrets are present
          rules,     \* the active rule set can be loaded
          changes,
          silent     \* history: the scores that made a lead hot while delivery was off

group == <<revisions, deleted, canonical, linked>>
leads == <<analysed, scores, band, alerts, silent>>
setup == <<delivery, rules, changes>>
vars == <<inbox, group, leads, setup>>

Recorded == {m \in Msg : revisions[m] # <<>>}
Active   == {m \in Recorded : ~deleted[m]}
Latest(m) == revisions[m][Len(revisions[m])]
Current(m) == Latest(m).text

(* A version of a message: its edit date, its text.  The first is dated 1. *)
Version == [ver : 1 .. MaxVersions, text : Text]
Gone    == [ver |-> 0, text |-> NoText]

Envelope == [type : {"new", "edited", "deleted"}, msg : Msg, post : Version \cup {Gone},
             state : {"queued", "acked", "failed_permanent"}]

-------------------------------------------------------------------------------
EnvelopesOf(m) == {inbox[i] : i \in {j \in DOMAIN inbox : inbox[j].msg = m}}

(* persist_message_envelope: event_id is a message's identity with the event's
   type and, for an edit, its date; a known event_id adds nothing.  A version has
   one text. *)
Accept(type, m, v) ==
    /\ Len(inbox) < MaxInbox
    /\ \A e \in EnvelopesOf(m) : e.post.ver = v.ver => e.post = v
    /\ inbox' = Append(inbox, [type |-> type, msg |-> m, post |-> v, state |-> "queued"])
    /\ UNCHANGED <<group, leads, setup>>

(* A new message, live or from a history page that was read at some version. *)
AcceptNew(m, v) ==
    /\ \A e \in EnvelopesOf(m) : e.type # "new"
    /\ Accept("new", m, v)

(* The live stream hands over the edits of a message in order, its deletion last. *)
AcceptEdit(m, v) ==
    /\ v.ver > 1
    /\ \A e \in EnvelopesOf(m) : e.type # "deleted" /\ (e.type = "edited" => e.post.ver < v.ver)
    /\ Accept("edited", m, v)

AcceptDelete(m) ==
    /\ \A e \in EnvelopesOf(m) : e.type # "deleted"
    /\ Accept("deleted", m, Gone)

(* The operator activates a rule set that does not load, or repairs it. *)
ChangeRules ==
    /\ changes < MaxChanges
    /\ changes' = changes + 1 /\ rules' = ~rules
    /\ UNCHANGED <<inbox, group, leads, delivery>>

(* The operator changes notifications.delivery_mode, or a secret comes or goes. *)
SwitchDelivery ==
    /\ changes < MaxChanges
    /\ changes' = changes + 1 /\ delivery' = ~delivery
    /\ UNCHANGED <<inbox, group, leads, rules>>

-------------------------------------------------------------------------------
Open(i) == inbox[i].state = "queued"

\* Seeded fault: the newest envelope first.
ClaimedNewest(i) == Open(i) /\ \A j \in i + 1 .. Len(inbox) : ~Open(j)

(* claim_envelope: the lowest id that is not settled. *)
Claimed(i) == Open(i) /\ \A j \in 1 .. i - 1 : ~Open(j)

\* Seeded fault: a failed envelope is acknowledged like any other.
SettleSilently(i, state) == inbox' = [inbox EXCEPT ![i].state = "acked"]

Settle(i, state) == inbox' = [inbox EXCEPT ![i].state = state]

(* _handle_delete; the lead, the alert and the message's duplicates stay. *)
ProcessDelete(i) ==
    /\ Claimed(i) /\ inbox[i].type = "deleted"
    /\ LET m == inbox[i].msg
       IN  IF m \in Active
           THEN /\ deleted' = [deleted EXCEPT ![m] = TRUE]
                /\ canonical' = [canonical EXCEPT ![m] = FALSE]
           ELSE UNCHANGED <<deleted, canonical>>
    /\ Settle(i, "acked")
    /\ UNCHANGED <<revisions, linked, leads, setup>>

(* The latest revision has the envelope's fingerprint. *)
Replayed(i) ==
    inbox[i].msg \in Recorded /\ Latest(inbox[i].msg) = inbox[i].post

\* Seeded fault: a replay returns without settling the envelope.
ProcessReplayUnsettled(i) ==
    /\ Claimed(i) /\ inbox[i].type # "deleted" /\ Replayed(i)
    /\ UNCHANGED vars

ProcessReplay(i) ==
    /\ Claimed(i) /\ inbox[i].type # "deleted" /\ Replayed(i)
    /\ Settle(i, "acked")
    /\ UNCHANGED <<group, leads, setup>>

(* _apply_exact_dedupe for message m with its new text: the other messages with
   the same hash, not deleted, published at most Window days apart. *)
Near(m, n) == Day[m] <= Day[n] + Window /\ Day[n] <= Day[m] + Window

Peers(m, text) == {p \in Active \ {m} : Current(p) = text /\ Near(m, p)}

\* Seeded fault: the message itself is left out of the choice when it has peers.
MembersWithoutSelf(m, text) ==
    IF text = NoText \/ Peers(m, text) = {} THEN {m} ELSE Peers(m, text)

Members(m, text) == IF text = NoText THEN {m} ELSE {m} \cup Peers(m, text)

(* Earliest published, then lowest source, then lowest message id. *)
First(members) == CHOOSE m \in members : \A n \in members : m <= n

Dedupe(m, text) ==
    LET members == Members(m, text)
    IN  /\ canonical' = [n \in Msg |-> IF n \in members THEN n = First(members)
                                                        ELSE canonical[n]]
        /\ linked' = [n \in Msg |-> IF n \in members THEN First(members) ELSE linked[n]]

(* The revision and the duplicate group, for an envelope that is no replay. *)
Revise(i) ==
    LET m == inbox[i].msg
    IN  /\ Claimed(i) /\ inbox[i].type # "deleted" /\ ~Replayed(i)
        /\ revisions' = [revisions EXCEPT ![m] = Append(@, inbox[i].post)]
        /\ Dedupe(m, inbox[i].post.text)
        /\ UNCHANGED <<deleted, setup>>

(* No rule set: the envelope fails for good, the revision is kept. *)
FailRuleSet(i) ==
    /\ Revise(i) /\ ~rules
    /\ Settle(i, "failed_permanent")
    /\ UNCHANGED leads

(* duplicate_suppressed, or no text to analyse. *)
Suppress(i) ==
    LET m == inbox[i].msg
    IN  /\ Revise(i) /\ rules
        /\ ~canonical'[m] \/ inbox[i].post.text = NoText
        /\ analysed' = [analysed EXCEPT ![m] = Len(revisions'[m])]
        /\ Settle(i, "acked")
        /\ UNCHANGED <<scores, band, alerts, silent>>

\* Seeded fault: the band is compared after it was overwritten.
AlertedLate(m, new) ==
    IF new = "hot" /\ scores[m] = <<>> /\ delivery THEN alerts \cup {<<m, 1>>} ELSE alerts

(* enqueue_hot_lead: only when the lead was not hot before; enqueue_outbox adds
   no row while delivery is off, and nothing adds it later. *)
Alerted(m, new) ==
    IF new = "hot" /\ (scores[m] = <<>> \/ band[m] # "hot") /\ delivery
    THEN alerts \cup {<<m, Len(scores[m]) + 1>>} ELSE alerts

(* A positive score creates or updates the lead; any other makes it irrelevant. *)
Score(m, new) ==
    IF new # "irrelevant"
    THEN /\ scores' = [scores EXCEPT ![m] = Append(@, new)]
         /\ band' = [band EXCEPT ![m] = new]
         /\ alerts' = Alerted(m, new)
         /\ silent' = IF ~delivery /\ band[m] # "hot" /\ band'[m] = "hot"
                      THEN silent \cup {<<m, Len(scores'[m])>>} ELSE silent
    ELSE /\ band' = [band EXCEPT ![m] = IF scores[m] = <<>> THEN @ ELSE "irrelevant"]
         /\ UNCHANGED <<scores, alerts, silent>>

Analyse(i) ==
    LET m == inbox[i].msg
    IN  /\ Revise(i) /\ rules
        /\ canonical'[m] /\ inbox[i].post.text # NoText
        /\ analysed' = [analysed EXCEPT ![m] = Len(revisions'[m])]
        /\ \E new \in Bands[inbox[i].post.text] : Score(m, new)
        /\ Settle(i, "acked")

(* The loop finds nothing to claim. *)
Idle ==
    /\ \A i \in DOMAIN inbox : ~Open(i)
    /\ UNCHANGED vars

-------------------------------------------------------------------------------
(* A new installation: delivery_mode is "shadow". *)
Init ==
    /\ inbox = <<>>
    /\ revisions = [m \in Msg |-> <<>>]
    /\ deleted = [m \in Msg |-> FALSE]
    /\ canonical = [m \in Msg |-> FALSE]
    /\ linked = [m \in Msg |-> m]
    /\ analysed = [m \in Msg |-> 0]
    /\ scores = [m \in Msg |-> <<>>]
    /\ band = [m \in Msg |-> "none"]
    /\ alerts = {} /\ silent = {}
    /\ delivery = FALSE /\ rules = TRUE /\ changes = 0

Collect ==
    \E m \in Msg :
        \/ \E v \in Version : AcceptNew(m, v) \/ AcceptEdit(m, v)
        \/ AcceptDelete(m)

Process ==
    \E i \in DOMAIN inbox :
        ProcessDelete(i) \/ ProcessReplay(i) \/ FailRuleSet(i) \/ Suppress(i) \/ Analyse(i)

Next == Collect \/ ChangeRules \/ SwitchDelivery \/ Process \/ Idle

Spec == Init /\ [][Next]_vars

(* A running loop polls; a transaction that fails is tried again at once. *)
FairSpec == Spec /\ WF_vars(Process)

-------------------------------------------------------------------------------
\* Every variable has its type.
TypeOK ==
    /\ inbox \in Seq(Envelope)
    /\ revisions \in [Msg -> Seq(Version)]
    /\ deleted \in [Msg -> BOOLEAN] /\ canonical \in [Msg -> BOOLEAN]
    /\ linked \in [Msg -> Msg] /\ analysed \in [Msg -> Nat]
    /\ scores \in [Msg -> Seq({"hot", "warm"})]
    /\ band \in [Msg -> {"none", "hot", "warm", "irrelevant"}]
    /\ alerts \subseteq Msg \X Nat /\ silent \subseteq Msg \X Nat
    /\ delivery \in BOOLEAN /\ rules \in BOOLEAN /\ changes \in 0 .. MaxChanges

\* When the window covers all messages, no two active copies of a text are both
\* canonical, whatever the order of posts, edits and deletions (PROC-012).
OneCanonical ==
    (\A m, n \in Msg : Near(m, n)) =>
        \A m, n \in Active :
            canonical[m] /\ canonical[n] /\ Current(m) = Current(n) /\ Current(m) # NoText
                => m = n

\* A suppressed message points to an earlier one, and only a canonical message
\* points to itself, so that following the links ends (PROC-012).
LinksPointBack ==
    \A m \in Active : linked[m] <= m /\ (canonical[m] <=> linked[m] = m)

\* A message shows what the last settled envelope about its text said: no claim,
\* replay or failure lets an earlier envelope win (PROC-001, PROC-005).
CurrentIsLastSettled ==
    \A i \in DOMAIN inbox :
        LET m == inbox[i].msg
        IN  (/\ inbox[i].type # "deleted" /\ ~Open(i)
             /\ \A j \in i + 1 .. Len(inbox) :
                    inbox[j].msg = m => inbox[j].type = "deleted" \/ Open(j))
            => m \in Recorded /\ Latest(m) = inbox[i].post

\* A message whose current revision has no processing result has an envelope that
\* failed for good, so the operator can see it (PROC-015, PROC-019).
AnalysedOrFailed ==
    \A m \in Msg :
        analysed[m] = Len(revisions[m])
            \/ \E i \in DOMAIN inbox : inbox[i].msg = m /\ inbox[i].state = "failed_permanent"

\* Every alert is about a score that was hot, and a hot lead has been alerted at
\* the score that made it hot, however often it cooled and was scored again;
\* unless delivery was off at that very score, for which no alert is ever made,
\* not even once delivery is on (NOT-001, D-042, D-047).
HotLeadsAlerted ==
    /\ \A a \in alerts : scores[a[1]][a[2]] = "hot" /\ a \notin silent
    /\ \A m \in Msg : band[m] = "hot" =>
           \E a \in alerts \cup silent :
               a[1] = m /\ \A v \in a[2] .. Len(scores[m]) : scores[m][v] = "hot"

\* Every accepted envelope is settled in the end.
InboxDrains == \A i \in 1 .. MaxInbox : []<>(i \in DOMAIN inbox => ~Open(i))

\* PROC-012, as the PRD states it: one canonical member in a group; here no two
\* active copies within the window are both canonical.
OneCanonicalPerGroup ==
    \A m, n \in Active :
        canonical[m] /\ canonical[n] /\ Current(m) = Current(n) /\ Current(m) # NoText
            /\ Near(m, n) => m = n

\* PROC-009, as the PRD states it: when the canonical copy goes, the next active
\* member takes its place.
CanonicalIsActive ==
    \A m \in Active : ~canonical[m] => linked[m] \in Active

\* PROC-013, as the PRD states it: an earlier copy that arrives late takes over the
\* lead and no second alert is made.
OneAlertPerText ==
    \A a, b \in alerts :
        /\ Current(a[1]) = Current(b[1]) /\ Near(a[1], b[1])
        /\ {a[1], b[1]} \subseteq Active
        /\ Len(revisions[a[1]]) = 1 /\ Len(revisions[b[1]]) = 1
        => a = b

\* PROC-010, as the PRD states it: copies in one source are not merged.
SameSourceNotMerged ==
    \A m \in Active : linked[m] # m => SourceOf[m] # SourceOf[linked[m]]

\* PROC-008, as the PRD states it: the current revision is the newest one received.
CurrentIsNewest ==
    \A m \in Recorded : \A r \in DOMAIN revisions[m] :
        revisions[m][r].ver <= Latest(m).ver

\* PROC-009, as the PRD states it: a deleted message is out of canonical selection.
DeletedNotCanonical == \A m \in Msg : deleted[m] => ~canonical[m]
===============================================================================
