------------------------------ MODULE SourceLedger ------------------------------
(***************************************************************************)
(* What becomes of a source that keyword runs have found: published as a   *)
(* result, promoted to the registry or dismissed, approved and monitored,  *)
(* and kept out of later runs by the ledgers (source_discovery/promotion,  *)
(* source_lifecycle, identity, worker_parts/registry and truth_state,      *)
(* storage/dismissed_suppress, presented_suppress, retention_discovery,    *)
(* dashboard/discovery).                                                   *)
(*                                                                         *)
(* A source is its telegram_id; its public username may change and may be  *)
(* taken over by another.  Sources in the ledgers are suppressed by id on  *)
(* every path; some paths also compare usernames, which makes a run find   *)
(* fewer sources, and any run may find any of the sources.  What a run     *)
(* makes of the sources it reads is in KeywordRun.                         *)
(***************************************************************************)
EXTENDS Integers, FiniteSets, FiniteSetsExt, Functions

CONSTANTS Peer,           \* sources, by telegram_id
          Name,           \* usernames
          MaxRuns,        \* bound: keyword runs
          MaxActs,        \* bound: what operators do, and changes of a username
          None

ASSUME SourceLedgerAssumption ==
    /\ IsFiniteSet(Name) /\ Cardinality(Peer) <= Cardinality(Name)
    /\ {MaxRuns, MaxActs} \subseteq Nat
    /\ None \notin Peer \cup Name

SourceStates == {"candidate", "rejected", "monitoring", "paused", "disabled"}

\* What the rows consist of
SourceRow  == [state : SourceStates, name : Name]
Dismissal  == [id : Nat, version : Nat]
Snapshot   == [name : Name, review : {"unreviewed", "promoted", "dismissed"},
               source : Peer \cup {None}]

ASSUME NoneAssumption == None \notin SourceRow \cup Dismissal \cup Snapshot

Run == 1 .. MaxRuns

VARIABLES name,       \* the username each source has on Telegram
          acts,
          registry,   \* the TelegramSource of each source: its state and stored username
          dismissed,  \* its DismissedKeywordSource: row id and version
          presented,  \* the suppress_class of its PresentedKeywordSource
          snaps,      \* the SourceOpportunitySnapshot of each run and source
          run,        \* the number of the latest run
          index,      \* the ids this run suppresses, as of the claim of its job
          pool,       \* the username under which it has found each source it will read
          phase,      \* "over", "search", "read"
          requests,   \* the review requests that have read their snapshot
          form,       \* the reconsider form an operator has open
          approving,  \* the source that an approve request is validating
          deciding,   \* the other decisions on sources whose row has been read
          hid,        \* history: sources dismissed whose suppression was not lifted since
          shown,      \* history: sources published as quality
          known       \* history: what this run had to leave out when it was claimed

ledgers == <<registry, dismissed, presented, snaps>>
worker  == <<run, index, pool, phase>>
ui      == <<requests, form, approving, deciding>>
history == <<hid, shown, known>>
vars    == <<name, acts, ledgers, worker, ui, history>>

Registered == {p \in Peer : registry[p] # None}

Init ==
    /\ name \in {f \in [Peer -> Name] : IsInjective(f)} /\ acts = 0
    /\ registry = [p \in Peer |-> None]
    /\ dismissed = [p \in Peer |-> None]
    /\ presented = [p \in Peer |-> None]
    /\ snaps = [r \in Run |-> [p \in Peer |-> None]]
    /\ run = 0 /\ index = {} /\ pool = [p \in Peer |-> None] /\ phase = "over"
    /\ requests = {} /\ form = None /\ approving = None /\ deciding = {}
    /\ hid = {} /\ shown = {} /\ known = {}

Act == acts < MaxActs /\ acts' = acts + 1

(* A source takes another free username. *)
Rename(p, n) ==
    /\ Act /\ n \notin Range(name)
    /\ name' = [name EXCEPT ![p] = n]
    /\ UNCHANGED <<ledgers, worker, ui, history>>

-------------------------------------------------------------------------------
(* Keyword runs *)

\* Seeded fault: a source is left out for a dismissed snapshot of it.
SuppressedBySnapshots ==
    Registered \cup {p \in Peer : presented[p] = "quality"}
    \cup {p \in Peer : \E r \in Run : snaps[r][p] # None /\ snaps[r][p].review = "dismissed"}

\* _load_registry, _load_dismissed_sources, _load_presented_sources
Suppressed ==
    Registered \cup {p \in Peer : presented[p] = "quality"}
    \cup {p \in Peer : dismissed[p] # None}

(* The job of a new run is claimed, or again that of a run that has no pool yet. *)
Claim ==
    /\ \/ phase = "over" /\ run < MaxRuns /\ run' = run + 1
       \/ phase = "search" /\ run' = run
    /\ phase' = "search"
    /\ index' = Suppressed
    /\ known' = Registered \cup hid \cup shown
    /\ UNCHANGED <<name, acts, ledgers, pool, ui, hid, shown>>

(* build_preliminary_candidates, of what the searches have found *)
FixPool(found) ==
    /\ phase = "search"
    /\ pool' = [p \in Peer |-> IF p \in found \ index THEN name[p] ELSE None]
    /\ phase' = "read"
    /\ UNCHANGED <<name, acts, ledgers, run, index, ui, history>>

\* upsert_presented_suppress: a quality source stays one.
Presented(old, quality) == IF quality \/ old = "quality" THEN "quality" ELSE "non_quality"

(* _apply_source_truth *)
Publish(p, quality) ==
    /\ phase = "read" /\ pool[p] # None /\ snaps[run][p] = None
    /\ snaps' = [snaps EXCEPT ![run][p] =
                    [name |-> pool[p], review |-> "unreviewed", source |-> None]]
    /\ presented' = [presented EXCEPT ![p] = Presented(@, quality)]
    /\ shown' = IF quality THEN shown \cup {p} ELSE shown
    /\ UNCHANGED <<name, acts, registry, dismissed, worker, ui, hid, known>>

EndRun ==
    /\ phase # "over"
    /\ phase' = "over"
    /\ index' = {} /\ pool' = [p \in Peer |-> None] /\ known' = {}
    /\ UNCHANGED <<name, acts, ledgers, run, ui, hid, shown>>

(* purge_unpromoted_opportunity_snapshots, 90 days after the run r and the ones before; the
   ledgers are kept. *)
Purge(r) ==
    /\ r < run \/ (r = run /\ phase = "over")
    /\ snaps' = [q \in Run |-> [p \in Peer |->
                    IF q <= r /\ snaps[q][p] # None /\ snaps[q][p].source = None
                    THEN None ELSE snaps[q][p]]]
    /\ UNCHANGED <<name, acts, registry, dismissed, presented, worker, ui, history>>

-------------------------------------------------------------------------------
(* The operator reviews a result *)

\* The review states from which a verdict is possible; a verdict that was given before
\* changes nothing, or dismisses again.
Reviewable(verdict) == IF verdict = "dismiss" THEN {"unreviewed", "dismissed"} ELSE {"unreviewed"}

InState(verdict, r, p) == snaps[r][p] # None /\ snaps[r][p].review \in Reviewable(verdict)

(* promote_opportunity_to_candidate, dismiss_opportunity: up to their checks *)
Review(verdict, r, p) ==
    /\ Act /\ InState(verdict, r, p)
    /\ requests' = requests \cup {[verdict |-> verdict, run |-> r, peer |-> p]}
    /\ UNCHANGED <<name, ledgers, worker, form, approving, deciding, history>>

\* Seeded fault: a source is looked up by its id only.
FindSourceById(p, n) == {p} \cap Registered

\* _find_source_by_identity: by id, then by stored username; nothing stores an alias.
FindSource(p, n) ==
    IF p \in Registered THEN {p} ELSE {q \in Registered : registry[q].name = n}

Promote(r, p) ==
    LET n      == snaps[r][p].name
        found  == FindSource(p, n)
        source == IF found = {} THEN p ELSE CHOOSE q \in found : TRUE
    IN  /\ registry' = IF found = {}
                       THEN [registry EXCEPT ![p] = [state |-> "candidate", name |-> n]]
                       ELSE registry
        /\ snaps' = [snaps EXCEPT ![r][p].review = "promoted", ![r][p].source = source]
        /\ UNCHANGED <<dismissed, hid>>

\* The id SQLite gives the next row: the one after the highest in use.
NextId == Max({0} \cup {dismissed[p].id : p \in {q \in Peer : dismissed[q] # None}}) + 1

\* upsert_dismiss_suppress
Upserted(row) ==
    IF row = None THEN [id |-> NextId, version |-> 1] ELSE [row EXCEPT !.version = @ + 1]

Dismiss(r, p) ==
    /\ dismissed' = [dismissed EXCEPT ![p] = Upserted(@)]
    /\ snaps' = [snaps EXCEPT ![r][p].review = "dismissed"]
    /\ hid' = hid \cup {p}
    /\ UNCHANGED registry

(* ... and what they write, by the key of a snapshot that is still there: the review state
   may be another by now. *)
Reviewed(q) ==
    /\ snaps[q.run][q.peer] # None
    /\ IF q.verdict = "promote" THEN Promote(q.run, q.peer) ELSE Dismiss(q.run, q.peer)
    /\ requests' = requests \ {q}
    /\ UNCHANGED <<name, acts, presented, worker, form, approving, deciding, shown, known>>

(* The request fails: its snapshot is gone, or the transaction is rolled back. *)
ReviewFails(q) ==
    /\ requests' = requests \ {q}
    /\ UNCHANGED <<name, acts, ledgers, worker, form, approving, deciding, history>>

\* A result of the source is there to be looked at.
HasResult(p) == \E r \in Run : snaps[r][p] # None

(* The page of a result shows the suppression of its source and a form to lift it. *)
OpenForm(p) ==
    /\ Act /\ HasResult(p) /\ dismissed[p] # None
    /\ form' = [peer |-> p, id |-> dismissed[p].id, version |-> dismissed[p].version]
    /\ UNCHANGED <<name, ledgers, worker, requests, approving, deciding, history>>

RowOf(id) == {p \in Peer : dismissed[p] # None /\ dismissed[p].id = id}

(* reconsider_dismiss_suppress: the row with the posted id, whosever it is by now, or else
   that of the source, if it has the posted version; the form may be sent again. *)
Reconsider ==
    /\ form # None /\ HasResult(form.peer)
    /\ \E p \in IF RowOf(form.id) # {} THEN RowOf(form.id) ELSE {form.peer} :
           /\ dismissed[p] # None /\ dismissed[p].version = form.version
           /\ dismissed' = [dismissed EXCEPT ![p] = None]
           /\ hid' = hid \ {p}
    /\ UNCHANGED <<name, acts, registry, presented, snaps, worker, ui, shown, known>>

-------------------------------------------------------------------------------
(* The operator decides on a source of the registry *)

\* approve_source reads the source and commits, ...
Approve(p) ==
    /\ Act /\ approving = None /\ p \in Registered /\ registry[p].state = "candidate"
    /\ approving' = p
    /\ UNCHANGED <<name, ledgers, worker, requests, form, deciding, history>>

\* ... validates it on Telegram, and writes what it has learned.  The state it checks
\* again is the one it has read before: the session does not expire what it has loaded.
Approved ==
    /\ approving # None
    /\ \A p \in Registered \ {approving} : registry[p].name # name[approving]
    /\ registry' = [registry EXCEPT ![approving] =
                       [state |-> "monitoring", name |-> name[approving]]]
    /\ approving' = None
    /\ UNCHANGED <<name, acts, dismissed, presented, snaps, worker, requests, form, deciding,
                   history>>

(* The validation fails, or the username belongs to another row. *)
ApproveFails ==
    /\ approving # None
    /\ approving' = None
    /\ UNCHANGED <<name, acts, ledgers, worker, requests, form, deciding, history>>

\* reject, reconsider, pause, resume, disable
Transitions == {<<"candidate", "rejected">>, <<"rejected", "candidate">>,
                <<"monitoring", "paused">>, <<"paused", "monitoring">>,
                <<"monitoring", "disabled">>, <<"paused", "disabled">>}

(* _transition_source: up to its check, *)
Decide(p, to) ==
    /\ Act /\ p \in Registered /\ <<registry[p].state, to>> \in Transitions
    /\ deciding' = deciding \cup {[peer |-> p, to |-> to]}
    /\ UNCHANGED <<name, ledgers, worker, requests, form, approving, history>>

(* ... and its flush, whatever the state of the row is by then. *)
Transition(d) ==
    /\ registry' = [registry EXCEPT ![d.peer].state = d.to]
    /\ deciding' = deciding \ {d}
    /\ UNCHANGED <<name, acts, dismissed, presented, snaps, worker, requests, form, approving,
                   history>>

(* The transaction is rolled back. *)
DecideFails(d) ==
    /\ deciding' = deciding \ {d}
    /\ UNCHANGED <<name, acts, ledgers, worker, requests, form, approving, history>>

Next ==
    \/ \E p \in Peer, n \in Name : Rename(p, n)
    \/ Claim \/ EndRun
    \/ \E found \in SUBSET Peer : FixPool(found)
    \/ \E p \in Peer, quality \in BOOLEAN : Publish(p, quality)
    \/ \E r \in Run : Purge(r)
    \/ \E verdict \in {"promote", "dismiss"}, r \in Run, p \in Peer : Review(verdict, r, p)
    \/ \E q \in requests : Reviewed(q) \/ ReviewFails(q)
    \/ \E p \in Peer : OpenForm(p) \/ Approve(p)
    \/ Reconsider \/ Approved \/ ApproveFails
    \/ \E p \in Peer, to \in SourceStates : Decide(p, to)
    \/ \E d \in deciding : Transition(d) \/ DecideFails(d)

Spec == Init /\ [][Next]_vars

-------------------------------------------------------------------------------
(* Properties *)

\* Every variable has its type; no two sources of the registry have the same stored
\* username, and no two dismissals the same row id.
TypeOK ==
    /\ name \in [Peer -> Name] /\ IsInjective(name) /\ acts \in 0 .. MaxActs
    /\ registry \in [Peer -> SourceRow \cup {None}]
    /\ \A p, q \in Registered : registry[p].name = registry[q].name => p = q
    /\ dismissed \in [Peer -> Dismissal \cup {None}]
    /\ \A p \in Peer : dismissed[p] # None => RowOf(dismissed[p].id) = {p}
    /\ presented \in [Peer -> {None, "quality", "non_quality"}]
    /\ snaps \in [Run -> [Peer -> Snapshot \cup {None}]]
    /\ \A r \in Run, p \in Peer : snaps[r][p] # None =>
           (snaps[r][p].source # None => snaps[r][p].source \in Registered)
    /\ run \in 0 .. MaxRuns /\ phase \in {"over", "search", "read"}
    /\ index \subseteq Peer /\ pool \in [Peer -> Name \cup {None}]
    /\ requests \subseteq [verdict : {"promote", "dismiss"}, run : Run, peer : Peer]
    /\ form \in [peer : Peer, id : Nat, version : Nat] \cup {None}
    /\ approving \in Registered \cup {None}
    /\ deciding \subseteq [peer : Registered, to : SourceStates]
    /\ hid \subseteq Peer /\ shown \subseteq Peer /\ known \subseteq Peer

\* A run publishes no source that was registered, dismissed by an operator, or shown as
\* quality, when the run was claimed: whatever it is called by now, whatever requests have
\* overlapped, and whether or not retention has removed the result (SRC-031, SRC-035,
\* SRC-041).  A dismissal counts until its suppression is lifted, by a form of its source
\* or, see OwnSuppressionLifted, by an old one of another.
HiddenWhileKnown ==
    [][\A p \in Peer : (phase = "read" /\ snaps[run][p] = None /\ snaps'[run][p] # None)
           => p \notin known]_vars

\* SRC-010 to SRC-012, as the PRD states them: a source leaves a state by the operator's
\* transition from that state, so a rejected or disabled one is not monitored.
LifecycleLegal ==
    [][\A p \in Registered : registry'[p].state # registry[p].state =>
           <<registry[p].state, registry'[p].state>>
               \in Transitions \cup {<<"candidate", "monitoring">>}]_vars

\* SRC-026, as the PRD states it: the verdict on a result is given once.
OneVerdict ==
    [][\A r \in Run, p \in Peer :
           (snaps[r][p] # None /\ snaps[r][p].review # "unreviewed" /\ snaps'[r][p] # None)
               => snaps'[r][p].review = snaps[r][p].review]_vars

\* SRC-036, as the PRD states it: a suppression ends only when its own source is
\* reconsidered.
OwnSuppressionLifted ==
    [][\A p \in Peer : dismissed[p] # None /\ dismissed'[p] = None => form.peer = p]_vars

\* SRC-022: a result that was promoted has become a source of its own identity.
PromotedIsItsSource ==
    \A r \in Run, p \in Peer : snaps[r][p] # None => snaps[r][p].source \in {None, p}

\* SRC-036: what is suppressed can be reconsidered, by the page of a result.
CanReconsider == \A p \in Peer : dismissed[p] # None => HasResult(p)
===============================================================================
