------------------------------ MODULE KeywordRun ------------------------------
(***************************************************************************)
(* One keyword discovery run, from the seed searches to its verdict        *)
(* (source_discovery/keyword_run.py, ranking*.py, quality_truth.py,        *)
(* active_chat*.py and worker_parts/: coordinator, lifecycle, seed_queries,*)
(* public_posts, operator_seed, linked, replacement, verification_*,       *)
(* history_*, cap_finalize, truth_state, acquisition_state, finalize).     *)
(*                                                                         *)
(* The worker asks the seed queries, then the channels they found for      *)
(* their discussion groups, ranks what was found into a pool, and reads    *)
(* the history of the pool, a page of one source at a time.  It commits    *)
(* before each call and at the end, and keeps SQLite's write lock from the *)
(* answer to the next commit: what it does in between ("decide") is not    *)
(* seen by others, and is lost with the answer if the process dies.  So a  *)
(* cancellation or a crash comes during a call or between two executions.  *)
(*                                                                         *)
(* Messages are "chat", "ask" (a countable request) or "old" (before the   *)
(* window); the thresholds of a quality source are one number of requests. *)
(* A job and its parked query carry the same time, so a claimed job never  *)
(* finds its query still waiting.  Evidence never reaches the cap at which *)
(* a search query is skipped (persistence.py keeps a reserve below it).    *)
(***************************************************************************)
EXTENDS Integers, FiniteSets, FiniteSetsExt, Functions, Sequences, SequencesExt

CONSTANTS Seeds,         \* the seed queries of the run, by ordinal
          Replacements,  \* directory queries to fall back on (profile before v8)
          Kind,          \* of each of these
          Channel,       \* channels, by telegram_id
          Source,        \* megagroups, by telegram_id
          Finds,         \* what each query and each channel leads to
          History,       \* the messages of each source, newest first
          Intent,        \* how promising the evidence found makes a source, ...
          Standing,      \* ... and what ranks those alike: title, freshness, number of hits
          Reserved,      \* places reserved in the pool for a lane
          MaxDeep, MaxPages, MaxTransient, PageSize, SourceCap, RunCap, MinRequests,
          Lost,          \* sources that may prove inaccessible
          Dismissible,   \* sources an operator may dismiss during the run
          MaxFaults,     \* bound: flood waits, transient errors and crashes
          None

AllSeeds == Seeds \o Replacements
Seed     == Range(AllSeeds)
Query    == Seed \cup Channel \cup Source

\* Two lanes have an order of their own.
Order == {"all", "LINKED_DISCUSSION", "DIRECTORY"}

QueryStates == {"queued", "running", "retry_wait", "succeeded", "failed", "cancelled",
                "quota_skipped"}
Outcomes == [stop : {"quality_reached", "window_complete", "history_exhausted", "source_cap",
                     "run_cap", "inaccessible", "cancelled"},
             truth : {"quality", "near", "rejected", "inconclusive"}]

ASSUME KeywordRunAssumption ==
    /\ Source \subseteq Nat /\ Channel \subseteq Nat /\ Source \cap Channel = {}
    /\ IsFiniteSet(Source) /\ {Seeds, Replacements} \subseteq Seq(Seed)
    /\ Seed \cap (Source \cup Channel) = {}
    /\ None \notin Query /\ None \notin QueryStates /\ None \notin Outcomes
    /\ Kind \in [Seed -> {"global_message", "directory", "public_posts", "operator_seed"}]
    /\ \A q \in Range(Replacements) : Kind[q] = "directory" /\ Finds[q] \subseteq Source
    /\ \A q \in Seed : Finds[q] \subseteq Source \cup Channel
    /\ \A c \in Channel : Finds[c] \subseteq Source
    /\ History \in [Source -> Seq({"chat", "ask", "old"})]
    /\ Intent \in [Source -> Nat] /\ Standing \in [Order -> [Source -> Nat]]
    /\ Reserved \in [{"LINKED_DISCUSSION", "DIRECTORY"} -> Nat]
    /\ {MaxDeep, MaxPages, MaxTransient, PageSize, SourceCap, RunCap, MinRequests}
           \subseteq Nat \ {0}
    /\ Lost \subseteq Source /\ Dismissible \subseteq Source
    /\ MaxFaults \in Nat

VARIABLES run, job,   \* the states of the DiscoveryRun and of its job
          wanted,     \* job.cancel_requested_at is set
          asked,      \* a cancel request has read the run, and not written yet
          query,      \* the state of each DiscoveryRunQuery row, None if there is none
          pages,      \* pages done by a paged query
          tries,      \* its transient attempts in a row
          hits,       \* queries and channels that led to sources
          more,       \* queries whose results the provider had more of
          pool,       \* acquisition_pool: what will be verified, in order
          cursor,     \* how far each history is read, and the requests seen in it
          total,      \* history_scanned_total
          outcome,    \* the DiscoveryTerminalOutcome of each source
          exhausted,  \* pool_exhausted of the counters
          gate,       \* gate_status
          ledger,     \* sources that are registered, dismissed or presented by now
          pc,         \* the worker: "idle", "decide", "call"
          phase,      \* "seeds", "linked", "pool", "replace", "resume", "fair", "over"
          quota,      \* the directory sources that make a short pool full
          at,         \* the query it is asking
          left,       \* verifications to resume first
          done,       \* sources it takes for finished
          index,      \* the ledger as it was when the job was taken
          hidden,     \* sources it has noted as suppressed
          faults

state  == <<run, job>>
search == <<pages, tries, hits, more>>
read   == <<cursor, total, outcome>>
ends   == <<exhausted, gate>>
memory == <<phase, quota, left, done, index, hidden>>
cancel == <<wanted, asked>>
vars   == <<state, cancel, query, search, pool, read, ends, ledger, pc, at, memory, faults>>

Terminal == {"succeeded", "partial", "failed", "cancelled"}
Open     == {"queued", "running", "retry_wait"}
Paged    == {q \in Seed : Kind[q] \in {"global_message", "public_posts"}}

-------------------------------------------------------------------------------
(* The pool *)

Found == UNION {Finds[q] : q \in hits}

LedBy(s, kinds) ==
    \E q \in hits : s \in Finds[q] /\ (IF q \in Channel THEN "linked" ELSE Kind[q]) \in kinds

\* build_preliminary_candidates: what was found and is not suppressed.
Candidates == (Found \cap Source) \ index

\* selected_lane; a candidate always has one of these.
Lane(s) ==
    IF LedBy(s, {"operator_seed"}) THEN "OPERATOR_SEED"
    ELSE IF LedBy(s, {"linked"})   THEN "LINKED_DISCUSSION"
    ELSE IF LedBy(s, {"directory"}) THEN "DIRECTORY"
    ELSE "SEARCH"

\* diversity_reservations_for_profile
Places(lane) ==
    IF lane = "OPERATOR_SEED"
    THEN Min({MaxDeep, Cardinality({s \in Found \cap Source : LedBy(s, {"operator_seed"})})})
    ELSE Reserved[lane]

\* preliminary_rank_key and lane_rank_key: by evidence; over all, linked sources come
\* before others; then by what else there is, and by id.
Better(order, s, t) ==
    LET linked(x) == IF order = "all" /\ LedBy(x, {"linked"}) THEN 1 ELSE 0
        standing  == Standing[order]
        alike     == Intent[s] = Intent[t] /\ linked(s) = linked(t)
    IN  \/ Intent[s] > Intent[t]
        \/ Intent[s] = Intent[t] /\ linked(s) > linked(t)
        \/ alike /\ standing[s] > standing[t]
        \/ alike /\ standing[s] = standing[t] /\ s < t

OrderOf(lane) == IF lane \in Order THEN lane ELSE "all"

\* How many of S are better.
Rank(order, S, s) == Cardinality({t \in S : Better(order, t, s)})

Best(order, S, n) == {s \in S : Rank(order, S, s) < n}

Ranked(S) == [i \in 1 .. Cardinality(S) |-> CHOOSE s \in S : Rank("all", S, s) = i - 1]

Admit(chosen, lane) ==
    chosen \cup Best(OrderOf(lane), {s \in Candidates : Lane(s) = lane},
                     Min({Places(lane), MaxDeep - Cardinality(chosen)}))

\* The first pass of select_preliminary_candidates, in LANE_ADMISSION_ORDER
Admitted == Admit(Admit(Admit({}, "OPERATOR_SEED"), "LINKED_DISCUSSION"), "DIRECTORY")

\* Seeded fault: the reserved places are not deducted.
FillOverfull(reserved) == reserved \cup Best("all", Candidates \ reserved, MaxDeep)

\* The second pass of select_preliminary_candidates: the best of the rest.
Fill(reserved) ==
    reserved \cup Best("all", Candidates \ reserved, MaxDeep - Cardinality(reserved))

\* select_preliminary_candidates
Selected == Ranked(Fill(Admitted))

\* Seeded fault: the pool is built anew whenever the run is resumed.
RebuildAlways == TRUE

\* _should_rebuild_acquisition_pool
Rebuild == pool = <<>> \/ \A s \in Source : query[s] = None

\* Seeded fault: a query that was skipped or has failed is taken for an answered one.
ProvesExhaustionAnyway(selected) ==
    /\ Len(selected) < MaxDeep
    /\ more = {}

\* _classify_acquisition_stop: nothing is left to find.
ProvesExhaustion(selected) ==
    /\ Len(selected) < MaxDeep
    /\ \A q \in Seed : query[q] \in {None, "succeeded"}
    /\ more = {}

-------------------------------------------------------------------------------
(* Reading one history *)

\* evaluate_active_client_chat
Truth(stop, asks) ==
    IF asks >= MinRequests THEN "quality"
    ELSE IF stop \in {"source_cap", "run_cap", "inaccessible", "cancelled"} THEN "inconclusive"
    ELSE IF asks > 0 THEN "near" ELSE "rejected"

Outcome(stop, asks) == [stop |-> stop, truth |-> Truth(stop, asks)]

AsksIn(messages, n) == Cardinality({i \in 1 .. n : messages[i] = "ask"})

\* The message at which reading stops, and why: the loop over a page, which holds
\* what comes after `before' and has room for `limit' more within the run's cap.
Stop(messages, before, room, k) ==
    IF messages[k] = "old" THEN "window_complete"
    ELSE IF before.asks + AsksIn(messages, k) >= MinRequests THEN "quality_reached"
    ELSE IF before.scanned + k >= SourceCap THEN "source_cap"
    ELSE IF k >= room THEN "run_cap"
    ELSE "none"

\* Seeded fault: a page begins with a new accumulator.
ProgressForgetful(before, n, asks) == [scanned |-> before.scanned + n, asks |-> asks]

\* Seeded fault: the offset is not saved.
ProgressStuck(before, n, asks) == before

\* _save_history_progress
Progress(before, n, asks) == [scanned |-> before.scanned + n, asks |-> before.asks + asks]

\* What a page that was asked for with `limit' makes of the cursor, and the reason to
\* stop after it, "none" if there is more to read.
Consumed(messages, before, room, limit) ==
    LET stops == {k \in DOMAIN messages : Stop(messages, before, room, k) # "none"}
        last  == IF stops = {} THEN Len(messages) ELSE Min(stops)
        n     == IF last > 0 /\ messages[last] = "old" THEN last - 1 ELSE last
    IN  [cursor |-> Progress(before, n, AsksIn(messages, n)),
         stop   |-> IF stops # {} THEN Stop(messages, before, room, last)
                    ELSE IF Len(messages) < limit THEN "history_exhausted" ELSE "none"]

Limit(s) == Min({PageSize, SourceCap - cursor[s].scanned, RunCap - total})

\* What asking for the next page of s gives.
Page(s) ==
    LET from == cursor[s].scanned
    IN  Consumed(SubSeq(History[s], from + 1, Min({Len(History[s]), from + Limit(s)})),
                 cursor[s], RunCap - total, Limit(s))

\* _apply_source_truth: the outcome of a source is written once.
Agrees(s, o) == outcome[s] # None => outcome[s].truth = o.truth

\* Seeded fault: it is written again.
SettledAnew(s, o) == o

Settled(s, o) == IF outcome[s] = None THEN o ELSE outcome[s]

-------------------------------------------------------------------------------
(* Taking the job *)

Init ==
    /\ run = "queued" /\ job = "queued" /\ wanted = FALSE /\ asked = FALSE
    /\ query = [q \in Query |-> IF q \in Range(Seeds) THEN "queued" ELSE None]
    /\ pages = [q \in Paged |-> 0] /\ tries = [q \in Seed \cup Channel |-> 0]
    /\ hits = {} /\ more = {}
    /\ pool = <<>> /\ exhausted = FALSE /\ gate = "inconclusive"
    /\ cursor = [s \in Source |-> [scanned |-> 0, asks |-> 0]] /\ total = 0
    /\ outcome = [s \in Source |-> None]
    /\ ledger = {}
    /\ pc = "idle" /\ at = None /\ phase = "seeds" /\ quota = 0 /\ left = {}
    /\ done = {} /\ index = {} /\ hidden = {}
    /\ faults = 0

(* process_keyword_discovery_job up to its first check; a job that can be taken has a
   run that is not over. *)
Claim ==
    /\ pc = "idle" /\ job \in {"queued", "retry_wait"}
    /\ job' = "running"
    /\ run' = IF run = "cancelling" THEN run ELSE "running"
    /\ index' = ledger
    /\ pc' = "decide"
    /\ UNCHANGED <<cancel, query, search, pool, read, ends, ledger, at, phase, quota, left,
                   done, hidden, faults>>

(* The execution ends, and what the worker had in memory is gone. *)
Idle ==
    /\ pc' = "idle" /\ at' = None /\ phase' = "seeds"
    /\ quota' = 0 /\ left' = {} /\ done' = {} /\ index' = {} /\ hidden' = {}

(* _fail_run *)
FailRun ==
    /\ run' = "failed" /\ job' = "failed"
    /\ query' = [q \in Query |-> IF query[q] = "running" THEN "failed" ELSE query[q]]
    /\ exhausted' = FALSE
    /\ Idle
    /\ UNCHANGED <<cancel, search, pool, read, gate, ledger, faults>>

(* The profile version or the rule set that the run is pinned to is missing or invalid. *)
ClaimUnfit ==
    /\ pc = "idle" /\ job \in {"queued", "retry_wait"}
    /\ FailRun

(* _commit_before_network, and the call *)
Ask(q) ==
    /\ query' = [query EXCEPT ![q] = "running"]
    /\ at' = q
    /\ pc' = "call"

\* Queries and sources are gone through in order.
FirstOf(seq, S) == seq[Min({i \in DOMAIN seq : seq[i] \in S})]

-------------------------------------------------------------------------------
(* What the worker decides between two calls; it first checks for a cancellation. *)

\* _check_cancel
CancelRequested == wanted \/ run = "cancelling"

Deciding == pc = "decide" /\ ~CancelRequested

OpenSeeds == {q \in Seed : query[q] \in Open}

(* _run_seed_queries *)
NextSeed ==
    /\ Deciding /\ phase = "seeds" /\ OpenSeeds # {}
    /\ Ask(FirstOf(AllSeeds, OpenSeeds))
    /\ UNCHANGED <<state, cancel, search, pool, read, ends, ledger, memory, faults>>

SeedsDone ==
    /\ Deciding /\ phase = "seeds" /\ OpenSeeds = {}
    /\ phase' = "linked"
    /\ UNCHANGED <<state, cancel, query, search, pool, read, ends, ledger, pc, at, quota, left,
                   done, index, hidden, faults>>

\* The channels to ask: first one that was interrupted, then those found.
Interrupted == {c \in Channel : query[c] \in Open}
Unasked     == {c \in (Found \cap Channel) \ index : query[c] = None}

(* _phase_linked_discussions *)
NextLinked ==
    /\ Deciding /\ phase = "linked" /\ Interrupted \cup Unasked # {}
    /\ Ask(Min(IF Interrupted # {} THEN Interrupted ELSE Unasked))
    /\ UNCHANGED <<state, cancel, search, pool, read, ends, ledger, memory, faults>>

LinkedDone ==
    /\ Deciding /\ phase = "linked" /\ Interrupted \cup Unasked = {}
    /\ phase' = "pool"
    /\ UNCHANGED <<state, cancel, query, search, pool, read, ends, ledger, pc, at, quota, left,
                   done, index, hidden, faults>>

\* The replacement queries that have not been asked.
Unused == {q \in Range(Replacements) : query[q] = None}

\* What the directory and the channels have led to that is not suppressed
Unseen == {s \in Source : LedBy(s, {"directory", "linked"})} \ index

(* _expand_directory_replacement: the pool is short; the queries stop when they have
   found as many new sources as it lacked when they began. *)
NextReplacement ==
    /\ Deciding /\ Unused # {}
    /\ \/ /\ phase = "pool" /\ Rebuild /\ Len(Selected) < MaxDeep
          /\ quota' = Cardinality(Unseen) + MaxDeep - Len(Selected)
       \/ /\ phase = "replace" /\ Cardinality(Unseen) < quota
          /\ UNCHANGED quota
    /\ phase' = "replace"
    /\ Ask(FirstOf(Replacements, Unused))
    /\ UNCHANGED <<state, cancel, search, pool, read, ends, ledger, left, done, index,
                   hidden, faults>>

\* _TERMINAL_VERIFICATION_STATES
Finished == {s \in Source : query[s] \in {"succeeded", "failed", "cancelled"}}

(* _phase_deep_verification up to its loops: the pool is fixed, or taken over from
   the execution that has fixed it. *)
FixPool ==
    /\ Deciding
    /\ \/ /\ phase = "pool"
          /\ ~Rebuild \/ Len(Selected) >= MaxDeep \/ Unused = {}
       \/ /\ phase = "replace"
          /\ Cardinality(Unseen) >= quota \/ Unused = {}
    /\ pool' = IF Rebuild THEN Selected ELSE pool
    /\ exhausted' = IF Rebuild THEN exhausted \/ ProvesExhaustion(Selected) ELSE exhausted
    /\ hidden' = {s \in Found \cap index : LedBy(s, {"directory", "linked"})}
    /\ done' = Finished
    /\ left' = {s \in Range(pool) : query[s] \in Open}
    /\ phase' = "resume" /\ quota' = 0
    /\ UNCHANGED <<state, cancel, query, search, read, gate, ledger, pc, at, index, faults>>

(* _resume_source_verification for a source that was being read, ... *)
Resume ==
    /\ Deciding /\ phase = "resume" /\ left # {} /\ total < RunCap
    /\ Ask(FirstOf(pool, left))
    /\ UNCHANGED <<state, cancel, search, pool, read, ends, ledger, memory, faults>>

(* ... when the others have used up what the run may read, ... *)
ResumeCapped ==
    /\ Deciding /\ phase = "resume" /\ left # {} /\ total >= RunCap
    /\ LET s == FirstOf(pool, left) IN
           /\ outcome' = [outcome EXCEPT ![s] = Settled(s, Outcome("run_cap", cursor[s].asks))]
           /\ query' = [query EXCEPT ![s] = "succeeded"]
           /\ done' = done \cup {s}
           /\ left' = left \ {s}
    /\ UNCHANGED <<state, cancel, search, pool, cursor, total, ends, ledger, pc, at, phase,
                   quota, index, hidden, faults>>

(* ... and when all have had their page. *)
ResumeDone ==
    /\ Deciding /\ phase = "resume" /\ left = {}
    /\ phase' = "fair"
    /\ UNCHANGED <<state, cancel, query, search, pool, read, ends, ledger, pc, at, quota, left,
                   done, index, hidden, faults>>

QualityFound == \E s \in Source : outcome[s] # None /\ outcome[s].truth = "quality"

\* pick_next_fair_source: the least read of the unfinished sources, earliest first.
Eligible == {i \in DOMAIN pool : pool[i] \notin done /\ cursor[pool[i]].scanned < SourceCap}
Fairest  ==
    pool[Min({i \in Eligible :
                  \A j \in Eligible : cursor[pool[i]].scanned <= cursor[pool[j]].scanned})]

(* The loop of _phase_deep_verification: one page of one source at a time, ... *)
NextPage ==
    /\ Deciding /\ phase = "fair"
    /\ total < RunCap /\ ~QualityFound /\ Eligible # {}
    /\ Ask(Fairest)
    /\ UNCHANGED <<state, cancel, search, pool, read, ends, ledger, memory, faults>>

\* _finalize_unfinished: every source of the pool that is not finished gets an outcome.
Unfinished(except) == Range(pool) \ except
SettledAll(S, stop) ==
    [s \in Source |-> IF s \in S THEN Settled(s, Outcome(stop, cursor[s].asks)) ELSE outcome[s]]

(* ... until the run has read all it may, ... *)
RunCapReached ==
    /\ Deciding /\ phase = "fair" /\ total >= RunCap
    /\ outcome' = SettledAll(Unfinished(done), "run_cap")
    /\ query' = [q \in Query |->
                    IF q \in Unfinished(done) /\ query[q] \in Open THEN "succeeded" ELSE query[q]]
    /\ phase' = "over"
    /\ UNCHANGED <<state, cancel, search, pool, cursor, total, ends, ledger, pc, at, quota,
                   left, done, index, hidden, faults>>

(* ... one of them proves good enough, or all are finished. *)
VerificationOver ==
    /\ Deciding /\ phase = "fair" /\ total < RunCap
    /\ QualityFound \/ Eligible = {}
    /\ phase' = "over"
    /\ UNCHANGED <<state, cancel, query, search, pool, read, ends, ledger, pc, at, quota, left,
                   done, index, hidden, faults>>

\* evaluate_run_gate
Gate(outcomes) ==
    LET truths == {outcomes[s].truth : s \in {t \in Source : outcomes[t] # None}}
    IN  IF "quality" \in truths THEN "pass"
        ELSE IF exhausted /\ "inconclusive" \notin truths THEN "fail"
        ELSE "inconclusive"

(* _phase_finalize_opportunities and _finish_run *)
Finish ==
    /\ Deciding /\ phase = "over"
    /\ gate' = Gate(outcome)
    /\ run' = IF \E q \in Query : query[q] \in {"quota_skipped", "failed"}
              THEN "partial" ELSE "succeeded"
    /\ job' = "succeeded"
    /\ Idle
    /\ UNCHANGED <<cancel, query, search, pool, read, exhausted, ledger, faults>>

\* Seeded fault: a source that has been read in part is left as it is.
CutShortUnread == {s \in Range(pool) : query[s] = None} \ hidden

\* The sources a cancellation cuts short.
CutShort == Unfinished(Finished \cup hidden)

(* _mark_cancelled *)
Cancelled ==
    /\ pc = "decide" /\ CancelRequested
    /\ outcome' = SettledAll(CutShort, "cancelled")
    /\ query' = [q \in Query |-> IF query[q] \in Open THEN "cancelled" ELSE query[q]]
    /\ gate' = Gate(outcome')
    /\ run' = "cancelled" /\ job' = "cancelled"
    /\ Idle
    /\ UNCHANGED <<cancel, search, pool, cursor, total, exhausted, ledger, faults>>

-------------------------------------------------------------------------------
(* What a call brings *)

Answered(q, st) ==
    /\ pc = "call" /\ at = q
    /\ query' = [query EXCEPT ![q] = st]
    /\ pc' = "decide" /\ at' = None

(* A page of a search, and there are more: _execute_global_query,
   _execute_public_posts_query *)
SeedPage(q) ==
    /\ q \in Paged /\ pages[q] + 1 < MaxPages
    /\ Answered(q, "running")
    /\ pages' = [pages EXCEPT ![q] = @ + 1] /\ tries' = [tries EXCEPT ![q] = 0]
    /\ hits' = hits \cup {q}
    /\ UNCHANGED <<state, cancel, more, pool, read, ends, ledger, memory, faults>>

(* The last page, or the one answer: the provider may hold back more. *)
SeedAnswer(q) ==
    /\ Answered(q, "succeeded")
    /\ hits' = hits \cup {q}
    /\ \/ more' = more
       \/ Kind[q] # "operator_seed" /\ more' = more \cup {q}
    /\ UNCHANGED <<state, cancel, pages, tries, pool, read, ends, ledger, memory, faults>>

(* _skip_operator_seed: for a ref that leads nowhere. *)
SeedSkipped(q) ==
    /\ Kind[q] = "operator_seed"
    /\ Answered(q, "succeeded")
    /\ UNCHANGED <<state, cancel, search, pool, read, ends, ledger, memory, faults>>

(* An invalid query or a permanent error; for posts, no free slot. *)
SeedLost(q) ==
    /\ Kind[q] # "operator_seed"
    /\ \/ Answered(q, "failed")
       \/ Kind[q] = "public_posts" /\ Answered(q, "quota_skipped")
    /\ UNCHANGED <<state, cancel, search, pool, read, ends, ledger, memory, faults>>

(* _resume_linked_query: what the channel is linked to, unless that is suppressed; *)
LinkedAnswer(c) ==
    /\ Answered(c, "succeeded")
    /\ hits' = IF Finds[c] \subseteq index THEN hits ELSE hits \cup {c}
    /\ UNCHANGED <<state, cancel, pages, tries, more, pool, read, ends, ledger, memory, faults>>

(* ... or the channel is inaccessible. *)
LinkedLost(c) ==
    /\ Answered(c, "failed")
    /\ UNCHANGED <<state, cancel, search, pool, read, ends, ledger, memory, faults>>

\* What _bump_counter adds to history_scanned_total.
Counted(s, page) == page.cursor.scanned - cursor[s].scanned

AfterPage(s) == left' = left \ {s}

(* A page of a history, counted and saved with the progress of its source, ... *)
PageRead(s) ==
    /\ pc = "call" /\ at = s
    /\ \E page \in {Page(s)} :
           /\ IF page.stop = "none"
              THEN Answered(s, "running") /\ UNCHANGED <<outcome, done>>
              ELSE LET o == Outcome(page.stop, page.cursor.asks) IN
                   /\ Agrees(s, o)
                   /\ Answered(s, "succeeded")
                   /\ outcome' = [outcome EXCEPT ![s] = Settled(s, o)]
                   /\ done' = done \cup {s}
           /\ cursor' = [cursor EXCEPT ![s] = page.cursor]
           /\ total' = total + Counted(s, page)
    /\ AfterPage(s)
    /\ UNCHANGED <<state, cancel, search, pool, ends, ledger, phase, quota, index,
                   hidden, faults>>

(* ... which must not end otherwise than it has already ended
   (terminal_outcome_immutable_mismatch): the exception leaves the job running. *)
PageRefused(s) ==
    /\ pc = "call" /\ at = s
    /\ \E page \in {Page(s)} :
           page.stop # "none" /\ ~Agrees(s, Outcome(page.stop, page.cursor.asks))
    /\ Idle
    /\ UNCHANGED <<state, cancel, query, search, pool, read, ends, ledger, faults>>

(* The source is inaccessible, or the error permanent: the query has failed and the
   source has its outcome, but the loop adds only what succeeded to `done'. *)
SourceLost(s) ==
    /\ s \in Lost
    /\ Answered(s, "failed")
    /\ outcome' = [outcome EXCEPT ![s] = Settled(s, Outcome("inaccessible", cursor[s].asks))]
    /\ AfterPage(s)
    /\ UNCHANGED <<state, cancel, search, pool, cursor, total, ends, ledger, phase, quota,
                   done, index, hidden, faults>>

-------------------------------------------------------------------------------
(* What goes wrong with a call *)

Fault == faults < MaxFaults /\ faults' = faults + 1

(* _park_flood_wait *)
Park(q) ==
    /\ pc = "call" /\ at = q
    /\ query' = [query EXCEPT ![q] = "retry_wait"]
    /\ job' = "retry_wait"
    /\ Idle

(* FloodWait: a search saves its cursor anew, without the count of its attempts. *)
Flood(q) ==
    /\ Fault /\ Park(q)
    /\ run' = "retry_wait_flood"
    /\ tries' = IF q \in Paged THEN [tries EXCEPT ![q] = 0] ELSE tries
    /\ UNCHANGED <<cancel, pages, hits, more, pool, read, ends, ledger>>

(* _handle_transient: the job waits for the next attempt, ... *)
Transient(q) ==
    /\ Fault /\ Park(q)
    /\ \/ q \in Source /\ UNCHANGED tries     \* the saved progress drops the count
       \/ /\ q \notin Source /\ tries[q] + 1 < MaxTransient
          /\ tries' = [tries EXCEPT ![q] = @ + 1]
    /\ UNCHANGED <<run, cancel, pages, hits, more, pool, read, ends, ledger>>

(* ... or that was the last. *)
TransientLast(q) ==
    /\ q \notin Source /\ tries[q] + 1 >= MaxTransient
    /\ Answered(q, "failed")
    /\ tries' = [tries EXCEPT ![q] = @ + 1]
    /\ UNCHANGED <<state, cancel, pages, hits, more, pool, read, ends, ledger, memory, faults>>

(* The authorisation is lost, or the account frozen. *)
Fatal == pc = "call" /\ FailRun

(* The process is killed, or an exception nobody handles rolls the session back; a
   cancel request that dies with the process is one that never writes. *)
Crash ==
    /\ pc = "call"
    /\ Fault /\ Idle
    /\ UNCHANGED <<state, cancel, query, search, pool, read, ends, ledger>>

-------------------------------------------------------------------------------
(* The rest of the process *)

(* The lease of a job nobody executes runs out. *)
RecoverStale ==
    /\ pc = "idle" /\ job = "running"
    /\ job' = "queued"
    /\ UNCHANGED <<run, cancel, query, search, pool, read, ends, ledger, pc, at, memory, faults>>

(* cancel_keyword_discovery_run reads the run, which must not be over, ... *)
CancelRead ==
    /\ pc \in {"idle", "call"}
    /\ ~asked /\ run \notin Terminal \cup {"cancelling"}
    /\ asked' = TRUE
    /\ UNCHANGED <<state, wanted, query, search, pool, read, ends, ledger, pc, at, memory, faults>>

(* ... waits for the job it reads next, and marks both; nothing holds the rows meanwhile. *)
CancelCommit ==
    /\ pc \in {"idle", "call"}
    /\ asked
    /\ run' = "cancelling" /\ wanted' = TRUE /\ asked' = FALSE
    /\ UNCHANGED <<job, query, search, pool, read, ends, ledger, pc, at, memory, faults>>

(* An operator dismisses or registers a source that an earlier run has found. *)
Dismiss(s) ==
    /\ pc \in {"idle", "call"} /\ s \in Dismissible \ ledger
    /\ ledger' = ledger \cup {s}
    /\ UNCHANGED <<state, cancel, query, search, pool, read, ends, pc, at, memory, faults>>

(* Nothing to claim: the loop polls. *)
Poll ==
    /\ pc = "idle" /\ job \in Terminal
    /\ UNCHANGED vars

Decide ==
    \/ NextSeed \/ SeedsDone \/ NextLinked \/ LinkedDone \/ NextReplacement \/ FixPool
    \/ Resume \/ ResumeCapped \/ ResumeDone
    \/ NextPage \/ RunCapReached \/ VerificationOver \/ Finish \/ Cancelled

Answer ==
    \/ \E q \in Seed : SeedPage(q) \/ SeedAnswer(q) \/ SeedSkipped(q) \/ SeedLost(q)
    \/ \E c \in Channel : LinkedAnswer(c) \/ LinkedLost(c)
    \/ \E s \in Source : PageRead(s) \/ PageRefused(s) \/ SourceLost(s)

Trouble ==
    \/ Fatal \/ Crash
    \/ \E q \in Query : Flood(q) \/ Transient(q) \/ TransientLast(q)

\* What the keyword loop, a call in progress and the watchdog do by themselves.
Work == Claim \/ ClaimUnfit \/ RecoverStale \/ Trouble \/ Answer \/ Decide

Next ==
    \/ Work \/ CancelRead \/ CancelCommit \/ Poll
    \/ \E s \in Dismissible : Dismiss(s)

Spec == Init /\ [][Next]_vars

(* The keyword loop claims and works on, calls are answered, leases run out. *)
FairSpec == Spec /\ WF_vars(Work)

-------------------------------------------------------------------------------
(* Properties *)

\* Every variable has its type; neither a source nor the run is read beyond its cap,
\* and the pool holds no source twice and no more than it has room for (SRC-024).
TypeOK ==
    /\ run \in Terminal \cup {"queued", "running", "retry_wait_flood", "cancelling"}
    /\ job \in Terminal \cup {"queued", "running", "retry_wait"}
    /\ wanted \in BOOLEAN /\ asked \in BOOLEAN
    /\ query \in [Query -> QueryStates \cup {None}]
    /\ pages \in [Paged -> 0 .. MaxPages - 1]
    /\ tries \in [Seed \cup Channel -> 0 .. MaxTransient]
    /\ hits \subseteq Seed \cup Channel /\ more \subseteq Seed
    /\ pool \in Seq(Source) /\ IsInjective(pool) /\ Len(pool) <= MaxDeep
    /\ cursor \in [Source -> [scanned : 0 .. SourceCap, asks : 0 .. MinRequests]]
    /\ total \in 0 .. RunCap
    /\ outcome \in [Source -> Outcomes \cup {None}]
    /\ exhausted \in BOOLEAN /\ gate \in {"pass", "fail", "inconclusive"}
    /\ ledger \subseteq Source /\ index \subseteq ledger /\ hidden \subseteq index
    /\ pc \in {"idle", "decide", "call"} /\ at \in Query \cup {None}
    /\ phase \in {"seeds", "linked", "pool", "replace", "resume", "fair", "over"}
    /\ quota \in Nat
    /\ left \subseteq Source /\ done \subseteq Source
    /\ faults \in 0 .. MaxFaults

\* The lanes that are given their places before
Earlier == [LINKED_DISCUSSION |-> {"OPERATOR_SEED"},
            DIRECTORY         |-> {"OPERATOR_SEED", "LINKED_DISCUSSION"},
            OPERATOR_SEED     |-> {}]

\* The pool as it is fixed: full, or all there is, in order; and who is left out has
\* - been passed over, for no more of a lane than that has places, by those ahead in it,
\* - as many ahead in its own lane as that has places, or as earlier lanes have left it
\*   (SRC-024).
RankedPool(p) ==
    LET left_out    == Candidates \ Range(p)
        Favoured(s) == {t \in Range(p) : Better("all", s, t)}
        Ahead(s)    == {t \in Range(p) : Lane(t) = Lane(s) /\ Better(OrderOf(Lane(s)), t, s)}
        Before(s)   == {t \in Range(p) : Lane(t) \in Earlier[Lane(s)]}
    IN  /\ Range(p) \subseteq Candidates
        /\ left_out # {} => Len(p) = MaxDeep
        /\ \A i, j \in DOMAIN p : i < j => Better("all", p[i], p[j])
        /\ \A s \in left_out : \A t \in Favoured(s) :
               /\ Lane(t) # "SEARCH"
               /\ Lane(t) = Lane(s) => t \in Ahead(s)
               /\ Cardinality({u \in Favoured(s) : Lane(u) = Lane(t)}) <= Places(Lane(t))
        /\ \A s \in left_out :
               Lane(s) # "SEARCH" =>
                   Cardinality(Ahead(s)) >=
                       Min({Places(Lane(s)), MaxDeep - Cardinality(Before(s))})

\* The pool is ranked when it is fixed and then stays: no park, crash or dismissal lets
\* a resumed run verify other sources than the ones it has begun with (SRC-048).
PoolFixed ==
    [][IF pool = <<>> THEN RankedPool(pool') ELSE UNCHANGED pool]_<<pool>>

\* What a source would come to if it were read alone and without interruption
Alone(s) ==
    LET page == Consumed(SubSeq(History[s], 1, Min({Len(History[s]), SourceCap})),
                         [scanned |-> 0, asks |-> 0], SourceCap + 1, SourceCap + 1)
    IN  Outcome(page.stop, page.cursor.asks)

\* Reading in turns, page by page, over parks and crashes, counts every message and
\* every request once, and comes to the same outcome as reading the source alone
\* (SRC-048: "byte-equivalent outcome").
ReadOnce ==
    /\ total = SumFunction([s \in Source |-> cursor[s].scanned])
    /\ \A s \in Source :
           /\ cursor[s].asks = AsksIn(History[s], cursor[s].scanned)
           /\ outcome[s] = None \/ outcome[s] = Alone(s)
                 \/ outcome[s].stop \in {"run_cap", "inaccessible", "cancelled"}

\* When the run is over every source of its pool has an outcome, unless a better one has
\* ended it; after a cancellation, unless it was dismissed meanwhile (SRC-046).
PoolSettled ==
    /\ \A s \in Source : outcome[s] # None => s \in Range(pool)
    /\ run \in {"succeeded", "partial"} /\ ~QualityFound =>
           \A s \in Range(pool) : outcome[s] # None
    /\ run = "cancelled" => \A s \in Range(pool) \ ledger : outcome[s] # None

\* The gate fails only on proof: every search was answered in full, and each source of
\* the pool read to the end and found wanting, whichever execution did it (SRC-047).
FailIsProven ==
    gate = "fail" =>
        /\ \A q \in Seed : query[q] \in {None, "succeeded"} /\ q \notin more
        /\ \A s \in Range(pool) \ ledger :
               outcome[s] # None /\ outcome[s].truth \in {"near", "rejected"}

\* The run implements the abstract run: outcomes are written by the execution that holds
\* the job only, none is changed, and none is added after the run's end, which only a
\* cancel request can write over that had read the run before it (SRC-046, SRC-053).
Abstract == INSTANCE DiscoveryRun WITH
                Item <- Source, NoResult <- None, result <- outcome,
                state <- IF job \in Terminal THEN run ELSE "open",
                held <- job = "running",
                asked <- IF asked THEN "mark" ELSE "none"
Implements == Abstract!Spec

Spoilt == \E s \in Source : outcome[s] # None /\ outcome[s].stop = "inaccessible"

\* Every run ends and stays so, unless one of its sources has proved inaccessible and
\* nobody cancels the run; and one that was marked before its end ends as cancelled, or
\* as failed (SRC-028, SRC-053).
RunEnds ==
    []<>(\/ job \in Terminal /\ (wanted => run \in {"cancelled", "failed", "cancelling"})
         \/ Spoilt /\ run # "cancelling")

\* SRC-046 and pick_next_fair_source ("next unfinished source"): a source that has its
\* outcome is not read again.
NotReadAgain == pc = "call" /\ at \in Source => outcome[at] = None

\* SRC-038, SRC-047 as the PRD states them: a run that was cancelled, or is partial,
\* proves nothing.
UnfinishedProvesNothing == run \in {"cancelled", "partial"} => gate # "fail"

\* SRC-046, as the PRD states it: each source of a cancelled run's pool has an outcome.
CancelledPoolSettled == run = "cancelled" => \A s \in Range(pool) : outcome[s] # None

\* A run that is over has no query that is not.
QueriesClosed == run \in Terminal => \A q \in Query : query[q] \notin Open

\* SRC-053, as the PRD states it: a run that is not over has a job that will end it.
ActiveRunHasJob == run \notin Terminal => job \in Open
===============================================================================
