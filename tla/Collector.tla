------------------------------- MODULE Collector -------------------------------
(***************************************************************************)
(* The collector of one source (collector/service.py): live updates, the   *)
(* backfill chain and the reconciliation jobs that fill the inbox, and the *)
(* checkpoint they share.                                                  *)
(*                                                                         *)
(* Messages of the chat are numbered in the order they are posted.  Each   *)
(* write transaction is one step; the requests to Telegram lie between     *)
(* transactions.  A lease may run out at any time (JobLease has the        *)
(* clock), and so may a retry delay.                                       *)
(***************************************************************************)
EXTENDS Integers, Sequences, FiniteSets, FiniteSetsExt

CONSTANTS MaxMsg,         \* bound: how many messages the chat ever has
          Old,            \* messages up to this one predate every backfill window
          PageLimit,      \* HISTORY_PAGE_LIMIT
          StartupLimit,   \* STARTUP_RECONCILE_BATCH
          PeriodicLimit,  \* PERIODIC_RECONCILE_BATCH
          MaxBackfill,    \* BACKFILL_MAX_MESSAGES
          Batch,          \* PERSIST_BATCH_SIZE
          MaxAttempts,    \* len(TRANSIENT_RETRY_OFFSETS_SEC)
          MaxIncidents    \* bound: edits, deletions, pauses, periodic reconciliations,
                          \* crashes, uncaught errors and failed ingests, all told

ASSUME CollectorAssumption ==
    /\ MaxMsg \in Nat /\ Old \in 0 .. MaxMsg
    /\ {PageLimit, StartupLimit, PeriodicLimit} \subseteq Nat \ {0}
    /\ {MaxBackfill, Batch, MaxAttempts} \subseteq Nat \ {0}
    /\ MaxIncidents \in Nat

Msg == 1 .. MaxMsg

VARIABLES posted,      \* the newest message id of the chat
          chat,        \* the messages still in the chat
          events,      \* edits and deletions so far
          lifecycle,   \* TelegramSource.lifecycle_state
          inbox,       \* TelegramEventEnvelope rows: event type and message
          checkpoint,  \* CollectorCheckpoint.last_committed_message_id
          jobs,        \* the source's collector jobs in the order of their ids
          up,          \* the process runs and its Telegram loops are started
          started,     \* this process has enqueued its startup reconciliation
          listening,   \* the handlers of iter_updates are registered
          live,        \* the queue of iter_updates
          pc, run,     \* where the collector loop stands, and with what
          buckets, faults, pauses,
          top          \* history: the newest message of the initial backfill

vars == <<posted, chat, events, lifecycle, inbox, checkpoint, jobs, up, started,
          listening, live, pc, run, buckets, faults, pauses, top>>
telegram == <<posted, chat, events>>
process  == <<up, started, listening>>
bounds   == <<buckets, faults, pauses>>

EventType == {"message_new", "message_edited", "message_deleted"}
Reconciliation == {"startup_reconciliation", "periodic_reconciliation"}
Chain == {"initial_backfill", "continuation"}
Finished == {"succeeded", "failed", "cancelled", "dead"}

NoRun == [job |-> 0, after |-> 0, before |-> 0, limit |-> 0,
          got |-> {}, todo |-> {}, full |-> FALSE, hit |-> FALSE]

AnotherIncident == events + buckets + faults + pauses < MaxIncidents

-------------------------------------------------------------------------------
(* The chat (external) and the queue of iter_updates *)

\* An update reaches the process only while its handlers are registered.
Deliver(type, m) ==
    live' = IF listening THEN Append(live, [type |-> type, msg |-> m]) ELSE live

Post ==
    /\ posted < MaxMsg
    /\ posted' = posted + 1
    /\ chat' = chat \cup {posted + 1}
    /\ Deliver("message_new", posted + 1)
    /\ UNCHANGED <<events, lifecycle, inbox, checkpoint, jobs, process, pc, run,
                   bounds, top>>

Edit(m) ==
    /\ AnotherIncident
    /\ events' = events + 1
    /\ Deliver("message_edited", m)
    /\ UNCHANGED <<posted, chat, lifecycle, inbox, checkpoint, jobs, process, pc,
                   run, bounds, top>>

Delete(m) ==
    /\ AnotherIncident
    /\ events' = events + 1
    /\ chat' = chat \ {m}
    /\ Deliver("message_deleted", m)
    /\ UNCHANGED <<posted, lifecycle, inbox, checkpoint, jobs, process, pc, run,
                   bounds, top>>

-------------------------------------------------------------------------------
(* Envelopes and the checkpoint *)

\* The checkpoint after the messages of S are committed, oldest first.
Advanced(S) == Max(S \cup {checkpoint})

\* commit_checkpoint_with_envelope for each message of S, in one transaction;
\* a deletion leaves the checkpoint alone.
Commit(type, S) ==
    /\ inbox' = inbox \cup {[type |-> type, msg |-> m] : m \in S}
    /\ checkpoint' = IF type = "message_deleted" THEN checkpoint ELSE Advanced(S)

(* ingest_live_update: an update of a source that is not monitored is dropped. *)
Ingest ==
    /\ listening /\ live # <<>>
    /\ live' = Tail(live)
    /\ IF lifecycle = "monitoring"
       THEN Commit(Head(live).type, {Head(live).msg})
       ELSE UNCHANGED <<inbox, checkpoint>>
    /\ UNCHANGED <<telegram, lifecycle, jobs, process, pc, run, bounds, top>>

(* A failed ingest ends iter_updates: the handlers and the queue are gone until
   the live loop comes round again. *)
IngestFails ==
    /\ AnotherIncident
    /\ listening /\ live # <<>>
    /\ faults' = faults + 1
    /\ listening' = FALSE
    /\ live' = <<>>
    /\ UNCHANGED <<telegram, lifecycle, inbox, checkpoint, jobs, up, started, pc,
                   run, buckets, pauses, top>>

Listen ==
    /\ up /\ ~listening
    /\ listening' = TRUE
    /\ UNCHANGED <<telegram, lifecycle, inbox, checkpoint, jobs, up, started, live,
                   pc, run, bounds, top>>

-------------------------------------------------------------------------------
(* Jobs *)

\* enqueue_job: a row with this dedupe key, finished or not, is returned as is.
Enqueued(rows, type, key, cum) ==
    IF \E j \in DOMAIN rows : rows[j].type = type /\ rows[j].key = key
    THEN rows
    ELSE Append(rows, [type |-> type, key |-> key, state |-> "queued",
                       leased |-> FALSE, cum |-> cum, attempt |-> 0])

\* recover_stale_jobs: the rows of S, whose lease has run out, are queued and
\* have no lease any more.
Requeued(S) ==
    [j \in DOMAIN jobs |-> IF j \in S
                           THEN [jobs[j] EXCEPT !.state = "queued", !.leased = FALSE]
                           ELSE jobs[j]]

\* The rows recover_stale_jobs selects once their lease has run out: a running
\* row without a lease is not among them.
MayBeStale == {j \in DOMAIN jobs : jobs[j].state = "running" /\ jobs[j].leased}

\* The row claim_job takes: the first that is queued, or a parked one before it
\* whose delay is over.
MayClaim(rows, j) ==
    /\ rows[j].state \in {"queued", "retry_wait"}
    /\ \A k \in 1 .. j - 1 : rows[k].state # "queued"

\* approve_source: monitoring starts and the initial backfill is enqueued.
Approve ==
    /\ up /\ lifecycle = "candidate"
    /\ lifecycle' = "monitoring"
    /\ jobs' = Enqueued(jobs, "initial_backfill", 0, 0)
    /\ UNCHANGED <<telegram, inbox, checkpoint, process, live, pc, run, bounds, top>>

Transition(from, to) ==
    /\ up /\ lifecycle \in from
    /\ lifecycle' = to
    /\ UNCHANGED <<telegram, inbox, checkpoint, jobs, process, live, pc, run, buckets,
                   faults, top>>

Pause ==
    /\ AnotherIncident
    /\ pauses' = pauses + 1
    /\ Transition({"monitoring"}, "paused")

Resume  == Transition({"paused"}, "monitoring") /\ UNCHANGED pauses
Disable == Transition({"monitoring", "paused"}, "disabled") /\ UNCHANGED pauses

EnqueueFor(type, key) ==
    jobs' = IF lifecycle = "monitoring" THEN Enqueued(jobs, type, key, 0) ELSE jobs

(* enqueue_startup_reconciliation, once the Telegram loops are started; the key
   is the process's startup token. *)
EnqueueStartup ==
    /\ up /\ ~started
    /\ started' = TRUE
    /\ EnqueueFor("startup_reconciliation", faults)
    /\ UNCHANGED <<telegram, lifecycle, inbox, checkpoint, up, listening, live, pc,
                   run, bounds, top>>

(* enqueue_periodic_reconciliation; the key is the 15-minute bucket. *)
EnqueuePeriodic ==
    /\ started /\ AnotherIncident
    /\ buckets' = buckets + 1
    /\ EnqueueFor("periodic_reconciliation", buckets + 1)
    /\ UNCHANGED <<telegram, lifecycle, inbox, checkpoint, process, live, pc, run,
                   faults, pauses, top>>

(* The watchdog's recover_stale_jobs. *)
RecoverStale ==
    /\ up
    /\ \E S \in SUBSET MayBeStale \ {{}} : jobs' = Requeued(S)
    /\ UNCHANGED <<telegram, lifecycle, inbox, checkpoint, process, live, pc, run,
                   bounds, top>>

-------------------------------------------------------------------------------
(* The collector loop *)

\* Job.state of row j; its lease counts for as long as it is running.
SetState(j, s) == [jobs EXCEPT ![j].state = s, ![j].leased = @ /\ s = "running"]

Row == jobs[run.job]

\* The loop turns to its next claim.
Done ==
    /\ pc' = "idle"
    /\ run' = NoRun

(* claim_job under run_write: stale rows are requeued and a row is taken. *)
Claim ==
    /\ up /\ pc = "idle"
    /\ \E S \in SUBSET MayBeStale :
         LET rows == Requeued(S)
         IN  \E j \in DOMAIN jobs :
               /\ MayClaim(rows, j)
               /\ jobs' = [rows EXCEPT ![j].state = "running", ![j].leased = TRUE,
                                        ![j].attempt = @ + 1]
               /\ run' = [NoRun EXCEPT !.job = j]
    /\ pc' = "claimed"
    /\ UNCHANGED <<telegram, lifecycle, inbox, checkpoint, process, live, bounds, top>>

(* claim_job finds no row: the loop sleeps and polls again. *)
ClaimNothing ==
    /\ up /\ pc = "idle"
    /\ \A j \in DOMAIN jobs : jobs[j].state # "queued"
    /\ UNCHANGED vars

\* Seeded fault: the job of a source that is not monitored goes ahead.
MayPrepareAnyway == TRUE

\* _prepare_backfill refuses a job whose source is not monitored.
MayPrepare == lifecycle = "monitoring"

\* Reconciliation goes forward from the checkpoint, the backfill chain goes
\* back from its cursor (for a continuation, its dedupe key).
Request ==
    [run EXCEPT !.after  = IF Row.type \in Reconciliation THEN checkpoint ELSE 0,
                !.before = IF Row.type = "continuation" THEN Row.key ELSE MaxMsg + 1,
                !.limit  = CASE Row.type = "startup_reconciliation" -> StartupLimit
                             [] Row.type = "periodic_reconciliation" -> PeriodicLimit
                             [] OTHER -> PageLimit]

(* _prepare_backfill: "running" is written again, and no lease: a row that lost
   its lease to a recovery since the claim goes on without one. *)
Prepare ==
    /\ pc = "claimed"
    /\ \/ /\ MayPrepare
          /\ jobs' = SetState(run.job, "running")
          /\ pc' = "prepared"
          /\ run' = Request
       \/ /\ ~MayPrepare
          /\ jobs' = SetState(run.job, "failed")
          /\ Done
    /\ UNCHANGED <<telegram, lifecycle, inbox, checkpoint, process, live, bounds, top>>

\* The n smallest members of S.
Oldest(S, n) == {m \in S : Cardinality({k \in S : k < m}) < n}

\* iter_history: the newest messages between min_id and offset_id.
Page ==
    LET range == {m \in chat : run.after < m /\ m < run.before}
    IN  {m \in range : Cardinality({k \in range : k > m}) < run.limit}

\* The accepting loop reads the page oldest first.  A message older than the
\* window ends it, and so does the cap on the chain.
HitWindow(page) == Row.type \in Chain /\ \E m \in page : m <= Old

\* The messages of the page that are kept.
Accepted(page) ==
    IF Row.type \notin Chain THEN page
    ELSE IF HitWindow(page) THEN {} ELSE Oldest(page, MaxBackfill - Row.cum)

(* fetch_history_page returns. *)
Fetch ==
    /\ pc = "prepared"
    /\ pc' = "persist"
    /\ run' = [run EXCEPT !.got = Accepted(Page), !.todo = Accepted(Page),
                          !.full = Cardinality(Page) = run.limit,
                          !.hit = HitWindow(Page)]
    /\ top' = IF Row.type = "initial_backfill" THEN Max(Page \cup {0}) ELSE top
    /\ UNCHANGED <<telegram, lifecycle, inbox, checkpoint, jobs, process, live, bounds>>

\* Seeded fault: the attempt is taken back twice.
RefundedTwice(n) == n - 2

\* The attempt the claim counted is taken back.
Refunded(n) == IF n > 0 THEN n - 1 ELSE n

(* _mark_flood_wait *)
FloodWait ==
    /\ pc = "prepared"
    /\ jobs' = [SetState(run.job, "retry_wait") EXCEPT ![run.job].attempt = Refunded(@)]
    /\ Done
    /\ UNCHANGED <<telegram, lifecycle, inbox, checkpoint, process, live, bounds, top>>

(* _mark_transient *)
Transient ==
    /\ pc = "prepared"
    /\ jobs' = SetState(run.job, IF Row.attempt >= MaxAttempts THEN "dead" ELSE "retry_wait")
    /\ Done
    /\ UNCHANGED <<telegram, lifecycle, inbox, checkpoint, process, live, bounds, top>>

(* Any other error of the gateway: no handler, the row stays as it is. *)
GatewayError ==
    /\ pc = "prepared" /\ AnotherIncident
    /\ faults' = faults + 1
    /\ Done
    /\ UNCHANGED <<telegram, lifecycle, inbox, checkpoint, jobs, process, live,
                   buckets, pauses, top>>

\* Seeded fault: the first batch already moves the checkpoint to the page's end.
PersistBatchAhead ==
    /\ pc = "persist" /\ run.todo # {}
    /\ run' = [run EXCEPT !.todo = @ \ Oldest(@, Batch)]
    /\ inbox' = inbox \cup {[type |-> "message_new", msg |-> m] : m \in Oldest(run.todo, Batch)}
    /\ checkpoint' = Advanced(run.todo)
    /\ UNCHANGED <<telegram, lifecycle, jobs, process, live, pc, bounds, top>>

(* persist_envelope_batch, one transaction for each batch of the page. *)
PersistBatch ==
    /\ pc = "persist" /\ run.todo # {}
    /\ run' = [run EXCEPT !.todo = @ \ Oldest(@, Batch)]
    /\ Commit("message_new", Oldest(run.todo, Batch))
    /\ UNCHANGED <<telegram, lifecycle, jobs, process, live, pc, bounds, top>>

Continues ==
    /\ Row.type \in Chain
    /\ run.full /\ ~run.hit /\ run.got # {}
    /\ Row.cum + Cardinality(run.got) < MaxBackfill

\* Seeded fault: the page is taken for persisted after its first batch.
PersistedOnce == run.todo # run.got \/ run.todo = {}

\* Seeded fault: the job is finalized before its page is written.
PersistedNot == TRUE

\* _persist_pages has returned.
Persisted == run.todo = {}

(* _finalize_backfill: the source may have been paused since. *)
Finalize ==
    LET total == Row.cum + Cardinality(run.got)
        rows  == [SetState(run.job, "succeeded") EXCEPT ![run.job].cum = total]
    IN  /\ pc = "persist" /\ Persisted
        /\ Done
        /\ \/ /\ lifecycle # "monitoring"
              /\ jobs' = SetState(run.job, "cancelled")
           \/ /\ lifecycle = "monitoring"
              /\ jobs' = IF Continues
                         THEN Enqueued(rows, "continuation", Min(run.got), total)
                         ELSE rows
        /\ UNCHANGED <<telegram, lifecycle, inbox, checkpoint, process, live, bounds,
                       top>>

-------------------------------------------------------------------------------
(* The process is killed, or is started. *)
Crash ==
    /\ up /\ AnotherIncident
    /\ faults' = faults + 1
    /\ up' = FALSE /\ started' = FALSE /\ listening' = FALSE
    /\ live' = <<>>
    /\ Done
    /\ UNCHANGED <<telegram, lifecycle, inbox, checkpoint, jobs, buckets, pauses, top>>

Start ==
    /\ ~up
    /\ up' = TRUE
    /\ UNCHANGED <<telegram, lifecycle, inbox, checkpoint, jobs, started, listening,
                   live, pc, run, bounds, top>>

Init ==
    /\ posted \in 0 .. MaxMsg
    /\ chat = 1 .. posted
    /\ events = 0
    /\ lifecycle = "candidate"
    /\ inbox = {} /\ checkpoint = 0
    /\ jobs = <<>>
    /\ up = FALSE /\ started = FALSE /\ listening = FALSE
    /\ live = <<>>
    /\ pc = "idle" /\ run = NoRun
    /\ buckets = 0 /\ faults = 0 /\ pauses = 0
    /\ top = 0

Worker == Claim \/ ClaimNothing \/ Prepare \/ Fetch \/ FloodWait \/ Transient \/ GatewayError
              \/ PersistBatch \/ Finalize

Next ==
    \/ Post
    \/ \E m \in chat : Edit(m) \/ Delete(m)
    \/ Ingest \/ IngestFails \/ Listen
    \/ Approve \/ Pause \/ Resume \/ Disable
    \/ EnqueueStartup \/ EnqueuePeriodic \/ RecoverStale
    \/ Worker
    \/ Crash \/ Start

Spec == Init /\ [][Next]_vars

(* The loops go on for as long as the process runs, leases run out, and a
   process that died is started again. *)
Fairness ==
    /\ WF_vars(Claim \/ Prepare \/ Fetch \/ PersistBatch \/ Finalize)
    /\ WF_vars(RecoverStale)
    /\ WF_vars(Ingest) /\ WF_vars(Listen)
    /\ WF_vars(EnqueueStartup) /\ WF_vars(Start)

FairSpec == Spec /\ Fairness

-------------------------------------------------------------------------------
(* Properties *)

JobRow == [type : Reconciliation \cup Chain, key : Nat,
           state : Finished \cup {"queued", "running", "retry_wait"},
           leased : BOOLEAN, cum : Nat, attempt : Nat]

\* Every variable has its type.
TypeOK ==
    /\ posted \in 0 .. MaxMsg /\ chat \subseteq Msg
    /\ lifecycle \in {"candidate", "monitoring", "paused", "disabled"}
    /\ inbox \subseteq [type : EventType, msg : Msg]
    /\ checkpoint \in 0 .. MaxMsg
    /\ jobs \in Seq(JobRow)
    /\ {up, started, listening} \subseteq BOOLEAN
    /\ live \in Seq([type : EventType, msg : Msg])
    /\ pc \in {"idle", "claimed", "prepared", "persist"}
    /\ run \in [job : 0 .. Len(jobs), after : Nat, before : Nat, limit : Nat,
                got : SUBSET Msg, todo : SUBSET Msg, full : BOOLEAN, hit : BOOLEAN]
    /\ events \in Nat /\ buckets \in Nat /\ faults \in Nat /\ pauses \in Nat /\ top \in Nat

HasEnvelope(m) == \E e \in inbox : e.msg = m /\ e.type # "message_deleted"

Succeeds(j) == jobs[j].state # "succeeded" /\ jobs'[j].state = "succeeded"

ReconciledBy(j) == jobs[j].type \in Reconciliation /\ Succeeds(j)

\* The checkpoint is never ahead of the inbox: the message it names is
\* committed, whichever of the live loop and the jobs moved it, and whatever
\* batch the process died after (COL-010, D-040).
CheckpointCommitted == checkpoint # 0 => HasEnvelope(checkpoint)

\* The chain of backfill jobs leaves no hole behind it: from the cursor of a
\* continuation up to the newest message of the first page everything that is
\* still in the chat is in the inbox (COL-024).
ContinuationLeavesNoHole ==
    \A j \in DOMAIN jobs : jobs[j].type = "continuation" =>
        \A m \in chat : jobs[j].key <= m /\ m <= top => HasEnvelope(m)

\* A reconciliation whose page was not cut short has put everything between the
\* checkpoint it started from and the newest message it read into the inbox,
\* although live updates move the checkpoint meanwhile and it may have been
\* interrupted between two batches before (COL-007, COL-008).
ReconciledRangeStored ==
    [][\A j \in DOMAIN jobs : ReconciledBy(j) /\ ~run.full =>
         \A m \in chat : run.after < m /\ m <= Max(run.got \cup {0}) => HasEnvelope(m)]_vars

\* Nobody executes row j and no recovery finds it: it was set running again
\* after a recovery took its lease, and then its execution died.
Orphaned(j) == jobs[j].state = "running" /\ ~jobs[j].leased /\ run.job # j

\* Once a source is disabled its jobs come to an end, whatever they were doing,
\* except those orphaned by a recovery and a crash (COL-011).
DisabledDrains ==
    lifecycle = "disabled" ~>
        \A j \in DOMAIN jobs : jobs[j].state \in Finished \/ Orphaned(j)

\* INF-008 as the PRD states it: every "running" row has the lease it can be
\* recovered by.
RunningHasLease ==
    \A j \in DOMAIN jobs : jobs[j].state = "running" => jobs[j].leased

\* COL-005 as the PRD states it: the initial backfill takes every message of the
\* window, unless it took 3000 messages.
BackfillReachesWindow ==
    LET chain == {j \in DOMAIN jobs : jobs[j].type \in Chain}
    IN  /\ chain # {}
        /\ \A j \in chain : jobs[j].state = "succeeded" /\ jobs[j].cum < MaxBackfill
        => \A m \in chat : Old < m /\ m <= top => HasEnvelope(m)

\* COL-007 and COL-008 as the PRD states them: a reconciliation that stops at its
\* cap leaves a continuation for the rest of the gap.
GapGetsContinuation ==
    [][\A j \in DOMAIN jobs : ReconciledBy(j) =>
         \/ \A m \in chat : run.after < m /\ m <= Max(run.got \cup {0}) => HasEnvelope(m)
         \/ \E k \in DOMAIN jobs' : jobs'[k].type = "continuation"
                                     /\ jobs'[k].state \notin Finished]_vars

\* COL-011 as the PRD states it: a paused or disabled source has no job left
\* waiting.
PauseCancelsJobs ==
    lifecycle \in {"paused", "disabled"} =>
        \A j \in DOMAIN jobs : jobs[j].state \notin {"queued", "retry_wait"}

\* COL-011 as the PRD states it: once a source is paused, no envelope is taken in.
NoIngestWhilePaused ==
    [][(lifecycle \in {"paused", "disabled"} /\ UNCHANGED lifecycle) => UNCHANGED inbox]_vars

\* COL-004 as the PRD states it: one unfinished job of a type for a source.
OneUnfinishedPerType ==
    \A j, k \in DOMAIN jobs :
        jobs[j].type = jobs[k].type /\ {jobs[j].state, jobs[k].state} \cap Finished = {} => j = k

\* COL-018 as the PRD states it: a job is dead after its five repetitions, that
\* is, after one attempt more than there are delays.
DeadAfterAllRetries ==
    \A j \in DOMAIN jobs : jobs[j].state = "dead" => jobs[j].attempt = MaxAttempts + 1

\* COL-018 as the PRD states it: a permanent error fails the job.
PermanentErrorFails == [][GatewayError => jobs'[run.job].state = "failed"]_vars
===============================================================================
