# A TLA+ model of Telegram Lead Discovery

This directory holds TLA+ specifications of the program in
`src/src/telegram_lead_discovery`, TLC configurations that check them on small
instances, and TLAPS proofs of the properties that can be proved for every
instance. Requirement ids (`COL-009`, `PROC-013`, `D-042` ...) are those of
`src/docs/prd`; where a requirement and the code disagree, the model follows the
code and the requirement is listed under [Divergences](#divergences).

## 1. The system

One asyncio process on SQLite, guarded by a lock file. `infrastructure/runtime.py`
starts named loops; each loop claims a piece of durable work (a `jobs` row, an
envelope, an outbox row), does network I/O, and commits the result in a later
transaction. A watchdog restarts loops that died and requeues jobs whose lease has
run out. SQLite is opened with the legacy transaction mode: a `SELECT` holds nothing,
the write lock is taken at the first write, so a check and the insert that follows it
are two steps as soon as an `await` lies between them.

| Component | State | Operations | Interacts with | What makes it correct |
|---|---|---|---|---|
| STO job queue (`storage/jobs.py`) | job rows (state, lease, attempt, available_at), in-memory register of executing discovery jobs | enqueue, claim, heartbeat, recover, finish, park | every worker loop, the watchdog | no discovery job runs without a lease, one outcome, no job lost |
| SRC graph runs (`worker_parts/graph_*.py`, `graph_service.py`, `graph_policy.py`, `graph_cancel.py`) | run, its job, the cursor (queue, node, stages, keys), counters, candidates, discovery events | start, claim, resolve, fetch a stage, plan links, store, park, skip, cancel, finish | job queue, account gate, dashboard | no node or candidate lost over a restart, caps, one outcome, the run ends |
| SRC keyword runs (`keyword_run.py`, `ranking*.py`, `quality_truth.py`, `active_chat*.py`, the other files of `worker_parts`) | run, its job, query rows with their cursors, verification pool, progress and outcome of each source, counters, gate | start, claim, search, ask for linked groups, fall back on the directory, rank, read histories in turns, park, cancel, finish | job queue, account gate, ledgers, dashboard | the pool is fixed, each message is counted once over restarts, an outcome is never changed, the gate fails only on proof, the run ends and frees the slot for the next |
| SRC review and ledgers (`promotion.py`, `source_lifecycle.py`, `storage/*_suppress.py`, `worker_parts/registry.py`, the result and source routes) | registry of sources, dismissed and presented ledgers, results of runs | publish, promote, dismiss, reconsider, approve, reject, pause, disable, purge | keyword runs, collector, retention, dashboard | what is known is not found again, one name one source, legal transitions |
| COL collector (`collector/service.py`) | checkpoint per source, envelopes, collector jobs | live ingestion, initial backfill, continuation, startup and periodic reconciliation, flood wait, pause/resume/disable | job queue, Telethon gateway, processing (by envelopes) | checkpoint never ahead of the store, no hole, disabled sources drain |
| COL account gate (`account_pacer.py`, `graph_request_control.py`) | last request, sliding window, account lock, request budget of a run | pace, call, cancel, abandon after a deadline | every Telegram call | rate and budget kept across cancellation and restart |
| PROC pipeline (`processing/pipeline.py`) | envelopes, messages, revisions, duplicate groups, leads, scores | claim, revise, dedupe, analyse, score, alert, settle | collector, outbox | inbox order, one canonical member, hot leads alerted, inbox drains |
| PROC history scan (`processing/history_scan.py`) | scans, targets, hits | create, page, retry, cancel, close | job queue, gateway, dashboard | outcome matches the targets, scan ends |
| NOT outbox (`notifications/worker.py`) | outbox rows, delivery log, delivery mode | enqueue, claim, call the Bot API, record | pipeline, settings | no silent duplicate, bounded retries, every alert settles |
| INF process lock (`process_lock.py`) | a file with a pid | acquire, release | process start and stop | one holder |
| INF runtime | loops, watchdog | start, restart, stop | all workers | covered by the claim, recovery and crash actions of the other models |
| DET rules, SCR scoring (`detection/engine.py`, `scoring/engine.py`) | none; a pinned catalogue | detect, score | pipeline, history scans | only requests become leads, a slow pattern does not promote, totals and bands within bounds |
| SET, UI, OBS, SEC, rest of STO retention | settings, routes, metrics, secrets, old rows | | | not modelled, see section 7 |

The behaviours that are hard: interleavings of loops around `await`s; the gap between
claiming work, doing I/O and recording the outcome, where the process may be killed or
the lease may run out; retries of work that was partly done; cancellation that races
with completion; messages that are edited, deleted, duplicated across sources and
delivered late; a wall clock that is set back; and a lock file shared by two processes.
`PROJECT.json` lists the hazards one by one with the line where each bites.

## 2. Modules

| Module | Models | State | Actions |
|---|---|---|---|
| `JobLease` | the job queue, the two discovery loops, the collector loop, recovery, crash | `job` (row), `worker` (who executes what), `inflight`, `mutex`, `outcomes` ... | one per transaction of the code: claim, heartbeat, mark in flight, finish, park, abandon, recover |
| `JobLeaseProofs` | TLAPS proofs about `JobLease` | | |
| `Collector` | one source: live ingestion, collector jobs, lifecycle, restart | messages posted and stored, checkpoint, live queue, job rows, the step the worker is in | post, edit, delete, ingest, enqueue, claim, prepare, fetch, persist batch, finalize, pause, resume, disable, crash, start |
| `CollectorDowntime` | `Collector` with a history of what was posted while the process was down | `missed` | those of `Collector` |
| `CollectorProofs` | TLAPS proofs about `Collector` | | |
| `Outbox` | the delivery of alerts | row, log, transaction in progress, what was really delivered | enqueue, claim, post, outcome, commit, roll back, switch mode |
| `HistoryScan` | manual history scans | scan, targets and pages read, job row, worker step | check, insert, cancel, claim, page, error, retry, close, recover, crash |
| `Pipeline` | message processing | inbox, revisions, canonical flag and link, band and scores of a lead, alerts, rule set, whether alerts are delivered | accept, process (delete, replay, invalid rule set, suppress, analyse), change rules, switch delivery |
| `PipelineProofs` | TLAPS proofs about `Pipeline` and `HistoryScan` | | |
| `AccountGate` | account lock, pacer and graph request control | queue for the lock, starts, gate, budget, clock | call, pace, reserve, finish, cancel, time out, orphan ends, restart, clock set back |
| `AccountGateProofs` | TLAPS proofs about `AccountGate` | | |
| `GraphRun` | one graph discovery run | `run` and `job` states, `cursor` (what is saved of the walk) and `mem` (the walk as the worker has it), stored sources and events, the links planned so far, the cancel event, what a cancel request has read | claim, enter, pop, resolve, fetch, plan, resolve or reject a link, persist a stage, leave, skip, park, give up, cancel (read, commit), crash, recover |
| `GraphRunProofs` | TLAPS proofs about `GraphRun`, with its refinement of `DiscoveryRun` | | |
| `DiscoveryRun` | what any discovery run promises: only the worker that holds it publishes, no result is changed, none follows the end | `state`, `result`, `held`, `asked` | take, release, publish, end, ask, mark, end by request, die |
| `KeywordRun` | one keyword discovery run, from its first search to its verdict | `run` and `job` states, a row per query, pool, cursor and outcome of each source, counters, gate; of the worker its phase, the call it is in and what it remembers | claim, unfit, one action per decision between two calls (next seed, next channel, next fallback, fix the pool, resume, next page, cap reached, over, finish, cancelled) and per answer (page, answer, skip, lost, refused, flood wait, transient error, fatal error), crash, recover, cancel (read, commit), dismiss |
| `KeywordRunProofs` | TLAPS proofs about `KeywordRun`, with its refinement of `DiscoveryRun` | | |
| `SourceLedger` | sources across runs: results, review, lifecycle, suppression | usernames on Telegram, registry, dismissed and presented rows, results of each run, what the run suppresses and reads, open requests and forms | rename, claim, fix the pool, publish, end, purge, review (read, write, fail), open the form, reconsider, approve (read, write, fail), the other transitions (read, write, fail) |
| `SourceLedgerProofs` | TLAPS proofs about `SourceLedger` | | |
| `LeadScore` | what detection and scoring make of the revisions of a message | the rules it matches, those that timed out, detection, score | detect, score, edit |
| `LeadProofs` | TLAPS proofs about `LeadScore` and `Outbox` | | |
| `ProcessLock` | the lock file | file, content, pc of each process | one per system call |
| `MC*` | constants of the instances that a cfg cannot spell | | |

`GraphRun` and `KeywordRun` are shown to implement `DiscoveryRun` (`Implements`, an
`INSTANCE ... WITH` a refinement mapping: an item is a source, its result is that it is
stored, or its terminal outcome). What the abstract run says of cancellation is what the
code can keep: a request that finds a worker at the run leaves it to the worker, but
nothing holds the rows between the request's read and its write. A request that writes
after the end makes a run that has ended `cancelling` (`Mark`); one that found no worker ends
the run also when a worker has taken it meanwhile (`EndByRequest`). Nothing else may touch a
run that is over, and no result is published after the worker's end. `KeywordRun` and `SourceLedger` meet at the ledgers:
what a run suppresses is `ledger` and `index` in the one and computed from the rows in
the other; what a run makes of the sources it reads is a choice in the other and computed
in the one.

How state and actions correspond to code is recorded definition by definition under
`map` in `PROJECT.json`. An action is one database transaction, one network call or one
system call: the points between which another task, or a crash, can come. Everything
that one transaction does, including trailing writes, is in one action.

Abstractions: a text is a model value; in `Pipeline` its detection and score are the
constant `Bands`, which maps a text to the band `scoring/engine.py` would give it, and
`LeadScore` computes that band from the set of rules the text matches, with their
priorities, targets and weights. Dates are
days relative to each other. A lease either has run out or has not (`JobLease` counts
it in ticks, the other models let recovery find the job once its worker is gone).
In `GraphRun` a link is a target and whether only its name is known; what a
stage finds at a source is the constant `Links`, and a crash may come between any two
commits. Error classes of the gateway are collapsed to the ones the code distinguishes. In
`KeywordRun` a message is an ordinary one, a countable request or one before the window,
and the six thresholds of a quality source are one number of requests; what evidence makes
of a candidate is the number `Intent`, and what decides between equals (the title, how
fresh and how many the finds are) is `Standing`, a number for each of the orders in which
candidates are ranked: over all, and for the lanes that have an order of their own. The worker commits before every call and holds the
write lock from the answer to the next commit, so its decisions are made in steps nobody
can come between (`pc = "decide"`), and a cancellation or crash comes during a call or
between two executions. In `SourceLedger` a source is its `telegram_id`; where the code
also compares usernames a run finds fewer sources, and a run may find any subset.

## 3. Runs

Deadlock checking is on everywhere: a system with nothing to do polls, and the poll is
a stuttering action of its own.

| Run | Instance | Question |
|---|---|---|
| `JobLease` | a graph, a keyword and a collector job; lease 1 tick, retry 1 tick, one crash | can a stale recovery leave a running discovery job without a lease, is an outcome committed twice, is an abandoned job found again |
| `Collector` | two messages of which one is older than the window, page limit 1, at most 2 stored by backfill, one incident (crash, fault, edit, delete or lifecycle change) | does the checkpoint stay behind the store, does backfill leave a hole, is the reconciled range stored, do the jobs of a disabled source end, those apart that nobody can recover |
| `Outbox` | two alerts, five attempts, one rollback, one mode switch | who can be delivered twice, does the log agree with the row, does each alert settle |
| `HistoryScan` | one scan, two targets of one and two pages, five attempts, two faults, one flood | is the outcome that of the targets, and were they read to the end, does the scan end |
| `Pipeline` | two messages of different sources, two texts of which one is empty, two revisions each, four envelopes, one change of the rule set or of the delivery, which is off in a new installation (with two changes, so that delivery can be switched off again, the properties hold too, in 663,677 states) | does the current text follow the inbox, is every hot lead alerted at the score that made it hot unless delivery was off then, is there one canonical copy, does the inbox drain |
| `AccountGate` | collector, graph run and abandoned calls; interval 1, window 3 with 2 calls, deadline 2, budget 2, clock up to 7 and back once, one restart | are rate, budget and lock right across cancellation, deadlines, restart and clock steps |
| `GraphRun` | four sources, a seed that links to three of them by snapshot and by name, links back and across, depth 2; candidate cap 2, three links a node, one resolve, one crash, any number of cancel requests, one at a time, and errors | do counters and rows agree after a restart, has a succeeded run gone through every stage of every source it was led to, does it implement the abstract run: what can change an outcome, does the run end |
| `KeywordRun` | three sources of four messages at most, found by a search in posts of two pages, an operator's ref, a channel's linked group and two fallback directory queries, whose lane ranks two of them the other way round; a pool of two with reserved places, pages of two messages, source cap 4, run cap 5, two requests make a quality source; one source may be inaccessible and one be dismissed; one flood, error or crash, any number of cancel requests, one at a time | is the pool fixed and ranked, is each message counted once, is every source of the pool settled, is a failed gate proven, does it implement the abstract run, does the run end |
| `SourceLedger` | two sources, three interchangeable usernames, two runs, four acts (of operators, or a change of username), whose requests overlap | does a run publish a source that was registered, dismissed or shown when it was claimed; do two sources get one name |
| `LeadScore` | twelve rules of the current catalogue with their weights, every kind of rule among them, one of them late; fresh and old messages | does anything but a request become a lead, does a pattern that is not answered in time raise a score, do caps and clamps hold |
| `CollectorGap` | violation of `RestartLeavesNoGap` (module `CollectorDowntime`): backfill ends, the process is killed, message 2 is posted, the process starts, a live update of message 3 moves the checkpoint, the reconciliation of this start succeeds from there on, and message 2 is not stored | NFR-REL-008 |
| `ProcessLockRace` | violation of `OneHolder` when two processes overlap in `acquire` | INF-010 |

Why the bounds are enough. Each bound lets the interesting case happen at least once
and the mutants show it: for every property of every passing run `PROJECT.json` names a
change to a mapped definition, of the kind a bug would make, and TLC finds the property
violated in the same instance. The job queue is symmetric in jobs of one kind, and its
invariants are proved for any set of jobs. Two messages are enough for a group to form,
to change its canonical member and to break up; `OneCanonical` is
proved for any set. Three sources are enough for one to be left out of a pool of two, for two lanes to
compete, and for each of the caps to be reached by one while another waits; two sources and
three names are enough for a name to be taken over before, between and after two runs. The pacer's window must hold fewer calls than the clock has ticks,
and does. `MaxIncidents`, `MaxFaults`, `MaxRollbacks`, `MaxSwitches`, `MaxChanges`,
`MaxCrashes`, `MaxFloods`, `MaxBack`, `MaxRuns` and `MaxActs` bound the environment, never the program; the
program's own limits (attempts, page limits, caps) are constants with small values.
In `GraphRun`, `KeywordRun` and `SourceLedger` a request reads its rows in one step and
writes in another, whatever has become of the rows; one cancel request of a run is under way
at a time. `KeywordRun` assumes that the evidence of a run
stays below the cap at which a search is skipped, which `persistence.py` reserves for.

## 4. Fairness

Liveness is checked under weak fairness of the steps that a loop of `runtime.py` takes
by itself: claiming, processing and recording are each executed by a task that the
event loop schedules as long as it can run, and the watchdog restarts a task that died
and requeues jobs whose lease has run out, periodically and for ever. No fairness is
assumed of the environment: nobody has to post, edit, cancel or crash, and a network
call may fail as long as the bound on faults allows. A job that fails for ever is
excluded by those bounds, as it must be: the code has no attempt limit for collector
jobs. In `GraphRun` the worker is fair as a whole (`Work`): whichever answer a call gets,
the worker goes on from it, and that each node is parked at most once is what makes the
run end. In `KeywordRun` the loop, the calls and the watchdog are one fair agent (`Work`).
Its run ends because every page moves a cursor or settles a source, and a late cancel request
only touches a run whose job is over (`RunEnds`); the exception, `Spoilt`, is the divergence
`NotReadAgain` of section 6: with an inaccessible source in the pool the loop may ask for
ever, unless somebody cancels the run.

## 5. Proofs

`tlapm` checks every leaf. The proofs are about the specifications TLC runs, for all
values of the constants that satisfy the named assumptions.

`JobLeaseProofs`. `DiscoveryRunningHasLease`, `InflightIsExecuted` and
`OutcomeCommittedOnce` say nothing of who executes what, which they rest on: a loop has a job
of its own group in hand exactly while it is past its claim (`ExecMatchesPc`), and a discovery
worker past its claim works for a run without an outcome (`ExecutedRunOpen`). With these two the
conjunction `IInv` is inductive, and `JobLeaseInvariant` proves it step by step, one step per
action; `TypeOK` and the three properties follow. A job whose lease has run out under its worker
may be queued and claimed again: what gives its run one outcome is that each claim looks at the
run first (`RunTerminal`), not the lease. And whatever a recovery writes over rows claimed since
it has read them, it leaves them queued, so that no discovery job runs without a lease.

`PipelineProofs`. `OneCanonical` needs two facts about a deduplication step: the
members of a group are exactly the active messages with that text near the new one, and
the earliest of them exists (a finite or infinite set of naturals has a least element,
from the well-founded induction library). The invariant says that the recorded links of
active messages go to earlier messages and that two active copies within one window are
never both canonical. From it `TypeOK`, `OneCanonical` and `LinksPointBack` follow for
every set of messages, sources, days, texts and rule sets. What the envelopes have to do
with the results (`FlowInv`) is proved on top of it. That a message shows its last settled
envelope rests on the order in which envelopes are settled: an open one has no settled one
after it (`SettledFirst`), so the one that is settled is later than all that were. An alert
stays about a score of its lead because scores are appended only (`AlertsHaveScores`), and
that a hot lead is alerted at the score that made it hot, not at each, is the second
conjunct of `HotLeadsAlerted` itself. While delivery is off a lead that becomes
hot is noted in `silent` and not alerted, then or later (NOT-001, D-047). `CurrentIsLastSettled`,
`AnalysedOrFailed` and `HotLeadsAlerted` follow without any assumption on the window.

The same module holds the proofs about `HistoryScan`; the two models share no constant and
no variable, and the names of `HistoryScan` have a prefix where both have a definition
(`ScanTypeOK`, `ScanInv`). That the outcome of a scan is that of its targets is decided in the
closing transaction, which reads the targets and writes the scan, while the cancellation it
goes by may come at any moment before. So `ScanInv` says that a target is cancelled only
when its scan is to be, and that the closing transaction of a scan with such a target has
seen the request (`CancelledSeen`); that the loop has an active scan and a pending target in
hand (`LoopAtWork`), which holds as the job of a scan that is over is never claimed again
(`ScanOverWithJob`), not even after its lease was requeued under a page being read; and that
a pending target has a page left (`PagesLeft`), so that none is read past its period.
`ScanTypeOK` and `OutcomeMatchesTargets` follow for any number of scans at once, targets, pages
and attempts.

`CollectorProofs`. Neither `CheckpointCommitted` nor `ContinuationLeavesNoHole` is
inductive. Both speak of what is in the inbox, and what a job commits was read one call
earlier: so the invariant says of the page in hand that what is no longer to do is stored
(`PageStored`), and that the page leaves out nothing of the chat that lies in the range it
stands for (`ChainPageWhole`, `ReconciledPageWhole`), which needs in turn that the range
asked for is still that of the row (`RequestOfRow`). The chain of jobs
has one beginning: the only initial backfill has succeeded, for good, before a continuation
exists (`ChainInOrder`), so `top` is not moved under a continuation. Messages are only posted above the newest
(`ChatPosted`), edits leave ids alone and deletions only shrink what is to be stored. What the newest or the
oldest messages of a set are, and when they are all of it, are lemmas (`NewestUpward`,
`NewestIsAll`, `OldestIsAll`). `ReconciledRangeStored` is an action property and
follows from the same invariant. The sizes of chat, page, batch and window, the number of
incidents and the attempt limit are arbitrary.

`GraphRunProofs`. `CreatedAreStored` compares the counter in the cursor with the
stored sources and their rows, all computed by the worker from its own copy of the walk: it
needs that this copy and the saved one stand at the same place whenever the worker has the
run (`InStep`), that a planned candidate had room under the cap and is known by its id
(`PreparedWithinCaps`), and that a stage that has rows is over and a row's candidate is
stored (`RowsOfDoneStages`), so that a stage which is gone through again after a crash has
left no row, and no source gets a second one. `SucceededExplored` needs that no source is lost
between the queue, the node in hand and the last stage (`NothingLost`): a source the run
was led to is held by the cursor in every state, so that when queue and node are empty all
of them are done. The children of a stage are listed in order from a set of positions;
`InOrderLists` proves that the list has each of them. The refinement needs what ties a cancel request to
the run it has read (`AtRun`): when the run has ended under the request, so has its job; when the
process has died over a running job, the request takes the worker for alive; and only a run that has
ended loses its job under a worker. What the worker does extends the sources, ends the run or
lets it go (`WorkOutside`); a claim, a request, a crash and a recovery are one step of
`DiscoveryRun` each (`StepImplements`). `ImplementsDiscoveryRun` assumes nothing of the requests.
It is the safety part of `Implements`; that the run ends is left to TLC.

`KeywordRunProofs`. None of the properties of a keyword run is inductive: each spans
several executions of the job, and what the worker holds in memory is gone in between.
`IInv` says what an execution can rely on.

- A call is only made for a query that is running, for a source of the pool that may be
  read further, and for a search only while it is not known to be exhausted (`Asking`,
  `TriesLeft`). The worker alone holds a job that runs, and what ends the run ends the job
  (`Held`).
- `PoolFixed`: an execution that finds a pool finds a query of one of its sources, unless
  it is at verification itself (`PoolBegun`), so it takes the pool over (`RebuildsNothing`).
  That the pool is ranked when it is fixed is about select_preliminary_candidates only:
  `Better` is a strict total order for each lane, so that ranks number the candidates
  without a gap (`RankOnto`, by the pigeonhole principle) and `Best` takes as many as there
  is room for (`BestFacts`); a lane takes no more than its places, and who is left out of
  it has as many ahead as the lane had room for, after the earlier lanes (`AdmittedFacts`,
  `RoomShrinks`, `SelectedFacts`).
- `ReadOnce`: nothing read so far of a source that is not finished would have ended its
  reading (`Going`), so a page stops at the first message at which the whole history stops
  (`PageFacts`, `AloneEnds`), wherever the pages were cut and the counts were resumed. That
  the total is the sum over the sources is shown of one page by `SumOfChange`, by induction
  on a set of naturals as in `LeadProofs`.
- `PoolSettled` and `FailIsProven`: a source the worker takes for finished has an outcome,
  and all that were read to the end are among those (`FinishedSettled`); a search that is
  known to be exhausted stays so, as no query of it is asked again (`PoolBegun`).
- `Implements`: an outcome is written once (`OutcomesStay`), by an execution that holds the
  job and goes on with it, parks it or ends it with the run (`ExecutionHolds`). A cancel
  request that writes late touches the run and never its outcomes or its job.
  `ImplementsDiscoveryRun` maps every step to one of `DiscoveryRun` or to a stutter, with no
  assumption on the requests. It is the whole of `Implements`; that the run ends is `RunEnds`.

Numbers of queries and sources, lengths of histories, page size, caps, reserved places and
numbers of faults are arbitrary. Assumed are a finite set of sources, ids that are numbers,
and different ids for queries, channels and sources.

`SourceLedgerProofs`. That a run publishes nothing it should have left out
(`HiddenWhileKnown`) spans the three steps of a run. The invariant says, for each of
them, where the sources known at the claim are kept out: what operators have dismissed, and
no form has lifted, has a dismissal, what was shown is presented as quality, what was known is
in the index of a run that searches, and is not in the pool of a run that reads
(`KnownIsLeftOut`). Requests act on rows that have changed since they read them, so a form may
lift the suppression of another source than its own (`OwnSuppressionLifted` in section 6):
from then on that source counts as one whose suppression was lifted. The names of the
registry and the ids of the dismissals stay unique, which are parts of `TypeOK`; for the ids
the invariant has a bound on them (`IdsBounded`), so that the id of the next row is above all
others. The proof needs neither a finite number of sources nor the bounds of TLC, and assumes
nothing of the requests.

`LeadProofs`, on the outbox. That an alert is repeated only after a lost transaction
(`DuplicatesNeedRollback`) is not inductive: it needs that a row which may still be sent
and is not in flight has arrived only in transactions that were lost (`ArrivalsLost`), and
that the row a transaction has claimed stays claimable until its result is written
(`ClaimHolds`). `LogMatchesRow` rests on a lemma about what one more record adds to the
attempts of a log (`AppendCounts`), and its bound on the attempts on `AttemptLeft`.

`AccountGateProofs`. The rate is about real time, and the gate sees only its own clock,
which is set back and is restored from a row after a restart. The invariant gives each
start a gate time (`Timed`): later starts have later gate times, an interval apart; the
gate's clock has not gone faster than real time since, so that starts are at least as far
apart in real time; and each start that is still within a window has a row in `slots`. The
starts of a window thus inject into the live rows, of which a free slot leaves one to
spare (`SlotsKept`). `LockMatchesCalls` follows from `QueueMatches` (the queue holds
whoever waits or calls, once, and only its head calls), `BudgetKept` from `CountedFirst` (a
request is counted, under the cap, before it waits). Neither the number of tasks nor the
sizes of intervals, windows and caps are bounded; `MaxBack <= MaxTime` says that the wall
clock does not start before its origin.

`LeadProofs`, on the score. `LeadIsRequest` holds for every catalogue: the outcome shown is that of
the rules of the current revision that have answered (`IInv`), the role of an author is a
client's only if no other role has answered (`ClientHasNoOtherRole`, from the order of
the precedence), and what `Detected` calls a lead and `Excluded` lets through has an intent,
a service and nothing against it (`LeadAsks`). The sums of weights play no part.
`LateOnlyLowers` and the range of totals do need them. They are folds over a set of rules,
which the provers cannot unfold, and the library's induction theorems take an operator; so
induction is stated once for a set of naturals (`AllNaturals`, from a least
counterexample), and by it a fold is shown to exist (`SumExists`), not to depend on the
order in which members are taken (`SumOfOneMore`) and to grow with the set and the values
(`SumGrows`). A dimension is the lesser of its cap and such a sum (`DimensionGrows`), a
total adds up the dimensions (`PositiveGrows`) and clamping keeps the order
(`ClampedRange`). That a late rule takes no lead away, if it does not speak against the
message, is `LateKeepsLead`: the roles and the exclusions stay as they were, and the intent
that comes first is not a vacancy. The catalogue and the set of dimensions are finite, and
arbitrary otherwise.

`LinksPointBack` is proved and not listed in a cfg: the
proof makes its run redundant. The same goes for `TypeOK` of `JobLease` and `Pipeline`
and `OutboxTypeOK`.

Every safety property and action property of a passing run is thus stated by a theorem.
Only model-checked: liveness (TLAPS has no rule for fairness or `ENABLED` here), that is
`AbandonedJobRecovered`, `DisabledDrains`, `AlertSettles`, `ScanSettles`, `InboxDrains`,
`RunEnds` and the end of the run in `Implements` of `GraphRun`; and the refutations.

## 6. Divergences

Two have a run of their own (section 3). The others are stated in the modules under
"as the PRD states it" and TLC refutes them when they are put in the place of a passing
run's properties, with the constants given here.

| Statement | Module | Where the PRD says so | What the code does |
|---|---|---|---|
| `InflightNotQueued` | JobLease | STO-025, 06-lead-storage/PRD.md:273 | parking a job queues it while it is still registered as in flight |
| `CollectorLeaseKept` | JobLease | COL-019, 02-telegram-collector/PRD.md:163-165 | only discovery workers send heartbeats, a slow collector job loses its lease |
| `RunningHasLease` | JobLease, Collector | INF-008, 12-deployment-infrastructure/PRD.md:47 | `_prepare_backfill` may set a recovered job running again without a lease, and when its execution dies no recovery selects the row (storage/jobs.py:76). So a disabled source need not drain: `DisabledDrains` leaves such rows (`Orphaned`) out, and is refuted without that exception |
| `PauseCancelsJobs`, `NoIngestWhilePaused` | Collector | COL-011, :109-111 | nothing calls `cancel_collector_jobs_for_source`; live updates of a paused source are still stored |
| `OneUnfinishedPerType` | Collector | COL-004, :75-77 | a continuation and a second reconciliation may be queued beside one that waits |
| `DeadAfterAllRetries`, `PermanentErrorFails` | Collector | COL-018, :159-161 | no attempt limit; a permanent error leaves the job running until its lease ends |
| `BackfillReachesWindow` | Collector (MaxMsg 3, Old 1, PageLimit 2) | COL-005, :79 | one message older than the window drops the whole page |
| `GapGetsContinuation` | Collector (MaxMsg 3, StartupLimit 1, PageLimit 2) | COL-007/008, :93-99 | a full reconciliation page gets no continuation |
| `DeadAfterAllRetries`, `CancelTakesEffect` | HistoryScan | PROC-020, 03-message-processing/PRD.md:219-221 | the attempt counter counts pages too, so the job dies before its fifth transient error, and a scan whose job is dead stays active for ever and blocks the next (`ScanSettles` excepts it); a cancel request waits for the retry and may lose to completion |
| `OneActiveScan` | HistoryScan (Scan = {1, 2}) | PROC-020 | two requests may both see no active scan |
| `CanonicalIsActive`, `DeletedNotCanonical` | Pipeline | PROC-009, :113-117, :243 | deleting a canonical message promotes no other member |
| `OneAlertPerText` | Pipeline (MaxVersions 1) | PROC-013, 03-message-processing/PRD.md:143, :247 | the lead is looked up by the new canonical message only: an earlier copy that arrives late makes a second lead and a second alert |
| retry limit | Pipeline (`Idle`, `ProcessReplay`) | PROC-016, 03-message-processing/PRD.md:155-157 | an internal error is retried whenever the loop runs, without the delays and the limit of five: an envelope that fails for ever blocks the inbox (`InboxDrains` holds as the model's errors end) |
| `NoDuplicate` | Outbox (one alert) | 08-notifications/PRD.md:158-160 | the uncertain result of a call is recorded in the transaction that was open during it; if that is rolled back the alert is sent again |
| `CurrentIsNewest` | Pipeline | PROC-008, :109-111 | the inbox order wins over the time of the edit |
| `OneCanonicalPerGroup` | Pipeline (three messages in a chain of windows) | PROC-012, :131-139 | windows are relative to each message, so groups are not transitive |
| `SameSourceNotMerged` | Pipeline (one source) | PROC-010, :121-125 | copies within one source are merged |
| `CandidatesWithinCap` | GraphRun (Links <- Pair, Peer {1, 2, 3}, CandidateCap 1, MaxFaults 0) | AT-SRC-005, 01-source-discovery/PRD.md:572 | all links of a stage are planned before any is stored, against a counter that only storing increments |
| `DuplicatesAreHeld` | GraphRun | SRC-052, 01-source-discovery/PRD.md:424 | resolving a name commits the keys of links planned before it but not their candidates; after a crash or a park there they are planned as duplicates and lost |
| `CancelHonoured` | GraphRun | SRC-057, :444 | the worker does not look at the cancellation before it ends a run as succeeded or failed |
| `ActiveRunHasJob` | GraphRun | SRC-053, :426-428 | a cancel request that read the run before it ended writes `cancelling` over the outcome; only another cancel request ends that run, and until then it blocks every later one |
| `ActiveRunHasJob` | KeywordRun | SRC-053 | the same for a keyword run, which nothing ends then |
| `UnfinishedProvesNothing` | KeywordRun | SRC-038, SRC-047, :272-281, :376 | the gate looks at exhaustion and at the outcomes, not at the way the run ended: a cancelled or partial run may be a `fail` |
| `CancelledPoolSettled` | KeywordRun | SRC-046, :259-270 | a source that the execution has noted as suppressed is left without an outcome when the run is cancelled, although it is in the pool |
| `QueriesClosed` | KeywordRun | | a run that ends well leaves the queries of sources it stopped reading open |
| `NotReadAgain` | KeywordRun | SRC-046, :267, and quality_truth.py:206 ("next unfinished source") | only a query that has succeeded puts its source among the finished ones: a source that is inaccessible has its outcome, and is picked and asked again at once, being the least read |
| transient query retry, 3 attempts | KeywordRun (`Transient`) | :257 | saving the progress of a history drops the count of its attempts, so the verification of a source is retried without limit |
| `LifecycleLegal` | SourceLedger | SRC-010 to SRC-012, :136-146 | `approve_source` checks the state again after its call, but on the object it read before (`expire_on_commit=False`, storage/session.py:30), and the update names no version: a source that was rejected or disabled meanwhile is monitored; two other transitions that overlap both write as well |
| `OneVerdict` | SourceLedger | SRC-026, :237 | two reviews of one result that overlap both write |
| `OwnSuppressionLifted` | SourceLedger | SRC-036, :366-368 | the reconsider form posts a row id and a version; SQLite gives the id of a deleted row to the next dismissal, whose suppression an old form then lifts |
| `PromotedIsItsSource` | SourceLedger | SRC-022, SRC-026, :237 | a result whose source is not registered is linked to the registered one that bears its username, although their ids differ |
| `CanReconsider` | SourceLedger | SRC-036 | the form is on the page of a result; once retention has removed the results of a source its suppression cannot be lifted |
| failed validation leaves `approved` | SourceLedger (`ApproveFails`) | SRC-011, :140-142 | the source stays a candidate |
| a renamed source keeps its old name as alias | SourceLedger (`Approved`, `FindSource`) | SRC-008, :128-130 | nothing writes a `SourceAlias` for an existing source |
| `EligibleIsScored` | LeadScore | DET-022 and AT-DET-022, 04-lead-detection/PRD.md:176, :268, and the comment engine.py:228-230 | a vacancy that names a supported service is an eligible lead to `detect`; `score_detection` (scoring/engine.py:96) excludes its category, as 05-lead-scoring/PRD.md:66 says |
| `GraphCallBounded` | AccountGate | COL-030, :218-220, :310 | the deadline of a graph call starts once it has the account; an ordinary call without a deadline may hold it for ever |
| `Serialized` | AccountGate | account_pacer.py:29 | an abandoned call overlaps with the next one |

## 7. Not modelled

Normalisation and the patterns of the rules are pure functions of a text and have their
own unit tests: `LeadScore` starts from the set of rules that match. The seeding, loading
and pinning of a catalogue are left out, but for the invalid one that `Pipeline` has, and so
is the calibration report. A keyword run needs only which messages count as requests and
how promising the evidence makes a source; aggregation of evidence and opportunity scores
are pure functions too. Profile versions are immutable rows.
The dashboard's routes validate and call services; those that change modelled state are
actions. Observability only reads. Security has no protocol. Of retention only the purge
of results is modelled, which the suppression ledgers must survive; the other batches
delete rows that nothing reads any more. Settings are single-row updates; the delivery mode is in `Outbox` and, with the presence of
the secrets, in `Pipeline`. The pacer's branch for `flood_wait_until` (account_pacer.py:71-79)
is left out of `AccountGate`: no code writes that column. Database lock
contention (`busy_timeout`), also while the outbox calls the Bot API in its transaction,
is not modelled: a transaction is one step, or a step that may be rolled back. Enqueueing
reads the dedupe key before it inserts; the unique index turns a second insert into an
error. Of a graph run, the stored sample posts, usernames and aliases of a source (a source
is its `telegram_id`) and links that leave the public sources are left out; the start of a
run, with its test for another active run, is the initial state of `GraphRun` and
`KeywordRun`. The CSV import, the manual addition of a source and the merge of a provisional
identity (`merge_provisional_into_peer`) have no caller in the runtime. Migrations,
deployment scripts and the files under `.codex-tmp` and `tmp` (vendored libraries and
scratch scripts) are not part of the running system.

## 8. Plan

Done: the job queue, the collector, the outbox, history scans, the pipeline, the account
gate, graph and keyword runs with the abstract run they implement, the ledgers, detection
and scoring, and the process lock; the proofs of section 5. Next, in this order:

1. `LeadScore` inside `Pipeline`, so that `Bands` and the late rules of a revision are
   computed and not given.
2. The start of a run with two requests at once, so that the mutual exclusion of graph and
   keyword runs is checked and not assumed.
3. An abstract inbox (the effect of each settled envelope happens once, in order) that
   `Pipeline` is shown to implement.
