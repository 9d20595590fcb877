------------------------------ MODULE HistoryScan ------------------------------
(***************************************************************************)
(* Manual scans of the history of a list of targets                        *)
(* (processing/history_scan.py, started from dashboard/routes).            *)
(*                                                                         *)
(* One persisted job per scan; every claim of it reads one page of one     *)
(* target, in transactions with the request to Telegram between them.  An  *)
(* operator starts and cancels scans meanwhile.                            *)
(***************************************************************************)
EXTENDS Integers, FiniteSets

CONSTANTS Scan,         \* scans, in the order of their job ids
          Pages,        \* the history each target has in the period, in pages
          MaxAttempts,  \* len(RETRY_DELAYS)
          MaxFaults,    \* bound: crashes
          MaxFloods,    \* bound: flood waits
          NoScan

Target == DOMAIN Pages      \* by ordinal

ASSUME HistoryScanAssumption ==
    /\ Scan \subseteq Nat /\ NoScan \notin Scan
    /\ Target \subseteq Nat /\ Target # {}
    /\ \A t \in Target : Pages[t] \in Nat \ {0}
    /\ MaxAttempts \in Nat \ {0}
    /\ {MaxFaults, MaxFloods} \subseteq Nat

VARIABLES request,  \* where the operator's request to create the scan stands
          scan,     \* HistoryScanSession.state
          cancel,   \* cancel_requested_at is set
          target,   \* HistoryScanTarget.state
          read,     \* pages of the target committed, as continuation_cursor has it
          job,      \* the scan's job: its state and attempt
          pc,       \* where the scan loop stands
          cur, tgt, \* the scan and the target it works on
          sawCancel,\* what its closing transaction read of cancel
          retried,  \* history: transient errors a scan has had
          faults, floods

scanVars == <<request, scan, cancel, target, read, job, pc, cur, tgt, sawCancel,
              retried, faults, floods>>
loop   == <<pc, cur, tgt, sawCancel>>
bounds == <<faults, floods>>

ACTIVE_STATES == {"queued", "running"}    \* no code sets the third, "retry_wait"
Pending       == {"queued", "running"}    \* targets still to be read
JobState      == {"absent", "queued", "running", "retry_wait", "succeeded", "failed",
                  "cancelled", "dead"}

-------------------------------------------------------------------------------
(* The operator *)

\* The check of create_history_scan.
NoneActive == \A s \in Scan : scan[s] \notin ACTIVE_STATES

(* create_history_scan looks for an active scan... *)
CheckCreate(s) ==
    /\ request[s] = "none" /\ scan[s] = "absent"
    /\ \A r \in Scan : r < s => request[r] # "none" \/ scan[r] # "absent"
    /\ NoneActive
    /\ request' = [request EXCEPT ![s] = "checked"]
    /\ UNCHANGED <<scan, cancel, target, read, job, loop, retried, bounds>>

(* ... and, some awaits later, inserts the scan, its targets and its job. *)
InsertScan(s) ==
    /\ request[s] = "checked"
    /\ request' = [request EXCEPT ![s] = "done"]
    /\ scan' = [scan EXCEPT ![s] = "queued"]
    /\ target' = [target EXCEPT ![s] = [t \in Target |-> "queued"]]
    /\ job' = [job EXCEPT ![s].state = "queued"]
    /\ UNCHANGED <<cancel, read, loop, retried, bounds>>

(* cancel_history_scan *)
Cancel(s) ==
    /\ scan[s] \in ACTIVE_STATES /\ ~cancel[s]
    /\ cancel' = [cancel EXCEPT ![s] = TRUE]
    /\ UNCHANGED <<request, scan, target, read, job, loop, retried, bounds>>

-------------------------------------------------------------------------------
(* The scan loop *)

LoopIdle ==
    /\ pc' = "idle" /\ cur' = NoScan /\ tgt' = 0 /\ sawCancel' = FALSE

(* The watchdog, or a loop before its claim, requeues a job whose lease has run
   out; nothing renews it. *)
RecoverStale(s) ==
    /\ job[s].state = "running"
    /\ job' = [job EXCEPT ![s].state = "queued"]
    /\ UNCHANGED <<request, scan, cancel, target, read, loop, retried, bounds>>

(* claim_job *)
Claim(s) ==
    /\ pc = "idle"
    /\ job[s].state \in {"queued", "retry_wait"}
    /\ \A r \in Scan : r < s => job[r].state # "queued"
    /\ job' = [job EXCEPT ![s] = [state |-> "running", attempt |-> @.attempt + 1]]
    /\ pc' = "claimed" /\ cur' = s
    /\ UNCHANGED <<request, scan, cancel, target, read, tgt, sawCancel, retried, bounds>>

\* The target _process_one_target selects.
NextTarget(s) ==
    {t \in Target : /\ target[s][t] \in Pending
                    /\ \A u \in Target : u < t => target[s][u] \notin Pending}

(* The first transaction of _process_one_target. *)
Select ==
    /\ pc = "claimed"
    /\ \/ /\ cancel[cur] \/ NextTarget(cur) = {}
          /\ pc' = "closing"
          /\ UNCHANGED tgt
       \/ /\ ~cancel[cur]
          /\ tgt' \in NextTarget(cur)
          /\ pc' = "fetch"
    /\ UNCHANGED <<request, scan, cancel, target, read, job, cur, sawCancel, retried,
                   bounds>>

\* Seeded fault: the start of the period goes unnoticed.
LastPageNever(s, t) == FALSE

\* The page reaches the start of the period or of the chat.
LastPage(s, t) == read[s][t] + 1 = Pages[t]

(* The page is read; the last transaction of _process_one_target. *)
CommitPage ==
    /\ pc = "fetch"
    /\ pc' = "closing"
    /\ \/ /\ cancel[cur]
          /\ target' = [target EXCEPT ![cur][tgt] = "cancelled"]
          /\ UNCHANGED <<scan, read>>
       \/ /\ ~cancel[cur]
          /\ scan' = [scan EXCEPT ![cur] = "running"]
          /\ target' = [target EXCEPT ![cur][tgt] =
                            IF LastPage(cur, tgt) THEN "succeeded" ELSE "running"]
          /\ read' = [read EXCEPT ![cur][tgt] = @ + 1]
    /\ UNCHANGED <<request, cancel, job, cur, tgt, sawCancel, retried, bounds>>

(* GatewaySourceInaccessible or GatewayPermanentError: _finish_target_error. *)
TargetError ==
    /\ pc = "fetch"
    /\ pc' = "closing"
    /\ \E s \in {"skipped", "failed"} : target' = [target EXCEPT ![cur][tgt] = s]
    /\ scan' = [scan EXCEPT ![cur] = "running"]
    /\ UNCHANGED <<request, cancel, read, job, cur, tgt, sawCancel, retried, bounds>>

(* _retry_job after a flood wait *)
FloodWait ==
    /\ pc = "fetch" /\ floods < MaxFloods
    /\ floods' = floods + 1
    /\ job' = [job EXCEPT ![cur] = [state |-> "retry_wait", attempt |-> @.attempt - 1]]
    /\ LoopIdle
    /\ UNCHANGED <<request, scan, cancel, target, read, retried, faults>>

(* _retry_job after a transient or an unexpected error: the scan itself is not
   told when the job dies. *)
Transient ==
    /\ pc = "fetch"
    /\ job' = [job EXCEPT ![cur].state =
                  IF job[cur].attempt >= MaxAttempts THEN "dead" ELSE "retry_wait"]
    /\ retried' = [retried EXCEPT ![cur] = @ + 1]
    /\ LoopIdle
    /\ UNCHANGED <<request, scan, cancel, target, read, bounds>>

(* _fail_scan: the pinned rule set does not load. *)
FailScan ==
    /\ pc = "claimed" /\ ~cancel[cur] /\ NextTarget(cur) # {}
    /\ job' = [job EXCEPT ![cur].state = "failed"]
    /\ scan' = [scan EXCEPT ![cur] = "failed"]
    /\ LoopIdle
    /\ UNCHANGED <<request, cancel, target, read, retried, bounds>>

(* The closing transaction reads the scan ... *)
ReadCancel ==
    /\ pc = "closing"
    /\ sawCancel' = cancel[cur]
    /\ pc' = "close"
    /\ UNCHANGED <<request, scan, cancel, target, read, job, cur, tgt, retried, bounds>>

In(s, states) == \E t \in Target : target[s][t] \in states

\* Seeded fault: a scan with a failed target counts as succeeded.
EndStateIgnoringFailures(s) == IF In(s, {"succeeded"}) THEN "succeeded" ELSE "failed"

\* The terminal state of a scan that has no pending target.
EndState(s) ==
    CASE In(s, {"succeeded"}) /\ In(s, {"skipped", "failed"}) -> "partial"
      [] In(s, {"succeeded"}) /\ ~In(s, {"skipped", "failed"}) -> "succeeded"
      [] OTHER -> "failed"

\* Seeded fault: the job of an unfinished scan is taken for done.
JobAfterPageDone(s) == "succeeded"

\* The job goes on while a target is pending.
JobAfterPage(s) ==
    CASE In(s, Pending) -> "queued"
      [] ~In(s, Pending) /\ EndState(s) = "failed" -> "failed"
      [] OTHER -> "succeeded"

(* ... and settles the scan, or requeues its job for the next page. *)
Close ==
    /\ pc = "close"
    /\ \/ /\ sawCancel
          /\ scan' = [scan EXCEPT ![cur] = "cancelled"]
          /\ job' = [job EXCEPT ![cur].state = "cancelled"]
       \/ /\ ~sawCancel
          /\ scan' = IF In(cur, Pending) THEN scan
                     ELSE [scan EXCEPT ![cur] = EndState(cur)]
          /\ job' = [job EXCEPT ![cur].state = JobAfterPage(cur)]
    /\ LoopIdle
    /\ UNCHANGED <<request, cancel, target, read, retried, bounds>>

(* The process is killed and started again; a request being handled is lost. *)
Crash ==
    /\ faults < MaxFaults
    /\ faults' = faults + 1
    /\ request' = [s \in Scan |-> IF request[s] = "checked" THEN "done" ELSE request[s]]
    /\ LoopIdle
    /\ UNCHANGED <<scan, cancel, target, read, job, retried, floods>>

(* No job to claim: the loop polls again. *)
Poll ==
    /\ pc = "idle"
    /\ \A s \in Scan : job[s].state \notin {"queued", "retry_wait"}
    /\ UNCHANGED scanVars

-------------------------------------------------------------------------------
ScanInit ==
    /\ request = [s \in Scan |-> "none"]
    /\ scan = [s \in Scan |-> "absent"]
    /\ cancel = [s \in Scan |-> FALSE]
    /\ target = [s \in Scan |-> [t \in Target |-> "absent"]]
    /\ read = [s \in Scan |-> [t \in Target |-> 0]]
    /\ job = [s \in Scan |-> [state |-> "absent", attempt |-> 0]]
    /\ pc = "idle" /\ cur = NoScan /\ tgt = 0 /\ sawCancel = FALSE
    /\ retried = [s \in Scan |-> 0]
    /\ faults = 0 /\ floods = 0

ScanNext ==
    \/ \E s \in Scan : \/ CheckCreate(s) \/ InsertScan(s) \/ Cancel(s)
                       \/ RecoverStale(s) \/ Claim(s)
    \/ Select \/ CommitPage \/ TargetError \/ FloodWait \/ Transient \/ FailScan
    \/ ReadCancel \/ Close
    \/ Crash \/ Poll

ScanSpec == ScanInit /\ [][ScanNext]_scanVars

(* The loop keeps claiming and finishing pages, and leases run out. *)
ScanFairSpec ==
    /\ ScanSpec
    /\ \A s \in Scan : WF_scanVars(Claim(s)) /\ WF_scanVars(RecoverStale(s))
    /\ WF_scanVars(Select) /\ WF_scanVars(CommitPage \/ TargetError)
    /\ WF_scanVars(ReadCancel) /\ WF_scanVars(Close)

-------------------------------------------------------------------------------
(* Properties *)

\* Every variable has its type.
ScanTypeOK ==
    /\ request \in [Scan -> {"none", "checked", "done"}]
    /\ scan \in [Scan -> ACTIVE_STATES \cup {"absent", "succeeded", "partial", "failed",
                                              "cancelled"}]
    /\ cancel \in [Scan -> BOOLEAN]
    /\ target \in [Scan -> [Target -> Pending \cup {"absent", "succeeded", "skipped",
                                                    "failed", "cancelled"}]]
    /\ \A s \in Scan : \A t \in Target : read[s][t] \in 0 .. Pages[t]
    /\ job \in [Scan -> [state : JobState, attempt : Nat]]
    /\ pc \in {"idle", "claimed", "fetch", "closing", "close"}
    /\ cur \in Scan \cup {NoScan} /\ tgt \in Target \cup {0}
    /\ sawCancel \in BOOLEAN
    /\ retried \in [Scan -> Nat]
    /\ faults \in 0 .. MaxFaults /\ floods \in 0 .. MaxFloods

\* The outcome a scan reports is that of its targets, whatever was retried,
\* read again after a crash or cancelled meanwhile: "succeeded" means every
\* target was, "partial" that some were and all are settled (PROC-021); and a target
\* that succeeded was read to the start of its period, each page once, as the cursor
\* and the page are committed together (PROC-020).
OutcomeMatchesTargets ==
    \A s \in Scan :
        /\ scan[s] = "succeeded" => \A t \in Target : target[s][t] = "succeeded"
        /\ scan[s] = "partial" => /\ In(s, {"succeeded"}) /\ In(s, {"skipped", "failed"})
                                  /\ ~In(s, Pending)
        /\ \A t \in Target : target[s][t] = "succeeded" => read[s][t] = Pages[t]

\* An active scan comes to an end, or its job dies of transient errors.
ScanSettles ==
    \A s \in Scan :
        scan[s] \in ACTIVE_STATES ~> scan[s] \notin ACTIVE_STATES \/ job[s].state = "dead"

\* PROC-020 as the PRD states it: one active scan at a time.
OneActiveScan ==
    \A r, s \in Scan : scan[r] \in ACTIVE_STATES /\ scan[s] \in ACTIVE_STATES => r = s

\* PROC-020 as the PRD states it: a job takes five transient errors before it
\* gives up.
DeadAfterAllRetries ==
    \A s \in Scan : job[s].state = "dead" => retried[s] >= MaxAttempts

\* PROC-020 as the PRD states it: a cancellation is seen between pages, so it
\* takes effect.
CancelTakesEffect == \A s \in Scan : cancel[s] ~> scan[s] \notin ACTIVE_STATES
===============================================================================
