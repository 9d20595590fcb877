------------------------------- MODULE JobLease -------------------------------
(***************************************************************************)
(* Persisted jobs, their leases and the loops that execute them            *)
(* (storage/jobs.py with its callers in runtime.py, collector/service.py   *)
(* and source_discovery/worker_parts).                                     *)
(*                                                                         *)
(* One process runs one loop per group of job types and a watchdog.  Every *)
(* loop, and the watchdog, first requeues the jobs of EVERY group whose    *)
(* lease has run out.  That recovery is a SELECT, an await and an UPDATE   *)
(* keyed by id alone, so the set it read may be out of date when it is     *)
(* written.  Recoveries made through run_write (watchdog, collector) are   *)
(* serialised with each other and with the collector's own transactions;   *)
(* those of the two discovery loops are not.                               *)
(***************************************************************************)
EXTENDS Integers, FiniteSets

CONSTANTS Job,          \* job ids, claimed in increasing order
          Kind,         \* the loop a job belongs to
          LeaseTicks,   \* LEASE_SECONDS, in ticks
          RetryTicks,   \* the delay of a parked job, in ticks
          MaxCrashes,   \* bound: how many times the process is killed
          NoJob

Discovery == {"keyword", "graph"}
Loop      == Discovery \cup {"collector"}
Actor     == Loop \cup {"watchdog"}

ASSUME JobAssumption ==
    /\ Job \subseteq Nat
    /\ NoJob \notin Job
    /\ Kind \in [Job -> Loop]
    /\ LeaseTicks \in Nat \ {0}
    /\ RetryTicks \in Nat \ {0}
    /\ MaxCrashes \in Nat

VARIABLES state,     \* Job.state; the terminal states are one, "finished"
          lease,     \* ticks until Job.lease_until, 0 once it is past
          wait,      \* ticks until Job.available_at
          commits,   \* how often the job's run got a terminal outcome
          inflight,  \* _IN_FLIGHT_DISCOVERY_JOB_IDS, lost with the process
          pc,        \* where each loop and the watchdog stand
          seen,      \* the stale ids an actor has read and not yet written
          exec,      \* the job each loop is executing
          crashes

vars == <<state, lease, wait, commits, inflight, pc, seen, exec, crashes>>
rows == <<state, lease, wait, commits>>

NoLease == -1
JobState == {"absent", "queued", "running", "retry_wait", "finished"}

-------------------------------------------------------------------------------
(* storage/jobs.py *)

\* Seeded fault: every graph job is exempt, in flight or not.
StaleExemptsGraph == {j \in Job : /\ state[j] = "running"
                                  /\ lease[j] = 0
                                  /\ Kind[j] # "graph"}

\* The rows recover_stale_jobs selects, in-flight graph jobs skipped.
Stale == {j \in Job : /\ state[j] = "running"
                      /\ lease[j] = 0
                      /\ ~(Kind[j] = "graph" /\ j \in inflight)}

\* The rows claim_job may take for loop w once the jobs in S are requeued.
Claimable(w, S) ==
    {j \in Job : /\ Kind[j] = w
                 /\ \/ j \in S
                    \/ state[j] \in {"queued", "retry_wait"} /\ wait[j] = 0}

\* The UPDATE of a recovery: whatever the rows hold by now, they are queued.
RequeuedState(S) == [j \in Job |-> IF j \in S THEN "queued" ELSE state[j]]
RequeuedLease(S) == [j \in Job |-> IF j \in S THEN NoLease ELSE lease[j]]

\* run_write holds the process-wide write lock from its first await on.
WriteLockFree == pc["watchdog"] # "read" /\ pc["collector"] # "read"

\* _TELEGRAM_DISCOVERY_EXECUTION_LOCK covers a discovery loop's recovery,
\* claim and processing.
DiscoveryLockFree == \A w \in Discovery : pc[w] = "idle"

\* Whether actor a gets the lock its transaction or its section needs.
MayEnter(a) == IF a \in Discovery THEN DiscoveryLockFree ELSE WriteLockFree

-------------------------------------------------------------------------------
(* enqueue_job: a dedupe key that exists returns the existing row. *)
EnqueueJob(j) ==
    /\ state[j] = "absent"
    /\ state' = [state EXCEPT ![j] = "queued"]
    /\ UNCHANGED <<lease, wait, commits, inflight, pc, seen, exec, crashes>>

(* The SELECT of recover_stale_jobs, by the watchdog tick, by the recovery at
   startup or at the head of a loop's claim. *)
BeginRecovery(a) ==
    /\ pc[a] = "idle"
    /\ MayEnter(a)
    /\ pc' = [pc EXCEPT ![a] = "read"]
    /\ seen' = [seen EXCEPT ![a] = Stale]
    /\ UNCHANGED <<rows, inflight, exec, crashes>>

(* The watchdog's UPDATE and commit. *)
EndRecovery ==
    /\ pc["watchdog"] = "read"
    /\ state' = RequeuedState(seen["watchdog"])
    /\ lease' = RequeuedLease(seen["watchdog"])
    /\ pc' = [pc EXCEPT !["watchdog"] = "idle"]
    /\ seen' = [seen EXCEPT !["watchdog"] = {}]
    /\ UNCHANGED <<wait, commits, inflight, exec, crashes>>

(* claim_job takes the lowest claimable id, if there is one. *)
Chosen(w) ==
    LET avail == Claimable(w, seen[w])
    IN  {j \in avail : \A k \in avail : j <= k}

\* Seeded fault: the recovery's UPDATE follows the claim and takes back the
\* lease of a claimed row that was stale.
ClaimedThenRequeued(w, j) ==
    /\ state' = [RequeuedState(seen[w]) EXCEPT ![j] = "running"]
    /\ lease' = RequeuedLease(seen[w] \cup {j})
    /\ exec' = [exec EXCEPT ![w] = j]

(* The requeued rows and, with them, job j claimed. *)
Claimed(w, j) ==
    /\ state' = [RequeuedState(seen[w]) EXCEPT ![j] = "running"]
    /\ lease' = [RequeuedLease(seen[w]) EXCEPT ![j] = LeaseTicks]
    /\ exec' = [exec EXCEPT ![w] = j]

(* A loop's UPDATE when there is nothing to claim. *)
ClaimNothing(w) ==
    /\ pc[w] = "read"
    /\ Chosen(w) = {}
    /\ state' = RequeuedState(seen[w])
    /\ lease' = RequeuedLease(seen[w])
    /\ pc' = [pc EXCEPT ![w] = "idle"]
    /\ seen' = [seen EXCEPT ![w] = {}]
    /\ UNCHANGED <<wait, commits, inflight, exec, crashes>>

(* The collector's recovery and claim are one transaction under run_write. *)
ClaimCollector ==
    /\ pc["collector"] = "read"
    /\ \E j \in Chosen("collector") : Claimed("collector", j)
    /\ pc' = [pc EXCEPT !["collector"] = "claimed"]
    /\ seen' = [seen EXCEPT !["collector"] = {}]
    /\ UNCHANGED <<wait, commits, inflight, crashes>>

\* Seeded fault: the worker does not look at the run first.
RunTerminalIgnored(j) == FALSE

\* run.state is terminal: the outcome of job j is committed already.
RunTerminal(j) == commits[j] > 0

(* A discovery loop commits its claim only once process_keyword_discovery_job
   or process_graph_discovery_job has looked at the run: the job of a run that
   is terminal already is closed instead. *)
ClaimDiscovery(w) ==
    /\ pc[w] = "read"
    /\ \E j \in Chosen(w) :
         \/ /\ RunTerminal(j)
            /\ state' = [RequeuedState(seen[w]) EXCEPT ![j] = "finished"]
            /\ lease' = [RequeuedLease(seen[w]) EXCEPT ![j] = LeaseTicks]
            /\ pc' = [pc EXCEPT ![w] = "idle"]
            /\ UNCHANGED exec
         \/ /\ ~RunTerminal(j)
            /\ Claimed(w, j)
            /\ pc' = [pc EXCEPT ![w] = IF w = "graph" THEN "claimed" ELSE "run"]
    /\ seen' = [seen EXCEPT ![w] = {}]
    /\ UNCHANGED <<wait, commits, inflight, crashes>>

-------------------------------------------------------------------------------
(* Executing a claimed job *)

\* Seeded fault: no finally around the in-flight id.
ReleaseKeepsInflight(w) ==
    /\ pc' = [pc EXCEPT ![w] = "idle"]
    /\ exec' = [exec EXCEPT ![w] = NoJob]
    /\ UNCHANGED inflight

\* Loop w is done with its job; the graph worker's finally drops the id.
Release(w) ==
    /\ pc' = [pc EXCEPT ![w] = "idle"]
    /\ exec' = [exec EXCEPT ![w] = NoJob]
    /\ inflight' = inflight \ {exec[w]}

(* _prepare_backfill: a transaction of its own that writes "running" again and
   leaves the lease as it finds it, or ends a job whose source is gone. *)
PrepareBackfill ==
    LET j == exec["collector"]
    IN  /\ pc["collector"] = "claimed"
        /\ WriteLockFree
        /\ \/ /\ state' = [state EXCEPT ![j] = "running"]
              /\ pc' = [pc EXCEPT !["collector"] = "run"]
              /\ UNCHANGED <<exec, inflight>>
           \/ /\ state' = [state EXCEPT ![j] = "finished"]
              /\ Release("collector")
        /\ UNCHANGED <<lease, wait, commits, seen, crashes>>

(* The graph worker loads its run and joins the in-flight set before the first
   request to Telegram. *)
MarkInflight ==
    /\ pc["graph"] = "claimed"
    /\ pc' = [pc EXCEPT !["graph"] = "run"]
    /\ inflight' = inflight \cup {exec["graph"]}
    /\ UNCHANGED <<rows, seen, exec, crashes>>

(* heartbeat_job: only the two discovery workers ever call it. *)
Heartbeat(w) ==
    /\ pc[w] = "run"
    /\ lease' = [lease EXCEPT ![exec[w]] = LeaseTicks]
    /\ UNCHANGED <<state, wait, commits, inflight, pc, seen, exec, crashes>>

(* The outcome of a job is committed; a graph run cancelled meanwhile ends
   before it is marked. *)
FinishJob(w) ==
    LET j == exec[w]
    IN  /\ pc[w] = "run" \/ (w = "graph" /\ pc[w] = "claimed")
        /\ w = "collector" => WriteLockFree
        /\ state' = [state EXCEPT ![j] = "finished"]
        /\ lease' = IF w \in Discovery THEN [lease EXCEPT ![j] = NoLease] ELSE lease
        /\ commits' = IF w \in Discovery THEN [commits EXCEPT ![j] = @ + 1] ELSE commits
        /\ Release(w)
        /\ UNCHANGED <<wait, seen, crashes>>

(* Flood wait or a transient error: the job waits, its run stays active. *)
ParkJob(w) ==
    LET j == exec[w]
    IN  /\ pc[w] = "run"
        /\ w = "collector" => WriteLockFree
        /\ state' = [state EXCEPT ![j] = "retry_wait"]
        /\ wait' = [wait EXCEPT ![j] = RetryTicks]
        /\ lease' = IF w = "keyword" THEN [lease EXCEPT ![j] = NoLease] ELSE lease
        /\ Release(w)
        /\ UNCHANGED <<commits, seen, crashes>>

(* An exception no handler catches, or the loop cancelled after its shutdown
   timeout: the open transaction rolls back, a claim already committed keeps
   its lease. *)
AbandonJob(w) ==
    /\ pc[w] # "idle"
    /\ Release(w)
    /\ seen' = [seen EXCEPT ![w] = {}]
    /\ UNCHANGED <<rows, crashes>>

-------------------------------------------------------------------------------
\* One tick less until a deadline, none once it is past or unset.
Down(n) == IF n > 0 THEN n - 1 ELSE n

Tick ==
    /\ \E j \in Job : lease[j] > 0 \/ wait[j] > 0
    /\ lease' = [j \in Job |-> Down(lease[j])]
    /\ wait' = [j \in Job |-> Down(wait[j])]
    /\ UNCHANGED <<state, commits, inflight, pc, seen, exec, crashes>>

(* The process dies and is started again: rows survive, memory does not. *)
Crash ==
    /\ crashes < MaxCrashes
    /\ crashes' = crashes + 1
    /\ pc' = [a \in Actor |-> "idle"]
    /\ seen' = [a \in Actor |-> {}]
    /\ exec' = [w \in Loop |-> NoJob]
    /\ inflight' = {}
    /\ UNCHANGED rows

Init ==
    /\ state = [j \in Job |-> "absent"]
    /\ lease = [j \in Job |-> NoLease]
    /\ wait = [j \in Job |-> 0]
    /\ commits = [j \in Job |-> 0]
    /\ inflight = {}
    /\ pc = [a \in Actor |-> "idle"]
    /\ seen = [a \in Actor |-> {}]
    /\ exec = [w \in Loop |-> NoJob]
    /\ crashes = 0

Next ==
    \/ \E j \in Job : EnqueueJob(j)
    \/ \E a \in Actor : BeginRecovery(a)
    \/ EndRecovery
    \/ \E w \in Loop : ClaimNothing(w)
    \/ ClaimCollector
    \/ \E w \in Discovery : ClaimDiscovery(w)
    \/ PrepareBackfill
    \/ MarkInflight
    \/ \E w \in Discovery : Heartbeat(w)
    \/ \E w \in Loop : FinishJob(w) \/ ParkJob(w) \/ AbandonJob(w)
    \/ Tick
    \/ Crash

Spec == Init /\ [][Next]_vars

(* Time passes, the watchdog keeps ticking and a transaction that holds the
   write lock ends.  asyncio.Lock is first come, first served, so a waiting
   watchdog does get the write lock.  Nothing is assumed of the workers. *)
Fairness ==
    /\ WF_vars(Tick)
    /\ WF_vars(ClaimNothing("collector") \/ ClaimCollector)
    /\ SF_vars(BeginRecovery("watchdog"))
    /\ WF_vars(EndRecovery)

FairSpec == Spec /\ Fairness

-------------------------------------------------------------------------------
(* Properties *)

\* Every variable has its type.
TypeOK ==
    /\ state \in [Job -> JobState]
    /\ lease \in [Job -> Int]
    /\ \A j \in Job : NoLease <= lease[j] /\ lease[j] <= LeaseTicks
    /\ wait \in [Job -> Nat]
    /\ commits \in [Job -> Nat]
    /\ inflight \subseteq Job
    /\ pc \in [Actor -> {"idle", "read", "claimed", "run"}]
    /\ seen \in [Actor -> SUBSET Job]
    /\ exec \in [Loop -> Job \cup {NoJob}]
    /\ crashes \in Nat

Executed(j) == \E w \in Loop : exec[w] = j

\* The in-flight set holds nothing but the job the graph worker executes, so a
\* crash, an exception or a cancel leaves no id that would exempt a dead job
\* from recovery for ever (STO-025).
InflightIsExecuted == \A j \in inflight : exec["graph"] = j

\* A discovery job is never "running" without a lease, although stale
\* recoveries overwrite rows that were claimed in the meantime: such a row
\* would be invisible to recover_stale_jobs.
DiscoveryRunningHasLease ==
    \A j \in Job : Kind[j] \in Discovery /\ state[j] = "running" => lease[j] # NoLease

\* A discovery run gets its terminal outcome once, even when its finished job
\* is put back to "queued" by a recovery that read it earlier and is executed
\* again (AT-INF-008: no duplicate committed result).
OutcomeCommittedOnce == \A j \in Job : commits[j] <= 1

\* A discovery job left "running" by a crash, an exception or a cancelled loop
\* does not stay so.
AbandonedJobRecovered ==
    \A j \in Job : Kind[j] \in Discovery /\ state[j] = "running" /\ ~Executed(j)
                      ~> state[j] # "running" \/ Executed(j)

\* STO-025 as the PRD states it: a job in the in-flight set is not "queued".
InflightNotQueued == \A j \in inflight : state[j] # "queued"

\* COL-019 as the PRD states it: the worker keeps the lease of the collector
\* job it executes alive.
CollectorLeaseKept == exec["collector"] # NoJob => lease[exec["collector"]] > 0

\* INF-008 as the PRD states it: an interrupted job can be recovered by its
\* lease, so every "running" row has one.
RunningHasLease == \A j \in Job : state[j] = "running" => lease[j] # NoLease
===============================================================================
