---------------------------- MODULE JobLeaseProofs ----------------------------
(***************************************************************************)
(* For every set of jobs, every assignment of jobs to loops and every      *)
(* lease length: JobLease keeps its types, leaks no in-flight id, leases   *)
(* every running discovery job and commits the outcome of a run once.      *)
(***************************************************************************)
EXTENDS JobLease, TLAPS

\* A loop executes a job of its own group, exactly while it is past its claim.
ExecMatchesPc ==
    /\ pc["watchdog"] \in {"idle", "read"}
    /\ \A w \in Loop : pc[w] \in {"claimed", "run"} => exec[w] \in Job
    /\ \A w \in Loop : pc[w] \in {"idle", "read"} => exec[w] = NoJob
    /\ \A w \in Loop : exec[w] # NoJob => Kind[exec[w]] = w

\* A discovery worker past its claim works for a run without an outcome.
ExecutedRunOpen ==
    \A w \in Discovery : exec[w] # NoJob => commits[exec[w]] = 0

IInv ==
    /\ TypeOK
    /\ ExecMatchesPc
    /\ InflightIsExecuted
    /\ DiscoveryRunningHasLease
    /\ ExecutedRunOpen
    /\ OutcomeCommittedOnce

\* What the prover must see of the constants and the sets built from them.
USE JobAssumption DEF Discovery, Loop, Actor, NoLease, JobState

-------------------------------------------------------------------------------
(* The initial state satisfies the invariant. *)
LEMMA InitInv == Init => IInv
  BY DEF Init, IInv, TypeOK, ExecMatchesPc, InflightIsExecuted,
         DiscoveryRunningHasLease, ExecutedRunOpen, OutcomeCommittedOnce

(* Requeueing keeps the types of the two columns it writes and leaves no
   running job without a lease. *)
LEMMA RequeueTypes ==
  ASSUME TypeOK, DiscoveryRunningHasLease, NEW S \in SUBSET Job
  PROVE  /\ RequeuedState(S) \in [Job -> JobState]
         /\ RequeuedLease(S) \in [Job -> Int]
         /\ \A j \in Job : NoLease <= RequeuedLease(S)[j] /\ RequeuedLease(S)[j] <= LeaseTicks
         /\ \A j \in Job : Kind[j] \in Discovery /\ RequeuedState(S)[j] = "running"
                              => RequeuedLease(S)[j] # NoLease
  BY DEF TypeOK, DiscoveryRunningHasLease, RequeuedState, RequeuedLease

\* enqueue_job adds a queued row: no running row, no execution and no outcome changes.
LEMMA EnqueueJobInv ==
  ASSUME IInv, NEW j \in Job, EnqueueJob(j)
  PROVE  IInv'
  BY DEF EnqueueJob,
         IInv, TypeOK, ExecMatchesPc, InflightIsExecuted,
         DiscoveryRunningHasLease, ExecutedRunOpen, OutcomeCommittedOnce

\* Reading the stale rows writes nothing.
LEMMA BeginRecoveryInv ==
  ASSUME IInv, NEW a \in Actor, BeginRecovery(a)
  PROVE  IInv'
  BY DEF BeginRecovery, rows, Stale, MayEnter, DiscoveryLockFree,
         IInv, TypeOK, ExecMatchesPc, InflightIsExecuted,
         DiscoveryRunningHasLease, ExecutedRunOpen, OutcomeCommittedOnce

\* The write-back of a stale recovery leaves rows queued without a lease.
LEMMA EndRecoveryInv ==
  ASSUME IInv, EndRecovery
  PROVE  IInv'
  BY DEF EndRecovery, RequeuedState, RequeuedLease,
         IInv, TypeOK, ExecMatchesPc, InflightIsExecuted,
         DiscoveryRunningHasLease, ExecutedRunOpen, OutcomeCommittedOnce

\* A poll that finds no job only requeues stale rows.
LEMMA ClaimNothingInv ==
  ASSUME IInv, NEW w \in Loop, ClaimNothing(w)
  PROVE  IInv'
  BY DEF ClaimNothing, RequeuedState, RequeuedLease,
         IInv, TypeOK, ExecMatchesPc, InflightIsExecuted,
         DiscoveryRunningHasLease, ExecutedRunOpen, OutcomeCommittedOnce

(* Claiming a job after requeueing: the part both claims share. *)
LEMMA ClaimedInv ==
  ASSUME IInv, NEW w \in Loop, pc[w] = "read",
         NEW j \in Job, Kind[j] = w, Claimed(w, j)
  PROVE  /\ state' \in [Job -> JobState]
         /\ lease' \in [Job -> Int]
         /\ \A k \in Job : NoLease <= lease'[k] /\ lease'[k] <= LeaseTicks
         /\ exec' \in [Loop -> Job \cup {NoJob}]
         /\ DiscoveryRunningHasLease'
         /\ \A v \in Loop : exec'[v] = IF v = w THEN j ELSE exec[v]
  <1>1. seen[w] \in SUBSET Job
    BY DEF IInv, TypeOK
  <1>2. /\ RequeuedState(seen[w]) \in [Job -> JobState]
        /\ RequeuedLease(seen[w]) \in [Job -> Int]
        /\ \A k \in Job : /\ NoLease <= RequeuedLease(seen[w])[k]
                          /\ RequeuedLease(seen[w])[k] <= LeaseTicks
        /\ \A k \in Job : Kind[k] \in Discovery /\ RequeuedState(seen[w])[k] = "running"
                             => RequeuedLease(seen[w])[k] # NoLease
    BY <1>1, RequeueTypes DEF IInv
  <1>3. exec \in [Loop -> Job \cup {NoJob}]
    BY DEF IInv, TypeOK
  <1>4. QED
    BY <1>2, <1>3 DEF Claimed, DiscoveryRunningHasLease

\* A claim of the collector concerns no discovery job.
LEMMA ClaimCollectorInv ==
  ASSUME IInv, ClaimCollector
  PROVE  IInv'
  <1>1. PICK j \in Chosen("collector") : Claimed("collector", j)
    BY DEF ClaimCollector
  <1>2. j \in Job /\ Kind[j] = "collector"
    BY DEF Chosen, Claimable
  <1>3. /\ pc["collector"] = "read"
        /\ pc' = [pc EXCEPT !["collector"] = "claimed"]
        /\ seen' = [seen EXCEPT !["collector"] = {}]
        /\ UNCHANGED <<wait, commits, inflight, crashes>>
    BY DEF ClaimCollector
  <1>4. /\ state' \in [Job -> JobState]
        /\ lease' \in [Job -> Int]
        /\ \A k \in Job : NoLease <= lease'[k] /\ lease'[k] <= LeaseTicks
        /\ exec' \in [Loop -> Job \cup {NoJob}]
        /\ DiscoveryRunningHasLease'
        /\ \A v \in Loop : exec'[v] = IF v = "collector" THEN j ELSE exec[v]
    BY <1>1, <1>2, <1>3, ClaimedInv
  <1>5. TypeOK'
    BY <1>3, <1>4 DEF IInv, TypeOK
  <1>6. ExecMatchesPc'
    BY <1>2, <1>3, <1>4 DEF IInv, TypeOK, ExecMatchesPc
  <1>7. InflightIsExecuted' /\ ExecutedRunOpen' /\ OutcomeCommittedOnce'
    BY <1>3, <1>4 DEF IInv, TypeOK, InflightIsExecuted, ExecutedRunOpen,
                      OutcomeCommittedOnce
  <1>8. QED
    BY <1>4, <1>5, <1>6, <1>7 DEF IInv

(* A discovery claim either closes the job of a finished run or starts one
   whose run is open. *)
LEMMA ClaimDiscoveryInv ==
  ASSUME IInv, NEW w \in Discovery, ClaimDiscovery(w)
  PROVE  IInv'
  <1>1. /\ pc[w] = "read"
        /\ seen' = [seen EXCEPT ![w] = {}]
        /\ UNCHANGED <<wait, commits, inflight, crashes>>
    BY DEF ClaimDiscovery
  <1>2. CASE \E j \in Chosen(w) :
               /\ RunTerminal(j)
               /\ state' = [RequeuedState(seen[w]) EXCEPT ![j] = "finished"]
               /\ lease' = [RequeuedLease(seen[w]) EXCEPT ![j] = LeaseTicks]
               /\ pc' = [pc EXCEPT ![w] = "idle"]
               /\ UNCHANGED exec
    <2>1. PICK j \in Job :
               /\ state' = [RequeuedState(seen[w]) EXCEPT ![j] = "finished"]
               /\ lease' = [RequeuedLease(seen[w]) EXCEPT ![j] = LeaseTicks]
               /\ pc' = [pc EXCEPT ![w] = "idle"]
               /\ UNCHANGED exec
      BY <1>2 DEF Chosen, Claimable
    <2>2. /\ RequeuedState(seen[w]) \in [Job -> JobState]
          /\ RequeuedLease(seen[w]) \in [Job -> Int]
          /\ \A k \in Job : /\ NoLease <= RequeuedLease(seen[w])[k]
                            /\ RequeuedLease(seen[w])[k] <= LeaseTicks
          /\ \A k \in Job : Kind[k] \in Discovery /\ RequeuedState(seen[w])[k] = "running"
                               => RequeuedLease(seen[w])[k] # NoLease
      BY RequeueTypes DEF IInv, TypeOK
    <2>3. TypeOK' /\ DiscoveryRunningHasLease'
      BY <1>1, <2>1, <2>2 DEF IInv, TypeOK, DiscoveryRunningHasLease
    <2>4. ExecMatchesPc' /\ InflightIsExecuted' /\ ExecutedRunOpen'
          /\ OutcomeCommittedOnce'
      BY <1>1, <2>1 DEF IInv, TypeOK, ExecMatchesPc, InflightIsExecuted,
                        ExecutedRunOpen, OutcomeCommittedOnce
    <2>5. QED
      BY <2>3, <2>4 DEF IInv
  <1>3. CASE \E j \in Chosen(w) :
               /\ ~RunTerminal(j)
               /\ Claimed(w, j)
               /\ pc' = [pc EXCEPT ![w] = IF w = "graph" THEN "claimed" ELSE "run"]
    <2>1. PICK j \in Chosen(w) :
               /\ ~RunTerminal(j)
               /\ Claimed(w, j)
               /\ pc' = [pc EXCEPT ![w] = IF w = "graph" THEN "claimed" ELSE "run"]
      BY <1>3
    <2>2. j \in Job /\ Kind[j] = w
      BY DEF Chosen, Claimable
    <2>3. commits[j] = 0
      BY <2>1, <2>2 DEF RunTerminal, IInv, TypeOK
    <2>4. /\ state' \in [Job -> JobState]
          /\ lease' \in [Job -> Int]
          /\ \A k \in Job : NoLease <= lease'[k] /\ lease'[k] <= LeaseTicks
          /\ exec' \in [Loop -> Job \cup {NoJob}]
          /\ DiscoveryRunningHasLease'
          /\ \A v \in Loop : exec'[v] = IF v = w THEN j ELSE exec[v]
      BY <1>1, <2>1, <2>2, ClaimedInv
    <2>5. TypeOK'
      BY <1>1, <2>1, <2>4 DEF IInv, TypeOK
    <2>6. ExecMatchesPc'
      BY <1>1, <2>1, <2>2, <2>4 DEF IInv, TypeOK, ExecMatchesPc
    <2>8. InflightIsExecuted'
      BY <1>1, <2>4 DEF IInv, TypeOK, InflightIsExecuted, ExecMatchesPc
    <2>9. ExecutedRunOpen' /\ OutcomeCommittedOnce'
      BY <1>1, <2>3, <2>4 DEF IInv, TypeOK, ExecutedRunOpen, OutcomeCommittedOnce
    <2>10. QED
      BY <2>4, <2>5, <2>6, <2>8, <2>9 DEF IInv
  <1>4. QED
    BY <1>2, <1>3 DEF ClaimDiscovery

(* Ending an execution: the loop is idle, its job is nobody's. *)
LEMMA ReleaseInv ==
  ASSUME IInv, NEW w \in Loop, Release(w)
  PROVE  /\ pc' \in [Actor -> {"idle", "read", "claimed", "run"}]
         /\ exec' \in [Loop -> Job \cup {NoJob}]
         /\ inflight' \subseteq Job
         /\ ExecMatchesPc'
         /\ InflightIsExecuted'
  BY DEF Release, IInv, TypeOK, ExecMatchesPc, InflightIsExecuted

\* The collector's row loses its lease, which is no discovery row.
LEMMA PrepareBackfillInv ==
  ASSUME IInv, PrepareBackfill
  PROVE  IInv'
  <1>1. /\ pc["collector"] = "claimed"
        /\ UNCHANGED <<lease, wait, commits, seen, crashes>>
    BY DEF PrepareBackfill
  <1>2. exec["collector"] \in Job /\ Kind[exec["collector"]] = "collector"
    BY <1>1 DEF IInv, TypeOK, ExecMatchesPc
  <1>3. CASE /\ state' = [state EXCEPT ![exec["collector"]] = "running"]
             /\ pc' = [pc EXCEPT !["collector"] = "run"]
             /\ UNCHANGED <<exec, inflight>>
    BY <1>1, <1>2, <1>3
       DEF IInv, TypeOK, ExecMatchesPc, InflightIsExecuted,
           DiscoveryRunningHasLease, ExecutedRunOpen, OutcomeCommittedOnce
  <1>4. CASE /\ state' = [state EXCEPT ![exec["collector"]] = "finished"]
             /\ Release("collector")
    <2>1. TypeOK' /\ DiscoveryRunningHasLease' /\ OutcomeCommittedOnce'
      BY <1>1, <1>2, <1>4, ReleaseInv
         DEF IInv, TypeOK, DiscoveryRunningHasLease, OutcomeCommittedOnce
    <2>2. ExecutedRunOpen'
      BY <1>1, <1>4 DEF Release, IInv, TypeOK, ExecutedRunOpen
    <2>3. QED
      BY <1>4, <2>1, <2>2, ReleaseInv DEF IInv
  <1>5. QED
    BY <1>3, <1>4 DEF PrepareBackfill

\* The graph worker marks the job it executes.
LEMMA MarkInflightInv ==
  ASSUME IInv, MarkInflight
  PROVE  IInv'
  BY DEF MarkInflight, rows,
         IInv, TypeOK, ExecMatchesPc, InflightIsExecuted,
         DiscoveryRunningHasLease, ExecutedRunOpen, OutcomeCommittedOnce

\* A heartbeat renews the lease of the executed row.
LEMMA HeartbeatInv ==
  ASSUME IInv, NEW w \in Discovery, Heartbeat(w)
  PROVE  IInv'
  BY DEF Heartbeat,
         IInv, TypeOK, ExecMatchesPc, InflightIsExecuted,
         DiscoveryRunningHasLease, ExecutedRunOpen, OutcomeCommittedOnce

\* The outcome is committed with the execution, whose run was still open.
LEMMA FinishJobInv ==
  ASSUME IInv, NEW w \in Loop, FinishJob(w)
  PROVE  IInv'
  <1>1. Release(w) /\ UNCHANGED <<wait, seen, crashes>>
    BY DEF FinishJob
  <1>2. exec[w] \in Job /\ Kind[exec[w]] = w
    BY DEF FinishJob, IInv, TypeOK, ExecMatchesPc
  <1>3. state' = [state EXCEPT ![exec[w]] = "finished"]
    BY DEF FinishJob
  <1>4. CASE w \in Discovery
    <2>1. /\ lease' = [lease EXCEPT ![exec[w]] = NoLease]
          /\ commits' = [commits EXCEPT ![exec[w]] = @ + 1]
      BY <1>4 DEF FinishJob
    <2>2. commits[exec[w]] = 0
      BY <1>2, <1>4 DEF IInv, ExecutedRunOpen
    <2>3. TypeOK' /\ DiscoveryRunningHasLease'
      <3>1. DiscoveryRunningHasLease'
        BY <1>2, <1>3, <2>1 DEF IInv, TypeOK, DiscoveryRunningHasLease
      <3>2. commits' \in [Job -> Nat]
        <4>1. commits \in [Job -> Nat]
          BY DEF IInv, TypeOK
        <4>2. commits' = [commits EXCEPT ![exec[w]] = 1]
          BY <2>1, <2>2
        <4>3. QED
          BY <4>1, <4>2
      <3>3. /\ lease' \in [Job -> Int]
            /\ \A j \in Job : NoLease <= lease'[j] /\ lease'[j] <= LeaseTicks
        BY <1>2, <2>1 DEF IInv, TypeOK
      <3>4. state' \in [Job -> JobState]
        BY <1>2, <1>3 DEF IInv, TypeOK
      <3>5. /\ pc' \in [Actor -> {"idle", "read", "claimed", "run"}]
            /\ exec' \in [Loop -> Job \cup {NoJob}]
            /\ inflight' \subseteq Job
        BY <1>1, ReleaseInv
      <3>6. wait' \in [Job -> Nat] /\ seen' \in [Actor -> SUBSET Job] /\ crashes' \in Nat
        BY <1>1 DEF IInv, TypeOK
      <3>7. QED
        BY <3>1, <3>2, <3>3, <3>4, <3>5, <3>6 DEF TypeOK
    <2>4. OutcomeCommittedOnce'
      BY <1>2, <2>1, <2>2 DEF IInv, TypeOK, OutcomeCommittedOnce
    <2>5. ExecutedRunOpen'
      BY <1>1, <1>2, <2>1 DEF Release, IInv, TypeOK, ExecMatchesPc, ExecutedRunOpen
    <2>6. QED
      BY <1>1, <2>3, <2>4, <2>5, ReleaseInv DEF IInv
  <1>5. CASE w \notin Discovery
    <2>1. lease' = lease /\ commits' = commits
      BY <1>5 DEF FinishJob
    <2>2. TypeOK' /\ DiscoveryRunningHasLease' /\ OutcomeCommittedOnce'
      BY <1>1, <1>2, <1>3, <2>1, ReleaseInv
         DEF IInv, TypeOK, DiscoveryRunningHasLease, OutcomeCommittedOnce
    <2>3. ExecutedRunOpen'
      BY <1>1, <1>5, <2>1 DEF Release, IInv, TypeOK, ExecutedRunOpen
    <2>4. QED
      BY <1>1, <2>2, <2>3, ReleaseInv DEF IInv
  <1>6. QED
    BY <1>4, <1>5

\* A parked job ends its execution and commits no outcome.
LEMMA ParkJobInv ==
  ASSUME IInv, NEW w \in Loop, ParkJob(w)
  PROVE  IInv'
  <1>1. Release(w) /\ UNCHANGED <<commits, seen, crashes>>
    BY DEF ParkJob
  <1>2. exec[w] \in Job
    BY DEF ParkJob, IInv, TypeOK, ExecMatchesPc
  <1>3. /\ state' = [state EXCEPT ![exec[w]] = "retry_wait"]
        /\ wait' = [wait EXCEPT ![exec[w]] = RetryTicks]
        /\ lease' = IF w = "keyword" THEN [lease EXCEPT ![exec[w]] = NoLease] ELSE lease
    BY DEF ParkJob
  <1>4. TypeOK'
    BY <1>1, <1>2, <1>3, ReleaseInv DEF IInv, TypeOK
  <1>5. DiscoveryRunningHasLease'
    BY <1>2, <1>3 DEF IInv, TypeOK, DiscoveryRunningHasLease
  <1>6. ExecutedRunOpen' /\ OutcomeCommittedOnce'
    BY <1>1 DEF Release, IInv, TypeOK, ExecutedRunOpen, OutcomeCommittedOnce
  <1>7. QED
    BY <1>1, <1>4, <1>5, <1>6, ReleaseInv DEF IInv

\* An exception ends the execution and leaves the row as it is.
LEMMA AbandonJobInv ==
  ASSUME IInv, NEW w \in Loop, AbandonJob(w)
  PROVE  IInv'
  BY DEF AbandonJob, Release, rows,
         IInv, TypeOK, ExecMatchesPc, InflightIsExecuted,
         DiscoveryRunningHasLease, ExecutedRunOpen, OutcomeCommittedOnce

\* Time shortens leases and delays, and never to "no lease".
LEMMA TickInv ==
  ASSUME IInv, Tick
  PROVE  IInv'
  BY DEF Tick, Down,
         IInv, TypeOK, ExecMatchesPc, InflightIsExecuted,
         DiscoveryRunningHasLease, ExecutedRunOpen, OutcomeCommittedOnce

\* A crash empties what is held in memory.
LEMMA CrashInv ==
  ASSUME IInv, Crash
  PROVE  IInv'
  BY DEF Crash, rows,
         IInv, TypeOK, ExecMatchesPc, InflightIsExecuted,
         DiscoveryRunningHasLease, ExecutedRunOpen, OutcomeCommittedOnce

\* A step that changes no variable keeps the invariant.
LEMMA StutterInv ==
  ASSUME IInv, UNCHANGED vars
  PROVE  IInv'
  BY DEF vars, rows, IInv, TypeOK, ExecMatchesPc, InflightIsExecuted,
         DiscoveryRunningHasLease, ExecutedRunOpen, OutcomeCommittedOnce

-------------------------------------------------------------------------------
(* Every step of the specification keeps the invariant. *)
LEMMA NextInv == IInv /\ [Next]_vars => IInv'
  <1> SUFFICES ASSUME IInv, [Next]_vars PROVE IInv'
    OBVIOUS
  <1>1. CASE \E j \in Job : EnqueueJob(j)          BY <1>1, EnqueueJobInv
  <1>2. CASE \E a \in Actor : BeginRecovery(a)     BY <1>2, BeginRecoveryInv
  <1>3. CASE EndRecovery                            BY <1>3, EndRecoveryInv
  <1>4. CASE \E w \in Loop : ClaimNothing(w)       BY <1>4, ClaimNothingInv
  <1>5. CASE ClaimCollector                         BY <1>5, ClaimCollectorInv
  <1>6. CASE \E w \in Discovery : ClaimDiscovery(w) BY <1>6, ClaimDiscoveryInv
  <1>7. CASE PrepareBackfill                        BY <1>7, PrepareBackfillInv
  <1>8. CASE MarkInflight                           BY <1>8, MarkInflightInv
  <1>9. CASE \E w \in Discovery : Heartbeat(w)     BY <1>9, HeartbeatInv
  <1>10. CASE \E w \in Loop : FinishJob(w) \/ ParkJob(w) \/ AbandonJob(w)
    BY <1>10, FinishJobInv, ParkJobInv, AbandonJobInv
  <1>11. CASE Tick                                  BY <1>11, TickInv
  <1>12. CASE Crash                                 BY <1>12, CrashInv
  <1>13. CASE UNCHANGED vars                        BY <1>13, StutterInv
  <1>14. QED
    BY <1>1, <1>2, <1>3, <1>4, <1>5, <1>6, <1>7, <1>8, <1>9, <1>10, <1>11, <1>12, <1>13
       DEF Next

(* The inductive invariant holds in every reachable state. *)
THEOREM JobLeaseInvariant == Spec => []IInv
  BY InitInv, NextInv, PTL DEF Spec

(* Every variable keeps its type, whatever the jobs and the lease length. *)
THEOREM JobLeaseTypes == Spec => []TypeOK
  <1>1. IInv => TypeOK
    BY DEF IInv
  <1>2. QED
    BY <1>1, JobLeaseInvariant, PTL

(* No id outlives its execution in the in-flight set, so none is exempt from
   recovery for ever. *)
THEOREM NoLeakedInflightId == Spec => []InflightIsExecuted
  <1>1. IInv => InflightIsExecuted
    BY DEF IInv
  <1>2. QED
    BY <1>1, JobLeaseInvariant, PTL

(* A running discovery job always has the lease its recovery needs. *)
THEOREM DiscoveryJobsRecoverable == Spec => []DiscoveryRunningHasLease
  <1>1. IInv => DiscoveryRunningHasLease
    BY DEF IInv
  <1>2. QED
    BY <1>1, JobLeaseInvariant, PTL

(* Crashes, stale recoveries and repeated executions commit the outcome of a
   discovery run at most once. *)
THEOREM OutcomeOnce == Spec => []OutcomeCommittedOnce
  <1>1. IInv => OutcomeCommittedOnce
    BY DEF IInv
  <1>2. QED
    BY <1>1, JobLeaseInvariant, PTL
===============================================================================
