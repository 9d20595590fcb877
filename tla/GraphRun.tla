------------------------------- MODULE GraphRun -------------------------------
(***************************************************************************)
(* One run of graph discovery: a breadth-first walk from seed sources to   *)
(* the sources they link to (source_discovery/worker_parts/graph_*.py,     *)
(* graph_service.py, graph_policy.py, graph_cancel.py).                    *)
(*                                                                         *)
(* The worker keeps the walk in memory and saves all of it, as the run's   *)
(* cursor, whenever it commits: `mem' is the one, `cursor' the other.  It  *)
(* calls Telegram between commits, may be killed anywhere, and an operator *)
(* may cancel the run.  Links leaving the public sources are left out, as  *)
(* filter_allowed_public_edges does; so is the depth test of the planner,  *)
(* which no node that is queued can fail.                                  *)
(***************************************************************************)
EXTENDS Integers, FiniteSets, FiniteSetsExt, Functions, Sequences

CONSTANTS Peer,          \* sources, by telegram_id
          Seeds,         \* the seeds of the run, as nodes
          Links,         \* what a stage finds at a source: links, in order
          Registered,    \* sources stored before the run
          Dismissed,     \* sources the operator has dismissed
          MaxDepth, EdgeCap, CandidateCap, ResolveCap,
          MaxFaults,     \* bound: crashes
          NoNode

GRAPH_NODE_STAGES == <<"recommendations", "linked_discussion", "message_sample_100">>
Stage   == DOMAIN GRAPH_NODE_STAGES     \* stage 0 resolves the node
AllDone == Len(GRAPH_NODE_STAGES) + 1

Node == [peer : Peer, depth : 0 .. MaxDepth - 1]
\* A link without a snapshot of its target names it only.
Link == [to : Peer, named : BOOLEAN]

ASSUME GraphRunAssumption ==
    /\ Peer \subseteq Nat /\ IsFiniteSet(Peer)
    /\ {MaxDepth, EdgeCap, CandidateCap, ResolveCap} \subseteq Nat \ {0}
    /\ Seeds \in Seq([peer : Registered, depth : {0}])
    /\ Links \in [Peer -> [Stage -> Seq(Link)]]
    /\ Registered \subseteq Peer /\ Dismissed \subseteq Peer
    /\ MaxFaults \in Nat
    /\ NoNode \notin Node

VARIABLES run, job,  \* the states of the DiscoveryRun and of its job
          wanted,    \* job.cancel_requested_at is set
          cursor,    \* cursor_json and counters_json
          sources,   \* sources the run has stored
          events,    \* SourceDiscoveryEvent rows
          pc,        \* where the worker is: "idle", "enter", "top", "node"
          mem,       \* the walk as the worker has it
          told,      \* the worker saw the cancellation when it took the job
          index,     \* the registry as it was then
          prepared,  \* the links of the current stage planned so far
          event,     \* the run's cancel event: "none", "clear", "set"
          http,      \* what a cancel request has read of the run and the job
          faults

vars == <<run, job, wanted, cursor, sources, events, pc, mem, told, index, prepared,
          event, http, faults>>
stored == <<cursor, sources, events>>
taken  == <<told, index>>

Terminal == {"succeeded", "partial", "failed", "cancelled"}
NoRead   == [run |-> "none", job |-> "none", live |-> FALSE]

\* The cursor of a run that has not begun.
Fresh ==
    [queue |-> Seeds, node |-> NoNode,
     done |-> [p \in Peer |-> 0],      \* stages completed
     receipt |-> FALSE,                \* the result of the node's next stage is saved
     keys |-> {Seeds[i].peer : i \in DOMAIN Seeds}, names |-> {},
     cached |-> {},                    \* names resolved
     parked |-> {},                    \* nodes that have had a transient error
     created |-> 0, resolves |-> 0]

-------------------------------------------------------------------------------
(* Planning one link *)

\* Seeded fault: the caps are not looked at.
OutcomeUncapped(w, p, named) ==
    IF p \in (IF named THEN w.names ELSE w.keys) THEN "duplicate_in_run"
    ELSE IF p \in Dismissed THEN "dismissed_suppressed"
    ELSE IF ~named /\ p \in index THEN "merged"
    ELSE "candidate"

\* plan_edge_outcome, for a walk w
Outcome(w, p, named) ==
    IF p \in (IF named THEN w.names ELSE w.keys) THEN "duplicate_in_run"
    ELSE IF p \in Dismissed THEN "dismissed_suppressed"
    ELSE IF ~named /\ p \in index THEN "merged"
    ELSE IF w.created >= CandidateCap \/ (named /\ w.resolves >= ResolveCap)
         THEN "budget_skipped"
    ELSE "candidate"

\* The walk after planning: the key of a link that will be followed or dropped for
\* good is remembered, that of one the budget has no room for is not.
Planned(w, p, named) ==
    IF Outcome(w, p, named) \notin {"dismissed_suppressed", "merged", "candidate"} THEN w
    ELSE IF named THEN [w EXCEPT !.names = @ \cup {p}]
    ELSE [w EXCEPT !.keys = @ \cup {p}]

\* The current stage, and its links as far as the node may follow them.
At == mem.done[mem.node.peer]
Edges ==
    LET found == Links[mem.node.peer]
        used  == SumFunctionOnSet([k \in Stage |-> Len(found[k])], 1 .. At - 1)
    IN  SubSeq(found[At], 1, Min({Len(found[At]), Max({0, EdgeCap - used})}))

Planning == pc = "node" /\ mem.receipt
More     == Planning /\ Len(prepared) < Len(Edges)
Edge     == Edges[Len(prepared) + 1]

\* The next link is to a name that Telegram must resolve.
MustResolve ==
    /\ More
    /\ Edge.named /\ Edge.to \notin mem.cached
    /\ Outcome(mem, Edge.to, TRUE) = "candidate"

\* The worker is about to call Telegram.
Calling == pc = "node" /\ At < AllDone /\ (mem.receipt => MustResolve)

-------------------------------------------------------------------------------
(* The worker *)

\* Seeded fault: the node taken from the queue is not saved.
SavedWithoutNode(w) == [w EXCEPT !.node = NoNode]

\* _save_graph_cursor
Saved(w) == w

\* The worker changes the walk and commits it.
Save(w) == mem' = w /\ cursor' = Saved(w)

\* Seeded fault: the counters are not taken over from the cursor.
RestoredWithoutCounters(c) == [c EXCEPT !.created = 0]

\* What process_graph_discovery_job reads back.
Restored(c) == c

\* _job_state_for_terminal
JobStateForTerminal(r) == IF r \in {"cancelled", "failed"} THEN r ELSE "succeeded"

Idle == pc' = "idle" /\ event' = "none" /\ prepared' = <<>>

(* claim_job and the start of process_graph_discovery_job *)
Claim ==
    /\ pc = "idle" /\ job \in {"queued", "retry_wait"}
    /\ \/ /\ run \in Terminal
          /\ job' = JobStateForTerminal(run)
          /\ UNCHANGED <<run, pc, mem, taken, event>>
       \/ /\ run \notin Terminal
          /\ job' = "running"
          /\ run' = IF run = "queued" THEN "running" ELSE run
          /\ event' = "clear"
          /\ mem' = Restored(cursor)
          /\ told' = (wanted \/ run = "cancelling")
          /\ index' = Registered \cup sources
          /\ pc' = "enter"
    /\ UNCHANGED <<wanted, stored, prepared, http, faults>>

\* _cancel_pending: the rows are as they were when the worker took the job.
CancelPending == told \/ event = "set"

(* A terminal write, whatever the rows hold by now, ... *)
End(r, j) ==
    /\ run' = r /\ job' = j
    /\ Idle
    /\ UNCHANGED <<wanted, sources, events, taken, http, faults>>

(* ... and the walk with it. *)
Finish(r, j) ==
    /\ End(r, j)
    /\ Save([mem EXCEPT !.node = IF r = "succeeded" THEN NoNode ELSE @])

Enter ==
    /\ pc = "enter" /\ ~CancelPending
    /\ pc' = "top"
    /\ UNCHANGED <<run, job, wanted, stored, mem, taken, prepared, event, http, faults>>

Done == mem.node = NoNode /\ mem.queue = <<>>

(* The head of the loop: the next node, saved as the current one in the commit that
   takes it off the queue; after a restart, the node that was saved. *)
Pop ==
    /\ pc = "top" /\ ~Done /\ ~CancelPending
    /\ pc' = "node"
    /\ IF mem.node # NoNode THEN UNCHANGED <<mem, cursor>>
       ELSE Save([mem EXCEPT !.node = Head(mem.queue), !.queue = Tail(@)])
    /\ UNCHANGED <<run, job, wanted, sources, events, taken, prepared, event, http, faults>>

(* _finish_graph_cancelled, at one of the checks or in a call *)
Cancelled ==
    /\ \/ pc = "enter" /\ CancelPending
       \/ pc = "top" /\ ~Done /\ CancelPending
       \/ Calling /\ event = "set"
    /\ Finish("cancelled", "cancelled")

(* _finish_graph_success: no check comes before it. *)
Succeed == pc = "top" /\ Done /\ Finish("succeeded", "succeeded")

(* resolve_node *)
Resolve ==
    /\ Calling /\ At = 0
    /\ Save([mem EXCEPT !.done[mem.node.peer] = 1])
    /\ UNCHANGED <<run, job, wanted, sources, events, pc, taken, prepared, event, http, faults>>

(* load_or_fetch_stage: the result of the stage is saved before it is used. *)
Fetch ==
    /\ Calling /\ At \in Stage /\ ~mem.receipt
    /\ Save([mem EXCEPT !.receipt = TRUE])
    /\ UNCHANGED <<run, job, wanted, sources, events, pc, taken, prepared, event, http, faults>>

Prepare(p, named, outcome) ==
    prepared' = Append(prepared, [to |-> p, named |-> named, outcome |-> outcome])

(* The next link is planned from memory: it has a snapshot, or it is dropped. *)
PlanEdge ==
    /\ More
    /\ Edge.named => Outcome(mem, Edge.to, TRUE) # "candidate"
    /\ Prepare(Edge.to, Edge.named, Outcome(mem, Edge.to, Edge.named))
    /\ mem' = Planned(mem, Edge.to, Edge.named)
    /\ UNCHANGED <<run, job, wanted, stored, pc, taken, event, http, faults>>

\* The walk once the name in the key is known to be p's.
Renamed(w, p) == [w EXCEPT !.names = @ \ {p}]

(* resolve_planned_candidate: the name is resolved, and the walk saved at once, with
   the keys of the links planned before it; the link is planned again by its id. *)
ResolveEdge ==
    /\ More /\ Edge.named /\ Outcome(mem, Edge.to, TRUE) = "candidate"
    /\ LET p == Edge.to
           asked == IF p \in mem.cached THEN Planned(mem, p, TRUE)
                    ELSE [Planned(mem, p, TRUE) EXCEPT !.resolves = @ + 1,
                                                       !.cached = @ \cup {p}]
       IN  /\ cursor' = IF p \in mem.cached THEN cursor ELSE Saved(asked)
           /\ Prepare(p, FALSE, Outcome(Renamed(asked, p), p, FALSE))
           /\ mem' = Planned(Renamed(asked, p), p, FALSE)
    /\ UNCHANGED <<run, job, wanted, sources, events, pc, taken, event, http, faults>>

(* ... or Telegram knows no such public source. *)
EdgeUnsupported ==
    /\ MustResolve
    /\ Prepare(Edge.to, TRUE, "unsupported_source")
    /\ mem' = Planned(mem, Edge.to, TRUE)
    /\ UNCHANGED <<run, job, wanted, stored, pc, taken, event, http, faults>>

\* The members of S, a set of positions, in order.
InOrder(S) ==
    [n \in 1 .. Cardinality(S) |-> CHOOSE i \in S : Cardinality({k \in S : k <= i}) = n]

\* The links of a planned stage that lead on, and the sources they are first to store.
Followed == {i \in DOMAIN prepared : prepared[i].outcome \in {"candidate", "merged"}}
NewSources ==
    {p \in Peer : /\ \E i \in DOMAIN prepared :
                         prepared[i].to = p /\ prepared[i].outcome = "candidate"
                  /\ p \notin Registered \cup sources}

\* _enqueue_child for each of them
Children(w) ==
    IF w.node.depth + 1 >= MaxDepth THEN <<>>
    ELSE LET waiting == {w.queue[i].peer : i \in DOMAIN w.queue} \cup {w.node.peer}
             new     == InOrder({i \in Followed : prepared[i].to \notin waiting})
         IN  [n \in DOMAIN new |-> [peer |-> prepared[new[n]].to, depth |-> w.node.depth + 1]]

\* The rows persist_graph_candidate adds, unless they are there already.
NewEvents ==
    LET Row(e) == [from |-> mem.node.peer, via |-> At, to |-> e.to, named |-> e.named,
                   depth |-> mem.node.depth + 1,
                   outcome |-> IF e.outcome = "candidate" /\ e.to \notin NewSources
                               THEN "merged" ELSE e.outcome]
        Same(a, b) == \A f \in {"from", "via", "to", "named", "depth"} : a[f] = b[f]
    IN  {r \in {Row(prepared[i]) : i \in DOMAIN prepared} : ~\E e \in events : Same(e, r)}

(* process_stage_edges once all links are planned: one transaction. *)
PersistStage ==
    /\ Planning /\ ~More
    /\ sources' = sources \cup NewSources
    /\ events' = events \cup NewEvents
    /\ Save([mem EXCEPT !.created = @ + Cardinality(NewSources),
                        !.queue = @ \o Children(mem),
                        !.done[mem.node.peer] = @ + 1,
                        !.receipt = FALSE])
    /\ prepared' = <<>>
    /\ UNCHANGED <<run, job, wanted, pc, taken, event, http, faults>>

(* All stages of the node are done. *)
LeaveNode ==
    /\ pc = "node" /\ At = AllDone
    /\ Save([mem EXCEPT !.node = NoNode])
    /\ pc' = "top"
    /\ UNCHANGED <<run, job, wanted, sources, events, taken, prepared, event, http, faults>>

\* skip_remaining_graph_stages
Skip ==
    /\ Save([mem EXCEPT !.done[mem.node.peer] = AllDone, !.receipt = FALSE, !.node = NoNode])
    /\ pc' = "top" /\ prepared' = <<>>
    /\ UNCHANGED <<run, job, wanted, sources, events, taken, event, http, faults>>

(* GatewayTimeout; for the calls about the node, an inaccessible source, too. *)
NodeLost == Calling /\ Skip

\* _park_or_skip_transient: one park for a node.
MayPark == mem.node.peer \notin mem.parked

(* GatewayTransientError *)
Transient ==
    /\ Calling
    /\ \/ ~MayPark /\ Skip
       \/ /\ MayPark
          /\ Save([mem EXCEPT !.parked = @ \cup {mem.node.peer}])
          /\ job' = "retry_wait"
          /\ Idle
          /\ UNCHANGED <<run, wanted, sources, events, taken, http, faults>>

(* A flood wait or a broken request control; the request cap; a lost authorisation,
   for which _fail_run leaves the cursor alone. *)
GiveUp ==
    \/ Calling /\ Finish("failed", "failed")
    \/ Calling /\ Finish("partial", "succeeded")
    \/ Calling /\ End("failed", "failed") /\ UNCHANGED <<mem, cursor>>

-------------------------------------------------------------------------------
(* The rest of the process *)

\* Seeded fault: every run is taken for one nobody executes.
LiveWorkerNever(j, live) == FALSE

\* A worker may be executing the run.
LiveWorker(j, live) == live \/ j = "running"

Rows == [run |-> run, job |-> job, live |-> event # "none"]

(* cancel_graph_discovery_run reads the run, then its job, ... *)
CancelRead ==
    /\ http = NoRead /\ run \notin Terminal
    /\ http' = Rows
    /\ UNCHANGED <<run, job, wanted, stored, pc, mem, taken, prepared, event, faults>>

(* ... and writes what follows from them; nothing holds the rows in between. *)
CancelCommit ==
    /\ http # NoRead
    /\ wanted' = TRUE
    /\ IF LiveWorker(http.job, http.live)
       THEN /\ run' = IF http.run = "cancelling" THEN run ELSE "cancelling"
            /\ UNCHANGED job
       ELSE run' = "cancelled" /\ job' = "cancelled"
    /\ event' = IF event = "none" THEN event ELSE "set"
    /\ http' = NoRead
    /\ UNCHANGED <<stored, pc, mem, taken, prepared, faults>>

(* The worker's session is rolled back, or the process is killed. *)
Crash ==
    /\ faults < MaxFaults
    /\ faults' = faults + 1
    /\ Idle
    /\ http' = NoRead
    /\ UNCHANGED <<run, job, wanted, stored, mem, taken>>

(* The lease of a job nobody executes runs out. *)
RecoverStale ==
    /\ job = "running" /\ pc = "idle"
    /\ job' = "queued"
    /\ UNCHANGED <<run, wanted, stored, pc, mem, taken, prepared, event, http, faults>>

(* Nothing to claim: the loop polls. *)
Poll ==
    /\ pc = "idle" /\ job \notin {"queued", "retry_wait", "running"}
    /\ UNCHANGED vars

-------------------------------------------------------------------------------
Init ==
    /\ run = "queued" /\ job = "queued" /\ wanted = FALSE
    /\ cursor = Fresh /\ mem = Fresh
    /\ sources = {} /\ events = {}
    /\ pc = "idle" /\ told = FALSE /\ index = {} /\ prepared = <<>>
    /\ event = "none" /\ http = NoRead /\ faults = 0

Work ==
    \/ Enter \/ Pop \/ Cancelled \/ Succeed
    \/ Resolve \/ Fetch \/ PlanEdge \/ ResolveEdge \/ EdgeUnsupported
    \/ PersistStage \/ LeaveNode \/ NodeLost \/ Transient \/ GiveUp

Next ==
    \/ Claim \/ Work \/ RecoverStale
    \/ CancelRead \/ CancelCommit \/ Crash \/ Poll

Spec == Init /\ [][Next]_vars

(* The graph loop claims and works on; leases run out. *)
FairSpec == Spec /\ WF_vars(Claim) /\ WF_vars(Work) /\ WF_vars(RecoverStale)

-------------------------------------------------------------------------------
(* Properties *)

RunState == Terminal \cup {"queued", "running", "cancelling"}
JobState == Terminal \cup {"queued", "running", "retry_wait"}

EdgeOutcome == {"candidate", "merged", "duplicate_in_run", "dismissed_suppressed",
                "budget_skipped", "unsupported_source"}

Walk ==
    [queue : Seq(Node), node : Node \cup {NoNode}, done : [Peer -> 0 .. AllDone],
     receipt : BOOLEAN, keys : SUBSET Peer, names : SUBSET Peer, cached : SUBSET Peer,
     parked : SUBSET Peer, created : 0 .. CandidateCap + EdgeCap - 1,
     resolves : 0 .. ResolveCap]

\* Every variable has its type; no more names are resolved than the cap allows, and
\* the candidate cap is overrun by less than the links of one node (SRC-005).
TypeOK ==
    /\ run \in RunState /\ job \in JobState
    /\ wanted \in BOOLEAN /\ told \in BOOLEAN
    /\ cursor \in Walk /\ mem \in Walk
    /\ sources \subseteq Peer /\ index \subseteq Peer
    /\ events \subseteq [from : Peer, via : Stage, to : Peer, named : BOOLEAN,
                         depth : 1 .. MaxDepth, outcome : EdgeOutcome]
    /\ pc \in {"idle", "enter", "top", "node"}
    /\ prepared \in Seq([to : Peer, named : BOOLEAN, outcome : EdgeOutcome])
    /\ event \in {"none", "clear", "set"}
    /\ http \in [run : RunState \cup {"none"}, job : JobState \cup {"none"}, live : BOOLEAN]
    /\ faults \in 0 .. MaxFaults

\* The counter the cap is compared with is the number of sources the run has stored,
\* and each of them has one row that says so, whatever was lost and repeated: the
\* counter, the sources and the rows are committed together (SRC-005, SRC-052).
CreatedAreStored ==
    /\ cursor.created = Cardinality(sources)
    /\ \A p \in sources :
           Cardinality({e \in events : e.to = p /\ e.outcome = "candidate"}) = 1

\* A run that succeeded has gone through all stages of the seeds and of every source
\* it was led to above the last level: no crash or park loses a node between the
\* queue and its last stage (SRC-052).
SucceededExplored ==
    run = "succeeded" =>
        \A p \in {Seeds[i].peer : i \in DOMAIN Seeds}
                   \cup {e.to : e \in {f \in events : /\ f.outcome \in {"candidate", "merged"}
                                                      /\ f.depth < MaxDepth}} :
            cursor.done[p] = AllDone

\* The job is over and no worker is at the run: the walk will not go on.
Closed == pc = "idle" /\ job \in Terminal

\* The run implements the abstract run: no crash, retry or cancel request takes back a
\* source it has stored; every run ends, however many transient errors it meets, and
\* stores nothing after that; a request that found a worker at the run does not end it,
\* and only one that had read the run before can change its outcome (SRC-053, SRC-057).
Abstract == INSTANCE DiscoveryRun WITH
                Item <- Peer, NoResult <- "none",
                result <- [p \in Peer |-> IF p \in sources THEN "stored" ELSE "none"],
                state <- IF run \in Terminal \/ Closed THEN run ELSE "open",
                held <- pc # "idle" \/ job = "running",
                asked <- IF http = NoRead THEN "none"
                         ELSE IF http.live \/ http.job = "running" THEN "mark" ELSE "end"
Implements == Abstract!LiveSpec

\* AT-SRC-005, as the PRD states it: the run stores no more candidates than the cap.
CandidatesWithinCap == Cardinality(sources) <= CandidateCap

\* SRC-052, as the PRD states it: a link is a duplicate only if something else in the
\* run accounts for its target, also after a restart.
DuplicatesAreHeld ==
    \A e \in events : e.outcome = "duplicate_in_run" =>
        e.to \in Registered \cup sources \cup Dismissed
            \/ \E f \in events : f.to = e.to /\ f.outcome # "duplicate_in_run"

\* SRC-057, as the PRD states it: after a cancellation the run ends as cancelled.
CancelHonoured == run = "cancelling" ~> run = "cancelled"

\* SRC-053, as the PRD states it: a run that is not over has a job that will end it.
ActiveRunHasJob == run \notin Terminal => job \in {"queued", "running", "retry_wait"}
===============================================================================
