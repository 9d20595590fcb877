------------------------------ MODULE AccountGate ------------------------------
(***************************************************************************)
(* The gate every Telegram RPC passes (collector/adapter/account_pacer.py, *)
(* controlled_client.py) and the stricter controller of graph discovery    *)
(* (source_discovery/graph_request_control.py).                            *)
(*                                                                         *)
(* An asyncio lock, fair in its order, is held from the wait for a start   *)
(* slot to the end of the RPC.  The slots are rows of the database, dated  *)
(* by the wall clock, which may be set back; the process may restart.  A   *)
(* graph RPC that times out or is cancelled is abandoned: its caller goes  *)
(* on, the request itself stays in flight.                                 *)
(***************************************************************************)
EXTENDS Integers, Sequences, FiniteSets

CONSTANTS Task,       \* tasks that make ordinary calls
          Interval,   \* _START_INTERVAL, interval_seconds
          Window,     \* _ROLLING_WINDOW, window_seconds
          PerWindow,  \* _MAX_PER_WINDOW, window_limit
          Deadline,   \* GRAPH_CALL_DEADLINE_SECONDS
          Cap,        \* request_cap of a graph run
          MaxTime, MaxBack, MaxCrashes  \* bounds: clock, setting it back, restarts

ASSUME GateAssumption ==
    /\ "graph" \notin Task
    /\ {Interval, Window, PerWindow, Deadline} \subseteq Nat \ {0}
    /\ {Cap, MaxTime, MaxBack, MaxCrashes} \subseteq Nat
    /\ MaxBack <= MaxTime

Caller == Task \cup {"graph"}

VARIABLES now,       \* time that really passes
          back,      \* how far the wall clock has been set back
          next,      \* gate: next_allowed_at
          observed,  \* gate: last_observed_at
          slots,     \* telegram_account_request_reservations
          starts,    \* when RPCs really started
          pc,        \* idle, before (graph controller), wait, rpc
          queue,     \* the lock's holder and then its waiters
          orphans,   \* abandoned graph RPCs in flight
          total,     \* the graph run's persisted reserved_total
          issued,    \* RPCs the graph run has really started
          own,       \* the controller's reservations, monotonic
          cooldown,  \* it waits for a whole window after a restart
          ready,     \* when that wait ends
          since,     \* when the graph call began to wait for the lock, then its RPC
          cancelled, \* the run's cancel event
          crashes

gate == <<next, observed, slots, starts>>
graph == <<total, issued, own, cooldown, ready, cancelled>>
vars == <<now, back, gate, pc, queue, orphans, graph, since, crashes>>

Wall == now - back

-------------------------------------------------------------------------------
(* A call without a controller: account_pacer.rpc waits for the lock. *)
Call(c) ==
    /\ c \in Task /\ pc[c] = "idle"
    /\ pc' = [pc EXCEPT ![c] = "wait"]
    /\ queue' = Append(queue, c)
    /\ UNCHANGED <<now, back, gate, orphans, graph, since, crashes>>

\* Seeded fault: one request more than the cap.
WithinCapOffByOne == total <= Cap

WithinCap == total < Cap

(* before_request begins; past the cap it raises RequestBudgetExhausted. *)
GraphCall ==
    /\ pc["graph"] = "idle" /\ ~cancelled /\ WithinCap
    /\ pc' = [pc EXCEPT !["graph"] = "before"]
    /\ ready' = IF cooldown THEN now + Window ELSE ready
    /\ UNCHANGED <<now, back, gate, queue, orphans, total, issued, own, cooldown,
                   cancelled, since, crashes>>

(* _wait_for_slot: the reservations that still count. *)
OwnRecent == {t \in own : now - Window < t}

OwnSlotFree ==
    /\ now >= ready
    /\ \A t \in own : cooldown \/ t + Interval <= now
    /\ cooldown \/ Cardinality(OwnRecent) < PerWindow

\* Seeded fault: the request is counted, but not in the database.
CountedInMemory == total

\* The count is persisted before the request is made.
Counted == total + 1

(* The rest of before_request; then the call waits for the account lock.  The
   cancel event is not looked at there. *)
GraphReserve ==
    /\ pc["graph"] = "before" /\ OwnSlotFree
    /\ total' = Counted
    /\ own' = (IF cooldown THEN {} ELSE OwnRecent) \cup {now}
    /\ cooldown' = FALSE
    /\ pc' = [pc EXCEPT !["graph"] = "wait"]
    /\ queue' = Append(queue, "graph")
    /\ since' = now
    /\ UNCHANGED <<now, back, gate, orphans, issued, ready, cancelled, crashes>>

(* _sleep_interruptible sees the cancel event. *)
GraphCancelBefore ==
    /\ pc["graph"] = "before" /\ cancelled
    /\ pc' = [pc EXCEPT !["graph"] = "idle"]
    /\ UNCHANGED <<now, back, gate, queue, orphans, graph, since, crashes>>

-------------------------------------------------------------------------------
Holds(c) == queue # <<>> /\ Head(queue) = c

(* The gate's time never goes back. *)
GateNow == IF Wall < observed THEN observed ELSE Wall

(* The rows that are not deleted. *)
Pruned == {t \in slots : GateNow - Window <= t}

(* The next slot is due, and fewer than PerWindow starts lie in the last window. *)
SlotFree ==
    /\ next <= GateNow
    /\ Cardinality(Pruned) < PerWindow \/ \E s \in Pruned : s + Window <= GateNow

(* _reserve_locked finds no slot yet: old rows go, and it sleeps.  Its branch
   on flood_wait_until is left out: no code writes that column. *)
Pace(c) ==
    /\ Holds(c) /\ pc[c] = "wait" /\ ~SlotFree
    /\ slots' = Pruned
    /\ UNCHANGED <<now, back, next, observed, starts, pc, queue, orphans, graph,
                   since, crashes>>

(* It commits the slot, and the raw call starts. *)
Start(c) ==
    /\ Holds(c) /\ pc[c] = "wait" /\ SlotFree
    /\ slots' = Pruned \cup {GateNow}
    /\ next' = GateNow + Interval /\ observed' = GateNow
    /\ starts' = starts \cup {now}
    /\ pc' = [pc EXCEPT ![c] = "rpc"]
    /\ since' = IF c = "graph" THEN now ELSE since
    /\ issued' = IF c = "graph" THEN issued + 1 ELSE issued
    /\ UNCHANGED <<now, back, queue, orphans, total, own, cooldown, ready, cancelled, crashes>>

\* The queue without its i-th member
Without(i) == [j \in 1 .. Len(queue) - 1 |-> queue[IF j < i THEN j ELSE j + 1]]

(* The raw call returns or fails. *)
Finish(c) ==
    /\ pc[c] = "rpc"
    /\ pc' = [pc EXCEPT ![c] = "idle"]
    /\ queue' = Without(1)
    /\ UNCHANGED <<now, back, gate, orphans, graph, since, crashes>>

(* A task that is cancelled leaves the lock, or its place in the queue. *)
CancelTask(c) ==
    /\ c \in Task /\ pc[c] \in {"wait", "rpc"}
    /\ pc' = [pc EXCEPT ![c] = "idle"]
    /\ \E i \in DOMAIN queue :
         /\ queue[i] = c
         /\ queue' = Without(i)
    /\ UNCHANGED <<now, back, gate, orphans, graph, since, crashes>>

TimedOut == now >= since + Deadline

\* Seeded fault: the lock stays with the call that gave up.
AbandonKeepsLock ==
    /\ pc["graph"] = "rpc" /\ (TimedOut \/ cancelled)
    /\ pc' = [pc EXCEPT !["graph"] = "idle"]
    /\ orphans' = orphans + 1
    /\ UNCHANGED <<now, back, gate, queue, graph, since, crashes>>

(* _wait_graph_rpc gives up: the caller goes on and the RPC is abandoned. *)
Abandon ==
    /\ pc["graph"] = "rpc" /\ (TimedOut \/ cancelled)
    /\ pc' = [pc EXCEPT !["graph"] = "idle"]
    /\ queue' = Without(1)
    /\ orphans' = orphans + 1
    /\ UNCHANGED <<now, back, gate, graph, since, crashes>>

(* An abandoned RPC ends after all. *)
OrphanEnds ==
    /\ orphans > 0
    /\ orphans' = orphans - 1
    /\ UNCHANGED <<now, back, gate, pc, queue, graph, since, crashes>>

(* CancelGraphDiscoveryRun sets the run's event. *)
Cancel ==
    /\ ~cancelled
    /\ cancelled' = TRUE
    /\ UNCHANGED <<now, back, gate, pc, queue, orphans, total, issued, own, cooldown,
                   ready, since, crashes>>

-------------------------------------------------------------------------------
(* Time passes; timers fire when they are due: the one of a graph RPC, and the
   sleep of a holder that waits for its slot. *)
Tick ==
    /\ now < MaxTime
    /\ ~(\E c \in Caller : Holds(c) /\ pc[c] = "wait" /\ SlotFree)
    /\ pc["graph"] = "rpc" => ~TimedOut
    /\ now' = now + 1
    /\ UNCHANGED <<back, gate, pc, queue, orphans, graph, since, crashes>>

(* The wall clock is set back. *)
SetBack ==
    /\ back < MaxBack
    /\ back' = back + 1
    /\ UNCHANGED <<now, gate, pc, queue, orphans, graph, since, crashes>>

\* Seeded fault: the gate is kept in memory.
GateAfterRestart == next' = 0 /\ observed' = 0 /\ slots' = {} /\ UNCHANGED starts

(* What is left of the gate after a restart: its rows. *)
GateKept == UNCHANGED gate

(* The process ends and starts again; the graph run is resumed with its count. *)
Restart ==
    /\ crashes < MaxCrashes
    /\ crashes' = crashes + 1
    /\ pc' = [c \in Caller |-> "idle"] /\ queue' = <<>> /\ orphans' = 0
    /\ own' = {} /\ cooldown' = (total > 0)
    /\ GateKept
    /\ UNCHANGED <<now, back, total, issued, ready, since, cancelled>>

-------------------------------------------------------------------------------
Init ==
    /\ now = MaxBack /\ back = 0
    /\ next = 0 /\ observed = 0 /\ slots = {} /\ starts = {}
    /\ pc = [c \in Caller |-> "idle"] /\ queue = <<>> /\ orphans = 0
    /\ total = 0 /\ issued = 0 /\ own = {} /\ cooldown = FALSE /\ ready = 0
    /\ since = 0 /\ cancelled = FALSE /\ crashes = 0

Environment == Tick \/ SetBack \/ Restart \/ Cancel \/ OrphanEnds

Next ==
    \/ \E c \in Caller : Call(c) \/ Pace(c) \/ Start(c) \/ Finish(c) \/ CancelTask(c)
    \/ GraphCall \/ GraphReserve \/ GraphCancelBefore \/ Abandon
    \/ Environment

Spec == Init /\ [][Next]_vars

-------------------------------------------------------------------------------
\* Every variable has its type, and the clocks are within their bounds.
TypeOK ==
    /\ now \in 0 .. MaxTime /\ back \in 0 .. MaxBack
    /\ {next, observed, issued, ready, since, orphans} \subseteq Nat /\ total \in 0 .. Cap
    /\ slots \subseteq Nat /\ starts \subseteq Nat /\ own \subseteq Nat
    /\ pc \in [Caller -> {"idle", "before", "wait", "rpc"}]
    /\ queue \in Seq(Caller)
    /\ cooldown \in BOOLEAN /\ cancelled \in BOOLEAN
    /\ crashes \in 0 .. MaxCrashes

\* Two RPCs start at least the interval apart, and no window holds more than its
\* number of them, although the wall clock is set back and the process restarts
\* (D-071, the rate of the account).
RateKept ==
    /\ \A s, t \in starts : s < t => s + Interval <= t
    /\ \A s \in starts : Cardinality({t \in starts : s <= t /\ t < s + Window}) <= PerWindow

\* Nobody has a raw call in flight, abandoned ones apart, but the holder of the
\* lock, and whoever waits is in the queue once: no cancellation, timeout or end
\* of a call leaves the lock taken or lets two in.
LockMatchesCalls ==
    /\ \A c \in Caller : pc[c] = "rpc" => Holds(c)
    /\ \A c \in Caller :
           Cardinality({i \in DOMAIN queue : queue[i] = c})
               = IF pc[c] \in {"wait", "rpc"} THEN 1 ELSE 0

\* A graph run never makes more requests than the cap, however often it is
\* resumed (SRC-051).
BudgetKept == issued <= Cap

\* COL-030, as the PRD states it: the deadline covers the wait for the lock and
\* the RPC.
GraphCallBounded == pc["graph"] \in {"wait", "rpc"} => now <= since + Deadline

\* account_pacer.py, as its class comment states it: every physical RPC is
\* serialized.
Serialized ==
    orphans + Cardinality({c \in Caller : pc[c] = "rpc"}) <= 1
===============================================================================
