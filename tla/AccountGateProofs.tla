--------------------------- MODULE AccountGateProofs ---------------------------
(***************************************************************************)
(* For any tasks, rates, windows, caps and deadlines, and however often    *)
(* the process restarts and the clock is set back: AccountGate keeps its   *)
(* types, the account's rate, the lock and the budget of the graph run.    *)
(***************************************************************************)
EXTENDS AccountGate, FiniteSetTheorems, TLAPS

\* The wall clock is never before the beginning of time.
ClockAhead == MaxBack <= now /\ back <= MaxBack

\* The lock's queue holds whoever waits or calls, once, and only its head calls.
QueueMatches ==
    /\ \A i, j \in DOMAIN queue : queue[i] = queue[j] => i = j
    /\ \A c \in Caller : pc[c] \in {"wait", "rpc"} <=> \E i \in DOMAIN queue : queue[i] = c
    /\ \A c \in Caller : pc[c] = "rpc" => Holds(c)

\* A request is counted before it waits for the lock, and under the cap.
CountedFirst ==
    /\ pc["graph"] = "before" => total < Cap
    /\ issued + (IF pc["graph"] = "wait" THEN 1 ELSE 0) <= total

\* The rows of the gate: none is later than the last start, the next start is later, and
\* no window that ends there holds more than its number.
SlotsKept ==
    /\ \A u \in slots : u <= observed
    /\ slots # {} => observed < next
    /\ Cardinality({u \in slots : observed < u + Window}) <= PerWindow

\* Each start has been given a time by the gate.  The gate's clock has not gone faster
\* than time since, and a start that still counts has a row.
Timed(g) ==
    /\ \A t \in starts : t <= now /\ g[t] <= observed /\ g[t] + Interval <= next
    /\ \A t \in starts : t - g[t] <= now - GateNow
    /\ \A s, t \in starts : s < t => g[s] < g[t]
    /\ \A t \in starts : now < t + Window => g[t] \in slots

IInv ==
    /\ TypeOK /\ ClockAhead
    /\ QueueMatches
    /\ CountedFirst
    /\ SlotsKept
    /\ \E g \in [starts -> Nat] : Timed(g)
    /\ RateKept

-------------------------------------------------------------------------------
(* The gate's clock is a time, no earlier than the last one it has seen. *)
LEMMA GateNowType ==
  ASSUME TypeOK, ClockAhead
  PROVE  /\ now \in Nat /\ back \in Nat /\ Wall \in Nat /\ observed \in Nat
         /\ GateNow \in Nat /\ observed <= GateNow /\ Wall <= GateNow
         /\ GateNow = Wall \/ GateNow = observed
<1>1. now \in Nat /\ back \in Nat /\ observed \in Nat
  BY GateAssumption DEF TypeOK
<1>2. back <= now /\ Wall = now - back
  BY <1>1, GateAssumption DEF ClockAhead, Wall
<1>3. Wall \in Nat
  BY <1>1, <1>2
<1> QED
  BY <1>1, <1>3 DEF GateNow

(* The same of the next state *)
LEMMA ClockNext ==
  ASSUME TypeOK', ClockAhead'
  PROVE  now' \in Nat /\ GateNow' \in Nat
<1>1. now' \in Nat /\ back' \in Nat /\ observed' \in Nat
  BY GateAssumption DEF TypeOK
<1>2. MaxBack \in Nat /\ MaxBack <= now' /\ back' <= MaxBack
  BY GateAssumption DEF ClockAhead
<1>3. \A n, b \in Nat : b <= MaxBack /\ MaxBack <= n => n - b \in Nat
  BY <1>2
<1>4. now' - back' \in Nat
  BY <1>1, <1>2, <1>3
<1> QED
  BY <1>1, <1>4 DEF GateNow, Wall

(* A set of times that the gate has seen is finite. *)
LEMMA SlotsFinite ==
  ASSUME TypeOK, SlotsKept, NEW S \in SUBSET slots
  PROVE  IsFiniteSet(S) /\ Cardinality(S) \in Nat
<1>1. S \in SUBSET Nat /\ observed \in Nat /\ \A u \in S : u <= observed
  BY DEF TypeOK, SlotsKept
<1>2. IsFiniteSet(S)
  BY <1>1, FS_BoundedSetOfNaturals
<1> QED
  BY <1>2, FS_CardinalityType

(* The initial state satisfies the invariant. *)
LEMMA InitInv == Init => IInv
<1> SUFFICES ASSUME Init PROVE IInv
  OBVIOUS
<1> USE GateAssumption
<1>1. TypeOK /\ ClockAhead
  <2>1. /\ now \in 0 .. MaxTime /\ back \in 0 .. MaxBack /\ ClockAhead
        /\ crashes \in 0 .. MaxCrashes /\ total \in 0 .. Cap
    BY DEF Init, ClockAhead
  <2>2. {next, observed, issued, ready, since, orphans} \subseteq Nat
    BY DEF Init
  <2>3. pc \in [Caller -> {"idle", "before", "wait", "rpc"}] /\ queue \in Seq(Caller)
    BY DEF Init
  <2>4. slots \subseteq Nat /\ starts \subseteq Nat /\ own \subseteq Nat
    BY DEF Init
  <2>5. cooldown \in BOOLEAN /\ cancelled \in BOOLEAN
    BY DEF Init
  <2> QED
    BY <2>1, <2>2, <2>3, <2>4, <2>5 DEF TypeOK
<1>2. QueueMatches /\ CountedFirst
  BY DEF Init, QueueMatches, CountedFirst, Caller
<1>3. SlotsKept
  <2>1. {u \in slots : observed < u + Window} = {}
    BY DEF Init
  <2> QED
    BY <2>1, FS_EmptySet DEF Init, SlotsKept
<1>4. \E g \in [starts -> Nat] : Timed(g)
  <2>1. [t \in starts |-> 0] \in [starts -> Nat] /\ starts = {}
    BY DEF Init
  <2> QED
    BY <2>1 DEF Timed
<1>5. RateKept
  BY DEF Init, RateKept
<1> QED
  BY <1>1, <1>2, <1>3, <1>4, <1>5 DEF IInv

-------------------------------------------------------------------------------
(* The lock *)

(* Whoever does not wait yet goes to the end of the queue. *)
LEMMA JoinQueue ==
  ASSUME TypeOK, QueueMatches, NEW c \in Caller, pc[c] \in {"idle", "before"},
         pc' = [pc EXCEPT ![c] = "wait"], queue' = Append(queue, c)
  PROVE  QueueMatches' /\ queue' \in Seq(Caller)
<1>1. queue \in Seq(Caller) /\ pc \in [Caller -> {"idle", "before", "wait", "rpc"}]
  BY DEF TypeOK
<1>2. /\ queue' \in Seq(Caller) /\ DOMAIN queue' = 1 .. Len(queue) + 1
      /\ DOMAIN queue = 1 .. Len(queue) /\ Len(queue) \in Nat
      /\ \A i \in 1 .. Len(queue) : queue'[i] = queue[i]
      /\ queue'[Len(queue) + 1] = c
  BY <1>1
<1>3. \A i \in DOMAIN queue : queue[i] # c /\ queue[i] \in Caller
  BY <1>1 DEF QueueMatches
<1>4. \A i, j \in DOMAIN queue' : queue'[i] = queue'[j] => i = j
  BY <1>2, <1>3 DEF QueueMatches
<1>5. \A d \in Caller : pc'[d] \in {"wait", "rpc"} <=> \E i \in DOMAIN queue' : queue'[i] = d
  <2> SUFFICES ASSUME NEW d \in Caller
               PROVE  pc'[d] \in {"wait", "rpc"} <=> \E i \in DOMAIN queue' : queue'[i] = d
    OBVIOUS
  <2>1. CASE d = c
    BY <1>1, <1>2, <2>1
  <2>2. CASE d # c
    BY <1>1, <1>2, <2>2 DEF QueueMatches
  <2> QED
    BY <2>1, <2>2
<1>6. \A d \in Caller : pc'[d] = "rpc" => Holds(d)'
  BY <1>1, <1>2 DEF QueueMatches, Holds
<1> QED
  BY <1>2, <1>4, <1>5, <1>6 DEF QueueMatches

(* Whoever has a place in the queue gives it up. *)
LEMMA LeaveQueue ==
  ASSUME TypeOK, QueueMatches, NEW c \in Caller, NEW i \in DOMAIN queue, queue[i] = c,
         pc' = [pc EXCEPT ![c] = "idle"],
         queue' = Without(i)
  PROVE  QueueMatches' /\ queue' \in Seq(Caller)
<1>1. queue \in Seq(Caller) /\ pc \in [Caller -> {"idle", "before", "wait", "rpc"}]
  BY DEF TypeOK
<1>2. PICK n \in Nat : n = Len(queue)
  BY <1>1
<1>3. DOMAIN queue = 1 .. n /\ i \in 1 .. n
  BY <1>1, <1>2
<1>4. /\ queue' \in Seq(Caller) /\ DOMAIN queue' = 1 .. n - 1
      /\ \A j \in 1 .. n - 1 : j < i => queue'[j] = queue[j]
      /\ \A j \in 1 .. n - 1 : i <= j => queue'[j] = queue[j + 1]
  <2>1. n - 1 \in Nat
    BY <1>3
  <2>2. \A j \in 1 .. n - 1 : (IF j < i THEN j ELSE j + 1) \in 1 .. n
    BY <1>3
  <2>3. \A j \in 1 .. n : queue[j] \in Caller
    BY <1>1, <1>3
  <2>4. queue' = [j \in 1 .. n - 1 |-> queue[IF j < i THEN j ELSE j + 1]]
    BY <1>2 DEF Without
  <2>5. queue' \in [1 .. n - 1 -> Caller]
    BY <2>2, <2>3, <2>4
  <2> QED
    BY <1>3, <2>1, <2>4, <2>5
<1>5. \A d \in Caller \ {c} : pc'[d] = pc[d]
  BY <1>1
<1>6. pc'[c] = "idle"
  BY <1>1
<1>7. /\ \A j, k \in 1 .. n : queue[j] = queue[k] => j = k
      /\ \A d \in Caller : pc[d] \in {"wait", "rpc"} <=> \E j \in 1 .. n : queue[j] = d
      /\ \A d \in Caller : pc[d] = "rpc" => Holds(d)
  BY <1>3 DEF QueueMatches
<1>8. \A j, k \in 1 .. n - 1 : queue'[j] = queue'[k] => j = k
  <2> SUFFICES ASSUME NEW j \in 1 .. n - 1, NEW k \in 1 .. n - 1, queue'[j] = queue'[k]
               PROVE  j = k
    OBVIOUS
  <2>1. j \in 1 .. n /\ j + 1 \in 1 .. n /\ k \in 1 .. n /\ k + 1 \in 1 .. n
    BY <1>2
  <2>2. CASE j < i /\ k < i
    BY <1>4, <1>7, <2>1, <2>2
  <2>3. CASE j < i /\ i <= k
    <3>1. queue[j] = queue[k + 1]
      BY <1>4, <2>3
    <3> QED
      BY <1>3, <1>7, <2>1, <2>3, <3>1
  <2>4. CASE i <= j /\ k < i
    <3>1. queue[j + 1] = queue[k]
      BY <1>4, <2>4
    <3> QED
      BY <1>3, <1>7, <2>1, <2>4, <3>1
  <2>5. CASE i <= j /\ i <= k
    <3>1. queue[j + 1] = queue[k + 1]
      BY <1>4, <2>5
    <3>2. j + 1 = k + 1
      BY <1>7, <2>1, <3>1
    <3> QED
      BY <3>2
  <2> QED
    BY <1>3, <2>2, <2>3, <2>4, <2>5
<1>9. \A j \in 1 .. n - 1 : queue'[j] # c /\ \E k \in 1 .. n : queue[k] = queue'[j]
  <2> SUFFICES ASSUME NEW j \in 1 .. n - 1
               PROVE  queue'[j] # c /\ \E k \in 1 .. n : queue[k] = queue'[j]
    OBVIOUS
  <2>1. PICK k \in 1 .. n : k # i /\ queue'[j] = queue[k]
    <3>1. CASE j < i
      BY <1>3, <1>4, <3>1
    <3>2. CASE i <= j
      <4>1. j + 1 \in 1 .. n /\ j + 1 # i /\ queue'[j] = queue[j + 1]
        BY <1>3, <1>4, <3>2
      <4> QED
        BY <4>1
    <3> QED
      BY <1>3, <3>1, <3>2
  <2> QED
    BY <1>3, <1>7, <2>1
<1>10. \A k \in 1 .. n : k # i => \E j \in 1 .. n - 1 : queue'[j] = queue[k]
  <2> SUFFICES ASSUME NEW k \in 1 .. n, k # i
               PROVE  \E j \in 1 .. n - 1 : queue'[j] = queue[k]
    OBVIOUS
  <2>1. CASE k < i
    BY <1>3, <1>4, <2>1
  <2>2. CASE i <= k
    <3>1. k - 1 \in 1 .. n - 1 /\ i <= k - 1 /\ (k - 1) + 1 = k
      BY <1>3, <2>2
    <3> QED
      BY <1>4, <3>1
  <2> QED
    BY <1>3, <2>1, <2>2
<1>11. \A d \in Caller : pc'[d] \in {"wait", "rpc"} <=> \E j \in 1 .. n - 1 : queue'[j] = d
  <2> SUFFICES ASSUME NEW d \in Caller
               PROVE  pc'[d] \in {"wait", "rpc"} <=> \E j \in 1 .. n - 1 : queue'[j] = d
    OBVIOUS
  <2>1. CASE d = c
    BY <1>6, <1>9, <2>1
  <2>2. CASE d # c
    <3>1. ASSUME NEW j \in 1 .. n - 1, queue'[j] = d PROVE \E k \in 1 .. n : queue[k] = d
      BY <1>9, <3>1
    <3>2. ASSUME NEW k \in 1 .. n, queue[k] = d PROVE \E j \in 1 .. n - 1 : queue'[j] = d
      <4>1. k # i
        BY <2>2, <3>2
      <4> QED
        BY <1>10, <3>2, <4>1
    <3> QED
      BY <1>5, <1>7, <2>2, <3>1, <3>2
  <2> QED
    BY <2>1, <2>2
<1>12. \A d \in Caller : pc'[d] = "rpc" => Holds(d)'
  <2> SUFFICES ASSUME NEW d \in Caller, pc'[d] = "rpc" PROVE Holds(d)'
    OBVIOUS
  <2>1. d # c /\ pc[d] = "rpc"
    BY <1>5, <1>6
  <2>2. queue[1] = d /\ 1 \in 1 .. n
    BY <1>1, <1>2, <1>7, <2>1 DEF Holds
  <2>3. i # 1
    BY <2>1, <2>2
  <2>4. 1 \in 1 .. n - 1 /\ 1 < i
    BY <1>3, <2>3
  <2>5. queue'[1] = d /\ 1 \in DOMAIN queue'
    BY <1>4, <2>2, <2>4
  <2>6. queue' # <<>> /\ Head(queue') = queue'[1]
    BY <1>4, <2>5
  <2> QED
    BY <2>5, <2>6 DEF Holds
<1> QED
  BY <1>4, <1>8, <1>11, <1>12 DEF QueueMatches

(* The holder gives the lock up. *)
LEMMA FreeLock ==
  ASSUME TypeOK, QueueMatches, NEW c \in Caller, pc[c] = "rpc",
         pc' = [pc EXCEPT ![c] = "idle"], queue' = Without(1)
  PROVE  QueueMatches' /\ queue' \in Seq(Caller)
<1>1. queue \in Seq(Caller) /\ queue # <<>> /\ 1 \in DOMAIN queue /\ queue[1] = c
  BY DEF TypeOK, QueueMatches, Holds
<1> QED
  BY <1>1, LeaveQueue

(* The queue says who calls. *)
LEMMA LockFromQueue ==
  ASSUME TypeOK, QueueMatches
  PROVE  LockMatchesCalls
<1> SUFFICES ASSUME NEW c \in Caller
             PROVE  Cardinality({i \in DOMAIN queue : queue[i] = c})
                        = IF pc[c] \in {"wait", "rpc"} THEN 1 ELSE 0
  BY DEF LockMatchesCalls, QueueMatches
<1>1. CASE pc[c] \in {"wait", "rpc"}
  <2>1. PICK i \in DOMAIN queue : queue[i] = c
    BY <1>1 DEF QueueMatches
  <2>2. {j \in DOMAIN queue : queue[j] = c} = {i}
    BY <2>1 DEF QueueMatches
  <2> QED
    BY <1>1, <2>2, FS_Singleton
<1>2. CASE ~(pc[c] \in {"wait", "rpc"})
  <2>1. {j \in DOMAIN queue : queue[j] = c} = {}
    BY <1>2 DEF QueueMatches
  <2> QED
    BY <1>2, <2>1, FS_EmptySet
<1> QED
  BY <1>1, <1>2
-------------------------------------------------------------------------------
(* The budget and the rate *)

\* What the rate depends on
timing == <<now, back, gate>>

(* While neither time nor the gate changes, the rate is kept. *)
LEMMA RateUnchanged ==
  ASSUME SlotsKept, \E g \in [starts -> Nat] : Timed(g), RateKept, ClockAhead,
         UNCHANGED timing
  PROVE  /\ SlotsKept' /\ RateKept' /\ ClockAhead'
         /\ (\E g \in [starts -> Nat] : Timed(g))'
<1>1. UNCHANGED <<now, back, next, observed, slots, starts>>
  BY DEF timing, gate
<1>2. GateNow' = GateNow
  BY <1>1 DEF GateNow, Wall
<1> QED
  BY <1>1, <1>2 DEF SlotsKept, RateKept, ClockAhead, Timed

(* Time passes or the clock is set back: the gate's clock falls behind, if at all. *)
LEMMA ClockStep ==
  ASSUME IInv, Tick \/ SetBack
  PROVE  IInv'
<1> USE GateAssumption DEF IInv
<1>1. UNCHANGED <<gate, pc, queue, orphans, graph, since, crashes>>
  BY DEF Tick, SetBack
<1>2. UNCHANGED <<next, observed, slots, starts, total, issued, own, cooldown, ready, cancelled>>
  BY <1>1 DEF gate, graph
<1>3. now \in 0 .. MaxTime /\ back \in 0 .. MaxBack
  BY DEF TypeOK
<1>4. now' \in 0 .. MaxTime /\ back' \in 0 .. MaxBack
  BY <1>3 DEF Tick, SetBack
<1>5. now <= now' /\ ClockAhead'
  BY <1>3, <1>4 DEF Tick, SetBack, ClockAhead
<1>6. TypeOK'
  BY <1>1, <1>2, <1>4 DEF TypeOK
<1>7. now - GateNow <= now' - GateNow'
  <2>1. /\ now \in Nat /\ back \in Nat /\ observed \in Nat
        /\ Wall = now - back /\ Wall' = now' - back' /\ observed' = observed
    BY <1>2, GateNowType DEF Wall
  <2>2. \/ now' = now + 1 /\ back' = back
        \/ now' = now /\ back' = back + 1
    BY DEF Tick, SetBack
  <2>3. GateNow' = IF now' - back' < observed THEN observed ELSE now' - back'
    BY <2>1 DEF GateNow
  <2>4. GateNow = IF now - back < observed THEN observed ELSE now - back
    BY <2>1 DEF GateNow
  <2> QED
    BY <2>1, <2>2, <2>3, <2>4
<1>8. QueueMatches' /\ CountedFirst' /\ SlotsKept' /\ RateKept'
  BY <1>1, <1>2 DEF QueueMatches, Holds, CountedFirst, SlotsKept, RateKept
<1>9. (\E g \in [starts -> Nat] : Timed(g))'
  <2>1. PICK g \in [starts -> Nat] : Timed(g)
    OBVIOUS
  <2>2. now \in Nat /\ now' \in Nat /\ GateNow \in Nat /\ GateNow' \in Nat
    BY <1>4, <1>5, <1>6, GateNowType, ClockNext
  <2>3. starts \subseteq Nat
    BY DEF TypeOK
  <2>4. /\ \A t \in starts : t <= now' /\ g[t] <= observed /\ g[t] + Interval <= next
        /\ \A t \in starts : t - g[t] <= now' - GateNow'
        /\ \A t \in starts : now' < t + Window => g[t] \in slots
    BY <1>5, <1>7, <2>1, <2>2, <2>3 DEF Timed
  <2>5. Timed(g)'
    BY <1>2, <2>1, <2>4 DEF Timed
  <2> QED
    BY <1>2, <2>5
<1> QED
  BY <1>5, <1>6, <1>8, <1>9

\* The rows of the gate's last window
Live == {u \in slots : GateNow < u + Window}

\* The starts of the last window
Recent == {t \in starts : now < t + Window}

(* When a slot is free, the gate's last window has room for one more. *)
LEMMA RoomForOne ==
  ASSUME IInv, SlotFree
  PROVE  IsFiniteSet(Live) /\ Cardinality(Live) \in Nat /\ Cardinality(Live) < PerWindow
<1> USE GateAssumption DEF IInv
<1>1. /\ GateNow \in Nat /\ observed \in Nat /\ observed <= GateNow /\ next \in Nat
      /\ Window \in Nat /\ PerWindow \in Nat /\ slots \subseteq Nat
  BY GateNowType DEF TypeOK
<1>2. Live \subseteq Pruned /\ Pruned \subseteq slots
  <2>1. \A u \in slots : GateNow < u + Window => GateNow - Window <= u
    BY <1>1
  <2> QED
    BY <2>1 DEF Live, Pruned
<1>3. /\ IsFiniteSet(Live) /\ Cardinality(Live) \in Nat
      /\ IsFiniteSet(Pruned) /\ Cardinality(Pruned) \in Nat
  BY <1>2, SlotsFinite
<1>4. CASE Cardinality(Pruned) < PerWindow
  <2>1. Cardinality(Live) <= Cardinality(Pruned)
    BY <1>2, <1>3, FS_Subset
  <2> QED
    BY <1>1, <1>3, <1>4, <2>1
<1>5. CASE \E u \in Pruned : u + Window <= GateNow
  <2>1. PICK u \in Pruned : u + Window <= GateNow
    BY <1>5
  <2> DEFINE counted == {v \in slots : observed < v + Window}
  <2>2. IsFiniteSet(counted) /\ Cardinality(counted) \in Nat
    BY SlotsFinite
  <2>3. Cardinality(counted) <= PerWindow
    BY DEF SlotsKept
  <2>4. u \in slots /\ GateNow - Window <= u /\ u \in Nat
    BY <1>1, <2>1 DEF Pruned
  <2>5. observed < GateNow
    BY <1>1, <2>4 DEF SlotsKept, SlotFree
  <2>6. observed < u + Window /\ ~(GateNow < u + Window)
    BY <1>1, <2>1, <2>4, <2>5
  <2>7. \A v \in slots : GateNow < v + Window => observed < v + Window
    BY <1>1
  <2>8. u \in counted /\ u \notin Live /\ Live \subseteq counted
    BY <2>4, <2>6, <2>7 DEF Live
  <2> HIDE DEF counted
  <2>9. Cardinality(Live) <= Cardinality(counted) /\ Cardinality(Live) # Cardinality(counted)
    BY <2>2, <2>8, FS_Subset
  <2> QED
    BY <1>1, <1>3, <2>2, <2>3, <2>9
<1> QED
  BY <1>4, <1>5 DEF SlotFree

(* Every start of the last window has a row there. *)
LEMMA RecentAreLive ==
  ASSUME IInv, NEW g \in [starts -> Nat], Timed(g), IsFiniteSet(Live)
  PROVE  /\ IsFiniteSet(Recent) /\ Cardinality(Recent) \in Nat
         /\ Cardinality(Recent) <= Cardinality(Live)
<1> USE GateAssumption DEF IInv
<1>1. now \in Nat /\ GateNow \in Nat /\ Window \in Nat /\ starts \subseteq Nat
  BY GateNowType DEF TypeOK
<1>2. Recent \subseteq starts
  BY DEF Recent
<1>3. \A t \in Recent : g[t] \in Live
  <2> SUFFICES ASSUME NEW t \in Recent PROVE g[t] \in Live
    OBVIOUS
  <2>1. g[t] \in slots /\ t - g[t] <= now - GateNow /\ now < t + Window
    BY DEF Timed, Recent
  <2>2. t \in Nat /\ g[t] \in Nat
    BY <1>1, <1>2
  <2>3. GateNow < g[t] + Window
    BY <1>1, <2>1, <2>2
  <2> QED
    BY <2>1, <2>3 DEF Live
<1> DEFINE f == [t \in Recent |-> g[t]]
<1>4. f \in Injection(Recent, Live)
  <2>1. f \in [Recent -> Live]
    BY <1>3
  <2>2. ASSUME NEW t \in Recent, NEW u \in Recent, f[t] = f[u] PROVE t = u
    <3>1. t \in Nat /\ u \in Nat /\ g[t] \in Nat /\ g[u] \in Nat /\ g[t] = g[u]
      BY <1>1, <1>2, <2>2
    <3>2. ~(t < u) /\ ~(u < t)
      BY <1>2, <3>1 DEF Timed
    <3> QED
      BY <3>1, <3>2
  <2> QED
    BY <2>1, <2>2, Zenon DEF Injection, IsInjective
<1> HIDE DEF f
<1>5. IsFiniteSet(Recent) /\ Cardinality(Recent) <= Cardinality(Live)
  BY <1>4, FS_Injection
<1> QED
  BY <1>5, FS_CardinalityType

(* Old rows go: the gate has no use for them any more. *)
LEMMA PaceInv ==
  ASSUME IInv, NEW c \in Caller, Pace(c)
  PROVE  IInv'
<1> USE GateAssumption DEF IInv
<1>1. /\ UNCHANGED <<now, back, next, observed, starts, pc, queue, orphans, since, crashes>>
      /\ UNCHANGED <<total, issued, own, cooldown, ready, cancelled>>
      /\ slots' = Pruned
  BY DEF Pace, graph
<1>2. /\ now \in Nat /\ GateNow \in Nat /\ observed \in Nat /\ observed <= GateNow
      /\ Window \in Nat /\ slots \subseteq Nat /\ starts \subseteq Nat
  BY GateNowType DEF TypeOK
<1>3. Pruned \subseteq slots
  BY DEF Pruned
<1>4. TypeOK' /\ ClockAhead'
  BY <1>1, <1>2, <1>3 DEF TypeOK, ClockAhead
<1>5. QueueMatches' /\ CountedFirst' /\ RateKept'
  BY <1>1 DEF QueueMatches, Holds, CountedFirst, RateKept
<1>6. SlotsKept'
  <2> DEFINE old == {u \in slots : observed < u + Window}
             new == {u \in Pruned : observed < u + Window}
  <2>1. new \subseteq old /\ old \subseteq slots
    BY <1>3
  <2>2. Cardinality(new) <= Cardinality(old) /\ Cardinality(new) \in Nat
        /\ Cardinality(old) \in Nat /\ Cardinality(old) <= PerWindow
    BY <1>3, <2>1, SlotsFinite, FS_Subset DEF SlotsKept
  <2>3. Cardinality(new) <= PerWindow
    BY <2>2
  <2> QED
    BY <1>1, <1>3, <2>3 DEF SlotsKept
<1>7. (\E g \in [starts -> Nat] : Timed(g))'
  <2>1. PICK g \in [starts -> Nat] : Timed(g)
    OBVIOUS
  <2>2. GateNow' = GateNow
    BY <1>1 DEF GateNow, Wall
  <2>3. \A t \in starts : now < t + Window => g[t] \in Pruned
    <3> SUFFICES ASSUME NEW t \in starts, now < t + Window PROVE g[t] \in Pruned
      OBVIOUS
    <3>1. g[t] \in slots /\ t - g[t] <= now - GateNow
      BY <2>1 DEF Timed
    <3>2. GateNow - Window <= g[t]
      BY <1>2, <3>1
    <3> QED
      BY <3>1, <3>2 DEF Pruned
  <2>4. Timed(g)'
    BY <1>1, <2>1, <2>2, <2>3 DEF Timed
  <2> QED
    BY <1>1, <2>4
<1> QED
  BY <1>4, <1>5, <1>6, <1>7

(* A start: the interval has passed, and there was room in the window. *)
LEMMA StartKeepsRate ==
  ASSUME IInv, NEW c \in Caller, Start(c)
  PROVE  SlotsKept' /\ RateKept' /\ (\E g \in [starts -> Nat] : Timed(g))'
<1> USE GateAssumption DEF IInv
<1>1. /\ now' = now /\ back' = back /\ SlotFree
      /\ slots' = Pruned \cup {GateNow} /\ starts' = starts \cup {now}
      /\ next' = GateNow + Interval /\ observed' = GateNow
  BY DEF Start
<1>2. /\ now \in Nat /\ GateNow \in Nat /\ observed \in Nat /\ observed <= GateNow
      /\ Wall \in Nat /\ Wall <= GateNow /\ next \in Nat
      /\ Window \in Nat \ {0} /\ Interval \in Nat \ {0} /\ PerWindow \in Nat \ {0}
      /\ slots \subseteq Nat /\ starts \subseteq Nat /\ next <= GateNow
  BY <1>1, GateNowType DEF TypeOK, SlotFree
<1>3. GateNow' = GateNow
  BY <1>1, <1>2 DEF GateNow, Wall
<1>4. Pruned \subseteq slots /\ IsFiniteSet(Pruned)
  BY SlotsFinite DEF Pruned
<1>5. PICK g \in [starts -> Nat] : Timed(g)
  OBVIOUS
<1>6. \A t \in starts : g[t] + Interval <= GateNow /\ t + Interval <= now
  <2> SUFFICES ASSUME NEW t \in starts PROVE g[t] + Interval <= GateNow /\ t + Interval <= now
    OBVIOUS
  <2>1. g[t] + Interval <= next /\ t - g[t] <= now - GateNow /\ g[t] \in Nat /\ t \in Nat
    BY <1>2, <1>5 DEF Timed
  <2> QED
    BY <1>2, <2>1
<1>7. SlotsKept'
  <2>1. \A u \in slots' : u <= observed'
    <3>1. \A u \in slots : u <= GateNow
      BY <1>2 DEF SlotsKept
    <3> QED
      BY <1>1, <1>2, <1>4, <3>1
  <2>2. observed' < next'
    BY <1>1, <1>2
  <2> DEFINE new == {u \in slots' : observed' < u + Window}
  <2>3. new = Live \cup {GateNow}
    <3>1. \A u \in slots : GateNow < u + Window => u \in Pruned
      <4>1. \A u \in slots : GateNow < u + Window => GateNow - Window <= u
        BY <1>2
      <4> QED
        BY <4>1 DEF Pruned
    <3>2. GateNow < GateNow + Window
      BY <1>2
    <3> QED
      BY <1>1, <1>4, <3>1, <3>2 DEF Live
  <2>4. IsFiniteSet(Live) /\ Cardinality(Live) \in Nat /\ Cardinality(Live) < PerWindow
    BY <1>1, RoomForOne
  <2> HIDE DEF new
  <2>5. Cardinality(new) <= PerWindow
    <3>1. \/ Cardinality(new) = Cardinality(Live) + 1
          \/ Cardinality(new) = Cardinality(Live)
      BY <2>3, <2>4, FS_AddElement
    <3> QED
      BY <1>2, <2>4, <3>1
  <2> QED
    BY <2>1, <2>2, <2>5 DEF SlotsKept, new
<1>8. RateKept'
  <2> DEFINE InWindow(s, S) == {t \in S : s <= t /\ t < s + Window}
  <2>1. \A s, t \in starts' : s < t => s + Interval <= t
    BY <1>1, <1>2, <1>6 DEF RateKept
  <2>2. ASSUME NEW s \in starts' PROVE Cardinality(InWindow(s, starts')) <= PerWindow
    <3>1. CASE s = now
      <4>1. \A t \in starts : ~(now <= t)
        BY <1>2, <1>6
      <4>2. now <= now /\ now < now + Window
        BY <1>2
      <4>3. InWindow(s, starts') = {now}
        BY <1>1, <3>1, <4>1, <4>2
      <4>4. 1 <= PerWindow
        BY <1>2
      <4>5. Cardinality({now}) = 1
        BY FS_Singleton
      <4> QED
        BY <4>3, <4>4, <4>5
    <3>2. CASE s \in starts /\ s + Window <= now
      <4>1. InWindow(s, starts') = InWindow(s, starts)
        BY <1>1, <1>2, <3>2
      <4>2. Cardinality(InWindow(s, starts)) <= PerWindow
        BY <3>2 DEF RateKept
      <4> QED
        BY <4>1, <4>2
    <3>3. CASE s \in starts /\ now < s + Window
      <4>1. IsFiniteSet(Live) /\ Cardinality(Live) \in Nat /\ Cardinality(Live) < PerWindow
        BY <1>1, RoomForOne
      <4>2. /\ IsFiniteSet(Recent) /\ Cardinality(Recent) \in Nat
            /\ Cardinality(Recent) <= Cardinality(Live)
        BY <1>5, <4>1, RecentAreLive
      <4>3. InWindow(s, starts') \subseteq Recent \cup {now}
        <5>1. ASSUME NEW t \in starts, s <= t PROVE now < t + Window
          <6>1. s \in Nat /\ t \in Nat
            BY <1>2, <3>3
          <6> QED
            BY <1>2, <3>3, <5>1, <6>1
        <5> QED
          BY <1>1, <5>1 DEF Recent
      <4>4. /\ IsFiniteSet(Recent \cup {now})
            /\ \/ Cardinality(Recent \cup {now}) = Cardinality(Recent) + 1
               \/ Cardinality(Recent \cup {now}) = Cardinality(Recent)
        BY <4>2, FS_AddElement
      <4>5. /\ Cardinality(InWindow(s, starts')) <= Cardinality(Recent \cup {now})
            /\ Cardinality(InWindow(s, starts')) \in Nat
        BY <4>3, <4>4, FS_Subset, FS_CardinalityType
      <4> QED
        BY <1>2, <4>1, <4>2, <4>4, <4>5
    <3> QED
      BY <1>1, <1>2, <3>1, <3>2, <3>3
  <2> QED
    BY <2>1, <2>2 DEF RateKept
<1>9. (\E f \in [starts -> Nat] : Timed(f))'
  <2> DEFINE new == [t \in starts' |-> IF t = now THEN GateNow ELSE g[t]]
  <2>0. new \in [starts' -> Nat] /\ now \in starts'
    BY <1>1, <1>2
  <2>1. PICK h \in [starts' -> Nat] : h = new
    BY <2>0
  <2>2. h[now] = GateNow
    BY <2>0, <2>1
  <2>3. \A t \in starts : t # now /\ h[t] = g[t]
    BY <1>1, <1>2, <1>6, <2>1
  <2> HIDE DEF new
  <2>4. \A t \in starts' : /\ t <= now' /\ h[t] <= observed' /\ h[t] + Interval <= next'
                           /\ t - h[t] <= now' - GateNow'
    <3> SUFFICES ASSUME NEW t \in starts'
                 PROVE  /\ t <= now' /\ h[t] <= observed' /\ h[t] + Interval <= next'
                        /\ t - h[t] <= now' - GateNow'
      OBVIOUS
    <3>1. CASE t = now
      BY <1>1, <1>2, <1>3, <2>2, <3>1
    <3>2. CASE t \in starts
      <4>1. /\ t <= now /\ g[t] <= observed /\ g[t] + Interval <= GateNow
            /\ t - g[t] <= now - GateNow /\ g[t] \in Nat /\ t \in Nat
        BY <1>2, <1>5, <1>6, <3>2 DEF Timed
      <4> QED
        BY <1>1, <1>2, <1>3, <2>3, <3>2, <4>1
    <3> QED
      BY <1>1, <3>1, <3>2
  <2>5. \A s, t \in starts' : s < t => h[s] < h[t]
    <3> SUFFICES ASSUME NEW s \in starts', NEW t \in starts', s < t PROVE h[s] < h[t]
      OBVIOUS
    <3>1. CASE t = now
      <4>1. s \in starts /\ g[s] + Interval <= GateNow /\ g[s] \in Nat
        BY <1>1, <1>2, <1>6, <3>1
      <4> QED
        BY <1>2, <2>2, <2>3, <3>1, <4>1
    <3>2. CASE t \in starts
      <4>1. s \in starts
        BY <1>1, <1>2, <1>5, <3>2 DEF Timed
      <4> QED
        BY <1>5, <2>3, <3>2, <4>1 DEF Timed
    <3> QED
      BY <1>1, <3>1, <3>2
  <2>6. \A t \in starts' : now' < t + Window => h[t] \in slots'
    <3> SUFFICES ASSUME NEW t \in starts, now < t + Window PROVE g[t] \in Pruned
      BY <1>1, <2>2, <2>3
    <3>1. /\ g[t] \in slots /\ t - g[t] <= now - GateNow /\ g[t] \in Nat /\ t \in Nat
      BY <1>2, <1>5 DEF Timed
    <3>2. GateNow - Window <= g[t]
      BY <1>2, <3>1
    <3> QED
      BY <3>1, <3>2 DEF Pruned
  <2>7. Timed(h)'
    BY <2>4, <2>5, <2>6 DEF Timed
  <2> QED
    BY <2>1, <2>7
<1> QED
  BY <1>7, <1>8, <1>9

-------------------------------------------------------------------------------
(* The steps that leave the gate and the time alone *)

\* The parts of the invariant that do not depend on them
Calls == TypeOK /\ QueueMatches /\ CountedFirst

(* A call that waits for the lock starts when there is a slot. *)
LEMMA StartInv == ASSUME IInv, NEW c \in Caller, Start(c) PROVE IInv'
<1> USE GateAssumption DEF IInv
<1>1. /\ UNCHANGED <<now, back, queue, orphans, total, own, cooldown, ready, cancelled, crashes>>
      /\ Holds(c) /\ pc[c] = "wait" /\ pc' = [pc EXCEPT ![c] = "rpc"]
      /\ slots' = Pruned \cup {GateNow} /\ starts' = starts \cup {now}
      /\ next' = GateNow + Interval /\ observed' = GateNow
      /\ since' = (IF c = "graph" THEN now ELSE since)
      /\ issued' = (IF c = "graph" THEN issued + 1 ELSE issued)
  BY DEF Start
<1>2. /\ now \in Nat /\ GateNow \in Nat /\ Interval \in Nat /\ since \in Nat
      /\ issued \in Nat /\ total \in Nat /\ slots \subseteq Nat /\ starts \subseteq Nat
      /\ pc \in [Caller -> {"idle", "before", "wait", "rpc"}] /\ queue \in Seq(Caller)
  <2>1. now \in Nat /\ GateNow \in Nat
    BY GateNowType
  <2>2. Interval \in Nat /\ since \in Nat /\ issued \in Nat /\ total \in Nat
    BY DEF TypeOK
  <2> QED
    BY <2>1, <2>2 DEF TypeOK
<1>3. TypeOK' /\ ClockAhead'
  <2>1. {next', observed', issued', ready', since', orphans'} \subseteq Nat
    BY <1>1, <1>2 DEF TypeOK
  <2>2. slots' \subseteq Nat /\ starts' \subseteq Nat
    BY <1>1, <1>2 DEF Pruned
  <2>3. pc' \in [Caller -> {"idle", "before", "wait", "rpc"}]
    BY <1>1, <1>2
  <2> QED
    BY <1>1, <2>1, <2>2, <2>3 DEF TypeOK, ClockAhead
<1>4. QueueMatches'
  <2>1. \A d \in Caller : pc'[d] \in {"wait", "rpc"} <=> pc[d] \in {"wait", "rpc"}
    BY <1>1, <1>2
  <2>2. \A d \in Caller : pc'[d] = "rpc" => d = c \/ pc[d] = "rpc"
    BY <1>1, <1>2
  <2>3. \A d \in Caller : Holds(d)' <=> Holds(d)
    BY <1>1 DEF Holds
  <2> QED
    BY <1>1, <2>1, <2>2, <2>3 DEF QueueMatches
<1>5. CountedFirst'
  <2>1. CASE c = "graph"
    BY <1>1, <1>2, <2>1 DEF CountedFirst
  <2>2. CASE c # "graph"
    BY <1>1, <1>2, <2>2 DEF CountedFirst
  <2> QED
    BY <2>1, <2>2
<1> QED
  BY <1>3, <1>4, <1>5, StartKeepsRate

(* A call that has no controller waits for the lock. *)
LEMMA CallInv == ASSUME IInv, NEW c \in Caller, Call(c) PROVE Calls'
<1> USE GateAssumption DEF IInv
<1>1. /\ c \in Task /\ c # "graph" /\ pc[c] = "idle" /\ pc' = [pc EXCEPT ![c] = "wait"]
      /\ queue' = Append(queue, c)
      /\ UNCHANGED <<now, back, next, observed, slots, starts, orphans, since, crashes>>
      /\ UNCHANGED <<total, issued, own, cooldown, ready, cancelled>>
  BY DEF Call, gate, graph
<1>2. pc \in [Caller -> {"idle", "before", "wait", "rpc"}] /\ "graph" \in Caller
  BY DEF TypeOK, Caller
<1>3. QueueMatches' /\ queue' \in Seq(Caller)
  BY <1>1, JoinQueue
<1>4. /\ pc' \in [Caller -> {"idle", "before", "wait", "rpc"}]
      /\ pc'["graph"] = pc["graph"]
  BY <1>1, <1>2
<1> QED
  BY <1>1, <1>3, <1>4 DEF Calls, TypeOK, CountedFirst

(* The graph run asks for a request, under its cap. *)
LEMMA GraphCallInv == ASSUME IInv, GraphCall PROVE Calls'
<1> USE GateAssumption DEF IInv
<1>1. /\ pc["graph"] = "idle" /\ total < Cap /\ pc' = [pc EXCEPT !["graph"] = "before"]
      /\ ready' = (IF cooldown THEN now + Window ELSE ready)
      /\ UNCHANGED <<now, back, next, observed, slots, starts, orphans, since, crashes>>
      /\ UNCHANGED <<queue, total, issued, own, cooldown, cancelled>>
  BY DEF GraphCall, WithinCap, gate
<1>2. pc \in [Caller -> {"idle", "before", "wait", "rpc"}] /\ "graph" \in Caller
  BY DEF TypeOK, Caller
<1>3. pc' \in [Caller -> {"idle", "before", "wait", "rpc"}]
  BY <1>1, <1>2
<1>4. ready' \in Nat
  <2>1. now \in Nat /\ Window \in Nat /\ ready \in Nat
    BY GateNowType DEF TypeOK
  <2> QED
    BY <1>1, <2>1
<1>5. TypeOK'
  BY <1>1, <1>3, <1>4 DEF TypeOK
<1>6. QueueMatches'
  <2>1. \A d \in Caller : d # "graph" => pc'[d] = pc[d]
    BY <1>1, <1>2
  <2>2. pc'["graph"] = "before"
    BY <1>1, <1>2
  <2> QED
    BY <1>1, <2>1, <2>2 DEF QueueMatches, Holds
<1>7. CountedFirst'
  BY <1>1, <1>2 DEF CountedFirst
<1> QED
  BY <1>5, <1>6, <1>7 DEF Calls

(* The request is counted before it waits for the lock. *)
LEMMA GraphReserveInv == ASSUME IInv, GraphReserve PROVE Calls'
<1> USE GateAssumption DEF IInv
<1>1. /\ pc["graph"] = "before" /\ total' = total + 1
      /\ pc' = [pc EXCEPT !["graph"] = "wait"] /\ queue' = Append(queue, "graph")
      /\ own' = (IF cooldown THEN {} ELSE OwnRecent) \cup {now} /\ cooldown' = FALSE
      /\ since' = now
      /\ UNCHANGED <<now, back, next, observed, slots, starts, orphans, issued, ready,
                     cancelled, crashes>>
  BY DEF GraphReserve, Counted, gate
<1>2. /\ pc \in [Caller -> {"idle", "before", "wait", "rpc"}] /\ "graph" \in Caller
      /\ total \in Nat /\ issued \in Nat /\ own \subseteq Nat /\ now \in Nat
  <2>1. now \in Nat
    BY GateNowType
  <2>2. total \in Nat /\ issued \in Nat
    BY DEF TypeOK
  <2> QED
    BY <2>1, <2>2 DEF TypeOK, Caller
<1>3. total < Cap /\ issued <= total
  BY <1>1, <1>2 DEF CountedFirst
<1>4. QueueMatches' /\ queue' \in Seq(Caller)
  BY <1>1, <1>2, JoinQueue
<1>5. TypeOK'
  <2>1. pc' \in [Caller -> {"idle", "before", "wait", "rpc"}]
    BY <1>1, <1>2
  <2>2. total' \in 0 .. Cap
    BY <1>1, <1>2, <1>3
  <2>3. own' \subseteq Nat
    BY <1>1, <1>2 DEF OwnRecent
  <2>4. {next', observed', issued', ready', since', orphans'} \subseteq Nat
    BY <1>1, <1>2 DEF TypeOK
  <2> QED
    BY <1>1, <1>4, <2>1, <2>2, <2>3, <2>4 DEF TypeOK
<1>6. CountedFirst'
  BY <1>1, <1>2, <1>3 DEF CountedFirst
<1> QED
  BY <1>4, <1>5, <1>6 DEF Calls

(* A call ends: it is cancelled, answered, or abandoned. *)
LEMMA EndCallInv ==
  ASSUME IInv,
         \/ \E c \in Caller : Finish(c) \/ CancelTask(c)
         \/ Abandon \/ GraphCancelBefore
  PROVE  Calls'
<1> USE GateAssumption DEF IInv
<1>1. PICK c \in Caller :
          /\ pc[c] \in {"wait", "rpc", "before"} /\ pc' = [pc EXCEPT ![c] = "idle"]
          /\ \/ pc[c] = "rpc" /\ queue' = Without(1)
             \/ \E i \in DOMAIN queue : queue[i] = c /\ queue' = Without(i)
             \/ pc[c] = "before" /\ queue' = queue
          /\ orphans' \in {orphans, orphans + 1}
          /\ UNCHANGED <<now, back, gate, graph, since, crashes>>
  <2>1. "graph" \in Caller /\ orphans \in Nat
    BY DEF Caller, TypeOK
  <2>2. CASE \E c \in Caller : Finish(c) \/ CancelTask(c)
    BY <2>2 DEF Finish, CancelTask
  <2>3. CASE Abandon \/ GraphCancelBefore
    BY <2>1, <2>3 DEF Abandon, GraphCancelBefore
  <2> QED
    BY <2>2, <2>3
<1>2. /\ UNCHANGED <<now, back, next, observed, slots, starts, since, crashes>>
      /\ UNCHANGED <<total, issued, own, cooldown, ready, cancelled>>
  BY <1>1 DEF gate, graph
<1>3. /\ pc \in [Caller -> {"idle", "before", "wait", "rpc"}] /\ "graph" \in Caller
      /\ total \in Nat /\ issued \in Nat /\ orphans \in Nat
  BY DEF TypeOK, Caller
<1>4. QueueMatches' /\ queue' \in Seq(Caller)
  <2>1. CASE pc[c] = "rpc" /\ queue' = Without(1)
    BY <1>1, <2>1, FreeLock
  <2>2. CASE \E i \in DOMAIN queue : queue[i] = c /\ queue' = Without(i)
    BY <1>1, <2>2, LeaveQueue
  <2>3. CASE pc[c] = "before" /\ queue' = queue
    <3>1. \A d \in Caller : d # c => pc'[d] = pc[d]
      BY <1>1, <1>3
    <3>2. pc'[c] = "idle"
      BY <1>1, <1>3
    <3> QED
      BY <2>3, <3>1, <3>2 DEF QueueMatches, Holds, TypeOK
  <2> QED
    BY <1>1, <2>1, <2>2, <2>3
<1>5. TypeOK'
  <2>1. pc' \in [Caller -> {"idle", "before", "wait", "rpc"}]
    BY <1>1, <1>3
  <2>2. {next', observed', issued', ready', since', orphans'} \subseteq Nat
    <3>1. orphans' \in Nat
      BY <1>1, <1>3
    <3>2. {next, observed, issued, ready, since} \subseteq Nat
      BY DEF TypeOK
    <3> QED
      BY <1>2, <3>1, <3>2
  <2> QED
    BY <1>2, <1>4, <2>1, <2>2 DEF TypeOK
<1>6. CountedFirst'
  <2>1. pc'["graph"] = "idle" \/ pc'["graph"] = pc["graph"]
    BY <1>1, <1>3
  <2> QED
    BY <1>2, <1>3, <2>1 DEF CountedFirst
<1> QED
  BY <1>4, <1>5, <1>6 DEF Calls

(* A restart forgets who waits, but neither the gate nor the budget. *)
LEMMA RestartInv == ASSUME IInv, Restart PROVE Calls'
<1> USE GateAssumption DEF IInv
<1>1. /\ pc' = [c \in Caller |-> "idle"] /\ queue' = <<>> /\ orphans' = 0
      /\ own' = {} /\ cooldown' = (total > 0) /\ crashes' = crashes + 1 /\ crashes < MaxCrashes
      /\ UNCHANGED <<now, back, next, observed, slots, starts>>
      /\ UNCHANGED <<total, issued, ready, since, cancelled>>
  BY DEF Restart, GateKept, gate
<1>2. total \in Nat /\ issued \in Nat /\ crashes \in 0 .. MaxCrashes /\ "graph" \in Caller
  BY DEF TypeOK, Caller
<1>3. TypeOK'
  <2>1. pc' \in [Caller -> {"idle", "before", "wait", "rpc"}] /\ queue' \in Seq(Caller)
    BY <1>1
  <2>2. crashes' \in 0 .. MaxCrashes /\ cooldown' \in BOOLEAN /\ own' \subseteq Nat
    BY <1>1, <1>2
  <2>3. {next', observed', issued', ready', since', orphans'} \subseteq Nat
    BY <1>1 DEF TypeOK
  <2> QED
    BY <1>1, <2>1, <2>2, <2>3 DEF TypeOK
<1>4. QueueMatches'
  BY <1>1 DEF QueueMatches
<1>5. CountedFirst'
  BY <1>1, <1>2 DEF CountedFirst
<1> QED
  BY <1>3, <1>4, <1>5 DEF Calls

(* The run is cancelled, an abandoned call ends, or nothing happens. *)
LEMMA QuietInv == ASSUME IInv, Cancel \/ OrphanEnds \/ UNCHANGED vars PROVE Calls'
<1> USE GateAssumption DEF IInv
<1>1. /\ UNCHANGED <<now, back, next, observed, slots, starts, pc, queue, since, crashes>>
      /\ UNCHANGED <<total, issued, own, cooldown, ready>>
  BY DEF Cancel, OrphanEnds, vars, gate, graph
<1>2. orphans' \in Nat /\ cancelled' \in BOOLEAN
  <2>1. orphans \in Nat /\ cancelled \in BOOLEAN
    BY DEF TypeOK
  <2>2. CASE Cancel
    BY <2>1, <2>2 DEF Cancel
  <2>3. CASE OrphanEnds
    BY <2>1, <2>3 DEF OrphanEnds, graph
  <2>4. CASE UNCHANGED vars
    BY <2>1, <2>4 DEF vars, graph
  <2> QED
    BY <2>2, <2>3, <2>4
<1>3. TypeOK'
  BY <1>1, <1>2 DEF TypeOK
<1>4. QueueMatches' /\ CountedFirst'
  BY <1>1 DEF QueueMatches, Holds, CountedFirst
<1> QED
  BY <1>3, <1>4 DEF Calls

-------------------------------------------------------------------------------
(* Every step keeps the invariant. *)
LEMMA NextInv == ASSUME IInv, [Next]_vars PROVE IInv'
<1>1. CASE Tick \/ SetBack
  BY <1>1, ClockStep
<1>2. CASE \E c \in Caller : Pace(c)
  BY <1>2, PaceInv
<1>3. CASE \E c \in Caller : Start(c)
  BY <1>3, StartInv
<1>4. CASE \/ \E c \in Caller : Call(c) \/ Finish(c) \/ CancelTask(c)
           \/ GraphCall \/ GraphReserve \/ GraphCancelBefore \/ Abandon
           \/ Restart \/ Cancel \/ OrphanEnds \/ UNCHANGED vars
  <2>1. Calls'
    BY <1>4, CallInv, GraphCallInv, GraphReserveInv, EndCallInv, RestartInv, QuietInv
  <2>2. UNCHANGED timing
    BY <1>4 DEF timing, Call, Finish, CancelTask, GraphCall, GraphReserve,
       GraphCancelBefore, Abandon, Restart, GateKept, Cancel, OrphanEnds, vars
  <2> QED
    BY <2>1, <2>2, RateUnchanged DEF IInv, Calls
<1> QED
  BY <1>1, <1>2, <1>3, <1>4 DEF Next, Environment

(* The strengthened invariant holds in every reachable state. *)
THEOREM AccountGateInvariant == Spec => []IInv
BY InitInv, NextInv, PTL DEF Spec

\* Every variable of the account gate keeps its type (account_pacer.py,
\* graph_request_control.py).
THEOREM AccountGateTypeOK == Spec => []TypeOK
<1>1. IInv => TypeOK
  BY DEF IInv
<1> QED
  BY <1>1, AccountGateInvariant, PTL

\* _reserve_locked: the interval between two starts and the number of starts in a window
\* are kept over restarts and when the wall clock is set back.
THEOREM AccountGateRate == Spec => []RateKept
<1>1. IInv => RateKept
  BY DEF IInv
<1> QED
  BY <1>1, AccountGateInvariant, PTL

\* rpc and _wait_graph_rpc: the lock is held by the one raw call that is not abandoned.
THEOREM AccountGateLock == Spec => []LockMatchesCalls
<1>1. IInv => LockMatchesCalls
  BY LockFromQueue DEF IInv
<1> QED
  BY <1>1, AccountGateInvariant, PTL

\* before_request: a graph run makes no more requests than its cap.
THEOREM AccountGateBudget == Spec => []BudgetKept
<1>1. IInv => BudgetKept
  <2> SUFFICES ASSUME IInv PROVE BudgetKept
    OBVIOUS
  <2>1. issued \in Nat /\ total \in Nat /\ total <= Cap /\ Cap \in Nat
    BY GateAssumption DEF IInv, TypeOK
  <2>2. issued <= total
    BY <2>1 DEF IInv, CountedFirst
  <2> QED
    BY <2>1, <2>2 DEF BudgetKept
<1> QED
  BY <1>1, AccountGateInvariant, PTL
===============================================================================
