---------------------------- MODULE GraphRunProofs -----------------------------
(***************************************************************************)
(* For every graph, every set of seeds and any caps: a run of graph        *)
(* discovery keeps its types and caps, counts exactly the sources it has   *)
(* stored, loses no node between the queue and its last stage, and         *)
(* implements the abstract run, whatever cancel requests do meanwhile.     *)
(***************************************************************************)
EXTENDS GraphRun, FiniteSetTheorems, TLAPS

\* Two walks that stand at the same place, whatever keys and names of links they hold.
SameWork(v, w) ==
    /\ v.queue = w.queue /\ v.node = w.node /\ v.done = w.done
    /\ v.receipt = w.receipt /\ v.created = w.created

\* The worker stands where it has saved that it does: only keys and names are saved later.
InStep == pc # "idle" => SameWork(mem, cursor)

\* A saved receipt is that of a stage of the node in hand; links are planned from one.
WorkInHand ==
    /\ pc = "node" => mem.node # NoNode
    /\ cursor.receipt => cursor.node # NoNode /\ cursor.done[cursor.node.peer] \in Stage
    /\ prepared # <<>> => pc = "node" /\ mem.receipt

\* No more links are planned than the node may follow, and each that is to become a
\* source had room under the cap and is known by its id.
PreparedWithinCaps ==
    /\ prepared # <<>> => Len(prepared) <= Len(Edges)
    /\ \A i \in DOMAIN prepared :
           prepared[i].outcome = "candidate" => ~prepared[i].named /\ mem.created < CandidateCap

\* Every row is of a stage that is over, and what it says is stored is stored.
RowsOfDoneStages ==
    \A e \in events : /\ e.via < cursor.done[e.from]
                      /\ e.outcome = "candidate" => e.to \in sources

\* Where the run was led to: the seeds, and what the rows above the last level name.
LedTo ==
    {Seeds[i].peer : i \in DOMAIN Seeds}
        \cup {e.to : e \in {f \in events : /\ f.outcome \in {"candidate", "merged"}
                                           /\ f.depth < MaxDepth}}

\* A walk holds a source: it is done, in hand or in the queue.
Held(w, p) ==
    \/ w.done[p] = AllDone
    \/ w.node # NoNode /\ w.node.peer = p
    \/ \E i \in DOMAIN w.queue : w.queue[i].peer = p

NothingLost ==
    /\ \A p \in LedTo : Held(cursor, p)
    /\ run = "succeeded" => pc = "idle" /\ cursor.node = NoNode /\ cursor.queue = <<>>

IInv ==
    /\ TypeOK
    /\ InStep /\ WorkInHand /\ PreparedWithinCaps
    /\ RowsOfDoneStages /\ CreatedAreStored
    /\ NothingLost

\* Who is at the run: the event is there while a worker is; a run that ends before a
\* request has written is closed for good; a request that comes after a worker has died
\* takes it for alive; and only a run that has ended loses its job under a worker.
AtRun ==
    /\ event = "none" <=> pc = "idle"
    /\ http # NoRead /\ run \in Terminal => Closed
    /\ http # NoRead /\ pc = "idle" /\ job = "running" => LiveWorker(http.job, http.live)
    /\ pc # "idle" /\ job \in Terminal => run \in Terminal

-------------------------------------------------------------------------------
(* What the walk is built from *)

\* The positions of a set are listed one by one, in order, and none is left out.
LEMMA InOrderLists ==
  ASSUME NEW n \in Nat, NEW S \in SUBSET (1 .. n)
  PROVE  /\ Cardinality(S) \in Nat
         /\ InOrder(S) \in [1 .. Cardinality(S) -> S]
         /\ \A i \in S : \E k \in 1 .. Cardinality(S) : InOrder(S)[k] = i
<1> DEFINE Upto(i) == {k \in S : k <= i}
           rank    == [i \in S |-> Cardinality(Upto(i))]
           size    == Cardinality(S)
<1>1. /\ IsFiniteSet(S) /\ size \in Nat
      /\ \A i \in S : IsFiniteSet(Upto(i)) /\ Cardinality(Upto(i)) \in Nat
  <2>1. IsFiniteSet(1 .. n)
    BY FS_Interval
  <2>2. IsFiniteSet(S)
    BY <2>1, FS_Subset
  <2>3. \A i \in S : IsFiniteSet(Upto(i))
    BY <2>2, FS_Subset
  <2> QED
    BY <2>2, <2>3, FS_CardinalityType
<1>2. \A i \in S : Cardinality(Upto(i)) \in 1 .. size
  <2> SUFFICES ASSUME NEW i \in S PROVE Cardinality(Upto(i)) \in 1 .. size
    OBVIOUS
  <2>1. Cardinality(Upto(i)) <= size
    BY <1>1, FS_Subset
  <2>2. Upto(i) # {}
    <3>1. i \in Upto(i)
      OBVIOUS
    <3> QED
      BY <3>1
  <2>3. Cardinality(Upto(i)) # 0
    BY <1>1, <2>2, FS_EmptySet
  <2> QED
    BY <1>1, <2>1, <2>3
<1>3. \A i, j \in S : i < j => Cardinality(Upto(i)) < Cardinality(Upto(j))
  <2> SUFFICES ASSUME NEW i \in S, NEW j \in S, i < j
               PROVE  Cardinality(Upto(i)) < Cardinality(Upto(j))
    OBVIOUS
  <2>1. Upto(i) \subseteq Upto(j) /\ j \in Upto(j) /\ j \notin Upto(i)
    <3>1. i \in Nat /\ j \in Nat /\ \A k \in S : k \in Nat
      OBVIOUS
    <3>2. \A k \in S : k <= i => k <= j
      BY <3>1
    <3>3. ~(j <= i) /\ j <= j
      BY <3>1
    <3> QED
      BY <3>2, <3>3
  <2>2. Upto(i) # Upto(j)
    BY <2>1
  <2> HIDE DEF Upto
  <2> QED
    BY <1>1, <2>1, <2>2, FS_Subset
<1>4. rank \in Injection(S, 1 .. size)
  <2>1. rank \in [S -> 1 .. size]
    BY <1>2
  <2>2. \A i, j \in S : rank[i] = rank[j] => i = j
    <3> SUFFICES ASSUME NEW i \in S, NEW j \in S, rank[i] = rank[j], i # j PROVE FALSE
      OBVIOUS
    <3>1. i < j \/ j < i
      OBVIOUS
    <3> HIDE DEF Upto
    <3> QED
      BY <1>1, <1>3, <3>1
  <2> HIDE DEF rank
  <2> QED
    BY <2>1, <2>2 DEF Injection, IsInjective
<1>5. rank \in Surjection(S, 1 .. size)
  <2>1. IsFiniteSet(1 .. size) /\ Cardinality(1 .. size) = size
    BY <1>1, FS_Interval
  <2> HIDE DEF rank
  <2> QED
    BY <1>4, <2>1, FS_Injection
<1>6. \A k \in 1 .. size : \E i \in S : Cardinality(Upto(i)) = k
  <2>1. \A k \in 1 .. size : \E i \in S : rank[i] = k
    <3> HIDE DEF rank
    <3> QED
      BY <1>5 DEF Surjection
  <2> QED
    BY <2>1
<1>7. InOrder(S) = [k \in 1 .. size |-> CHOOSE i \in S : Cardinality(Upto(i)) = k]
  BY DEF InOrder
<1>8. ASSUME NEW k \in 1 .. size
      PROVE  InOrder(S)[k] \in S /\ Cardinality(Upto(InOrder(S)[k])) = k
  <2> HIDE DEF Upto
  <2> QED
    BY <1>6, <1>7
<1>9. \A i \in S : \E k \in 1 .. size : InOrder(S)[k] = i
  <2> SUFFICES ASSUME NEW i \in S PROVE \E k \in 1 .. size : InOrder(S)[k] = i
    OBVIOUS
  <2> DEFINE k == Cardinality(Upto(i))
             j == InOrder(S)[k]
  <2>1. k \in 1 .. size
    BY <1>2
  <2>2. j \in S /\ Cardinality(Upto(j)) = k
    BY <1>8, <2>1
  <2>3. i = j
    <3>1. i < j \/ j < i \/ i = j
      <4> HIDE DEF j
      <4> QED
        BY <2>2
    <3> HIDE DEF Upto, j
    <3> QED
      BY <1>1, <1>3, <2>2, <3>1 DEF k
  <2> QED
    BY <2>1, <2>3
<1>10. InOrder(S) \in [1 .. size -> S]
  BY <1>7, <1>8
<1> QED
  BY <1>1, <1>9, <1>10

\* Of two integers, the greater and the lesser one.
LEMMA MaxMinOfTwo ==
  ASSUME NEW a \in Int, NEW b \in Int
  PROVE  /\ Max({a, b}) = IF a <= b THEN b ELSE a
         /\ Min({a, b}) = IF a <= b THEN a ELSE b
<1>1. CASE a <= b
  <2>1. Max({a, b}) \in {a, b} /\ \A y \in {a, b} : Max({a, b}) >= y
    BY <1>1 DEF Max
  <2>2. Min({a, b}) \in {a, b} /\ \A y \in {a, b} : Min({a, b}) <= y
    BY <1>1 DEF Min
  <2> QED
    BY <1>1, <2>1, <2>2
<1>2. CASE ~(a <= b)
  <2>1. Max({a, b}) \in {a, b} /\ \A y \in {a, b} : Max({a, b}) >= y
    BY <1>2 DEF Max
  <2>2. Min({a, b}) \in {a, b} /\ \A y \in {a, b} : Min({a, b}) <= y
    BY <1>2 DEF Min
  <2> QED
    BY <1>2, <2>1, <2>2
<1> QED
  BY <1>1, <1>2

\* What the stages before one have found is counted.
LEMMA UsedIsNat ==
  ASSUME NEW f \in [Stage -> Nat], NEW a \in Stage
  PROVE  SumFunctionOnSet(f, 1 .. a - 1) \in Nat
<1> DEFINE I     == 1 .. a - 1
           E(it) == it = [s \in SUBSET I |->
                             IF s = {} THEN 0
                             ELSE LET x == CHOOSE i \in s : TRUE IN f[x] + it[s \ {x}]]
           g     == [s \in SUBSET I |->
                             IF s = {} THEN 0
                             ELSE IF s = {1} THEN f[1]
                             ELSE IF s = {2} THEN f[2] ELSE f[1] + f[2]]
<1>1. SumFunctionOnSet(f, I) = (CHOOSE it : E(it))[I]
  BY Zenon DEF SumFunctionOnSet, FoldFunctionOnSet, MapThenFoldSet
<1>2. Stage = 1 .. 3
  BY DEF Stage, GRAPH_NODE_STAGES
<1>3. I \subseteq {1, 2} /\ f[1] \in Nat /\ f[2] \in Nat
  BY <1>2
<1>4. \A s \in SUBSET I : g[s] \in Nat
  BY <1>3
<1> DEFINE pick(s) == CHOOSE i \in s : TRUE
<1>5. \A s \in SUBSET I : g[s] = IF s = {} THEN 0 ELSE f[pick(s)] + g[s \ {pick(s)}]
  <2>0. g[{}] = 0
    OBVIOUS
  <2> SUFFICES ASSUME NEW s \in SUBSET I, s # {}, NEW x, x = pick(s)
               PROVE  g[s] = f[x] + g[s \ {x}]
    <3> HIDE DEF g, I, pick
    <3> QED
      BY <2>0
  <2>1. x \in s /\ s \ {x} \in SUBSET I /\ x \in {1, 2} /\ f[x] \in Nat
    <3>1. x \in s
      BY Zenon
    <3> QED
      BY <1>3, <3>1
  <2>2. g[{}] = 0 /\ {} \in SUBSET I
    OBVIOUS
  <2>3. CASE s \ {x} = {}
    <3>1. s = {x}
      BY <2>1, <2>3
    <3>2. g[s] = f[x]
      BY <2>1, <3>1
    <3> HIDE DEF g
    <3>3. g[s \ {x}] = 0
      BY <2>2, <2>3, Zenon
    <3> QED
      BY <2>1, <3>2, <3>3
  <2>4. CASE s \ {x} # {}
    <3>1. PICK y \in s \ {x} : TRUE
      BY <2>4
    <3>2. y \in {1, 2} /\ y # x
      BY <1>3, <3>1
    <3>3. s = {x, y} /\ s \ {x} = {y}
      BY <1>3, <2>1, <3>1, <3>2
    <3>4. g[{y}] = f[y]
      BY <2>1, <3>2, <3>3
    <3>5. g[s] = f[1] + f[2]
      BY <2>1, <3>2, <3>3
    <3> HIDE DEF g
    <3> QED
      BY <1>3, <2>1, <3>2, <3>3, <3>4, <3>5
  <2> QED
    BY <2>3, <2>4
<1>6. E(g)
  <2>1. g = [s \in SUBSET I |-> g[s]]
    OBVIOUS
  <2> HIDE DEF g, I
  <2> QED
    BY <1>5, <2>1, Zenon
<1>7. E(CHOOSE it : E(it))
  <2> HIDE DEF E
  <2> QED
    BY <1>6, Zenon
<1> DEFINE it == CHOOSE it : E(it)
<1>8. \A s \in SUBSET I : it[s] = IF s = {} THEN 0
                                  ELSE LET x == CHOOSE i \in s : TRUE IN f[x] + it[s \ {x}]
  <2>1. E(it)
    BY <1>7
  <2> HIDE DEF it, I
  <2> QED
    BY <2>1, Zenon
<1> HIDE DEF it
<1>9. it[I] \in Nat
  <2>1. it[{}] = 0
    BY <1>8
  <2>2. \A k \in I : it[{k}] = f[k] + 0
    <3> SUFFICES ASSUME NEW k \in I PROVE it[{k}] = f[k] + 0
      OBVIOUS
    <3>1. (CHOOSE i \in {k} : TRUE) = k /\ {k} \ {k} = {}
      OBVIOUS
    <3> QED
      BY <1>8, <2>1, <3>1
  <2>3. \A k \in I : it[{k}] \in Nat
    BY <1>3, <2>2
  <2>4. I = {} \/ (\E k \in I : I = {k}) \/ I = {1, 2}
    BY <1>2, <1>3
  <2>5. CASE I = {1, 2}
    <3>1. PICK x \in I : x = CHOOSE i \in I : TRUE
      BY <2>5
    <3>2. it[I] = f[x] + it[I \ {x}]
      BY <1>8, <2>5, <3>1
    <3>3. PICK y \in I : I \ {x} = {y}
      BY <2>5
    <3>4. f[x] \in Nat /\ it[{y}] \in Nat
      BY <1>3, <2>3
    <3>5. it[I \ {x}] = it[{y}]
      BY <3>3, Zenon
    <3> HIDE DEF I
    <3> QED
      BY <3>2, <3>4, <3>5
  <2>6. CASE I = {}
    <3>1. it[I] = it[{}]
      BY <2>6, Zenon
    <3> QED
      BY <2>1, <3>1
  <2>7. CASE \E k \in I : I = {k}
    <3>1. PICK k \in I : I = {k}
      BY <2>7
    <3>2. it[I] = it[{k}]
      BY <3>1, Zenon
    <3> QED
      BY <2>3, <3>2
  <2> QED
    BY <2>4, <2>5, <2>6, <2>7
<1> QED
  BY <1>1, <1>9 DEF it

\* The links of the stage in hand that the node may follow: no more than the cap.
LEMMA EdgesWithinCap ==
  ASSUME TypeOK, mem.node # NoNode, At \in Stage
  PROVE  Edges \in Seq(Link) /\ Len(Edges) <= EdgeCap
<1> DEFINE found == Links[mem.node.peer]
           sizes == [k \in Stage |-> Len(found[k])]
           used  == SumFunctionOnSet(sizes, 1 .. At - 1)
           room  == Max({0, EdgeCap - used})
           kept  == Min({Len(found[At]), room})
<1>1. mem.node \in Node /\ mem.node.peer \in Peer
  <2>1. mem.node \in Node
    BY DEF TypeOK, Walk
  <2> QED
    BY <2>1 DEF Node
<1>2. found \in [Stage -> Seq(Link)] /\ EdgeCap \in Nat
  BY <1>1, GraphRunAssumption
<1>3. sizes \in [Stage -> Nat] /\ found[At] \in Seq(Link) /\ Len(found[At]) \in Nat
  BY <1>2
<1>4. used \in Nat
  <2> HIDE DEF sizes
  <2> QED
    BY <1>3, UsedIsNat
<1>5. Edges = SubSeq(found[At], 1, kept)
  BY DEF Edges
<1> HIDE DEF used
<1>6. room \in Nat /\ room <= EdgeCap
  <2>1. 0 \in Int /\ EdgeCap - used \in Int
    BY <1>2, <1>4
  <2>2. room = IF 0 <= EdgeCap - used THEN EdgeCap - used ELSE 0
    BY <2>1, MaxMinOfTwo
  <2> HIDE DEF room
  <2> QED
    BY <1>2, <1>4, <2>2
<1> HIDE DEF room
<1>7. kept \in Nat /\ kept <= EdgeCap /\ kept <= Len(found[At])
  <2>1. kept = IF Len(found[At]) <= room THEN Len(found[At]) ELSE room
    <3>1. Len(found[At]) \in Int /\ room \in Int
      BY <1>3, <1>6
    <3> QED
      BY <3>1, MaxMinOfTwo
  <2> HIDE DEF kept
  <2> QED
    BY <1>2, <1>3, <1>6, <2>1
<1> HIDE DEF kept, found
<1>8. SubSeq(found[At], 1, kept) \in Seq(Link) /\ Len(SubSeq(found[At], 1, kept)) = kept
  BY <1>3, <1>7
<1> QED
  BY <1>5, <1>7, <1>8

-------------------------------------------------------------------------------
(* The types of a walk that is changed *)

\* What the fields of a walk may be.
LEMMA WalkFields ==
  ASSUME NEW w \in Walk
  PROVE  /\ w.queue \in Seq(Node) /\ w.node \in Node \cup {NoNode}
         /\ w.done \in [Peer -> 0 .. AllDone] /\ w.receipt \in BOOLEAN
         /\ w.keys \subseteq Peer /\ w.names \subseteq Peer /\ w.cached \subseteq Peer
         /\ w.parked \subseteq Peer
         /\ w.created \in 0 .. CandidateCap + EdgeCap - 1 /\ w.resolves \in 0 .. ResolveCap
         /\ w.node # NoNode => w.node \in Node /\ w.node.peer \in Peer
  BY Zenon DEF Walk, Node


\* What a cancel request may have read, and a planned link.
ReadRows     == [run : RunState \cup {"none"}, job : JobState \cup {"none"}, live : BOOLEAN]
PreparedLink == [to : Peer, named : BOOLEAN, outcome : EdgeOutcome]

\* What has led to a source is a seed or a row.
LEMMA LedToSources ==
  ASSUME TypeOK
  PROVE  LedTo \subseteq Peer /\ \A e \in events : e.from \in Peer /\ e.to \in Peer /\ e.via \in Stage
<1>1. \A i \in DOMAIN Seeds : Seeds[i].peer \in Peer
  <2> SUFFICES ASSUME NEW i \in DOMAIN Seeds PROVE Seeds[i].peer \in Peer
    OBVIOUS
  <2> DEFINE Seed == [peer : Registered, depth : {0}]
  <2>1. Seeds \in Seq(Seed) /\ Registered \subseteq Peer
    BY GraphRunAssumption
  <2>2. Seeds[i] \in Seed
    <3> HIDE DEF Seed
    <3> QED
      BY <2>1
  <2> QED
    BY <2>1, <2>2
<1>2. \A e \in events : e.from \in Peer /\ e.to \in Peer /\ e.via \in Stage
  BY DEF TypeOK
<1> QED
  BY <1>1, <1>2 DEF LedTo

-------------------------------------------------------------------------------
(* Steps that change the walk, and steps that do not *)

\* Nothing is stored, and the worker keeps its walk, reads back the saved one or drops it.
LEMMA AsideInv ==
  ASSUME IInv, TypeOK', UNCHANGED stored,
         \/ pc' = pc /\ mem' = mem /\ prepared' = prepared
         \/ /\ pc # "idle" /\ pc' # "idle" /\ mem' = mem /\ prepared' = <<>>
            /\ pc' = "node" => mem.node # NoNode
         \/ pc' = "enter" /\ mem' = cursor /\ prepared' = <<>>
         \/ pc' = "idle" /\ prepared' = <<>>,
         run' = "succeeded" => run = "succeeded" /\ pc' = "idle"
  PROVE  IInv'
<1>1. UNCHANGED <<cursor, sources, events>>
  BY DEF stored
<1>2. InStep'
  BY <1>1 DEF IInv, InStep, SameWork
<1>3. WorkInHand'
  BY <1>1 DEF IInv, WorkInHand
<1>4. PreparedWithinCaps'
  <2>1. CASE prepared' = <<>>
    BY <2>1 DEF PreparedWithinCaps
  <2>2. CASE pc' = pc /\ mem' = mem /\ prepared' = prepared
    <3>1. Edges' = Edges
      BY <2>2 DEF Edges, At
    <3> QED
      BY <2>2, <3>1 DEF IInv, PreparedWithinCaps
  <2> QED
    BY <2>1, <2>2
<1>5. RowsOfDoneStages' /\ CreatedAreStored'
  BY <1>1 DEF IInv, RowsOfDoneStages, CreatedAreStored
<1>6. NothingLost'
  BY <1>1 DEF IInv, NothingLost, LedTo, Held
<1> QED
  BY <1>2, <1>3, <1>4, <1>5, <1>6 DEF IInv

\* The worker changes its walk, saves it and has no links planned; no stage is done
\* again, no source is lost.
LEMMA SaveInv ==
  ASSUME IInv, TypeOK', pc # "idle", NEW w, Save(w), UNCHANGED <<sources, events>>,
         prepared' = <<>>,
         w.created = mem.created,
         \A p \in Peer : mem.done[p] <= w.done[p] /\ (Held(mem, p) => Held(w, p)),
         w.receipt => w.node # NoNode /\ w.done[w.node.peer] \in Stage,
         pc' = "node" => w.node # NoNode,
         run' = "succeeded" => pc' = "idle" /\ w.node = NoNode /\ w.queue = <<>>
  PROVE  IInv'
<1>1. mem' = w /\ cursor' = w /\ w \in Walk
  BY DEF Save, Saved, TypeOK
<1>2. /\ mem.done = cursor.done /\ mem.node = cursor.node /\ mem.queue = cursor.queue
      /\ mem.created = cursor.created
  BY DEF IInv, InStep, SameWork
<1>3. InStep' /\ WorkInHand' /\ PreparedWithinCaps'
  BY <1>1 DEF InStep, SameWork, WorkInHand, PreparedWithinCaps
<1>4. LedTo' = LedTo /\ LedTo \subseteq Peer
      /\ \A e \in events : e.from \in Peer /\ e.via \in Stage
  BY LedToSources DEF IInv, LedTo
<1>5. RowsOfDoneStages'
  <2> SUFFICES ASSUME NEW e \in events
               PROVE  e.via < w.done[e.from] /\ (e.outcome = "candidate" => e.to \in sources)
    BY <1>1 DEF RowsOfDoneStages
  <2>1. e.via < mem.done[e.from] /\ (e.outcome = "candidate" => e.to \in sources)
    BY <1>2 DEF IInv, RowsOfDoneStages
  <2>2. mem.done[e.from] <= w.done[e.from]
    BY <1>4
  <2>3. e.via \in Nat /\ mem.done[e.from] \in Nat /\ w.done[e.from] \in Nat
    <3>1. mem \in Walk
      BY DEF IInv, TypeOK
    <3>2. mem.done \in [Peer -> 0 .. AllDone] /\ w.done \in [Peer -> 0 .. AllDone]
      BY <1>1, <3>1, WalkFields
    <3>3. Stage = 1 .. 3 /\ AllDone = 4
      BY DEF Stage, AllDone, GRAPH_NODE_STAGES
    <3>4. e.from \in Peer /\ e.via \in 1 .. 3
      BY <1>4, <3>3
    <3>5. mem.done[e.from] \in 0 .. 4 /\ w.done[e.from] \in 0 .. 4
      BY <3>2, <3>3, <3>4
    <3> QED
      BY <3>4, <3>5
  <2> QED
    BY <2>1, <2>2, <2>3
<1>6. CreatedAreStored'
  BY <1>1, <1>2 DEF IInv, CreatedAreStored
<1>7. NothingLost'
  <2>1. \A p \in LedTo : Held(w, p)
    <3>1. \A p \in LedTo : Held(mem, p)
      BY <1>2 DEF IInv, NothingLost, Held
    <3> QED
      BY <1>4, <3>1
  <2> QED
    BY <1>1, <1>4, <2>1 DEF NothingLost, Held
<1> QED
  BY <1>3, <1>5, <1>6, <1>7 DEF IInv

-------------------------------------------------------------------------------
(* The worker takes the job, the operator cancels, the process dies *)

\* The job is claimed, with what was saved.
LEMMA ClaimInv ==
  ASSUME IInv, Claim
  PROVE  IInv'
<1>1. /\ pc = "idle" /\ prepared = <<>>
      /\ UNCHANGED <<wanted, stored, prepared, http, faults>>
  BY DEF IInv, WorkInHand, Claim
<1>2. UNCHANGED <<cursor, sources, events>>
  BY <1>1 DEF stored
<1>3. CASE run \in Terminal /\ job' = JobStateForTerminal(run) /\ UNCHANGED <<run, pc, mem, taken, event>>
  <2>1. job' \in Terminal
    BY <1>3 DEF JobStateForTerminal, Terminal
  <2>2. TypeOK'
    BY <1>1, <1>2, <1>3, <2>1 DEF IInv, TypeOK, JobState, taken
  <2> QED
    BY <1>1, <1>3, <2>2, AsideInv
<1>4. CASE /\ run \notin Terminal /\ job' = "running"
           /\ run' = IF run = "queued" THEN "running" ELSE run
           /\ event' = "clear" /\ mem' = Restored(cursor)
           /\ told' = (wanted \/ run = "cancelling")
           /\ index' = Registered \cup sources
           /\ pc' = "enter"
  <2>1. run' \in RunState /\ run' # "succeeded"
    BY <1>4 DEF IInv, TypeOK, RunState, Terminal
  <2>2. mem' = cursor /\ told' \in BOOLEAN /\ index' \subseteq Peer
    <3>1. mem' = cursor
      BY <1>4 DEF Restored
    <3>2. told' \in BOOLEAN
      BY <1>4 DEF IInv, TypeOK
    <3>3. index' \subseteq Peer
      BY <1>4, GraphRunAssumption DEF IInv, TypeOK
    <3> QED
      BY <3>1, <3>2, <3>3
  <2>3. TypeOK'
    BY <1>1, <1>2, <1>4, <2>1, <2>2 DEF IInv, TypeOK, JobState
  <2> QED
    BY <1>1, <1>4, <2>1, <2>2, <2>3, AsideInv
<1> QED
  BY <1>3, <1>4 DEF Claim

\* The walk begins; a lease runs out.
LEMMA EnterInv ==
  ASSUME IInv, Enter \/ RecoverStale
  PROVE  IInv'
<1>1. /\ UNCHANGED <<run, wanted, stored, mem, taken, prepared, event, http, faults>>
      /\ job' \in {job, "queued"}
      /\ UNCHANGED stored
      /\ \/ pc' = pc
         \/ pc = "enter" /\ pc' = "top"
  BY DEF Enter, RecoverStale
<1>2. TypeOK'
  BY <1>1 DEF IInv, TypeOK, JobState, stored, taken
<1>3. pc = "enter" => prepared = <<>> /\ run # "succeeded"
  BY DEF IInv, WorkInHand, NothingLost
<1>4. run' = "succeeded" => run = "succeeded" /\ pc' = "idle"
  BY <1>1, <1>3 DEF IInv, NothingLost
<1> QED
  BY <1>1, <1>2, <1>3, <1>4, AsideInv

\* A cancel request reads the rows, and writes.
LEMMA CancelInv ==
  ASSUME IInv, CancelRead \/ CancelCommit
  PROVE  IInv'
<1>1. UNCHANGED <<stored, pc, mem, taken, prepared, faults>>
  BY DEF CancelRead, CancelCommit
<1>2. /\ run' \in {run, "cancelling", "cancelled"} /\ job' \in {job, "cancelled"}
      /\ wanted' \in BOOLEAN
      /\ event' \in {"none", "clear", "set"}
      /\ http' \in ReadRows
  <2>1. CASE CancelRead
    <3>1. /\ run' = run /\ job' = job /\ wanted' = wanted /\ event' = event
          /\ http' = [run |-> run, job |-> job, live |-> event # "none"]
      BY <2>1 DEF CancelRead, Rows
    <3>2. run \in RunState /\ job \in JobState
      BY DEF IInv, TypeOK
    <3>3. (event # "none") \in BOOLEAN
      OBVIOUS
    <3> DEFINE live == event # "none"
    <3> HIDE DEF live
    <3>4. http' \in ReadRows
      BY <3>1, <3>2, <3>3 DEF live, ReadRows
    <3> QED
      BY <3>1, <3>4 DEF IInv, TypeOK
  <2>2. CASE CancelCommit
    <3>1. /\ wanted' = TRUE /\ http' = NoRead /\ event' \in {event, "set"}
          /\ run' \in {run, "cancelling", "cancelled"} /\ job' \in {job, "cancelled"}
      BY <2>2 DEF CancelCommit
    <3>2. NoRead \in ReadRows
      BY DEF NoRead, ReadRows
    <3> QED
      BY <3>1, <3>2 DEF IInv, TypeOK
  <2> QED
    BY <2>1, <2>2
<1>3. TypeOK'
  <2>1. /\ run' \in RunState
        /\ job' \in JobState
    BY <1>2 DEF IInv, TypeOK, RunState, JobState, Terminal
  <2> QED
    BY <1>1, <1>2, <2>1 DEF IInv, TypeOK, ReadRows, stored, taken
<1>4. run' = "succeeded" => run = "succeeded" /\ pc' = "idle"
  BY <1>1, <1>2 DEF IInv, NothingLost
<1> QED
  BY <1>1, <1>3, <1>4, AsideInv

\* The worker dies, and what it had not saved with it.
LEMMA CrashInv ==
  ASSUME IInv, Crash
  PROVE  IInv'
<1>1. /\ UNCHANGED <<run, job, wanted, stored, mem, taken>>
      /\ pc' = "idle" /\ event' = "none" /\ prepared' = <<>> /\ http' = NoRead
      /\ faults < MaxFaults /\ faults' = faults + 1
  BY DEF Crash, Idle
<1>2. faults' \in 0 .. MaxFaults /\ NoRead \in ReadRows
  BY <1>1, GraphRunAssumption DEF IInv, TypeOK, NoRead, ReadRows
<1>3. <<>> \in Seq(PreparedLink)
  OBVIOUS
<1>4. TypeOK'
  BY <1>1, <1>2, <1>3 DEF IInv, TypeOK, ReadRows, PreparedLink, stored, taken
<1> QED
  BY <1>1, <1>4, AsideInv

\* A step that changes nothing.
LEMMA StutterInv ==
  ASSUME IInv, UNCHANGED vars
  PROVE  IInv'
<1>1. TypeOK'
  BY DEF IInv, TypeOK, vars
<1>2. UNCHANGED <<stored, pc, mem, prepared, run>>
  BY DEF vars, stored
<1>3. run' = "succeeded" => run = "succeeded" /\ pc' = "idle"
  BY <1>2 DEF IInv, NothingLost
<1> QED
  BY <1>1, <1>2, <1>3, AsideInv

-------------------------------------------------------------------------------
(* Steps of the walk *)

\* The types, when the worker saves its walk and has nothing planned.
LEMMA SaveTypes ==
  ASSUME TypeOK, NEW w \in Walk, Save(w), prepared' = <<>>,
         UNCHANGED <<wanted, sources, events, taken, http, faults>>,
         run' \in Terminal \cup {run}, job' \in Terminal \cup {job, "retry_wait"},
         pc' \in {"idle", "enter", "top", "node"}, event' \in {event, "none"}
  PROVE  TypeOK'
<1>1. mem' = w /\ cursor' = w
  BY DEF Save, Saved
<1>2. <<>> \in Seq(PreparedLink)
  OBVIOUS
<1>3. event' \in {"none", "clear", "set"}
  BY DEF TypeOK
<1>4. /\ run' \in RunState
      /\ job' \in JobState
  BY DEF TypeOK, RunState, JobState
<1> QED
  BY <1>1, <1>2, <1>3, <1>4 DEF TypeOK, PreparedLink, taken

\* What the worker knows of the walk in hand.
LEMMA WalkInHand ==
  ASSUME IInv, pc # "idle"
  PROVE  /\ mem \in Walk /\ run # "succeeded"
         /\ mem.queue \in Seq(Node) /\ mem.node \in Node \cup {NoNode}
         /\ mem.done \in [Peer -> 0 .. AllDone] /\ mem.receipt \in BOOLEAN
         /\ mem.parked \subseteq Peer
         /\ mem.node # NoNode => mem.node \in Node /\ mem.node.peer \in Peer
         /\ pc = "node" => mem.node # NoNode
         /\ mem.receipt => mem.node # NoNode /\ mem.done[mem.node.peer] \in Stage
         /\ prepared # <<>> => pc = "node" /\ mem.receipt
         /\ Stage = 1 .. 3 /\ AllDone = 4
<1>1. mem \in Walk
  BY DEF IInv, TypeOK
<1>2. run # "succeeded"
  BY DEF IInv, NothingLost
<1>3. /\ pc = "node" => mem.node # NoNode
      /\ mem.receipt => mem.node # NoNode /\ mem.done[mem.node.peer] \in Stage
      /\ prepared # <<>> => pc = "node" /\ mem.receipt
  BY DEF IInv, InStep, SameWork, WorkInHand
<1>4. Stage = 1 .. 3 /\ AllDone = 4
  BY DEF Stage, AllDone, GRAPH_NODE_STAGES
<1> QED
  BY <1>1, <1>2, <1>3, <1>4, WalkFields

\* The next node is taken from the queue, or the saved one taken up again.
LEMMA PopInv ==
  ASSUME IInv, Pop
  PROVE  IInv'
<1>1. /\ pc = "top" /\ pc' = "node" /\ ~Done
      /\ UNCHANGED <<run, job, wanted, sources, events, taken, prepared, event, http, faults>>
  BY DEF Pop
<1>2. mem \in Walk /\ run # "succeeded" /\ mem.queue \in Seq(Node) /\ prepared = <<>>
  BY <1>1, WalkInHand
<1>3. CASE mem.node # NoNode
  <2>1. UNCHANGED <<mem, cursor>>
    BY <1>3 DEF Pop
  <2>2. TypeOK'
    BY <1>1, <2>1 DEF IInv, TypeOK, taken
  <2>3. UNCHANGED stored
    BY <1>1, <2>1 DEF stored
  <2> QED
    BY <1>1, <1>2, <1>3, <2>1, <2>2, <2>3, AsideInv
<1>4. CASE mem.node = NoNode
  <2> DEFINE w == [mem EXCEPT !.node = Head(mem.queue), !.queue = Tail(mem.queue)]
  <2>1. Save(w) /\ mem.queue # <<>>
    BY <1>1, <1>4 DEF Pop, Done
  <2>2. Head(mem.queue) \in Node /\ Tail(mem.queue) \in Seq(Node)
    BY <1>2, <2>1
  <2>3. /\ w \in Walk /\ w.queue = Tail(mem.queue) /\ w.node = Head(mem.queue)
        /\ w.done = mem.done /\ w.receipt = mem.receipt /\ w.created = mem.created
    BY <1>2, <2>2 DEF Walk
  <2> HIDE DEF w
  <2>4. w.node # NoNode
    BY <2>2, <2>3, GraphRunAssumption
  <2>5. ~mem.receipt
    BY <1>1, <1>4, WalkInHand
  <2>6. \A p \in Peer : mem.done[p] <= w.done[p] /\ (Held(mem, p) => Held(w, p))
    <3> SUFFICES ASSUME NEW p \in Peer
                 PROVE  mem.done[p] <= w.done[p] /\ (Held(mem, p) => Held(w, p))
      OBVIOUS
    <3>1. mem.done[p] \in 0 .. AllDone
      BY <1>1, WalkInHand
    <3>2. mem.done[p] <= w.done[p]
      BY <1>1, <2>3, <3>1, WalkInHand
    <3>3. ASSUME NEW i \in DOMAIN mem.queue, mem.queue[i].peer = p PROVE Held(w, p)
      <4>1. CASE i = 1
        <5>1. w.node.peer = p
          BY <1>2, <2>1, <2>3, <3>3, <4>1
        <5> QED
          BY <2>4, <5>1 DEF Held
      <4>2. CASE i # 1
        <5>1. i - 1 \in DOMAIN w.queue /\ w.queue[i - 1] = mem.queue[i]
          BY <1>2, <2>1, <2>3, <3>3, <4>2
        <5> QED
          BY <3>3, <5>1 DEF Held
      <4> QED
        BY <4>1, <4>2
    <3>4. Held(mem, p) => Held(w, p)
      BY <1>4, <2>3, <3>3 DEF Held
    <3> QED
      BY <3>2, <3>4
  <2>7. TypeOK'
    BY <1>1, <1>2, <2>1, <2>3, SaveTypes DEF IInv
  <2>8. run' # "succeeded" /\ prepared' = <<>> /\ UNCHANGED <<sources, events>> /\ pc # "idle"
    BY <1>1, <1>2
  <2> QED
    BY <2>1, <2>3, <2>4, <2>5, <2>6, <2>7, <2>8, SaveInv
<1> QED
  BY <1>3, <1>4

\* A stage of the node in hand is counted as done, or all of them are.
LEMMA ForwardInv ==
  ASSUME IInv, pc = "node", prepared' = <<>>, NEW d \in 0 .. AllDone, At <= d,
         NEW rec \in BOOLEAN, NEW n \in Node \cup {NoNode}, NEW k \in SUBSET Peer,
         rec => n # NoNode /\ d \in Stage,
         \/ n = mem.node
         \/ n = NoNode /\ d = AllDone /\ pc' # "node",
         Save([mem EXCEPT !.done[mem.node.peer] = d, !.receipt = rec, !.node = n, !.parked = k]),
         UNCHANGED <<run, wanted, sources, events, taken, http, faults>>,
         job' \in {job, "retry_wait"}, pc' \in {"idle", "top", "node"}, event' \in {event, "none"}
  PROVE  IInv'
<1> DEFINE q == mem.node.peer
           w == [mem EXCEPT !.done[q] = d, !.receipt = rec, !.node = n, !.parked = k]
<1>1. /\ mem \in Walk /\ run # "succeeded" /\ mem.node \in Node /\ q \in Peer
      /\ mem.done \in [Peer -> 0 .. AllDone] /\ AllDone = 4 /\ mem.node # NoNode
  BY WalkInHand
<1> DEFINE done == [mem.done EXCEPT ![q] = d]
<1>2. done \in [Peer -> 0 .. AllDone] /\ done[q] = d /\ \A p \in Peer : p # q => done[p] = mem.done[p]
  BY <1>1
<1> HIDE DEF done
<1>3. w = [mem EXCEPT !.done = done, !.receipt = rec, !.node = n, !.parked = k]
  BY DEF done
<1>4. /\ w \in Walk /\ w.queue = mem.queue /\ w.node = n /\ w.done = done
      /\ w.receipt = rec /\ w.created = mem.created
  <2> HIDE DEF w, q
  <2> QED
    BY <1>1, <1>2, <1>3 DEF Walk
<1>5. Save(w)
  OBVIOUS
<1> HIDE DEF w
<1>6. \A p \in Peer : mem.done[p] <= w.done[p] /\ (Held(mem, p) => Held(w, p))
  <2> SUFFICES ASSUME NEW p \in Peer
               PROVE  mem.done[p] <= w.done[p] /\ (Held(mem, p) => Held(w, p))
    OBVIOUS
  <2>1. mem.done[p] \in Nat /\ mem.done[p] <= AllDone
    BY <1>1
  <2>2. CASE p = q
    <3>1. mem.done[p] <= d /\ w.done[p] = d
      BY <1>2, <1>4, <2>2 DEF At
    <3>2. d = AllDone \/ n = mem.node
      OBVIOUS
    <3>3. Held(w, p)
      BY <1>1, <1>4, <2>2, <3>1, <3>2 DEF Held
    <3> QED
      BY <3>1, <3>3
  <2>3. CASE p # q
    <3>1. w.done[p] = mem.done[p]
      BY <1>2, <1>4, <2>3
    <3>2. Held(mem, p) => Held(w, p)
      BY <1>4, <2>3, <3>1 DEF Held
    <3> QED
      BY <2>1, <3>1, <3>2
  <2> QED
    BY <2>2, <2>3
<1>7. w.receipt => w.node # NoNode /\ w.done[w.node.peer] \in Stage
  <2>1. d \in Stage => d # AllDone
    BY <1>1 DEF Stage, GRAPH_NODE_STAGES
  <2> QED
    BY <1>2, <1>4, <2>1
<1>8. TypeOK'
  <2>1. /\ pc' \in {"idle", "enter", "top", "node"} /\ run' \in Terminal \cup {run}
        /\ job' \in Terminal \cup {job, "retry_wait"}
    OBVIOUS
  <2> QED
    BY <1>4, <1>5, <2>1, SaveTypes DEF IInv
<1>9. pc' = "node" => w.node # NoNode
  BY <1>1, <1>4
<1> QED
  BY <1>1, <1>4, <1>5, <1>6, <1>7, <1>8, <1>9, SaveInv

\* The node is resolved, a stage of it is read, it is left, skipped or parked.
LEMMA NodeStepInv ==
  ASSUME IInv, Resolve \/ Fetch \/ LeaveNode \/ NodeLost \/ Transient
  PROVE  IInv'
<1> DEFINE q == mem.node.peer
<1>1. /\ pc = "node" /\ mem \in Walk /\ q \in Peer /\ mem.node \in Node \cup {NoNode}
      /\ mem.parked \in SUBSET Peer /\ At = mem.done[q] /\ At \in 0 .. AllDone
      /\ mem.node # NoNode /\ Stage = 1 .. 3 /\ AllDone = 4
      /\ mem.receipt \in BOOLEAN /\ (mem.receipt => At \in Stage)
      /\ prepared # <<>> => mem.receipt
  <2>1. pc = "node"
    BY DEF Resolve, Fetch, LeaveNode, NodeLost, Transient, Calling
  <2> QED
    BY <2>1, WalkInHand DEF At
<1>2. CASE Resolve
  <2>1. /\ At = 0 /\ ~mem.receipt /\ prepared = <<>>
        /\ Save([mem EXCEPT !.done[q] = 1])
        /\ UNCHANGED <<run, job, wanted, sources, events, pc, taken, prepared, event, http, faults>>
    BY <1>1, <1>2 DEF Resolve
  <2>2. Save([mem EXCEPT !.done[q] = 1, !.receipt = mem.receipt, !.node = mem.node,
                         !.parked = mem.parked])
    BY <1>1, <2>1 DEF Walk
  <2>3. 1 \in 0 .. AllDone /\ At <= 1
    BY <1>1, <2>1
  <2> QED
    BY <1>1, <2>1, <2>2, <2>3, ForwardInv
<1>3. CASE Fetch
  <2>1. /\ At \in Stage /\ prepared = <<>>
        /\ Save([mem EXCEPT !.receipt = TRUE])
        /\ UNCHANGED <<run, job, wanted, sources, events, pc, taken, prepared, event, http, faults>>
    BY <1>1, <1>3 DEF Fetch
  <2>2. Save([mem EXCEPT !.done[q] = At, !.receipt = TRUE, !.node = mem.node,
                         !.parked = mem.parked])
    <3>1. [mem EXCEPT !.receipt = TRUE] =
            [mem EXCEPT !.done[q] = mem.done[q], !.receipt = TRUE, !.node = mem.node,
                        !.parked = mem.parked]
      BY <1>1 DEF Walk
    <3> QED
      BY <2>1, <3>1 DEF At
  <2>3. TRUE \in BOOLEAN /\ At <= At
    BY <1>1
  <2> QED
    BY <1>1, <2>1, <2>2, <2>3, ForwardInv
<1>4. CASE LeaveNode
  <2>1. /\ At = AllDone /\ ~mem.receipt /\ prepared = <<>> /\ pc' = "top"
        /\ Save([mem EXCEPT !.node = NoNode])
        /\ UNCHANGED <<run, job, wanted, sources, events, taken, prepared, event, http, faults>>
    BY <1>1, <1>4 DEF LeaveNode
  <2>2. Save([mem EXCEPT !.done[q] = At, !.receipt = mem.receipt, !.node = NoNode,
                         !.parked = mem.parked])
    <3>1. [mem EXCEPT !.node = NoNode] =
            [mem EXCEPT !.done[q] = mem.done[q], !.receipt = mem.receipt, !.node = NoNode,
                        !.parked = mem.parked]
      BY <1>1 DEF Walk
    <3> QED
      BY <2>1, <3>1 DEF At
  <2>3. NoNode \in Node \cup {NoNode} /\ At <= At
    BY <1>1
  <2> QED
    BY <1>1, <2>1, <2>2, <2>3, ForwardInv
<1>5. ASSUME Skip, UNCHANGED job PROVE IInv'
  <2>1. /\ prepared' = <<>> /\ pc' = "top"
        /\ Save([mem EXCEPT !.done[q] = AllDone, !.receipt = FALSE, !.node = NoNode])
        /\ UNCHANGED <<run, job, wanted, sources, events, taken, event, http, faults>>
    BY <1>5 DEF Skip
  <2>2. Save([mem EXCEPT !.done[q] = AllDone, !.receipt = FALSE, !.node = NoNode,
                         !.parked = mem.parked])
    BY <1>1, <2>1 DEF Walk
  <2>3. /\ FALSE \in BOOLEAN /\ NoNode \in Node \cup {NoNode}
        /\ AllDone \in 0 .. AllDone /\ At <= AllDone
    BY <1>1
  <2> QED
    BY <1>1, <2>1, <2>2, <2>3, ForwardInv
<1>6. CASE NodeLost
  BY <1>5, <1>6 DEF NodeLost, Skip
<1>7. CASE Transient
  <2>1. CASE Skip
    BY <1>5, <2>1 DEF Skip
  <2>2. CASE ~Skip
    <3>1. /\ Save([mem EXCEPT !.parked = mem.parked \cup {q}])
          /\ job' = "retry_wait" /\ pc' = "idle" /\ event' = "none" /\ prepared' = <<>>
          /\ UNCHANGED <<run, wanted, sources, events, taken, http, faults>>
      BY <1>7, <2>2 DEF Transient, Idle
    <3>2. Save([mem EXCEPT !.done[q] = At, !.receipt = mem.receipt, !.node = mem.node,
                           !.parked = mem.parked \cup {q}])
      <4> DEFINE k == mem.parked \cup {q}
      <4> HIDE DEF k
      <4>1. [mem EXCEPT !.parked = k] =
              [mem EXCEPT !.done[q] = mem.done[q], !.receipt = mem.receipt, !.node = mem.node,
                          !.parked = k]
        BY <1>1 DEF Walk
      <4>2. Save([mem EXCEPT !.parked = k])
        BY <3>1 DEF k
      <4> QED
        BY <4>1, <4>2 DEF At, k
    <3>3. mem.parked \cup {q} \in SUBSET Peer /\ At <= At
      BY <1>1
    <3> QED
      BY <1>1, <3>1, <3>2, <3>3, ForwardInv
  <2> QED
    BY <2>1, <2>2
<1> QED
  BY <1>2, <1>3, <1>4, <1>6, <1>7

\* A run ends: as succeeded, only once nothing is left of its walk.
LEMMA FinishInv ==
  ASSUME IInv, pc # "idle", NEW r \in Terminal, NEW j \in Terminal, Finish(r, j),
         r = "succeeded" => Done
  PROVE  IInv'
<1> DEFINE n == IF r = "succeeded" THEN NoNode ELSE mem.node
           w == [mem EXCEPT !.node = n]
<1>1. /\ Save(w) /\ run' = r /\ job' = j /\ pc' = "idle" /\ event' = "none" /\ prepared' = <<>>
      /\ UNCHANGED <<wanted, sources, events, taken, http, faults>>
  BY DEF Finish, End, Idle
<1>2. mem \in Walk /\ mem.node \in Node \cup {NoNode}
  BY WalkInHand
<1>3. n = mem.node
  BY DEF Done
<1> HIDE DEF n
<1>4. /\ w \in Walk /\ w.queue = mem.queue /\ w.node = mem.node /\ w.done = mem.done
      /\ w.receipt = mem.receipt /\ w.created = mem.created
  BY <1>2, <1>3 DEF Walk
<1> HIDE DEF w
<1>5. TypeOK'
  BY <1>1, <1>4, SaveTypes DEF IInv
<1>6. \A p \in Peer : mem.done[p] <= w.done[p] /\ (Held(mem, p) => Held(w, p))
  <2> SUFFICES ASSUME NEW p \in Peer
               PROVE  mem.done[p] <= w.done[p] /\ (Held(mem, p) => Held(w, p))
    OBVIOUS
  <2>1. mem.done[p] \in Nat
    BY WalkInHand
  <2> QED
    BY <1>4, <2>1 DEF Held
<1>7. w.receipt => w.node # NoNode /\ w.done[w.node.peer] \in Stage
  BY <1>4, WalkInHand
<1>8. run' = "succeeded" => pc' = "idle" /\ w.node = NoNode /\ w.queue = <<>>
  BY <1>1, <1>4 DEF Done
<1> QED
  BY <1>1, <1>4, <1>5, <1>6, <1>7, <1>8, SaveInv

\* The run is cancelled, succeeds, or is given up.
LEMMA EndInv ==
  ASSUME IInv, Cancelled \/ Succeed \/ GiveUp
  PROVE  IInv'
<1>1. pc # "idle" /\ {"succeeded", "partial", "failed", "cancelled"} \subseteq Terminal
  BY DEF Cancelled, Succeed, GiveUp, Calling, Terminal
<1>2. CASE Cancelled
  BY <1>1, <1>2, FinishInv DEF Cancelled
<1>3. CASE Succeed
  BY <1>1, <1>3, FinishInv DEF Succeed
<1>4. CASE Finish("failed", "failed")
  BY <1>1, <1>4, FinishInv
<1>5. CASE Finish("partial", "succeeded")
  BY <1>1, <1>5, FinishInv
<1>6. CASE End("failed", "failed") /\ UNCHANGED <<mem, cursor>>
  <2>1. /\ run' = "failed" /\ job' = "failed" /\ pc' = "idle" /\ event' = "none"
        /\ prepared' = <<>>
        /\ UNCHANGED <<wanted, sources, events, taken, http, faults, mem, cursor>>
    BY <1>6 DEF End, Idle
  <2>2. <<>> \in Seq(PreparedLink)
    OBVIOUS
  <2>3. TypeOK'
    BY <2>1, <2>2 DEF IInv, TypeOK, RunState, JobState, Terminal, PreparedLink, taken
  <2>4. UNCHANGED stored
    BY <2>1 DEF stored
  <2> QED
    BY <2>1, <2>3, <2>4, AsideInv
<1> QED
  BY <1>2, <1>3, <1>4, <1>5, <1>6 DEF GiveUp

-------------------------------------------------------------------------------
(* Links are planned *)

\* Planning a link adds to the keys or the names at most.
LEMMA PlannedWalk ==
  ASSUME NEW w \in Walk, NEW p \in Peer, NEW named \in BOOLEAN
  PROVE  /\ Planned(w, p, named) \in Walk /\ SameWork(Planned(w, p, named), w)
         /\ Planned(w, p, named).resolves = w.resolves
         /\ Planned(w, p, named).cached = w.cached
<1>1. w.keys \cup {p} \subseteq Peer /\ w.names \cup {p} \subseteq Peer
  BY WalkFields
<1>2. Planned(w, p, named) \in {w, [w EXCEPT !.names = w.names \cup {p}],
                                   [w EXCEPT !.keys = w.keys \cup {p}]}
  BY DEF Planned
<1>3. CASE Planned(w, p, named) = w
  BY <1>3 DEF SameWork
<1>4. CASE Planned(w, p, named) = [w EXCEPT !.names = w.names \cup {p}]
  BY <1>1, <1>4 DEF Walk, SameWork
<1>5. CASE Planned(w, p, named) = [w EXCEPT !.keys = w.keys \cup {p}]
  BY <1>1, <1>5 DEF Walk, SameWork
<1> QED
  BY <1>2, <1>3, <1>4, <1>5

\* What may come out of a link.
LEMMA OutcomeFacts ==
  ASSUME NEW w, NEW p, NEW named
  PROVE  /\ Outcome(w, p, named) \in EdgeOutcome
         /\ Outcome(w, p, named) = "candidate" =>
                ~(w.created >= CandidateCap) /\ (named => ~(w.resolves >= ResolveCap))
  BY DEF Outcome, EdgeOutcome

\* A link is planned: the worker's walk stays in its place, and what is saved as well.
LEMMA PlanInv ==
  ASSUME IInv, More, NEW e \in PreparedLink, prepared' = Append(prepared, e),
         e.outcome = "candidate" => ~e.named /\ ~(mem.created >= CandidateCap),
         mem' \in Walk, SameWork(mem', mem),
         \/ cursor' = cursor
         \/ cursor' \in Walk /\ SameWork(cursor', mem),
         UNCHANGED <<run, job, wanted, sources, events, pc, taken, event, http, faults>>
  PROVE  IInv'
<1>1. /\ pc = "node" /\ mem.receipt /\ Len(prepared) < Len(Edges)
      /\ prepared \in Seq(PreparedLink)
  BY DEF More, Planning, IInv, TypeOK, PreparedLink
<1>2. /\ prepared' \in Seq(PreparedLink) /\ Len(prepared') = Len(prepared) + 1
      /\ prepared' # <<>> /\ Len(prepared) \in Nat
      /\ \A i \in DOMAIN prepared' : \/ i \in DOMAIN prepared /\ prepared'[i] = prepared[i]
                                     \/ prepared'[i] = e
  BY <1>1
<1>3. TypeOK'
  BY <1>2 DEF IInv, TypeOK, PreparedLink, taken
<1>4. SameWork(mem, cursor) /\ SameWork(cursor', cursor)
  BY <1>1 DEF IInv, InStep, SameWork
<1>5. InStep'
  BY <1>4 DEF InStep, SameWork
<1>6. WorkInHand'
  <2>1. mem'.node # NoNode /\ mem'.receipt
    BY <1>1, WalkInHand DEF SameWork
  <2>2. cursor'.receipt => cursor'.node # NoNode /\ cursor'.done[cursor'.node.peer] \in Stage
    BY <1>4 DEF IInv, WorkInHand, SameWork
  <2> QED
    BY <1>1, <2>1, <2>2 DEF WorkInHand
<1>7. PreparedWithinCaps'
  <2>1. Edges' = Edges
    BY DEF Edges, At, SameWork
  <2>2. Len(Edges) \in Nat
    <3>1. mem.node # NoNode /\ At \in Stage
      BY <1>1, WalkInHand DEF At
    <3>2. Edges \in Seq(Link)
      BY <3>1, EdgesWithinCap DEF IInv
    <3> QED
      BY <3>2
  <2>3. Len(prepared') <= Len(Edges)
    BY <1>1, <1>2, <2>2
  <2>4. mem'.created = mem.created /\ mem.created \in Nat /\ CandidateCap \in Nat
    <3>1. mem \in Walk
      BY DEF IInv, TypeOK
    <3> QED
      BY <3>1, WalkFields, GraphRunAssumption DEF SameWork
  <2>5. ASSUME NEW i \in DOMAIN prepared', prepared'[i].outcome = "candidate"
        PROVE  ~prepared'[i].named /\ mem.created < CandidateCap
    BY <1>2, <2>4, <2>5 DEF IInv, PreparedWithinCaps
  <2> QED
    BY <2>1, <2>3, <2>4, <2>5 DEF PreparedWithinCaps
<1>8. RowsOfDoneStages' /\ CreatedAreStored'
  BY <1>4 DEF IInv, RowsOfDoneStages, CreatedAreStored, SameWork
<1>9. NothingLost'
  BY <1>1, <1>4 DEF IInv, NothingLost, LedTo, Held, SameWork
<1> QED
  BY <1>3, <1>5, <1>6, <1>7, <1>8, <1>9 DEF IInv

\* The next link, its walk in hand.
LEMMA NextLink ==
  ASSUME IInv, More
  PROVE  Edge \in Link /\ Edge.to \in Peer /\ Edge.named \in BOOLEAN /\ mem \in Walk
<1>1. pc = "node" /\ mem.receipt /\ Len(prepared) < Len(Edges) /\ Len(prepared) \in Nat
  BY DEF More, Planning, IInv, TypeOK
<1>2. mem.node # NoNode /\ At \in Stage /\ mem \in Walk
  BY <1>1, WalkInHand DEF At
<1>3. Edges \in Seq(Link)
  BY <1>2, EdgesWithinCap DEF IInv
<1>4. Edge \in Link
  BY <1>1, <1>3 DEF Edge
<1> QED
  BY <1>2, <1>4 DEF Link

\* A link planned from memory, resolved, or to a source Telegram does not know.
LEMMA PlanLinkInv ==
  ASSUME IInv, PlanEdge \/ ResolveEdge \/ EdgeUnsupported
  PROVE  IInv'
<1> DEFINE p == Edge.to
<1>1. /\ More
      /\ UNCHANGED <<run, job, wanted, sources, events, pc, taken, event, http, faults>>
  BY DEF PlanEdge, ResolveEdge, EdgeUnsupported, MustResolve, stored
<1>2. p \in Peer /\ Edge.named \in BOOLEAN /\ mem \in Walk
  BY <1>1, NextLink
<1> HIDE DEF p
<1>3. CASE PlanEdge
  <2> DEFINE named == Edge.named
             o     == Outcome(mem, p, named)
             e     == [to |-> p, named |-> named, outcome |-> o]
  <2>1. /\ named => Outcome(mem, p, TRUE) # "candidate"
        /\ prepared' = Append(prepared, e)
        /\ mem' = Planned(mem, p, named) /\ cursor' = cursor
    BY <1>3 DEF PlanEdge, Prepare, p, stored
  <2>2. named \in BOOLEAN /\ o \in EdgeOutcome
    BY <1>2, OutcomeFacts
  <2>3. o = "candidate" => ~named /\ ~(mem.created >= CandidateCap)
    BY <2>1, <2>2, OutcomeFacts
  <2>4. mem' \in Walk /\ SameWork(mem', mem)
    BY <1>2, <2>1, PlannedWalk
  <2> HIDE DEF o, named
  <2>5. e \in PreparedLink /\ e.outcome = o /\ e.named = named
    BY <1>2, <2>2 DEF PreparedLink
  <2> QED
    BY <1>1, <2>1, <2>3, <2>4, <2>5, PlanInv
<1>4. CASE ResolveEdge
  <2> DEFINE first == Planned(mem, p, TRUE)
             asked == IF p \in mem.cached THEN first
                      ELSE [first EXCEPT !.resolves = first.resolves + 1,
                                         !.cached = first.cached \cup {p}]
             named == [asked EXCEPT !.names = asked.names \ {p}]
             o     == Outcome(named, p, FALSE)
             e     == [to |-> p, named |-> FALSE, outcome |-> o]
  <2>1. /\ Outcome(mem, p, TRUE) = "candidate"
        /\ cursor' = (IF p \in mem.cached THEN cursor ELSE asked)
        /\ prepared' = Append(prepared, e)
        /\ mem' = Planned(named, p, FALSE)
    BY <1>4 DEF ResolveEdge, Prepare, Renamed, Saved, p
  <2>2. /\ first \in Walk /\ SameWork(first, mem)
        /\ first.resolves = mem.resolves /\ first.cached = mem.cached
    BY <1>2, PlannedWalk
  <2>3. /\ mem.resolves \in Nat /\ mem.resolves + 1 \in 0 .. ResolveCap
        /\ mem.cached \cup {p} \subseteq Peer
    <3>1. ~(mem.resolves >= ResolveCap)
      BY <2>1, OutcomeFacts
    <3>2. mem.resolves \in 0 .. ResolveCap /\ mem.cached \subseteq Peer /\ ResolveCap \in Nat
      BY <1>2, WalkFields, GraphRunAssumption
    <3> QED
      BY <1>2, <3>1, <3>2
  <2> HIDE DEF first
  <2>4. asked \in Walk /\ SameWork(asked, mem)
    BY <2>2, <2>3 DEF Walk, SameWork
  <2> HIDE DEF asked
  <2>5. named \in Walk /\ SameWork(named, mem)
    <3>1. asked.names \ {p} \subseteq Peer
      BY <2>4, WalkFields
    <3> QED
      BY <2>4, <3>1 DEF Walk, SameWork
  <2> HIDE DEF named
  <2>6. mem' \in Walk /\ SameWork(mem', mem)
    BY <1>2, <2>1, <2>5, PlannedWalk DEF SameWork
  <2>7. /\ o \in EdgeOutcome
        /\ o = "candidate" => ~(mem.created >= CandidateCap)
    BY <2>5, OutcomeFacts DEF SameWork
  <2> HIDE DEF o
  <2>8. e \in PreparedLink /\ e.outcome = o /\ e.named = FALSE
    BY <1>2, <2>7 DEF PreparedLink
  <2>9. cursor' = cursor \/ (cursor' \in Walk /\ SameWork(cursor', mem))
    BY <2>1, <2>4
  <2> QED
    BY <1>1, <2>1, <2>6, <2>7, <2>8, <2>9, PlanInv
<1>5. CASE EdgeUnsupported
  <2> DEFINE e == [to |-> p, named |-> TRUE, outcome |-> "unsupported_source"]
  <2>1. prepared' = Append(prepared, e) /\ mem' = Planned(mem, p, TRUE) /\ cursor' = cursor
    BY <1>5 DEF EdgeUnsupported, Prepare, p, stored
  <2>2. mem' \in Walk /\ SameWork(mem', mem)
    BY <1>2, <2>1, PlannedWalk
  <2>3. e \in PreparedLink /\ e.outcome # "candidate"
    BY <1>2 DEF PreparedLink, EdgeOutcome
  <2> QED
    BY <1>1, <2>1, <2>2, <2>3, PlanInv
<1> QED
  BY <1>3, <1>4, <1>5

-------------------------------------------------------------------------------
(* A stage is stored *)

\* The node and the stage in hand, when links are planned.
LEMMA StageInHand ==
  ASSUME IInv, Planning
  PROVE  /\ mem \in Walk /\ mem.node \in Node /\ mem.node # NoNode
         /\ mem.node.peer \in Peer /\ mem.node.depth \in 0 .. MaxDepth - 1
         /\ At \in Stage /\ At = mem.done[mem.node.peer] /\ Stage = 1 .. 3 /\ AllDone = 4
         /\ MaxDepth \in Nat \ {0}
         /\ prepared \in Seq(PreparedLink) /\ Len(prepared) \in Nat
         /\ DOMAIN prepared = 1 .. Len(prepared)
         /\ Len(prepared) <= EdgeCap
         /\ SameWork(mem, cursor)
<1>1. pc = "node" /\ mem.receipt
  BY DEF Planning
<1>2. /\ mem \in Walk /\ mem.node \in Node /\ mem.node # NoNode /\ mem.node.peer \in Peer
      /\ At \in Stage /\ Stage = 1 .. 3 /\ AllDone = 4
  BY <1>1, WalkInHand DEF At
<1>3. mem.node.depth \in 0 .. MaxDepth - 1
  BY <1>2 DEF Node
<1>4. MaxDepth \in Nat \ {0} /\ EdgeCap \in Nat \ {0}
  BY GraphRunAssumption
<1>5. prepared \in Seq(PreparedLink)
  BY DEF IInv, TypeOK, PreparedLink
<1>6. Edges \in Seq(Link) /\ Len(Edges) <= EdgeCap
  BY <1>2, EdgesWithinCap DEF IInv
<1>7. Len(prepared) <= EdgeCap
  <2>1. CASE prepared = <<>>
    <3>1. Len(prepared) = 0
      BY <2>1
    <3> QED
      BY <1>4, <3>1
  <2>2. CASE prepared # <<>>
    <3>1. Len(prepared) <= Len(Edges) /\ Len(prepared) \in Nat /\ Len(Edges) \in Nat
      BY <1>5, <1>6, <2>2 DEF IInv, PreparedWithinCaps
    <3> QED
      BY <1>4, <1>6, <3>1
  <2> QED
    BY <2>1, <2>2
<1>8. SameWork(mem, cursor)
  BY <1>1 DEF IInv, InStep
<1> QED
  BY <1>2, <1>3, <1>4, <1>5, <1>7, <1>8 DEF At

\* The children of a node are nodes of the next level, and every source that is followed
\* above the last level is among them, in hand or in the queue.
LEMMA ChildrenFollow ==
  ASSUME IInv, Planning
  PROVE  /\ Children(mem) \in Seq(Node)
         /\ \A i \in Followed : mem.node.depth + 1 < MaxDepth =>
              \/ prepared[i].to = mem.node.peer
              \/ \E k \in DOMAIN mem.queue : mem.queue[k].peer = prepared[i].to
              \/ \E k \in DOMAIN Children(mem) : Children(mem)[k].peer = prepared[i].to
<1>1. /\ mem.node.depth \in 0 .. MaxDepth - 1 /\ MaxDepth \in Nat \ {0}
      /\ prepared \in Seq(PreparedLink) /\ Len(prepared) \in Nat
      /\ DOMAIN prepared = 1 .. Len(prepared)
  BY StageInHand
<1>2. CASE mem.node.depth + 1 >= MaxDepth
  <2>1. Children(mem) = <<>>
    BY <1>2, Zenon DEF Children
  <2> DEFINE next == mem.node.depth + 1
  <2>2. next \in Nat /\ next >= MaxDepth
    BY <1>1, <1>2
  <2> HIDE DEF next
  <2>3. ~(next < MaxDepth)
    BY <1>1, <2>2
  <2>4. <<>> \in Seq(Node)
    OBVIOUS
  <2>5. ~(mem.node.depth + 1 < MaxDepth)
    BY <2>3 DEF next
  <2> QED
    BY <2>1, <2>4, <2>5, Zenon
<1>3. CASE ~(mem.node.depth + 1 >= MaxDepth)
  <2> DEFINE waiting == {mem.queue[i].peer : i \in DOMAIN mem.queue} \cup {mem.node.peer}
             S       == {i \in Followed : prepared[i].to \notin waiting}
             new     == InOrder(S)
             size    == Cardinality(S)
             depth   == mem.node.depth + 1
  <2>1. Children(mem) = [n \in DOMAIN new |-> [peer |-> prepared[new[n]].to, depth |-> depth]]
    BY <1>3 DEF Children
  <2>2. S \in SUBSET (1 .. Len(prepared))
    BY <1>1 DEF Followed
  <2> HIDE DEF S
  <2>3. /\ size \in Nat /\ new \in [1 .. size -> S]
        /\ \A i \in S : \E k \in 1 .. size : new[k] = i
    BY <1>1, <2>2, InOrderLists
  <2> HIDE DEF new, size
  <2>4. \A i \in S : prepared[i].to \in Peer
    <3>1. \A i \in S : prepared[i] \in PreparedLink
      BY <1>1, <2>2
    <3> QED
      BY <3>1 DEF PreparedLink
  <2>5. depth \in 0 .. MaxDepth - 1
    BY <1>1, <1>3
  <2> HIDE DEF depth
  <2>6. \A k \in 1 .. size : [peer |-> prepared[new[k]].to, depth |-> depth] \in Node
    BY <2>3, <2>4, <2>5 DEF Node
  <2>7. Children(mem) = [k \in 1 .. size |-> [peer |-> prepared[new[k]].to, depth |-> depth]]
    BY <2>1, <2>3
  <2>8. Children(mem) \in Seq(Node) /\ DOMAIN Children(mem) = 1 .. size
    <3> DEFINE child(k) == [peer |-> prepared[new[k]].to, depth |-> depth]
    <3> HIDE DEF child
    <3>1. \A k \in 1 .. size : child(k) \in Node
      BY <2>6 DEF child
    <3>2. Children(mem) = [k \in 1 .. size |-> child(k)]
      BY <2>7 DEF child
    <3> QED
      BY <2>3, <3>1, <3>2
  <2>9. ASSUME NEW i \in Followed
        PROVE  \/ prepared[i].to = mem.node.peer
               \/ \E k \in DOMAIN mem.queue : mem.queue[k].peer = prepared[i].to
               \/ \E k \in DOMAIN Children(mem) : Children(mem)[k].peer = prepared[i].to
    <3>1. CASE prepared[i].to \in waiting
      BY <3>1
    <3>2. CASE prepared[i].to \notin waiting
      <4>1. i \in S
        BY <3>2 DEF S
      <4>2. PICK k \in 1 .. size : new[k] = i
        BY <2>3, <4>1
      <4>3. Children(mem)[k].peer = prepared[i].to
        BY <2>7, <4>2
      <4> QED
        BY <2>8, <4>2, <4>3
    <3> QED
      BY <3>1, <3>2
  <2> QED
    BY <2>8, <2>9
<1> QED
  BY <1>2, <1>3

\* The sources a stage is first to store: as many as its planned links at most, and none
\* unless the cap had room.
LEMMA NewSourcesWithinCap ==
  ASSUME IInv, Planning
  PROVE  /\ NewSources \subseteq Peer /\ NewSources \cap sources = {}
         /\ IsFiniteSet(NewSources) /\ Cardinality(NewSources) \in Nat
         /\ mem.created + Cardinality(NewSources) \in 0 .. CandidateCap + EdgeCap - 1
<1>1. /\ mem \in Walk /\ Len(prepared) \in Nat /\ DOMAIN prepared = 1 .. Len(prepared)
      /\ Len(prepared) <= EdgeCap
  BY StageInHand
<1>2. /\ NewSources \subseteq Peer /\ NewSources \cap sources = {}
      /\ \A p \in NewSources : \E i \in DOMAIN prepared :
             prepared[i].to = p /\ prepared[i].outcome = "candidate"
  BY DEF NewSources
<1> DEFINE link == [p \in NewSources |-> CHOOSE i \in DOMAIN prepared : prepared[i].to = p]
<1>3. \A p \in NewSources : link[p] \in DOMAIN prepared /\ prepared[link[p]].to = p
  BY <1>2
<1>4. link \in Injection(NewSources, 1 .. Len(prepared))
  <2>1. link \in [NewSources -> 1 .. Len(prepared)]
    <3>1. link = [p \in NewSources |-> link[p]]
      OBVIOUS
    <3> HIDE DEF link
    <3> QED
      BY <1>1, <1>3, <3>1
  <2> HIDE DEF link
  <2>2. \A p, q \in NewSources : link[p] = link[q] => p = q
    BY <1>3
  <2> QED
    BY <2>1, <2>2 DEF Injection, IsInjective
<1>5. /\ IsFiniteSet(NewSources) /\ Cardinality(NewSources) <= Len(prepared)
      /\ Cardinality(NewSources) \in Nat
  <2>1. IsFiniteSet(1 .. Len(prepared)) /\ Cardinality(1 .. Len(prepared)) = Len(prepared)
    <3> DEFINE n == Len(prepared)
    <3>1. n \in Nat
      BY <1>1
    <3> HIDE DEF n
    <3>2. IsFiniteSet(1 .. n) /\ Cardinality(1 .. n) = n
      BY <3>1, FS_Interval
    <3> QED
      BY <3>2 DEF n
  <2> HIDE DEF link
  <2>2. /\ IsFiniteSet(NewSources)
        /\ Cardinality(NewSources) <= Cardinality(1 .. Len(prepared))
    BY <1>4, <2>1, FS_Injection
  <2> QED
    BY <2>1, <2>2, FS_CardinalityType
<1>6. /\ mem.created \in 0 .. CandidateCap + EdgeCap - 1
      /\ CandidateCap \in Nat \ {0} /\ EdgeCap \in Nat \ {0}
  BY <1>1, WalkFields, GraphRunAssumption
<1>7. CASE NewSources = {}
  <2>1. Cardinality(NewSources) = 0
    BY <1>7, FS_EmptySet
  <2> QED
    BY <1>2, <1>5, <1>6, <2>1
<1>8. CASE NewSources # {}
  <2>1. mem.created < CandidateCap
    BY <1>2, <1>8 DEF IInv, PreparedWithinCaps
  <2> QED
    BY <1>1, <1>2, <1>5, <1>6, <2>1
<1> QED
  BY <1>7, <1>8

\* The rows a stage adds: each is one of a planned link, of this stage.
LEMMA NewRows ==
  ASSUME IInv, Planning, NEW r \in NewEvents
  PROVE  /\ r.from = mem.node.peer /\ r.via = At /\ r.depth = mem.node.depth + 1
         /\ \E i \in DOMAIN prepared :
              /\ r.to = prepared[i].to /\ r.named = prepared[i].named
              /\ r.outcome = "candidate" =>
                     prepared[i].outcome = "candidate" /\ r.to \in NewSources
              /\ r.outcome \in {"candidate", "merged"} => i \in Followed
         /\ r \in [from : Peer, via : Stage, to : Peer, named : BOOLEAN,
                   depth : 1 .. MaxDepth, outcome : EdgeOutcome]
         /\ r = [from |-> mem.node.peer, via |-> At, to |-> r.to, named |-> r.named,
                 depth |-> mem.node.depth + 1, outcome |-> r.outcome]
<1>1. /\ mem.node.peer \in Peer /\ At \in Stage /\ mem.node.depth \in 0 .. MaxDepth - 1
      /\ MaxDepth \in Nat \ {0} /\ prepared \in Seq(PreparedLink)
  BY StageInHand
<1>2. PICK i \in DOMAIN prepared :
         r = [from |-> mem.node.peer, via |-> At, to |-> prepared[i].to,
              named |-> prepared[i].named, depth |-> mem.node.depth + 1,
              outcome |-> IF prepared[i].outcome = "candidate" /\ prepared[i].to \notin NewSources
                          THEN "merged" ELSE prepared[i].outcome]
  BY DEF NewEvents
<1>3. /\ prepared[i].to \in Peer /\ prepared[i].named \in BOOLEAN
      /\ prepared[i].outcome \in EdgeOutcome
  <2>1. prepared[i] \in PreparedLink
    BY <1>1
  <2> QED
    BY <2>1 DEF PreparedLink
<1> DEFINE o == IF prepared[i].outcome = "candidate" /\ prepared[i].to \notin NewSources
                THEN "merged" ELSE prepared[i].outcome
           depth == mem.node.depth + 1
<1>4. /\ o \in EdgeOutcome
      /\ o = "candidate" => prepared[i].outcome = "candidate" /\ prepared[i].to \in NewSources
      /\ o \in {"candidate", "merged"} => i \in Followed
  BY <1>3 DEF EdgeOutcome, Followed
<1>5. depth \in 1 .. MaxDepth
  BY <1>1
<1>6. r = [from |-> mem.node.peer, via |-> At, to |-> prepared[i].to,
           named |-> prepared[i].named, depth |-> depth, outcome |-> o]
  BY <1>2
<1> HIDE DEF o, depth
<1>7. /\ r.from = mem.node.peer /\ r.via = At /\ r.depth = depth /\ r.to = prepared[i].to
      /\ r.named = prepared[i].named /\ r.outcome = o
  BY <1>6
<1>8. r \in [from : Peer, via : Stage, to : Peer, named : BOOLEAN,
             depth : 1 .. MaxDepth, outcome : EdgeOutcome]
  BY <1>1, <1>3, <1>4, <1>5, <1>6
<1>9. \E k \in DOMAIN prepared :
              /\ r.to = prepared[k].to /\ r.named = prepared[k].named
              /\ r.outcome = "candidate" =>
                     prepared[k].outcome = "candidate" /\ r.to \in NewSources
              /\ r.outcome \in {"candidate", "merged"} => k \in Followed
  BY <1>4, <1>7
<1> QED
  BY <1>6, <1>7, <1>8, <1>9 DEF depth

\* Each source that is stored first has one row that says so.
LEMMA NewCandidateRow ==
  ASSUME IInv, Planning, NEW p \in NewSources
  PROVE  \E r \in NewEvents :
             /\ r.to = p /\ r.outcome = "candidate"
             /\ \A s \in NewEvents : s.to = p /\ s.outcome = "candidate" => s = r
<1>1. PICK i \in DOMAIN prepared : prepared[i].to = p /\ prepared[i].outcome = "candidate"
  BY DEF NewSources
<1>2. \A k \in DOMAIN prepared : prepared[k].outcome = "candidate" => ~prepared[k].named
  BY DEF IInv, PreparedWithinCaps
<1> DEFINE r == [from |-> mem.node.peer, via |-> At, to |-> prepared[i].to,
                 named |-> prepared[i].named, depth |-> mem.node.depth + 1,
                 outcome |-> IF prepared[i].outcome = "candidate" /\ prepared[i].to \notin NewSources
                             THEN "merged" ELSE prepared[i].outcome]
<1>3. \A e \in events : ~(e.from = r.from /\ e.via = r.via)
  <2> SUFFICES ASSUME NEW e \in events, e.from = mem.node.peer, e.via = At PROVE FALSE
    OBVIOUS
  <2>1. e.via < cursor.done[e.from]
    BY DEF IInv, RowsOfDoneStages
  <2>2. cursor.done[e.from] = At /\ At \in Stage /\ Stage = 1 .. 3
    BY StageInHand DEF SameWork
  <2> QED
    BY <2>1, <2>2
<1>4. r \in NewEvents
  BY <1>3 DEF NewEvents
<1>5. r.to = p /\ r.outcome = "candidate"
  BY <1>1
<1>6. ASSUME NEW s \in NewEvents, NEW t \in NewEvents,
             s.to = p, s.outcome = "candidate", t.to = p, t.outcome = "candidate"
      PROVE  s = t
  <2>1. s.named \in BOOLEAN /\ t.named \in BOOLEAN
    BY NewRows
  <2>2. ~s.named /\ ~t.named
    BY <1>2, <1>6, NewRows
  <2>3. s.named = t.named
    BY <2>1, <2>2
  <2>4. /\ s = [from |-> mem.node.peer, via |-> At, to |-> s.to, named |-> s.named,
                depth |-> mem.node.depth + 1, outcome |-> s.outcome]
        /\ t = [from |-> mem.node.peer, via |-> At, to |-> t.to, named |-> t.named,
                depth |-> mem.node.depth + 1, outcome |-> t.outcome]
    BY NewRows
  <2> QED
    BY <1>6, <2>3, <2>4, Zenon
<1> QED
  BY <1>4, <1>5, <1>6

\* A stage is stored, its sources, its rows and the walk in one.
LEMMA PersistStageInv ==
  ASSUME IInv, PersistStage
  PROVE  IInv'
<1> DEFINE peer == mem.node.peer
           q    == mem.queue \o Children(mem)
           n    == mem.created + Cardinality(NewSources)
           done == [mem.done EXCEPT ![peer] = mem.done[peer] + 1]
           w    == [mem EXCEPT !.created = n, !.queue = q, !.done = done, !.receipt = FALSE]
<1>1. /\ Planning /\ sources' = sources \cup NewSources /\ events' = events \cup NewEvents
      /\ prepared' = <<>> /\ pc = "node" /\ pc' = "node" /\ run' = run
      /\ UNCHANGED <<run, job, wanted, pc, taken, event, http, faults>>
  BY DEF PersistStage, Planning
<1>2. /\ mem \in Walk /\ mem.node \in Node /\ mem.node # NoNode /\ peer \in Peer
      /\ At \in Stage /\ At = mem.done[peer] /\ Stage = 1 .. 3 /\ AllDone = 4
      /\ SameWork(mem, cursor) /\ MaxDepth \in Nat \ {0} /\ mem.node.depth \in 0 .. MaxDepth - 1
  BY <1>1, StageInHand
<1>3. /\ mem.queue \in Seq(Node) /\ Children(mem) \in Seq(Node)
      /\ mem.done \in [Peer -> 0 .. AllDone]
  BY <1>1, <1>2, ChildrenFollow, WalkFields
<1>4. mem' = w /\ cursor' = w
  <2> HIDE DEF q, n
  <2>1. Save([mem EXCEPT !.created = n, !.queue = q, !.done[peer] = @ + 1, !.receipt = FALSE])
    BY DEF PersistStage, n, q
  <2>2. w = [mem EXCEPT !.created = n, !.queue = q, !.done[peer] = @ + 1, !.receipt = FALSE]
    BY <1>2 DEF Walk
  <2> QED
    BY <2>1, <2>2 DEF Save, Saved
<1>5. /\ NewSources \subseteq Peer /\ NewSources \cap sources = {}
      /\ IsFiniteSet(NewSources) /\ Cardinality(NewSources) \in Nat
      /\ n \in 0 .. CandidateCap + EdgeCap - 1
  BY <1>1, NewSourcesWithinCap
<1>6. /\ q \in Seq(Node)
      /\ \A i \in DOMAIN mem.queue : i \in DOMAIN q /\ q[i] = mem.queue[i]
      /\ \A i \in DOMAIN Children(mem) : \E k \in DOMAIN q : q[k] = Children(mem)[i]
  <2> DEFINE c == Children(mem)
  <2>1. c \in Seq(Node) /\ q = mem.queue \o c
    BY <1>3
  <2> HIDE DEF c, q
  <2>2. q \in Seq(Node) /\ \A i \in DOMAIN mem.queue : i \in DOMAIN q /\ q[i] = mem.queue[i]
    BY <1>3, <2>1
  <2>3. \A i \in DOMAIN c : Len(mem.queue) + i \in DOMAIN q /\ q[Len(mem.queue) + i] = c[i]
    BY <1>3, <2>1
  <2> QED
    BY <2>2, <2>3 DEF c
<1>7. /\ done \in [Peer -> 0 .. AllDone] /\ done[peer] = At + 1
      /\ \A p \in Peer : p # peer => done[p] = mem.done[p]
  BY <1>2, <1>3
<1> HIDE DEF q, n, done
<1>8. /\ w \in Walk /\ w.queue = q /\ w.node = mem.node /\ w.done = done
      /\ w.receipt = FALSE /\ w.created = n
  BY <1>2, <1>5, <1>6, <1>7 DEF Walk
<1> HIDE DEF w
<1>9. TypeOK'
  <2>1. /\ <<>> \in Seq(PreparedLink) /\ sources' \subseteq Peer
    BY <1>1, <1>5 DEF IInv, TypeOK
  <2>2. events' \subseteq [from : Peer, via : Stage, to : Peer, named : BOOLEAN,
                           depth : 1 .. MaxDepth, outcome : EdgeOutcome]
    BY <1>1, NewRows DEF IInv, TypeOK
  <2> QED
    BY <1>1, <1>4, <1>8, <2>1, <2>2 DEF IInv, TypeOK, PreparedLink, taken
<1>10. InStep' /\ WorkInHand' /\ PreparedWithinCaps'
  BY <1>1, <1>2, <1>4, <1>8 DEF InStep, SameWork, WorkInHand, PreparedWithinCaps
<1>11. RowsOfDoneStages'
  <2> SUFFICES ASSUME NEW e \in events'
               PROVE  /\ e.via < w.done[e.from]
                      /\ e.outcome = "candidate" => e.to \in sources'
    BY <1>4 DEF RowsOfDoneStages
  <2>1. CASE e \in events
    <3>1. e.via < mem.done[e.from] /\ (e.outcome = "candidate" => e.to \in sources)
      BY <1>2, <2>1 DEF IInv, RowsOfDoneStages, SameWork
    <3>2. e.from \in Peer /\ e.via \in Stage
      BY <2>1, LedToSources DEF IInv
    <3>3. mem.done[e.from] <= done[e.from] /\ mem.done[e.from] \in Nat /\ done[e.from] \in Nat
      <4>1. mem.done[e.from] \in 0 .. 4 /\ done[e.from] \in 0 .. 4
        BY <1>2, <1>3, <1>7, <3>2
      <4>2. CASE e.from = peer
        BY <1>2, <1>7, <4>1, <4>2
      <4>3. CASE e.from # peer
        <5>1. done[e.from] = mem.done[e.from]
          BY <1>7, <3>2, <4>3
        <5> QED
          BY <4>1, <5>1
      <4> QED
        BY <4>2, <4>3
    <3> QED
      BY <1>1, <1>2, <1>8, <3>1, <3>2, <3>3
  <2>2. CASE e \in NewEvents
    <3>1. e.from = peer /\ e.via = At /\ (e.outcome = "candidate" => e.to \in NewSources)
      BY <1>1, <2>2, NewRows
    <3> QED
      BY <1>1, <1>2, <1>7, <1>8, <3>1
  <2> QED
    BY <1>1, <2>1, <2>2
<1>12. CreatedAreStored'
  <2>1. cursor.created = Cardinality(sources) /\ mem.created = cursor.created
    BY <1>2 DEF IInv, CreatedAreStored, SameWork
  <2>2. IsFiniteSet(sources)
    BY GraphRunAssumption, FS_Subset DEF IInv, TypeOK
  <2>3. Cardinality(sources') = Cardinality(sources) + Cardinality(NewSources)
    <3>1. Cardinality(sources \cap NewSources) = 0
      <4>1. sources \cap NewSources = {}
        BY <1>5
      <4> QED
        BY <4>1, FS_EmptySet
    <3>2. Cardinality(sources) \in Nat
      BY <2>2, FS_CardinalityType
    <3>3. Cardinality(sources \cup NewSources) =
             Cardinality(sources) + Cardinality(NewSources) - Cardinality(sources \cap NewSources)
      BY <1>5, <2>2, FS_Union
    <3> QED
      BY <1>1, <1>5, <3>1, <3>2, <3>3
  <2>4. cursor'.created = Cardinality(sources')
    BY <1>4, <1>8, <2>1, <2>3 DEF n
  <2>5. ASSUME NEW p \in sources'
        PROVE  Cardinality({e \in events' : e.to = p /\ e.outcome = "candidate"}) = 1
    <3> DEFINE old == {e \in events : e.to = p /\ e.outcome = "candidate"}
               new == {e \in NewEvents : e.to = p /\ e.outcome = "candidate"}
               all == {e \in events' : e.to = p /\ e.outcome = "candidate"}
    <3>1. all = old \cup new
      BY <1>1
    <3>2. CASE p \in sources
      <4>1. p \notin NewSources
        BY <1>5, <3>2
      <4>2. new = {}
        BY <1>1, <4>1, NewRows
      <4>3. Cardinality(old) = 1
        BY <3>2 DEF IInv, CreatedAreStored
      <4>4. all = old
        BY <3>1, <4>2
      <4> QED
        BY <4>3, <4>4
    <3>3. CASE p \in NewSources
      <4>1. old = {}
        BY <1>5, <3>3 DEF IInv, RowsOfDoneStages
      <4>2. PICK r \in NewEvents :
               /\ r.to = p /\ r.outcome = "candidate"
               /\ \A s \in NewEvents : s.to = p /\ s.outcome = "candidate" => s = r
        BY <1>1, <3>3, NewCandidateRow
      <4>3. new = {r}
        BY <4>2
      <4>4. all = {r}
        BY <3>1, <4>1, <4>3
      <4> QED
        BY <4>4, FS_Singleton
    <3> QED
      BY <1>1, <2>5, <3>2, <3>3
  <2> QED
    BY <2>4, <2>5 DEF CreatedAreStored
<1>13. NothingLost'
  <2>1. \A p \in Peer : Held(mem, p) => Held(w, p)
    <3> SUFFICES ASSUME NEW p \in Peer, Held(mem, p) PROVE Held(w, p)
      OBVIOUS
    <3>1. CASE mem.done[p] = AllDone
      <4>1. w.done[p] = AllDone
        BY <1>2, <1>7, <1>8, <3>1
      <4> QED
        BY <4>1 DEF Held
    <3>2. CASE mem.node.peer = p
      BY <1>2, <1>8, <3>2 DEF Held
    <3>3. CASE \E i \in DOMAIN mem.queue : mem.queue[i].peer = p
      BY <1>6, <1>8, <3>3 DEF Held
    <3> QED
      BY <3>1, <3>2, <3>3 DEF Held
  <2>2. LedTo \subseteq Peer /\ \A p \in LedTo : Held(mem, p)
    BY <1>2, LedToSources DEF IInv, NothingLost, Held, SameWork
  <2>3. ASSUME NEW e \in NewEvents, e.outcome \in {"candidate", "merged"}, e.depth < MaxDepth
        PROVE  Held(w, e.to)
    <3>1. PICK i \in Followed : e.to = prepared[i].to
      BY <1>1, <2>3, NewRows
    <3>2. mem.node.depth + 1 < MaxDepth
      BY <1>1, <2>3, NewRows
    <3>3. \/ prepared[i].to = peer
          \/ \E k \in DOMAIN mem.queue : mem.queue[k].peer = prepared[i].to
          \/ \E k \in DOMAIN Children(mem) : Children(mem)[k].peer = prepared[i].to
      BY <1>1, <3>2, ChildrenFollow
    <3> QED
      BY <1>2, <1>6, <1>8, <3>1, <3>3 DEF Held
  <2>4. \A p \in LedTo' : \/ p \in LedTo
                          \/ \E e \in NewEvents : /\ p = e.to /\ e.depth < MaxDepth
                                                  /\ e.outcome \in {"candidate", "merged"}
    BY <1>1 DEF LedTo
  <2>5. \A p \in LedTo' : Held(w, p)
    BY <2>1, <2>2, <2>3, <2>4
  <2>6. run' # "succeeded"
    BY <1>1, WalkInHand
  <2> QED
    BY <1>4, <2>5, <2>6 DEF NothingLost, Held
<1> QED
  BY <1>9, <1>10, <1>11, <1>12, <1>13 DEF IInv

-------------------------------------------------------------------------------
(* The invariant of the specification *)

\* The run begins in it.
LEMMA InitInv == Init => IInv
<1> SUFFICES ASSUME Init PROVE IInv
  OBVIOUS
<1> DEFINE Keys == {Seeds[i].peer : i \in DOMAIN Seeds}
           zero == [p \in Peer |-> 0]
<1>1. /\ cursor = Fresh /\ mem = Fresh /\ sources = {} /\ events = {} /\ prepared = <<>>
      /\ pc = "idle" /\ run = "queued" /\ job = "queued" /\ event = "none" /\ http = NoRead
      /\ wanted = FALSE /\ told = FALSE /\ index = {} /\ faults = 0
  BY DEF Init
<1>2. AllDone = 4 /\ Stage = 1 .. 3
  BY DEF AllDone, Stage, GRAPH_NODE_STAGES
<1>3. /\ Fresh.queue = Seeds /\ Fresh.node = NoNode /\ Fresh.done = zero
      /\ Fresh.receipt = FALSE /\ Fresh.created = 0
  BY DEF Fresh
<1>4. Seeds \in Seq(Node)
  <2> DEFINE Seed == [peer : Registered, depth : {0}]
  <2>1. Seeds \in Seq(Seed) /\ Registered \subseteq Peer /\ MaxDepth \in Nat \ {0}
    BY GraphRunAssumption
  <2>2. Seed \subseteq Node
    BY <2>1 DEF Node
  <2> HIDE DEF Seed
  <2> QED
    BY <2>1, <2>2
<1>5. Keys \subseteq Peer
  <2> SUFFICES ASSUME NEW i \in DOMAIN Seeds PROVE Seeds[i].peer \in Peer
    OBVIOUS
  <2>1. Seeds[i] \in Node
    BY <1>4
  <2> QED
    BY <2>1 DEF Node
<1>6. Fresh \in Walk
  <2>1. zero \in [Peer -> 0 .. AllDone]
    BY <1>2
  <2>2. 0 \in 0 .. CandidateCap + EdgeCap - 1 /\ 0 \in 0 .. ResolveCap
    BY GraphRunAssumption
  <2>3. Fresh = [queue |-> Seeds, node |-> NoNode, done |-> zero, receipt |-> FALSE,
                 keys |-> Keys, names |-> {}, cached |-> {}, parked |-> {},
                 created |-> 0, resolves |-> 0]
    BY DEF Fresh
  <2> HIDE DEF zero, Keys
  <2> QED
    BY <1>4, <1>5, <2>1, <2>2, <2>3 DEF Walk
<1>7. TypeOK
  <2>1. NoRead \in ReadRows
    BY DEF NoRead, ReadRows
  <2>2. <<>> \in Seq(PreparedLink)
    OBVIOUS
  <2>3. 0 \in 0 .. MaxFaults
    BY GraphRunAssumption
  <2> QED
    BY <1>1, <1>6, <2>1, <2>2, <2>3 DEF TypeOK, RunState, JobState, ReadRows, PreparedLink
<1>8. InStep /\ WorkInHand /\ PreparedWithinCaps /\ RowsOfDoneStages
  BY <1>1, <1>3 DEF InStep, WorkInHand, PreparedWithinCaps, RowsOfDoneStages
<1>9. CreatedAreStored
  BY <1>1, <1>3, FS_EmptySet DEF CreatedAreStored
<1>10. NothingLost
  <2> SUFFICES ASSUME NEW p \in LedTo PROVE Held(cursor, p)
    BY <1>1 DEF NothingLost
  <2>1. PICK i \in DOMAIN Seeds : Seeds[i].peer = p
    BY <1>1 DEF LedTo
  <2> QED
    BY <1>1, <1>3, <2>1 DEF Held
<1> QED
  BY <1>7, <1>8, <1>9, <1>10 DEF IInv

\* Every step keeps it.
LEMMA NextInv == IInv /\ [Next]_vars => IInv'
<1> SUFFICES ASSUME IInv, [Next]_vars PROVE IInv'
  OBVIOUS
<1>1. CASE Claim
  BY <1>1, ClaimInv
<1>2. CASE Enter \/ RecoverStale
  BY <1>2, EnterInv
<1>3. CASE Pop
  BY <1>3, PopInv
<1>4. CASE Cancelled \/ Succeed \/ GiveUp
  BY <1>4, EndInv
<1>5. CASE Resolve \/ Fetch \/ LeaveNode \/ NodeLost \/ Transient
  BY <1>5, NodeStepInv
<1>6. CASE PlanEdge \/ ResolveEdge \/ EdgeUnsupported
  BY <1>6, PlanLinkInv
<1>7. CASE PersistStage
  BY <1>7, PersistStageInv
<1>8. CASE CancelRead \/ CancelCommit
  BY <1>8, CancelInv
<1>9. CASE Crash
  BY <1>9, CrashInv
<1>10. CASE Poll \/ UNCHANGED vars
  BY <1>10, StutterInv DEF Poll
<1> QED
  BY <1>1, <1>2, <1>3, <1>4, <1>5, <1>6, <1>7, <1>8, <1>9, <1>10 DEF Next, Work

\* The invariant the theorems below rest on: the saved walk and the worker's stand at the
\* same place, a row is of a stage that is over, and no source the run was led to is lost.
THEOREM GraphRunInvariant == Spec => []IInv
BY InitInv, NextInv, PTL DEF Spec

\* A run keeps its types and its caps: no more names are resolved than the cap allows, and
\* the candidate cap is overrun by less than the links of one node.
THEOREM GraphRunTypeOK == Spec => []TypeOK
<1>1. IInv => TypeOK
  BY DEF IInv
<1> QED
  BY <1>1, GraphRunInvariant, PTL

\* The saved counter is the number of sources stored, and each of them has one row that
\* says so, wherever the worker dies and whatever it repeats.
THEOREM CreatedAreAlwaysStored == Spec => []CreatedAreStored
<1>1. IInv => CreatedAreStored
  BY DEF IInv
<1> QED
  BY <1>1, GraphRunInvariant, PTL

\* A run that succeeded has taken every seed and every source it was led to above the last
\* level through all its stages.
THEOREM SucceededHasExplored == Spec => []SucceededExplored
<1>1. IInv => SucceededExplored
  <2> SUFFICES ASSUME IInv, run = "succeeded", NEW p \in LedTo PROVE cursor.done[p] = AllDone
    BY DEF SucceededExplored, LedTo
  <2>1. Held(cursor, p) /\ cursor.node = NoNode /\ cursor.queue = <<>>
    BY DEF IInv, NothingLost
  <2>2. DOMAIN cursor.queue = {}
    BY <2>1
  <2> QED
    BY <2>1, <2>2 DEF Held
<1> QED
  BY <1>1, GraphRunInvariant, PTL

-------------------------------------------------------------------------------
(* The abstract run *)

\* The steps of a worker, as the rest of the process sees them: it goes on with the run,
\* ends it, or parks it.
LEMMA WorkOutside ==
  ASSUME Work
  PROVE  /\ pc # "idle" /\ http' = http
         /\ sources \subseteq sources'
         /\ \/ UNCHANGED <<run, job, event>> /\ pc' # "idle"
            \/ /\ run' \in Terminal /\ job' \in {"succeeded", "failed", "cancelled"}
               /\ pc' = "idle" /\ event' = "none" /\ sources' = sources
            \/ /\ run' = run /\ job' = "retry_wait"
               /\ pc' = "idle" /\ event' = "none" /\ sources' = sources
<1>1. CASE Enter \/ Pop \/ Resolve \/ Fetch \/ PersistStage \/ LeaveNode
  <2>1. pc # "idle" /\ pc' # "idle" /\ UNCHANGED <<run, job, event, http>>
    BY <1>1 DEF Enter, Pop, Resolve, Fetch, PersistStage, LeaveNode, Calling, Planning
  <2>2. sources \subseteq sources'
    BY <1>1 DEF Enter, Pop, Resolve, Fetch, PersistStage, LeaveNode, stored
  <2> QED
    BY <2>1, <2>2
<1>2. CASE PlanEdge \/ ResolveEdge \/ EdgeUnsupported
  <2>1. pc # "idle" /\ pc' # "idle" /\ UNCHANGED <<run, job, event, http>>
    BY <1>2 DEF PlanEdge, ResolveEdge, EdgeUnsupported, MustResolve, More, Planning
  <2>2. sources \subseteq sources'
    BY <1>2 DEF PlanEdge, ResolveEdge, EdgeUnsupported, stored
  <2> QED
    BY <2>1, <2>2
<1>3. CASE NodeLost \/ Transient
  BY <1>3 DEF NodeLost, Transient, Skip, Calling, Idle
<1>4. CASE Cancelled \/ Succeed \/ GiveUp
  BY <1>4 DEF Cancelled, Succeed, GiveUp, Finish, End, Idle, Calling, Terminal
<1> QED
  BY <1>1, <1>2, <1>3, <1>4 DEF Work

\* What is known of the worker and the request stays so.
LEMMA AtRunInv ==
  ASSUME IInv, AtRun, [Next]_vars
  PROVE  AtRun'
<1>1. job \in JobState /\ http \in ReadRows
  BY DEF IInv, TypeOK, ReadRows
<1>2. CASE Work
  BY <1>1, <1>2, WorkOutside DEF AtRun, Closed, JobState, Terminal
<1>3. CASE Claim
  BY <1>1, <1>3 DEF Claim, AtRun, Closed, Terminal, JobStateForTerminal
<1>4. CASE CancelRead
  BY <1>1, <1>4 DEF CancelRead, Rows, AtRun, LiveWorker
<1>5. CASE CancelCommit
  BY <1>1, <1>5 DEF CancelCommit, AtRun, Closed, Terminal
<1>6. CASE Crash
  BY <1>6 DEF Crash, Idle, AtRun
<1>7. CASE RecoverStale \/ Poll \/ UNCHANGED vars
  BY <1>1, <1>7 DEF RecoverStale, Poll, vars, AtRun, Closed, Terminal
<1> QED
  BY <1>2, <1>3, <1>4, <1>5, <1>6, <1>7 DEF Next

\* Every step of the run is one of the abstract run, or none.
LEMMA StepImplements ==
  ASSUME IInv, AtRun, [Next]_vars
  PROVE  [Abstract!Next]_Abstract!vars
<1> DEFINE theState  == IF run \in Terminal \/ Closed THEN run ELSE "open"
           theResult == [p \in Peer |-> IF p \in sources THEN "stored" ELSE "none"]
           theHeld   == pc # "idle" \/ job = "running"
           theAsked  == IF http = NoRead THEN "none"
                     ELSE IF http.live \/ http.job = "running" THEN "mark" ELSE "end"
<1>1. /\ run \in RunState /\ job \in JobState /\ http \in ReadRows
      /\ Abstract!Terminal = Terminal
  BY DEF IInv, TypeOK, ReadRows, Abstract!Terminal, Terminal
<1>2. sources' = sources => theResult' = theResult
  OBVIOUS
<1>3. sources \subseteq sources' => Abstract!Extended
  BY DEF Abstract!Extended
<1>4. CASE Work
  <2>1. pc # "idle" /\ theAsked' = theAsked
    BY <1>4, WorkOutside
  <2>2. CASE UNCHANGED <<run, job, event>> /\ pc' # "idle"
    BY <1>3, <1>4, <2>1, <2>2, WorkOutside DEF Abstract!Next, Abstract!Publish, Closed
  <2>3. CASE run' \in Terminal /\ job' \in {"succeeded", "failed", "cancelled"} /\ pc' = "idle"
    BY <1>1, <1>3, <1>4, <2>1, <2>3, WorkOutside DEF Abstract!Next, Abstract!End
  <2>4. CASE run' = run /\ job' = "retry_wait" /\ pc' = "idle" /\ sources' = sources
    BY <1>2, <2>1, <2>4 DEF Abstract!Next, Abstract!Release, Closed, Terminal
  <2> QED
    BY <1>4, <2>2, <2>3, <2>4, WorkOutside
<1>5. CASE Claim
  <2>1. sources' = sources /\ theAsked' = theAsked /\ pc = "idle" /\ job \in {"queued", "retry_wait"}
    BY <1>5 DEF Claim, stored
  <2>2. CASE run \in Terminal
    BY <1>2, <1>5, <2>1, <2>2 DEF Claim, Abstract!vars, JobStateForTerminal
  <2>3. CASE run \notin Terminal
    BY <1>2, <1>5, <2>1, <2>3 DEF Claim, Abstract!Next, Abstract!Take, Closed, Terminal
  <2> QED
    BY <2>2, <2>3
<1>6. CASE CancelRead
  <2>1. /\ http = NoRead /\ run \notin Terminal
        /\ http' = [run |-> run, job |-> job, live |-> event # "none"]
        /\ UNCHANGED <<run, job, sources, pc>>
    BY <1>6 DEF CancelRead, Rows, stored
  <2>2. http' # NoRead /\ http'.job = job /\ http'.live = (event # "none")
    BY <1>1, <2>1 DEF NoRead, RunState, Terminal
  <2>3. theState' = theState /\ theState \notin Terminal /\ theHeld' = theHeld
    BY <2>1 DEF Closed, Terminal
  <2>4. theAsked = "none" /\ (theAsked' = "mark" \/ (~theHeld /\ theAsked' = "end"))
    BY <2>1, <2>2 DEF AtRun
  <2> QED
    BY <1>1, <1>2, <2>1, <2>3, <2>4 DEF Abstract!Next, Abstract!Ask
<1>7. CASE CancelCommit
  <2>1. http # NoRead /\ theAsked' = "none" /\ UNCHANGED <<sources, pc>>
    BY <1>7 DEF CancelCommit, stored
  <2>2. CASE LiveWorker(http.job, http.live)
    <3>1. run' \in {run, "cancelling"} /\ job' = job /\ theAsked = "mark"
      BY <1>7, <2>1, <2>2 DEF CancelCommit, LiveWorker
    <3>2. theState' = theState \/ (theState # "open" /\ theState' = "cancelling")
      BY <1>1, <2>1, <3>1 DEF AtRun, Closed, RunState, Terminal
    <3> QED
      BY <1>2, <2>1, <3>1, <3>2 DEF Abstract!Next, Abstract!Mark
  <2>3. CASE ~LiveWorker(http.job, http.live)
    <3>1. run' = "cancelled" /\ job' = "cancelled" /\ theAsked = "end"
      BY <1>7, <2>1, <2>3 DEF CancelCommit, LiveWorker
    <3>2. theHeld' = theHeld
      BY <2>1, <2>3, <3>1 DEF AtRun
    <3> QED
      BY <1>2, <2>1, <3>1, <3>2 DEF Abstract!Next, Abstract!EndByRequest, Terminal
  <2> QED
    BY <2>2, <2>3
<1>8. CASE Crash
  <2>1. http' = NoRead /\ pc' = "idle" /\ UNCHANGED <<run, job, sources>>
    BY <1>8 DEF Crash, Idle, stored
  <2>2. theState' = theState /\ theHeld' \in {theHeld, FALSE}
    BY <2>1 DEF AtRun, Closed
  <2> QED
    BY <1>2, <2>1, <2>2 DEF Abstract!Next, Abstract!Die
<1>9. CASE RecoverStale
  BY <1>2, <1>9 DEF RecoverStale, stored, Abstract!Next, Abstract!Release, Closed, Terminal
<1>10. CASE Poll \/ UNCHANGED vars
  BY <1>10 DEF Poll, vars, Abstract!vars, Closed
<1> QED
  BY <1>4, <1>5, <1>6, <1>7, <1>8, <1>9, <1>10 DEF Next

\* The run implements the abstract run: only the worker that holds it stores sources, none
\* is taken back, none is stored after the end, and a cancel request ends no run it found
\* in the hands of a worker, whatever crashes, retries and late writes it meets.
THEOREM ImplementsDiscoveryRun == Spec => Abstract!Spec
<1>1. Init => AtRun /\ Abstract!Init
  BY DEF Init, AtRun, Closed, Terminal, Abstract!Init
<1>2. IInv /\ AtRun /\ [Next]_vars => AtRun'
  BY AtRunInv
<1>3. IInv /\ AtRun /\ [Next]_vars => [Abstract!Next]_Abstract!vars
  BY StepImplements
<1> QED
  BY <1>1, <1>2, <1>3, GraphRunInvariant, PTL DEF Spec, Abstract!Spec
===============================================================================
