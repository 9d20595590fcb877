---------------------------- MODULE CollectorProofs ----------------------------
(***************************************************************************)
(* For a chat of any length, any page, batch and window sizes and any      *)
(* number of incidents: Collector keeps its types, the checkpoint names a  *)
(* message that is in the inbox, the chain of backfill jobs leaves no hole *)
(* behind it, and a reconciliation stores the range it has read.           *)
(***************************************************************************)
EXTENDS Collector, FiniteSetTheorems, WellFoundedInduction, TLAPS

\* Nothing in the chat, in what a job holds, or among the first page is newer than the
\* newest message.
ChatPosted == chat \subseteq 1 .. posted /\ run.got \subseteq 1 .. posted /\ top <= posted

IsInitial(j) == jobs[j].type = "initial_backfill"
IsContinuation(j) == jobs[j].type = "continuation"

\* There is one initial backfill, and it has succeeded, for good, before a continuation
\* is enqueued.
ChainInOrder ==
    /\ lifecycle = "candidate" => jobs = <<>>
    /\ pc # "idle" => run.job \in DOMAIN jobs
    /\ \A j, k \in DOMAIN jobs : IsInitial(j) /\ IsInitial(k) => j = k
    /\ \A j, k \in DOMAIN jobs : IsContinuation(j) /\ IsInitial(k) =>
           jobs[k].state = "succeeded" /\ (pc # "idle" => run.job # k)

\* The range of the request in flight is the one the row stands for.
RequestOfRow ==
    pc \in {"prepared", "persist"} =>
        /\ Row.type \in Chain => run.after = 0
        /\ run.before = IF Row.type = "continuation" THEN Row.key ELSE MaxMsg + 1

\* What is left of a page is part of it, and the rest is stored.
PageStored ==
    run.todo \subseteq run.got /\ \A m \in run.got \ run.todo : HasEnvelope(m)

\* A page that is neither cut nor empty leaves out no message of the chat between its
\* oldest message and the one the chain has come from.
ChainPageWhole ==
    pc = "persist" /\ Row.type \in Chain /\ Row.cum + Cardinality(run.got) < MaxBackfill =>
        \A x \in run.got : \A m \in chat :
            x <= m /\ m < run.before /\ m <= top => m \in run.got

\* A reconciliation's page that is not full leaves out no message of the chat between
\* the checkpoint it started from and its newest message.
ReconciledPageWhole ==
    pc = "persist" /\ Row.type \in Reconciliation /\ ~run.full =>
        \A x \in run.got : \A m \in chat : run.after < m /\ m <= x => m \in run.got

IInv ==
    /\ TypeOK
    /\ CheckpointCommitted
    /\ ContinuationLeavesNoHole
    /\ ChatPosted /\ ChainInOrder
    /\ RequestOfRow /\ PageStored
    /\ ChainPageWhole /\ ReconciledPageWhole

-------------------------------------------------------------------------------
(* The least and the greatest of a set of message ids *)

\* A non-empty set of naturals has a least member.
LEMMA MinIsLeast ==
  ASSUME NEW S \in SUBSET Nat, S # {}
  PROVE  /\ Min(S) \in S
         /\ \A y \in S : Min(S) <= y
<1>1. PICK x \in S : \A y \in S : ~(<<y, x>> \in OpToRel(<, Nat))
  BY WFMin, NatLessThanWellFounded
<1>2. \A y \in S : ~(y < x)
  <2> SUFFICES ASSUME NEW y \in S, y < x PROVE FALSE
    OBVIOUS
  <2>1. <<y, x>> \in {p \in Nat \X Nat : p[1] < p[2]}
    OBVIOUS
  <2> QED
    BY <1>1, <2>1, Zenon DEF OpToRel
<1>3. \A y \in S : x <= y
  BY <1>2
<1> QED
  BY <1>3 DEF Min

\* A non-empty set of naturals with a bound has a greatest member.
LEMMA MaxIsGreatest ==
  ASSUME NEW n \in Nat, NEW S \in SUBSET (0 .. n), S # {}
  PROVE  /\ Max(S) \in S
         /\ \A y \in S : y <= Max(S)
<1> DEFINE T == {n - x : x \in S}
<1>1. T \in SUBSET Nat
  OBVIOUS
<1>2. T # {}
  <2> PICK x \in S : TRUE
    OBVIOUS
  <2>1. n - x \in T
    OBVIOUS
  <2> QED
    BY <2>1
<1>3. PICK t \in T : \A u \in T : t <= u
  <2> HIDE DEF T
  <2> QED
    BY <1>1, <1>2, MinIsLeast
<1>4. PICK x \in S : t = n - x
  OBVIOUS
<1>5. \A y \in S : y <= x
  BY <1>3, <1>4
<1>6. \A y \in S : x >= y
  BY <1>5
<1>7. \E z \in S : \A y \in S : z >= y
  BY <1>6
<1>8. Max(S) \in S /\ \A y \in S : Max(S) >= y
  BY <1>7 DEF Max
<1> QED
  BY <1>8

(* The parts of a set of messages that are counted off from its ends *)

\* A set of messages is finite.
LEMMA MessagesFinite ==
  ASSUME NEW S \in SUBSET Msg
  PROVE  IsFiniteSet(S) /\ Cardinality(S) \in Nat
<1>1. IsFiniteSet(Msg)
  BY CollectorAssumption, FS_Interval DEF Msg
<1> QED
  BY <1>1, FS_Subset, FS_CardinalityType

\* If fewer than n messages are the n oldest of S, they are all of it.
LEMMA OldestIsAll ==
  ASSUME NEW S \in SUBSET Msg, NEW n \in Int, Cardinality(Oldest(S, n)) < n
  PROVE  Oldest(S, n) = S
<1> DEFINE rest == S \ Oldest(S, n)
<1>1. S \subseteq Nat /\ Oldest(S, n) \subseteq S
  BY DEF Msg, Oldest
<1> SUFFICES ASSUME rest # {} PROVE FALSE
  BY <1>1
<1>2. PICK x \in rest : \A y \in rest : x <= y
  <2>1. rest \in SUBSET Nat
    BY <1>1
  <2> HIDE DEF rest
  <2> QED
    BY <2>1, MinIsLeast
<1> DEFINE below == {k \in S : k < x}
<1>3. below \subseteq Oldest(S, n)
  <2> SUFFICES ASSUME NEW k \in S, k < x, k \notin Oldest(S, n) PROVE FALSE
    OBVIOUS
  <2>1. k \in rest /\ x \in Nat /\ k \in Nat
    BY <1>1
  <2> QED
    BY <1>2, <2>1
<1>4. /\ IsFiniteSet(Oldest(S, n)) /\ Cardinality(Oldest(S, n)) \in Nat
      /\ Cardinality(below) \in Nat /\ Cardinality(below) <= Cardinality(Oldest(S, n))
  BY <1>1, <1>3, MessagesFinite, FS_Subset
<1>5. Cardinality(below) < n
  BY <1>4
<1>6. x \in Oldest(S, n)
  BY <1>5 DEF Oldest
<1> QED
  BY <1>6

\* The newest n of S, as iter_history returns them.
Newest(S, n) == {m \in S : Cardinality({k \in S : k > m}) < n}

\* They are no more than n.
LEMMA NewestAtMost ==
  ASSUME NEW S \in SUBSET Msg, NEW n \in Nat
  PROVE  Cardinality(Newest(S, n)) <= n
<1>1. S \subseteq Nat /\ Newest(S, n) \in SUBSET S
  BY DEF Msg, Newest
<1>2. CASE Newest(S, n) = {}
  BY <1>2, FS_EmptySet
<1>3. CASE Newest(S, n) # {}
  <2>1. PICK x \in Newest(S, n) : \A y \in Newest(S, n) : x <= y
    BY <1>1, <1>3, MinIsLeast
  <2> DEFINE above == {k \in S : k > x}
  <2>2. /\ IsFiniteSet(above) /\ Cardinality(above) \in Nat
        /\ IsFiniteSet(Newest(S, n)) /\ Cardinality(Newest(S, n)) \in Nat
    BY <1>1, MessagesFinite
  <2>3. x \in S /\ Cardinality(above) < n
    BY DEF Newest
  <2>4. Newest(S, n) \subseteq above \cup {x}
    <3> SUFFICES ASSUME NEW y \in Newest(S, n), y # x PROVE y > x
      BY <1>1
    <3>1. x <= y /\ x \in Nat /\ y \in Nat
      BY <1>1, <2>1
    <3> QED
      BY <3>1
  <2>5. x \notin above
    BY <1>1, <2>3
  <2>6. IsFiniteSet(above \cup {x}) /\ Cardinality(above \cup {x}) = Cardinality(above) + 1
    BY <2>2, <2>5, FS_AddElement
  <2>7. Cardinality(Newest(S, n)) <= Cardinality(above) + 1
    BY <2>4, <2>6, FS_Subset
  <2> QED
    BY <2>2, <2>3, <2>7
<1> QED
  BY <1>2, <1>3

\* If fewer than n messages are the n newest of S, they are all of it.
LEMMA NewestIsAll ==
  ASSUME NEW S \in SUBSET Msg, NEW n \in Nat, Cardinality(Newest(S, n)) # n
  PROVE  Newest(S, n) = S
<1> DEFINE rest == S \ Newest(S, n)
<1>1. S \subseteq Nat /\ Newest(S, n) \subseteq S /\ MaxMsg \in Nat /\ S \subseteq 0 .. MaxMsg
  BY CollectorAssumption DEF Msg, Newest
<1> SUFFICES ASSUME rest # {} PROVE FALSE
  BY <1>1
<1>2. PICK x \in rest : \A y \in rest : y <= x
  <2>1. rest \in SUBSET (0 .. MaxMsg)
    BY <1>1
  <2> HIDE DEF rest
  <2> QED
    BY <1>1, <2>1, MaxIsGreatest
<1> DEFINE above == {k \in S : k > x}
<1>3. above \subseteq Newest(S, n)
  <2> SUFFICES ASSUME NEW k \in S, k > x, k \notin Newest(S, n) PROVE FALSE
    OBVIOUS
  <2>1. k \in rest /\ x \in Nat /\ k \in Nat
    BY <1>1
  <2> QED
    BY <1>2, <2>1
<1>4. /\ IsFiniteSet(Newest(S, n)) /\ Cardinality(Newest(S, n)) \in Nat
      /\ Cardinality(above) \in Nat /\ Cardinality(above) <= Cardinality(Newest(S, n))
  BY <1>1, <1>3, MessagesFinite, FS_Subset
<1>5. Cardinality(above) < n
  BY <1>4, NewestAtMost
<1>6. x \in Newest(S, n)
  BY <1>5 DEF Newest
<1> QED
  BY <1>6

\* Among the newest n are all messages after any one of them.
LEMMA NewestUpward ==
  ASSUME NEW S \in SUBSET Msg, NEW n \in Nat, NEW x \in Newest(S, n), NEW m \in S, x <= m
  PROVE  m \in Newest(S, n)
<1>1. S \subseteq Nat /\ x \in S
  BY DEF Msg, Newest
<1>2. {k \in S : k > m} \subseteq {k \in S : k > x}
  <2>1. x \in Nat /\ m \in Nat /\ \A k \in S : k \in Nat
    BY <1>1
  <2>2. \A k \in S : k > m => k > x
    BY <2>1
  <2> QED
    BY <2>2
<1>3. /\ IsFiniteSet({k \in S : k > x})
      /\ Cardinality({k \in S : k > x}) \in Nat /\ Cardinality({k \in S : k > m}) \in Nat
      /\ Cardinality({k \in S : k > m}) <= Cardinality({k \in S : k > x})
  BY <1>1, <1>2, MessagesFinite, FS_Subset
<1> QED
  BY <1>3 DEF Newest

-------------------------------------------------------------------------------
(* The rows of the jobs *)

JobState == Finished \cup {"queued", "running", "retry_wait"}

\* The rows are those of the jobs, in other states or after other attempts.
SameJobs(rows) ==
    /\ rows \in Seq(JobRow) /\ Len(rows) = Len(jobs) /\ DOMAIN rows = DOMAIN jobs
    /\ \A j \in DOMAIN jobs : rows[j].type = jobs[j].type /\ rows[j].key = jobs[j].key

\* One row is replaced by one of the same job.
LEMMA RowReplaced ==
  ASSUME TypeOK, NEW rows, SameJobs(rows), NEW j \in DOMAIN jobs, NEW r \in JobRow,
         r.type = jobs[j].type, r.key = jobs[j].key
  PROVE  /\ SameJobs([rows EXCEPT ![j] = r])
         /\ [rows EXCEPT ![j] = r][j] = r
         /\ \A k \in DOMAIN jobs : k # j => [rows EXCEPT ![j] = r][k] = rows[k]
<1> DEFINE new == [rows EXCEPT ![j] = r]
<1>1. j \in DOMAIN rows
  BY DEF SameJobs
<1>2. new \in Seq(JobRow) /\ Len(new) = Len(rows) /\ DOMAIN new = DOMAIN rows
  BY <1>1 DEF SameJobs
<1>3. new[j] = r /\ \A k \in DOMAIN rows : k # j => new[k] = rows[k]
  BY <1>1
<1> QED
  BY <1>2, <1>3 DEF SameJobs

\* A row has a known state and a number of attempts.
LEMMA RowTypes ==
  ASSUME TypeOK, NEW j \in DOMAIN jobs
  PROVE  /\ SameJobs(jobs) /\ jobs[j] \in JobRow
         /\ jobs[j].attempt \in Nat /\ jobs[j].state \in JobState
         /\ jobs[j].key \in Nat /\ jobs[j].cum \in Nat
         /\ jobs[j].type \in Reconciliation \cup Chain
<1>1. jobs \in Seq(JobRow) /\ jobs[j] \in JobRow
  BY DEF TypeOK
<1> QED
  BY <1>1 DEF SameJobs, JobRow, JobState

\* A row whose state alone is set.
LEMMA SetStateRows ==
  ASSUME TypeOK, NEW j \in DOMAIN jobs, NEW s \in JobState
  PROVE  /\ SameJobs(SetState(j, s))
         /\ SetState(j, s)[j].state = s
         /\ \A k \in DOMAIN jobs : k # j => SetState(j, s)[k] = jobs[k]
<1> DEFINE r == [jobs[j] EXCEPT !.state = s, !.leased = @ /\ s = "running"]
<1>1. SameJobs(jobs) /\ jobs[j] \in JobRow
  BY RowTypes
<1>2. /\ r \in JobRow /\ r.state = s
      /\ r.type = jobs[j].type /\ r.key = jobs[j].key
  <2>1. (jobs[j].leased /\ s = "running") \in BOOLEAN
    OBVIOUS
  <2>2. r = [jobs[j] EXCEPT !.state = s, !.leased = (jobs[j].leased /\ s = "running")]
    BY <1>1 DEF JobRow
  <2> QED
    BY <1>1, <2>1, <2>2, Zenon DEF JobRow, JobState
<1>3. SetState(j, s) = [jobs EXCEPT ![j] = r]
  BY DEF SetState
<1> HIDE DEF r
<1>4. /\ SameJobs([jobs EXCEPT ![j] = r])
      /\ [jobs EXCEPT ![j] = r][j] = r
      /\ \A k \in DOMAIN jobs : k # j => [jobs EXCEPT ![j] = r][k] = jobs[k]
  BY <1>1, <1>2, RowReplaced, Zenon
<1> QED
  BY <1>2, <1>3, <1>4, Zenon

\* Rows that have lost their lease are queued again.
LEMMA RequeuedRows ==
  ASSUME TypeOK, NEW S \in SUBSET MayBeStale
  PROVE  /\ SameJobs(Requeued(S))
         /\ \A j \in DOMAIN jobs : Requeued(S)[j].cum = jobs[j].cum
         /\ \A j \in DOMAIN jobs :
                \/ Requeued(S)[j] = jobs[j]
                \/ jobs[j].state = "running" /\ Requeued(S)[j].state = "queued"
<1>1. /\ Requeued(S) = [j \in DOMAIN jobs |->
                          IF j \in S THEN [jobs[j] EXCEPT !.state = "queued", !.leased = FALSE]
                                    ELSE jobs[j]]
      /\ DOMAIN Requeued(S) = DOMAIN jobs
  BY DEF Requeued
<1>2. \A j \in DOMAIN jobs :
         /\ Requeued(S)[j] \in JobRow
         /\ Requeued(S)[j].type = jobs[j].type
         /\ Requeued(S)[j].key = jobs[j].key
         /\ Requeued(S)[j].cum = jobs[j].cum
         /\ \/ Requeued(S)[j] = jobs[j]
            \/ jobs[j].state = "running" /\ Requeued(S)[j].state = "queued"
  <2> SUFFICES ASSUME NEW j \in DOMAIN jobs
               PROVE  /\ Requeued(S)[j] \in JobRow
                      /\ Requeued(S)[j].type = jobs[j].type
                      /\ Requeued(S)[j].key = jobs[j].key
                      /\ Requeued(S)[j].cum = jobs[j].cum
                      /\ \/ Requeued(S)[j] = jobs[j]
                         \/ jobs[j].state = "running" /\ Requeued(S)[j].state = "queued"
    OBVIOUS
  <2>1. jobs[j] \in JobRow
    BY RowTypes
  <2>2. CASE j \notin S
    BY <1>1, <2>1, <2>2
  <2>3. CASE j \in S
    <3>1. /\ Requeued(S)[j] = [jobs[j] EXCEPT !.state = "queued", !.leased = FALSE]
          /\ jobs[j].state = "running"
      BY <1>1, <2>3 DEF MayBeStale
    <3> QED
      BY <2>1, <3>1 DEF JobRow
  <2> QED
    BY <2>2, <2>3
<1>3. DOMAIN jobs = 1 .. Len(jobs) /\ Len(jobs) \in Nat
  BY DEF TypeOK
<1>4. Requeued(S) \in Seq(JobRow) /\ Len(Requeued(S)) = Len(jobs)
  <2> DEFINE f == Requeued(S)
  <2>1. f = [j \in DOMAIN f |-> f[j]] /\ DOMAIN f = DOMAIN jobs
    BY <1>1
  <2>2. \A j \in DOMAIN jobs : f[j] \in JobRow
    BY <1>2
  <2> HIDE DEF f
  <2>3. f \in [1 .. Len(jobs) -> JobRow]
    BY <1>3, <2>1, <2>2
  <2>4. f \in Seq(JobRow) /\ Len(f) = Len(jobs)
    BY <1>3, <2>3
  <2> QED
    BY <2>4 DEF f
<1> QED
  BY <1>1, <1>2, <1>4 DEF SameJobs

\* enqueue_job adds at most one row, at the end.
LEMMA EnqueuedRows ==
  ASSUME NEW rows \in Seq(JobRow), NEW type \in Reconciliation \cup Chain,
         NEW key \in Nat, NEW cum \in Nat
  PROVE  \/ Enqueued(rows, type, key, cum) = rows
         \/ \E r \in JobRow : /\ r.type = type /\ r.key = key
                             /\ Enqueued(rows, type, key, cum) = Append(rows, r)
<1> DEFINE r == [type |-> type, key |-> key, state |-> "queued", leased |-> FALSE,
                  cum |-> cum, attempt |-> 0]
<1>1. r \in JobRow /\ r.type = type /\ r.key = key
  BY DEF JobRow
<1>2. Enqueued(rows, type, key, cum) = rows \/ Enqueued(rows, type, key, cum) = Append(rows, r)
  BY DEF Enqueued
<1> QED
  BY <1>1, <1>2, Zenon

-------------------------------------------------------------------------------
(* The invariant, conjunct by conjunct, over steps that add no job and read no page *)

\* A message keeps its envelope.
LEMMA EnvelopeStays ==
  ASSUME inbox \subseteq inbox', NEW m, HasEnvelope(m)
  PROVE  HasEnvelope(m)'
  BY DEF HasEnvelope

\* What such a step is: the inbox grows, the chat gains new messages only, no job that
\* has succeeded is taken up again, and the loop stays, ends its turn or takes a job.
Quiet ==
    /\ inbox \subseteq inbox'
    /\ posted <= posted' /\ chat' \subseteq 1 .. posted'
    /\ \A m \in chat' : m <= posted => m \in chat
    /\ top' = top
    /\ SameJobs(jobs')
    /\ pc' = "persist" => \A j \in DOMAIN jobs : jobs'[j].cum = jobs[j].cum
    /\ lifecycle' = "candidate" => lifecycle = "candidate"
    /\ \A j \in DOMAIN jobs :
           jobs[j].state = "succeeded" /\ (pc = "idle" \/ run.job # j) => jobs'[j].state = "succeeded"
    /\ \/ pc' = "idle" /\ run' = NoRun
       \/ pc' = pc /\ run' = run
       \/ /\ pc' = "claimed" /\ run'.got = {} /\ run'.todo = {}
          /\ run'.job \in DOMAIN jobs /\ jobs[run'.job].state # "succeeded"

\* It keeps the invariant.
LEMMA QuietInv ==
  ASSUME IInv, Quiet, TypeOK', CheckpointCommitted'
  PROVE  IInv'
<1>1. /\ posted \in Nat /\ posted' \in Nat /\ top \in Nat /\ chat' \subseteq Nat
      /\ jobs \in Seq(JobRow) /\ DOMAIN jobs = 1 .. Len(jobs) /\ Len(jobs) \in Nat
      /\ jobs' \in Seq(JobRow) /\ DOMAIN jobs' = DOMAIN jobs /\ Len(jobs') = Len(jobs)
  <2>1. posted \in Nat /\ posted' \in Nat /\ top \in Nat /\ chat' \subseteq Nat
    BY CollectorAssumption DEF IInv, TypeOK, Msg
  <2>2. jobs \in Seq(JobRow) /\ jobs' \in Seq(JobRow)
    BY DEF IInv, TypeOK
  <2>3. DOMAIN jobs' = DOMAIN jobs /\ Len(jobs') = Len(jobs)
    BY DEF Quiet, SameJobs
  <2> QED
    BY <2>1, <2>2, <2>3
<1>2. \A j \in DOMAIN jobs : jobs'[j].type = jobs[j].type /\ jobs'[j].key = jobs[j].key
  BY DEF Quiet, SameJobs
<1>3. ContinuationLeavesNoHole'
  <2> SUFFICES ASSUME NEW j \in DOMAIN jobs', jobs'[j].type = "continuation",
                      NEW m \in chat', jobs'[j].key <= m, m <= top'
               PROVE  HasEnvelope(m)'
    BY DEF ContinuationLeavesNoHole, HasEnvelope
  <2>1. m <= posted /\ top' = top
    BY <1>1 DEF IInv, ChatPosted, Quiet
  <2>2. m \in chat
    BY <2>1 DEF Quiet
  <2>3. HasEnvelope(m)
    BY <1>1, <1>2, <2>1, <2>2 DEF IInv, ContinuationLeavesNoHole
  <2> QED
    BY <2>3, EnvelopeStays DEF Quiet
<1>4. \/ run'.got = run.got /\ run'.todo = run.todo
      \/ run'.got = {} /\ run'.todo = {}
  <2>1. NoRun.got = {} /\ NoRun.todo = {}
    BY DEF NoRun
  <2> QED
    BY <2>1 DEF Quiet
<1>5. ChatPosted'
  BY <1>1, <1>4 DEF IInv, ChatPosted, Quiet
<1>6. ChainInOrder'
  <2>1. lifecycle' = "candidate" => jobs' = <<>>
    <3> SUFFICES ASSUME lifecycle' = "candidate" PROVE jobs' = <<>>
      OBVIOUS
    <3>1. jobs = <<>>
      BY DEF IInv, ChainInOrder, Quiet
    <3>2. Len(jobs') = 0
      BY <1>1, <3>1
    <3> QED
      BY <1>1, <3>2
  <2>2. pc' # "idle" => run'.job \in DOMAIN jobs'
    BY <1>1 DEF IInv, ChainInOrder, Quiet
  <2>3. \A j, k \in DOMAIN jobs' :
           jobs'[j].type = "initial_backfill" /\ jobs'[k].type = "initial_backfill" => j = k
    BY <1>1, <1>2 DEF IInv, ChainInOrder, IsInitial
  <2>4. ASSUME NEW j \in DOMAIN jobs', NEW k \in DOMAIN jobs',
               jobs'[j].type = "continuation", jobs'[k].type = "initial_backfill"
        PROVE  jobs'[k].state = "succeeded" /\ (pc' # "idle" => run'.job # k)
    <3>1. jobs[k].state = "succeeded" /\ (pc # "idle" => run.job # k)
      BY <1>1, <1>2, <2>4 DEF IInv, ChainInOrder, IsInitial, IsContinuation
    <3> QED
      BY <1>1, <3>1 DEF Quiet
  <2> QED
    BY <2>1, <2>2, <2>3, <2>4 DEF ChainInOrder, IsInitial, IsContinuation
<1>7. PageStored'
  BY <1>4, EnvelopeStays DEF IInv, PageStored, Quiet
<1>8. CASE pc' = pc /\ run' = run /\ pc' \in {"prepared", "persist"}
  <2>1. /\ run.job \in DOMAIN jobs
        /\ jobs'[run.job].type = jobs[run.job].type
        /\ jobs'[run.job].key = jobs[run.job].key
        /\ pc = "persist" => jobs'[run.job].cum = jobs[run.job].cum
    BY <1>2, <1>8 DEF IInv, ChainInOrder, Quiet
  <2>2. RequestOfRow'
    BY <1>8, <2>1 DEF IInv, RequestOfRow, Row
  <2>3. \A m \in chat' : m <= posted => m \in chat
    BY DEF Quiet
  <2>4. top' = top /\ top <= posted
    BY DEF IInv, ChatPosted, Quiet
  <2>5. ChainPageWhole'
    <3>1. \A m \in chat' : m <= top => m \in chat
      BY <1>1, <2>3, <2>4
    <3> QED
      BY <1>8, <2>1, <2>4, <3>1 DEF IInv, ChainPageWhole, Row
  <2>6. ReconciledPageWhole'
    <3>1. \A x \in run.got : \A m \in chat' : m <= x => m \in chat
      <4> SUFFICES ASSUME NEW x \in run.got, NEW m \in chat', m <= x PROVE m \in chat
        OBVIOUS
      <4>1. x \in 1 .. posted /\ m \in Nat
        BY <1>1 DEF IInv, ChatPosted
      <4> QED
        BY <1>1, <2>3, <4>1
    <3> QED
      BY <1>8, <2>1, <3>1 DEF IInv, ReconciledPageWhole, Row
  <2> QED
    BY <1>3, <1>5, <1>6, <1>7, <2>2, <2>5, <2>6 DEF IInv
<1>9. CASE pc' \notin {"prepared", "persist"}
  BY <1>3, <1>5, <1>6, <1>7, <1>9 DEF IInv, RequestOfRow, ChainPageWhole, ReconciledPageWhole
<1> QED
  BY <1>8, <1>9 DEF Quiet

\* enqueue_job, with its row at the end, keeps it, when the row is neither a second
\* initial backfill nor a continuation.
LEMMA AppendInv ==
  ASSUME IInv, TypeOK',
         UNCHANGED <<telegram, inbox, checkpoint, pc, run, top>>,
         lifecycle' # "candidate",
         \/ jobs' = jobs
         \/ /\ Len(jobs') = Len(jobs) + 1
            /\ \A j \in DOMAIN jobs : jobs'[j] = jobs[j]
            /\ jobs'[Len(jobs) + 1].type # "continuation"
            /\ jobs'[Len(jobs) + 1].type = "initial_backfill" => jobs = <<>>
  PROVE  IInv'
<1>1. /\ jobs \in Seq(JobRow) /\ DOMAIN jobs = 1 .. Len(jobs) /\ Len(jobs) \in Nat
      /\ jobs' \in Seq(JobRow) /\ DOMAIN jobs' = 1 .. Len(jobs')
  BY DEF IInv, TypeOK
<1>2. /\ \A j \in DOMAIN jobs : j \in DOMAIN jobs' /\ jobs'[j] = jobs[j]
      /\ \A j \in DOMAIN jobs' : \/ j \in DOMAIN jobs
                                  \/ /\ j = Len(jobs) + 1
                                     /\ jobs'[j].type # "continuation"
                                     /\ jobs'[j].type = "initial_backfill" => jobs = <<>>
  <2>1. CASE jobs' = jobs
    BY <2>1, Zenon
  <2>2. CASE /\ Len(jobs') = Len(jobs) + 1
             /\ \A j \in DOMAIN jobs : jobs'[j] = jobs[j]
             /\ jobs'[Len(jobs) + 1].type # "continuation"
             /\ jobs'[Len(jobs) + 1].type = "initial_backfill" => jobs = <<>>
    <3>1. \A j \in DOMAIN jobs' : j \in DOMAIN jobs \/ j = Len(jobs) + 1
      BY <1>1, <2>2
    <3>2. \A j \in DOMAIN jobs : j \in DOMAIN jobs'
      BY <1>1, <2>2
    <3> QED
      BY <2>2, <3>1, <3>2, Zenon
  <2> QED
    BY <2>1, <2>2
<1>4. \A m : HasEnvelope(m)' <=> HasEnvelope(m)
  BY DEF HasEnvelope
<1>5. CheckpointCommitted' /\ ChatPosted' /\ PageStored'
  BY <1>4 DEF IInv, CheckpointCommitted, ChatPosted, PageStored, telegram, HasEnvelope
<1>6. ContinuationLeavesNoHole'
  BY <1>2, <1>4 DEF IInv, ContinuationLeavesNoHole, telegram, HasEnvelope
<1>7. ChainInOrder'
  <2>1. lifecycle' # "candidate" /\ (pc' # "idle" => run'.job \in DOMAIN jobs')
    BY <1>2 DEF IInv, ChainInOrder
  <2>2. ASSUME NEW j \in DOMAIN jobs', NEW k \in DOMAIN jobs',
               jobs'[j].type = "initial_backfill", jobs'[k].type = "initial_backfill"
        PROVE  j = k
    <3>1. CASE j \in DOMAIN jobs /\ k \in DOMAIN jobs
      BY <1>2, <2>2, <3>1 DEF IInv, ChainInOrder, IsInitial
    <3>2. CASE ~(j \in DOMAIN jobs /\ k \in DOMAIN jobs)
      <4>1. jobs = <<>>
        BY <1>2, <2>2, <3>2
      <4>2. DOMAIN jobs = {}
        BY <4>1
      <4> QED
        BY <1>2, <4>2
    <3> QED
      BY <3>1, <3>2
  <2>3. ASSUME NEW j \in DOMAIN jobs', NEW k \in DOMAIN jobs',
               jobs'[j].type = "continuation", jobs'[k].type = "initial_backfill"
        PROVE  jobs'[k].state = "succeeded" /\ (pc' # "idle" => run'.job # k)
    <3>1. j \in DOMAIN jobs
      BY <1>2, <2>3
    <3>2. k \in DOMAIN jobs
      <4>1. jobs # <<>>
        <5>1. jobs = <<>> => DOMAIN jobs = {}
          OBVIOUS
        <5> QED
          BY <3>1, <5>1
      <4> QED
        BY <1>2, <2>3, <4>1
    <3> QED
      BY <1>2, <2>3, <3>1, <3>2 DEF IInv, ChainInOrder, IsInitial, IsContinuation
  <2> QED
    BY <2>1, <2>2, <2>3 DEF ChainInOrder, IsInitial, IsContinuation
<1>8. pc # "idle" => Row' = Row
  BY <1>2 DEF IInv, ChainInOrder, Row
<1>9. RequestOfRow' /\ ChainPageWhole' /\ ReconciledPageWhole'
  BY <1>8 DEF IInv, RequestOfRow, ChainPageWhole, ReconciledPageWhole, telegram
<1> QED
  BY <1>5, <1>6, <1>7, <1>9 DEF IInv

-------------------------------------------------------------------------------
(* Steps of the chat, of the live loop, of the operator and of the process *)

\* What the run in progress may hold, for any jobs.
RunType(rows) ==
    [job : 0 .. Len(rows), after : Nat, before : Nat, limit : Nat,
     got : SUBSET Msg, todo : SUBSET Msg, full : BOOLEAN, hit : BOOLEAN]

\* No run has the type of a run.
LEMMA NoRunType ==
  ASSUME NEW rows \in Seq(JobRow)
  PROVE  NoRun \in RunType(rows) /\ (run \in RunType(jobs) /\ Len(rows) = Len(jobs) => run \in RunType(rows))
  BY DEF NoRun, RunType

\* The messages of S are committed, and the checkpoint with them.
LEMMA CommitKeeps ==
  ASSUME TypeOK, CheckpointCommitted, NEW type \in EventType, NEW S \in SUBSET Msg,
         Commit(type, S)
  PROVE  /\ inbox' \subseteq [type : EventType, msg : Msg] /\ inbox \subseteq inbox'
         /\ type # "message_deleted" => \A m \in S : HasEnvelope(m)'
         /\ checkpoint' \in 0 .. MaxMsg
         /\ CheckpointCommitted'
<1>1. inbox' = inbox \cup {[type |-> type, msg |-> m] : m \in S}
  BY DEF Commit
<1>2. inbox' \subseteq [type : EventType, msg : Msg] /\ inbox \subseteq inbox'
  BY <1>1 DEF TypeOK
<1>3. type # "message_deleted" => \A m \in S : HasEnvelope(m)'
  <2> SUFFICES ASSUME type # "message_deleted", NEW m \in S
               PROVE  \E e \in inbox' : e.msg = m /\ e.type # "message_deleted"
    BY DEF HasEnvelope
  <2>1. [type |-> type, msg |-> m] \in inbox'
    BY <1>1
  <2> QED
    BY <2>1
<1>4. checkpoint # 0 => HasEnvelope(checkpoint)
  BY DEF CheckpointCommitted
<1>5. CASE type = "message_deleted"
  <2>1. checkpoint' = checkpoint
    BY <1>5 DEF Commit
  <2>2. CheckpointCommitted'
    BY <1>2, <1>4, <2>1 DEF CheckpointCommitted, HasEnvelope
  <2> QED
    BY <1>2, <1>3, <2>1, <2>2 DEF TypeOK
<1>6. CASE type # "message_deleted"
  <2> DEFINE T == S \cup {checkpoint}
  <2>1. checkpoint' = Max(T)
    BY <1>6 DEF Commit, Advanced
  <2>2. T \in SUBSET (0 .. MaxMsg) /\ T # {} /\ MaxMsg \in Nat
    BY CollectorAssumption DEF TypeOK, Msg
  <2> HIDE DEF T
  <2>3. checkpoint' \in T
    BY <2>1, <2>2, MaxIsGreatest
  <2>4. checkpoint' \in 0 .. MaxMsg
    BY <2>2, <2>3
  <2>5. PICK c : c = checkpoint'
    OBVIOUS
  <2>6. c # 0 => HasEnvelope(c)'
    <3>1. CASE c \in S
      BY <1>3, <1>6, <3>1
    <3>2. CASE c = checkpoint
      BY <1>2, <1>4, <3>2, EnvelopeStays
    <3> QED
      BY <2>3, <2>5, <3>1, <3>2 DEF T
  <2>7. CheckpointCommitted'
    BY <2>5, <2>6 DEF CheckpointCommitted, HasEnvelope
  <2> QED
    BY <1>2, <1>3, <2>4, <2>7
<1> QED
  BY <1>5, <1>6

\* An update is queued for a process that listens.
LEMMA DeliverTypes ==
  ASSUME TypeOK, NEW type \in EventType, NEW m \in Msg, Deliver(type, m)
  PROVE  live' \in Seq([type : EventType, msg : Msg])
<1> DEFINE Update == [type : EventType, msg : Msg]
           u == [type |-> type, msg |-> m]
<1>1. u \in Update /\ live \in Seq(Update) /\ (live' = IF listening THEN Append(live, u) ELSE live)
  BY DEF TypeOK, Deliver
<1> HIDE DEF Update, u
<1>2. live' \in Seq(Update)
  BY <1>1
<1> QED
  BY <1>2 DEF Update

\* The jobs as they are, for steps that leave them alone.
LEMMA SameJobsRefl ==
  ASSUME TypeOK, jobs' = jobs
  PROVE  SameJobs(jobs') /\ \A j \in DOMAIN jobs : jobs'[j] = jobs[j]
  BY DEF TypeOK, SameJobs

\* A message is posted: newer than all others.
LEMMA PostInv ==
  ASSUME IInv, Post
  PROVE  IInv'
<1>1. /\ posted \in 0 .. MaxMsg /\ MaxMsg \in Nat /\ posted + 1 \in Msg
      /\ posted' = posted + 1 /\ posted' \in 0 .. MaxMsg
      /\ chat' = chat \cup {posted + 1} /\ chat \subseteq 1 .. posted
  BY CollectorAssumption DEF IInv, TypeOK, ChatPosted, Post, Msg
<1>2. live' \in Seq([type : EventType, msg : Msg])
  BY <1>1, DeliverTypes DEF IInv, Post, EventType
<1>3. TypeOK'
  BY <1>1, <1>2 DEF IInv, TypeOK, Post, process, bounds
<1>4. CheckpointCommitted'
  BY DEF IInv, CheckpointCommitted, HasEnvelope, Post
<1>5. SameJobs(jobs') /\ \A j \in DOMAIN jobs : jobs'[j] = jobs[j]
  BY SameJobsRefl DEF IInv, Post
<1>6. Quiet
  BY <1>1, <1>5 DEF Quiet, Post
<1> QED
  BY <1>3, <1>4, <1>6, QuietInv

\* An edit changes no message's place in the chat, a deletion takes one out.
LEMMA EditDeleteInv ==
  ASSUME IInv, NEW m \in chat, Edit(m) \/ Delete(m)
  PROVE  IInv'
<1>1. /\ m \in Msg /\ chat' \subseteq chat /\ events' = events + 1
      /\ UNCHANGED <<posted, lifecycle, inbox, checkpoint, jobs, process, pc, run, bounds, top>>
  BY DEF IInv, TypeOK, Edit, Delete
<1>2. live' \in Seq([type : EventType, msg : Msg])
  BY <1>1, DeliverTypes DEF IInv, Edit, Delete, EventType
<1>3. TypeOK'
  BY <1>1, <1>2 DEF IInv, TypeOK, process, bounds
<1>4. CheckpointCommitted'
  BY <1>1 DEF IInv, CheckpointCommitted, HasEnvelope
<1>5. posted \in Nat
  BY DEF IInv, TypeOK
<1>6. SameJobs(jobs') /\ \A j \in DOMAIN jobs : jobs'[j] = jobs[j]
  BY <1>1, SameJobsRefl DEF IInv
<1>7. Quiet
  BY <1>1, <1>5, <1>6 DEF IInv, Quiet, ChatPosted
<1> QED
  BY <1>3, <1>4, <1>7, QuietInv

\* What is quiet about a step that changes neither the chat nor the jobs nor the run.
LEMMA AsideQuiet ==
  ASSUME IInv, UNCHANGED <<telegram, jobs, pc, run, top>>, inbox \subseteq inbox',
         lifecycle' = "candidate" => lifecycle = "candidate"
  PROVE  Quiet
<1>1. posted \in Nat
  BY DEF IInv, TypeOK
<1> QED
  BY <1>1, SameJobsRefl DEF IInv, Quiet, ChatPosted, telegram

\* An update is ingested.
LEMMA IngestInv ==
  ASSUME IInv, Ingest
  PROVE  IInv'
<1>1. Head(live) \in [type : EventType, msg : Msg] /\ live' \in Seq([type : EventType, msg : Msg])
  <2> DEFINE Update == [type : EventType, msg : Msg]
  <2>1. live \in Seq(Update) /\ live # <<>> /\ live' = Tail(live)
    BY DEF IInv, TypeOK, Ingest
  <2> HIDE DEF Update
  <2>2. Head(live) \in Update /\ live' \in Seq(Update)
    BY <2>1
  <2> QED
    BY <2>2 DEF Update
<1>2. Head(live).type \in EventType /\ {Head(live).msg} \in SUBSET Msg
  BY <1>1
<1>3. /\ inbox' \subseteq [type : EventType, msg : Msg] /\ inbox \subseteq inbox'
      /\ checkpoint' \in 0 .. MaxMsg /\ CheckpointCommitted'
  <2>1. CASE lifecycle = "monitoring"
    BY <1>2, <2>1, CommitKeeps DEF IInv, Ingest
  <2>2. CASE lifecycle # "monitoring"
    BY <2>2 DEF IInv, TypeOK, Ingest, CheckpointCommitted, HasEnvelope
  <2> QED
    BY <2>1, <2>2
<1>4. UNCHANGED <<telegram, lifecycle, jobs, process, pc, run, bounds, top>>
  BY DEF Ingest
<1>5. TypeOK'
  BY <1>1, <1>3, <1>4 DEF IInv, TypeOK, telegram, process, bounds
<1>6. Quiet
  BY <1>3, <1>4, AsideQuiet
<1> QED
  BY <1>3, <1>5, <1>6, QuietInv

\* The handlers come and go, the process starts, the operator pauses, resumes or disables.
LEMMA AsideInv ==
  ASSUME IInv, IngestFails \/ Listen \/ Start \/ Pause \/ Resume \/ Disable
  PROVE  IInv'
<1>1. /\ UNCHANGED <<telegram, inbox, checkpoint, jobs, pc, run, top>>
      /\ lifecycle' = "candidate" => lifecycle = "candidate"
  BY DEF IngestFails, Listen, Start, Pause, Resume, Disable, Transition
<1>2. /\ lifecycle' \in {"candidate", "monitoring", "paused", "disabled"}
      /\ {up', started', listening'} \subseteq BOOLEAN
      /\ live' \in Seq([type : EventType, msg : Msg])
      /\ buckets' \in Nat /\ faults' \in Nat /\ pauses' \in Nat
  <2>1. /\ lifecycle \in {"candidate", "monitoring", "paused", "disabled"}
        /\ up \in BOOLEAN /\ started \in BOOLEAN /\ listening \in BOOLEAN
        /\ live \in Seq([type : EventType, msg : Msg])
        /\ buckets \in Nat /\ faults \in Nat /\ pauses \in Nat
    BY DEF IInv, TypeOK
  <2>2. /\ lifecycle' \in {lifecycle, "monitoring", "paused", "disabled"}
        /\ up' \in {up, TRUE} /\ started' = started
        /\ listening' \in {listening, TRUE, FALSE}
        /\ live' \in {live, <<>>}
        /\ buckets' = buckets /\ faults' \in {faults, faults + 1}
        /\ pauses' \in {pauses, pauses + 1}
    BY DEF IngestFails, Listen, Start, Pause, Resume, Disable, Transition, process, bounds
  <2>3. /\ lifecycle' \in {"candidate", "monitoring", "paused", "disabled"}
        /\ buckets' \in Nat /\ faults' \in Nat /\ pauses' \in Nat
    BY <2>1, <2>2
  <2>5. live' \in Seq([type : EventType, msg : Msg])
    <3>1. live' = live => live' \in Seq([type : EventType, msg : Msg])
      BY <2>1, Zenon
    <3>2. live' = <<>> => live' \in Seq([type : EventType, msg : Msg])
      OBVIOUS
    <3> QED
      BY <2>2, <3>1, <3>2, Zenon
  <2>4. up' \in BOOLEAN /\ started' \in BOOLEAN /\ listening' \in BOOLEAN
    BY <2>1, <2>2
  <2> QED
    BY <2>3, <2>4, <2>5
<1>3. TypeOK'
  BY <1>1, <1>2 DEF IInv, TypeOK, telegram
<1>4. CheckpointCommitted'
  BY <1>1 DEF IInv, CheckpointCommitted, HasEnvelope
<1>5. Quiet
  BY <1>1, AsideQuiet
<1> QED
  BY <1>3, <1>4, <1>5, QuietInv

\* The process dies: the loop's run is gone, its job is not.
LEMMA CrashInv ==
  ASSUME IInv, Crash
  PROVE  IInv'
<1>1. /\ UNCHANGED <<telegram, lifecycle, inbox, checkpoint, jobs, buckets, pauses, top>>
      /\ pc' = "idle" /\ run' = NoRun /\ faults' = faults + 1
      /\ up' = FALSE /\ started' = FALSE /\ listening' = FALSE /\ live' = <<>>
  BY DEF Crash, Done
<1>2. run' \in RunType(jobs)
  BY <1>1, NoRunType DEF IInv, TypeOK
<1>3. TypeOK'
  <2>1. {up', started', listening'} \subseteq BOOLEAN
    BY <1>1
  <2>2. live' \in Seq([type : EventType, msg : Msg])
    BY <1>1
  <2>3. faults' \in Nat /\ buckets' \in Nat /\ pauses' \in Nat /\ top' \in Nat
    BY <1>1 DEF IInv, TypeOK
  <2> QED
    BY <1>1, <1>2, <2>1, <2>2, <2>3 DEF IInv, TypeOK, telegram, RunType
<1>4. CheckpointCommitted'
  BY <1>1 DEF IInv, CheckpointCommitted, HasEnvelope
<1>5. posted \in Nat
  BY DEF IInv, TypeOK
<1>6. Quiet
  BY <1>1, <1>5, SameJobsRefl DEF IInv, Quiet, ChatPosted, telegram
<1> QED
  BY <1>3, <1>4, <1>6, QuietInv

-------------------------------------------------------------------------------
(* Steps that enqueue or requeue jobs *)

\* The types, when only jobs grow.
LEMMA EnqueueTypes ==
  ASSUME TypeOK, NEW type \in Reconciliation \cup Chain, NEW key \in Nat,
         jobs' = Enqueued(jobs, type, key, 0) \/ jobs' = jobs,
         UNCHANGED <<telegram, inbox, checkpoint, pc, run, live, top>>,
         lifecycle' \in {"candidate", "monitoring", "paused", "disabled"},
         {up', started', listening'} \subseteq BOOLEAN,
         buckets' \in Nat, faults' \in Nat, pauses' \in Nat
  PROVE  /\ TypeOK'
         /\ \/ jobs' = jobs
            \/ /\ Len(jobs') = Len(jobs) + 1
               /\ \A j \in DOMAIN jobs : jobs'[j] = jobs[j]
               /\ jobs'[Len(jobs) + 1].type = type
<1>1. jobs \in Seq(JobRow)
  BY DEF TypeOK
<1>2. /\ jobs' \in Seq(JobRow)
      /\ \/ jobs' = jobs
         \/ /\ Len(jobs') = Len(jobs) + 1
            /\ \A j \in DOMAIN jobs : jobs'[j] = jobs[j]
            /\ jobs'[Len(jobs) + 1].type = type
  <2>1. CASE jobs' = jobs
    BY <1>1, <2>1
  <2>2. CASE jobs' = Enqueued(jobs, type, key, 0)
    <3>1. CASE Enqueued(jobs, type, key, 0) = jobs
      BY <1>1, <2>2, <3>1
    <3>2. CASE Enqueued(jobs, type, key, 0) # jobs
      <4>1. PICK r \in JobRow : r.type = type /\ Enqueued(jobs, type, key, 0) = Append(jobs, r)
        BY <1>1, <3>2, EnqueuedRows
      <4>2. jobs' = Append(jobs, r)
        BY <2>2, <4>1
      <4>3. jobs' \in Seq(JobRow) /\ Len(jobs') = Len(jobs) + 1
        BY <1>1, <4>1, <4>2
      <4>4. \A j \in DOMAIN jobs : jobs'[j] = jobs[j]
        BY <1>1, <4>1, <4>2
      <4>5. jobs'[Len(jobs) + 1] = r
        BY <1>1, <4>2
      <4> QED
        BY <4>1, <4>3, <4>4, <4>5
    <3> QED
      BY <3>1, <3>2
  <2> QED
    BY <2>1, <2>2
<1>3. Len(jobs) \in Nat /\ Len(jobs') \in Nat /\ Len(jobs) <= Len(jobs')
  BY <1>1, <1>2
<1>4. run' \in RunType(jobs')
  BY <1>3 DEF TypeOK, RunType
<1>5. TypeOK'
  BY <1>2, <1>4 DEF TypeOK, RunType, telegram
<1> QED
  BY <1>2, <1>5

\* approve_source enqueues the one initial backfill: there are no jobs before.
LEMMA ApproveInv ==
  ASSUME IInv, Approve
  PROVE  IInv'
<1>1. /\ jobs' = Enqueued(jobs, "initial_backfill", 0, 0)
      /\ UNCHANGED <<telegram, inbox, checkpoint, process, live, pc, run, bounds, top>>
      /\ lifecycle' = "monitoring" /\ lifecycle = "candidate"
  BY DEF Approve
<1>2. jobs = <<>>
  BY <1>1 DEF IInv, ChainInOrder
<1>3. /\ TypeOK'
      /\ \/ jobs' = jobs
         \/ /\ Len(jobs') = Len(jobs) + 1
            /\ \A j \in DOMAIN jobs : jobs'[j] = jobs[j]
            /\ jobs'[Len(jobs) + 1].type = "initial_backfill"
  <2>1. "initial_backfill" \in Reconciliation \cup Chain /\ 0 \in Nat
    BY DEF Chain
  <2>2. /\ {up', started', listening'} \subseteq BOOLEAN
        /\ buckets' \in Nat /\ faults' \in Nat /\ pauses' \in Nat
    BY <1>1 DEF IInv, TypeOK, process, bounds
  <2> QED
    BY <1>1, <2>1, <2>2, EnqueueTypes DEF IInv
<1> QED
  BY <1>1, <1>2, <1>3, AppendInv

\* A reconciliation is enqueued.
LEMMA EnqueueInv ==
  ASSUME IInv, EnqueueStartup \/ EnqueuePeriodic
  PROVE  IInv'
<1>1. PICK type \in Reconciliation : \E key \in Nat : EnqueueFor(type, key)
  BY DEF EnqueueStartup, EnqueuePeriodic, IInv, TypeOK, Reconciliation
<1>2. PICK key \in Nat : EnqueueFor(type, key)
  BY <1>1
<1>3. /\ UNCHANGED <<telegram, lifecycle, inbox, checkpoint, live, pc, run, top>>
      /\ {up', started', listening'} \subseteq BOOLEAN
      /\ buckets' \in Nat /\ faults' \in Nat /\ pauses' \in Nat
  <2>1. /\ UNCHANGED <<telegram, lifecycle, inbox, checkpoint, live, pc, run, top>>
        /\ up' = up /\ started' \in {started, TRUE} /\ listening' = listening
        /\ buckets' \in {buckets, buckets + 1} /\ faults' = faults /\ pauses' = pauses
    BY DEF EnqueueStartup, EnqueuePeriodic, process, bounds
  <2>2. /\ up \in BOOLEAN /\ started \in BOOLEAN /\ listening \in BOOLEAN
        /\ buckets \in Nat /\ faults \in Nat /\ pauses \in Nat
    BY DEF IInv, TypeOK
  <2>3. up' \in BOOLEAN /\ started' \in BOOLEAN /\ listening' \in BOOLEAN
    BY <2>1, <2>2
  <2>4. buckets' \in Nat /\ faults' \in Nat /\ pauses' \in Nat
    BY <2>1, <2>2
  <2> QED
    BY <2>1, <2>3, <2>4
<1>4. /\ TypeOK'
      /\ \/ jobs' = jobs
         \/ /\ Len(jobs') = Len(jobs) + 1
            /\ \A j \in DOMAIN jobs : jobs'[j] = jobs[j]
            /\ jobs'[Len(jobs) + 1].type = type
  <2>1. lifecycle' \in {"candidate", "monitoring", "paused", "disabled"}
    BY <1>3 DEF IInv, TypeOK
  <2>2. jobs' = Enqueued(jobs, type, key, 0) \/ jobs' = jobs
    BY <1>2 DEF EnqueueFor
  <2> QED
    BY <1>3, <2>1, <2>2, EnqueueTypes DEF IInv
<1>5. type # "continuation" /\ type # "initial_backfill"
  BY DEF Reconciliation
<1>6. CASE lifecycle = "monitoring"
  BY <1>3, <1>4, <1>5, <1>6, AppendInv
<1>7. CASE lifecycle # "monitoring"
  <2>1. jobs' = jobs
    BY <1>2, <1>7 DEF EnqueueFor
  <2>2. CheckpointCommitted'
    BY <1>3 DEF IInv, CheckpointCommitted, HasEnvelope
  <2> QED
    BY <1>3, <1>4, <2>1, <2>2, AsideQuiet, QuietInv
<1> QED
  BY <1>6, <1>7

\* The watchdog requeues.
LEMMA RecoverStaleInv ==
  ASSUME IInv, RecoverStale
  PROVE  IInv'
<1>1. /\ UNCHANGED <<telegram, lifecycle, inbox, checkpoint, process, live, pc, run,
                     bounds, top>>
      /\ \E S \in SUBSET MayBeStale : jobs' = Requeued(S)
  BY DEF RecoverStale
<1>2. PICK S \in SUBSET MayBeStale : jobs' = Requeued(S)
  BY <1>1
<1>3. /\ SameJobs(jobs')
      /\ \A j \in DOMAIN jobs : /\ jobs'[j].cum = jobs[j].cum
                                /\ jobs[j].state = "succeeded" => jobs'[j].state = "succeeded"
  BY <1>2, RequeuedRows DEF IInv
<1>4. jobs' \in Seq(JobRow) /\ Len(jobs') = Len(jobs)
  BY <1>3 DEF SameJobs
<1>5. TypeOK'
  BY <1>1, <1>4 DEF IInv, TypeOK, telegram, process, bounds
<1>6. CheckpointCommitted'
  BY <1>1 DEF IInv, CheckpointCommitted, HasEnvelope
<1>7. posted \in Nat
  BY DEF IInv, TypeOK
<1>8. Quiet
  BY <1>1, <1>3, <1>7 DEF IInv, Quiet, ChatPosted, telegram
<1> QED
  BY <1>5, <1>6, <1>8, QuietInv

-------------------------------------------------------------------------------
(* The collector loop *)

\* The loop takes a job that has not ended, and knows nothing of it yet.
LEMMA ClaimInv ==
  ASSUME IInv, Claim
  PROVE  IInv'
<1>1. PICK S \in SUBSET MayBeStale : \E j \in DOMAIN jobs :
           /\ MayClaim(Requeued(S), j)
           /\ jobs' = [Requeued(S) EXCEPT ![j].state = "running", ![j].leased = TRUE,
                           ![j].attempt = @ + 1]
           /\ run' = [NoRun EXCEPT !.job = j]
  BY DEF Claim
<1> DEFINE freed == Requeued(S)
<1>2. PICK j \in DOMAIN jobs :
           /\ MayClaim(freed, j)
           /\ jobs' = [freed EXCEPT ![j].state = "running", ![j].leased = TRUE,
                           ![j].attempt = @ + 1]
           /\ run' = [NoRun EXCEPT !.job = j]
  BY <1>1
<1>3. /\ SameJobs(freed)
      /\ \A k \in DOMAIN jobs : freed[k] = jobs[k] \/ jobs[k].state = "running"
  BY RequeuedRows DEF IInv
<1> DEFINE r == [freed[j] EXCEPT !.state = "running", !.leased = TRUE,
                                  !.attempt = freed[j].attempt + 1]
<1>4. /\ r \in JobRow /\ r.type = jobs[j].type /\ r.key = jobs[j].key
      /\ jobs' = [freed EXCEPT ![j] = r]
  <2>1. freed[j] \in JobRow /\ freed[j].type = jobs[j].type /\ freed[j].key = jobs[j].key
    BY <1>3 DEF SameJobs
  <2>2. r \in JobRow /\ r.type = jobs[j].type /\ r.key = jobs[j].key
    <3>1. "running" \in JobState /\ freed[j].attempt + 1 \in Nat
      BY <2>1 DEF JobRow, JobState
    <3> QED
      BY <2>1, <3>1, Zenon DEF JobRow, JobState
  <2>3. jobs' = [freed EXCEPT ![j] = r]
    BY <1>2
  <2> QED
    BY <2>2, <2>3
<1> HIDE DEF r, freed
<1>5. /\ SameJobs([freed EXCEPT ![j] = r])
      /\ \A k \in DOMAIN jobs : k # j => [freed EXCEPT ![j] = r][k] = freed[k]
  <2>1. TypeOK /\ SameJobs(freed) /\ j \in DOMAIN jobs
    BY <1>3 DEF IInv
  <2>2. r \in JobRow /\ r.type = jobs[j].type /\ r.key = jobs[j].key
    BY <1>4
  <2> QED
    BY <2>1, <2>2, RowReplaced
<1>6. SameJobs(jobs') /\ \A k \in DOMAIN jobs : k # j => jobs'[k] = freed[k]
  BY <1>4, <1>5, Zenon
<1>7. freed[j].state \in {"queued", "retry_wait"}
  BY <1>2 DEF MayClaim
<1>8. jobs[j].state # "succeeded"
  BY <1>3, <1>7
<1>9. \A k \in DOMAIN jobs : jobs[k].state = "succeeded" => jobs'[k].state = "succeeded"
  BY <1>3, <1>6, <1>8
<1>10. /\ run'.job = j /\ run'.got = {} /\ run'.todo = {} /\ pc' = "claimed"
       /\ run' \in RunType(jobs)
       /\ UNCHANGED <<telegram, lifecycle, inbox, checkpoint, process, live, bounds, top>>
  <2>1. j \in 0 .. Len(jobs)
    BY DEF IInv, TypeOK
  <2> QED
    BY <1>2, <2>1 DEF NoRun, Claim, RunType
<1>11. jobs' \in Seq(JobRow) /\ Len(jobs') = Len(jobs)
  BY <1>6 DEF SameJobs
<1>12. TypeOK'
  BY <1>10, <1>11 DEF IInv, TypeOK, RunType, telegram, process, bounds
<1>13. CheckpointCommitted'
  BY <1>10 DEF IInv, CheckpointCommitted, HasEnvelope
<1>14. posted \in Nat
  BY DEF IInv, TypeOK
<1>15. Quiet
  BY <1>6, <1>8, <1>9, <1>10, <1>14 DEF IInv, Quiet, ChatPosted, telegram
<1> QED
  BY <1>12, <1>13, <1>15, QuietInv

\* A turn that ends, its job in whatever state, and that stores nothing.
LEMMA EndTurnInv ==
  ASSUME IInv, Done, SameJobs(jobs'),
         \A k \in DOMAIN jobs : k # run.job => jobs'[k] = jobs[k],
         pc # "idle",
         UNCHANGED <<telegram, lifecycle, inbox, checkpoint, process, live, buckets, pauses, top>>,
         faults' \in Nat
  PROVE  IInv'
<1>1. pc' = "idle" /\ run' = NoRun /\ jobs' \in Seq(JobRow) /\ Len(jobs') = Len(jobs)
  BY DEF Done, SameJobs
<1>2. run' \in RunType(jobs)
  BY <1>1, NoRunType DEF IInv, TypeOK
<1>3. TypeOK'
  BY <1>1, <1>2 DEF IInv, TypeOK, telegram, process, RunType
<1>4. CheckpointCommitted'
  BY DEF IInv, CheckpointCommitted, HasEnvelope
<1>5. posted \in Nat
  BY DEF IInv, TypeOK
<1>6. Quiet
  BY <1>1, <1>5 DEF IInv, Quiet, ChatPosted, telegram
<1> QED
  BY <1>3, <1>4, <1>6, QuietInv

\* The row of the run in progress.
LEMMA RowOfRun ==
  ASSUME IInv, pc # "idle"
  PROVE  /\ run.job \in DOMAIN jobs /\ Row = jobs[run.job] /\ SameJobs(jobs)
         /\ Row \in JobRow /\ Row.key \in Nat /\ Row.cum \in Nat /\ Row.attempt \in Nat
         /\ Row.type \in Reconciliation \cup Chain
  BY RowTypes DEF IInv, ChainInOrder, Row

\* The request fails, or Telegram asks to wait.
LEMMA RequestFailsInv ==
  ASSUME IInv, FloodWait \/ Transient \/ GatewayError
  PROVE  IInv'
<1>1. /\ pc # "idle" /\ Done /\ faults' \in Nat
      /\ UNCHANGED <<telegram, lifecycle, inbox, checkpoint, process, live, buckets, pauses, top>>
  BY DEF IInv, TypeOK, FloodWait, Transient, GatewayError, bounds
<1>2. run.job \in DOMAIN jobs /\ jobs[run.job] \in JobRow /\ SameJobs(jobs)
  BY <1>1, RowOfRun
<1>3. CASE FloodWait
  <2> DEFINE j == run.job
             r == [jobs[j] EXCEPT !.state = "retry_wait",
                                  !.leased = jobs[j].leased /\ "retry_wait" = "running",
                                  !.attempt = Refunded(jobs[j].attempt)]
  <2>1. r \in JobRow /\ r.type = jobs[j].type /\ r.key = jobs[j].key
    <3>1. /\ "retry_wait" \in JobState /\ Refunded(jobs[j].attempt) \in Nat
          /\ (jobs[j].leased /\ "retry_wait" = "running") \in BOOLEAN
      BY <1>2 DEF JobRow, JobState, Refunded
    <3> QED
      BY <1>2, <3>1, Zenon DEF JobRow, JobState
  <2>2. jobs' = [jobs EXCEPT ![j] = r]
    BY <1>2, <1>3 DEF FloodWait, SetState
  <2> HIDE DEF r
  <2>3. /\ SameJobs([jobs EXCEPT ![j] = r])
        /\ \A k \in DOMAIN jobs : k # j => [jobs EXCEPT ![j] = r][k] = jobs[k]
    BY <1>2, <2>1, RowReplaced, Zenon DEF IInv
  <2>4. SameJobs(jobs') /\ \A k \in DOMAIN jobs : k # run.job => jobs'[k] = jobs[k]
    BY <2>2, <2>3, Zenon
  <2> QED
    BY <1>1, <2>4, EndTurnInv
<1>4. CASE Transient
  <2>1. PICK s \in JobState : jobs' = SetState(run.job, s)
    BY <1>4 DEF Transient, JobState, Finished
  <2>2. SameJobs(jobs') /\ \A k \in DOMAIN jobs : k # run.job => jobs'[k] = jobs[k]
    BY <1>2, <2>1, SetStateRows, Zenon DEF IInv
  <2> QED
    BY <1>1, <2>2, EndTurnInv
<1>5. CASE GatewayError
  <2>1. jobs' = jobs
    BY <1>5 DEF GatewayError
  <2> QED
    BY <1>1, <1>2, <2>1, EndTurnInv
<1> QED
  BY <1>3, <1>4, <1>5

\* The request is made out for the row, or the job of an idle source fails.
LEMMA PrepareInv ==
  ASSUME IInv, Prepare
  PROVE  IInv'
<1>1. /\ pc = "claimed"
      /\ UNCHANGED <<telegram, lifecycle, inbox, checkpoint, process, live, bounds, top>>
      /\ faults' \in Nat
  BY DEF IInv, TypeOK, Prepare, bounds
<1>2. /\ run.job \in DOMAIN jobs /\ Row = jobs[run.job] /\ SameJobs(jobs)
      /\ Row.key \in Nat /\ Row.type \in Reconciliation \cup Chain
  BY <1>1, RowOfRun
<1>3. CASE jobs' = SetState(run.job, "failed") /\ Done
  <2>1. PICK s \in JobState : jobs' = SetState(run.job, s)
    BY <1>3 DEF JobState, Finished
  <2>2. SameJobs(jobs') /\ \A k \in DOMAIN jobs : k # run.job => jobs'[k] = jobs[k]
    BY <1>2, <2>1, SetStateRows, Zenon DEF IInv
  <2>3. pc # "idle" /\ buckets' = buckets /\ pauses' = pauses
    BY <1>1 DEF bounds
  <2> QED
    BY <1>1, <1>3, <2>2, <2>3, EndTurnInv
<1>4. CASE MayPrepare /\ jobs' = SetState(run.job, "running") /\ pc' = "prepared" /\ run' = Request
  <2>1. PICK s \in JobState : jobs' = SetState(run.job, s)
    BY <1>4 DEF JobState
  <2>2. SameJobs(jobs') /\ \A k \in DOMAIN jobs : k # run.job => jobs'[k] = jobs[k]
    BY <1>2, <2>1, SetStateRows, Zenon DEF IInv
  <2>3. /\ jobs' \in Seq(JobRow) /\ Len(jobs') = Len(jobs) /\ DOMAIN jobs' = DOMAIN jobs
        /\ \A j \in DOMAIN jobs : jobs'[j].type = jobs[j].type /\ jobs'[j].key = jobs[j].key
    BY <2>2 DEF SameJobs
  <2>4. run \in RunType(jobs) /\ MaxMsg \in Nat /\ checkpoint \in Nat
    BY CollectorAssumption DEF IInv, TypeOK, RunType
  <2>5. /\ run'.job = run.job /\ run'.got = run.got /\ run'.todo = run.todo
        /\ run'.after = IF Row.type \in Reconciliation THEN checkpoint ELSE 0
        /\ run'.before = IF Row.type = "continuation" THEN Row.key ELSE MaxMsg + 1
        /\ run' \in RunType(jobs)
    <3>1. {PageLimit, StartupLimit, PeriodicLimit} \subseteq Nat
      BY CollectorAssumption
    <3>2. (CASE Row.type = "startup_reconciliation" -> StartupLimit
             [] Row.type = "periodic_reconciliation" -> PeriodicLimit
             [] OTHER -> PageLimit) \in Nat
      BY <3>1
    <3> DEFINE a == IF Row.type \in Reconciliation THEN checkpoint ELSE 0
               b == IF Row.type = "continuation" THEN Row.key ELSE MaxMsg + 1
               n == CASE Row.type = "startup_reconciliation" -> StartupLimit
                      [] Row.type = "periodic_reconciliation" -> PeriodicLimit
                      [] OTHER -> PageLimit
    <3>3. a \in Nat /\ b \in Nat /\ n \in Nat
      BY <1>2, <2>4, <3>2
    <3>4. run' = [run EXCEPT !.after = a, !.before = b, !.limit = n]
      BY <1>4 DEF Request
    <3> HIDE DEF a, b, n
    <3>5. /\ run'.job = run.job /\ run'.got = run.got /\ run'.todo = run.todo
          /\ run'.after = a /\ run'.before = b /\ run' \in RunType(jobs)
      BY <2>4, <3>3, <3>4 DEF RunType
    <3> QED
      BY <3>5 DEF a, b
  <2>6. TypeOK'
    BY <1>1, <1>4, <2>3, <2>5 DEF IInv, TypeOK, RunType, telegram, process, bounds
  <2>7. CheckpointCommitted'
    BY <1>1 DEF IInv, CheckpointCommitted, HasEnvelope
  <2>8. ContinuationLeavesNoHole'
    BY <1>1, <2>3 DEF IInv, ContinuationLeavesNoHole, HasEnvelope, telegram
  <2>9. ChatPosted' /\ PageStored'
    BY <1>1, <2>5 DEF IInv, ChatPosted, PageStored, HasEnvelope, telegram
  <2>10. ChainInOrder'
    <3>1. lifecycle' # "candidate" /\ run'.job \in DOMAIN jobs'
      BY <1>1, <1>2, <1>4, <2>3, <2>5 DEF MayPrepare
    <3>2. \A j, k \in DOMAIN jobs' :
             jobs'[j].type = "initial_backfill" /\ jobs'[k].type = "initial_backfill" => j = k
      BY <2>3 DEF IInv, ChainInOrder, IsInitial
    <3>3. ASSUME NEW j \in DOMAIN jobs', NEW k \in DOMAIN jobs',
                 jobs'[j].type = "continuation", jobs'[k].type = "initial_backfill"
          PROVE  jobs'[k].state = "succeeded" /\ run'.job # k
      BY <1>1, <2>2, <2>3, <2>5, <3>3 DEF IInv, ChainInOrder, IsInitial, IsContinuation
    <3> QED
      BY <3>1, <3>2, <3>3 DEF ChainInOrder, IsInitial, IsContinuation
  <2>11. RequestOfRow'
    <3>1. Row'.type = Row.type /\ Row'.key = Row.key
      BY <1>2, <2>3, <2>5 DEF Row
    <3>2. Row.type \in Chain => Row.type \notin Reconciliation
      BY DEF Chain, Reconciliation
    <3> QED
      BY <2>5, <3>1, <3>2 DEF RequestOfRow
  <2>12. ChainPageWhole' /\ ReconciledPageWhole'
    BY <1>4 DEF ChainPageWhole, ReconciledPageWhole
  <2> QED
    BY <2>6, <2>7, <2>8, <2>9, <2>10, <2>11, <2>12 DEF IInv
<1> QED
  BY <1>3, <1>4 DEF Prepare

\* A page: the newest messages between the bounds of the request.
Span == {m \in chat : run.after < m /\ m < run.before}

\* What a page is, and what is kept of it.
LEMMA PageFacts ==
  ASSUME IInv, pc # "idle"
  PROVE  /\ Span \in SUBSET Msg /\ Page = Newest(Span, run.limit)
         /\ Page \subseteq chat /\ Page \subseteq 1 .. posted /\ Page \subseteq Msg
         /\ Accepted(Page) \subseteq Page
<1>1. chat \subseteq Msg /\ chat \subseteq 1 .. posted
  BY DEF IInv, TypeOK, ChatPosted
<1>2. Page = Newest(Span, run.limit) /\ Newest(Span, run.limit) \subseteq Span /\ Span \subseteq chat
  BY DEF Page, Newest, Span
<1>3. Accepted(Page) \subseteq Page
  BY DEF Accepted, Oldest
<1> QED
  BY <1>1, <1>2, <1>3

\* The page of a backfill job that neither the window nor the cap on the chain cuts
\* holds every message of the chat from any of its own to the one it goes back from.
LEMMA ChainPage ==
  ASSUME IInv, pc = "prepared", Row.type \in Chain,
         Row.cum + Cardinality(Accepted(Page)) < MaxBackfill,
         NEW x \in Accepted(Page), NEW m \in chat, x <= m, m < run.before
  PROVE  m \in Accepted(Page)
<1>1. /\ Span \in SUBSET Msg /\ Page = Newest(Span, run.limit) /\ Page \subseteq Msg
      /\ Accepted(Page) \subseteq Page /\ x \in Page
  BY PageFacts
<1>2. run.after = 0 /\ run.limit \in Nat /\ m \in Msg /\ Row.cum \in Nat /\ MaxBackfill \in Nat
  BY RowOfRun, CollectorAssumption DEF IInv, TypeOK, RequestOfRow
<1>3. m \in Span
  BY <1>2 DEF Span, Msg
<1>4. m \in Page
  BY <1>1, <1>2, <1>3, NewestUpward
<1>5. Accepted(Page) = Oldest(Page, MaxBackfill - Row.cum)
  BY DEF Accepted
<1>6. Cardinality(Accepted(Page)) \in Nat
  BY <1>1, MessagesFinite
<1>7. /\ Cardinality(Oldest(Page, MaxBackfill - Row.cum)) < MaxBackfill - Row.cum
      /\ MaxBackfill - Row.cum \in Int
  BY <1>2, <1>5, <1>6
<1>8. Oldest(Page, MaxBackfill - Row.cum) = Page
  BY <1>1, <1>7, OldestIsAll
<1> QED
  BY <1>4, <1>5, <1>8

\* The page of a reconciliation, when it is not full, holds every message of the chat
\* between the checkpoint and any of its own.
LEMMA ReconciledPage ==
  ASSUME IInv, pc = "prepared", Row.type \in Reconciliation,
         Cardinality(Page) # run.limit,
         NEW x \in Accepted(Page), NEW m \in chat, run.after < m, m <= x
  PROVE  m \in Accepted(Page)
<1>1. /\ Span \in SUBSET Msg /\ Page = Newest(Span, run.limit)
      /\ Accepted(Page) \subseteq Page /\ x \in Page
  BY PageFacts
<1>2. run.limit \in Nat
  BY DEF IInv, TypeOK
<1>3. Page = Span
  BY <1>1, <1>2, NewestIsAll
<1>4. m \in Nat /\ x \in Nat /\ x < run.before /\ run.before \in Nat
  <2>1. x < run.before /\ m \in Msg /\ x \in Msg
    BY <1>1, <1>3 DEF Span, IInv, TypeOK
  <2>2. run.before \in Nat
    BY DEF IInv, TypeOK
  <2> QED
    BY <2>1, <2>2 DEF Msg
<1>5. m \in Span
  BY <1>4 DEF Span
<1>6. Row.type \notin Chain
  BY DEF Chain, Reconciliation
<1> QED
  BY <1>3, <1>5, <1>6 DEF Accepted

\* A page is read.
LEMMA FetchInv ==
  ASSUME IInv, Fetch
  PROVE  IInv'
<1>1. /\ pc = "prepared" /\ pc' = "persist"
      /\ UNCHANGED <<telegram, lifecycle, inbox, checkpoint, jobs, process, live, bounds>>
  BY DEF Fetch
<1>2. /\ run.job \in DOMAIN jobs /\ Row = jobs[run.job]
      /\ Row.type \in Reconciliation \cup Chain
  BY <1>1, RowOfRun
<1>3. /\ Page \subseteq 1 .. posted /\ Page \subseteq Msg /\ Accepted(Page) \subseteq Page
  BY <1>1, PageFacts
<1>4. /\ run'.job = run.job /\ run'.after = run.after /\ run'.before = run.before
      /\ run'.got = Accepted(Page) /\ run'.todo = Accepted(Page)
      /\ run'.full = (Cardinality(Page) = run.limit)
      /\ run' \in RunType(jobs)
  <2> DEFINE got  == Accepted(Page)
             full == Cardinality(Page) = run.limit
             hit  == HitWindow(Page)
  <2>1. got \subseteq Msg
    BY <1>3
  <2>2. full \in BOOLEAN /\ hit \in BOOLEAN
    BY DEF HitWindow
  <2>3. run' = [run EXCEPT !.got = got, !.todo = got, !.full = full, !.hit = hit]
    BY DEF Fetch
  <2>4. run \in RunType(jobs)
    BY DEF IInv, TypeOK, RunType
  <2> HIDE DEF got, full, hit
  <2>5. /\ run'.job = run.job /\ run'.after = run.after /\ run'.before = run.before
        /\ run'.got = got /\ run'.todo = got /\ run'.full = full
        /\ run' \in RunType(jobs)
    BY <2>1, <2>2, <2>3, <2>4, Zenon DEF RunType
  <2> QED
    BY <2>5 DEF got, full
<1>5. /\ top' \in Nat /\ top' <= posted
      /\ Row.type # "initial_backfill" => top' = top
  <2>1. posted \in Nat /\ top \in Nat /\ top <= posted
    BY DEF IInv, TypeOK, ChatPosted
  <2>2. CASE Row.type = "initial_backfill"
    <3> DEFINE T == Page \cup {0}
    <3>1. top' = Max(T)
      BY <2>2 DEF Fetch
    <3>2. T \in SUBSET (0 .. posted) /\ T # {}
      BY <1>3, <2>1
    <3> HIDE DEF T
    <3>3. top' \in T
      BY <2>1, <3>1, <3>2, MaxIsGreatest
    <3>4. top' \in 0 .. posted
      BY <3>2, <3>3
    <3> QED
      BY <2>1, <2>2, <3>4
  <2>3. CASE Row.type # "initial_backfill"
    BY <2>1, <2>3 DEF Fetch
  <2> QED
    BY <2>2, <2>3
<1>6. TypeOK'
  BY <1>1, <1>4, <1>5 DEF IInv, TypeOK, RunType, telegram, process, bounds
<1>7. CheckpointCommitted'
  BY <1>1 DEF IInv, CheckpointCommitted, HasEnvelope
<1>8. ContinuationLeavesNoHole'
  <2> SUFFICES ASSUME NEW j \in DOMAIN jobs, jobs[j].type = "continuation",
                      NEW m \in chat, jobs[j].key <= m, m <= top'
               PROVE  HasEnvelope(m)
    BY <1>1 DEF ContinuationLeavesNoHole, HasEnvelope, telegram
  <2>1. Row.type # "initial_backfill"
    BY <1>1, <1>2 DEF IInv, ChainInOrder, IsInitial, IsContinuation
  <2> QED
    BY <1>5, <2>1 DEF IInv, ContinuationLeavesNoHole
<1>9. ChatPosted'
  BY <1>1, <1>3, <1>4, <1>5 DEF IInv, ChatPosted, telegram
<1>10. ChainInOrder'
  BY <1>1, <1>4 DEF IInv, ChainInOrder, IsInitial, IsContinuation
<1>11. Row' = Row
  BY <1>1, <1>4 DEF Row
<1>12. RequestOfRow'
  BY <1>1, <1>4, <1>11 DEF IInv, RequestOfRow
<1>13. PageStored'
  BY <1>4 DEF PageStored
<1>14. ChainPageWhole'
  <2> SUFFICES ASSUME Row.type \in Chain,
                      Row.cum + Cardinality(Accepted(Page)) < MaxBackfill,
                      NEW x \in Accepted(Page), NEW m \in chat, x <= m, m < run.before
               PROVE  m \in Accepted(Page)
    BY <1>1, <1>4, <1>11 DEF ChainPageWhole, telegram
  <2> QED
    BY <1>1, ChainPage
<1>15. ReconciledPageWhole'
  <2> SUFFICES ASSUME Row.type \in Reconciliation, Cardinality(Page) # run.limit,
                      NEW x \in Accepted(Page), NEW m \in chat, run.after < m, m <= x
               PROVE  m \in Accepted(Page)
    BY <1>1, <1>4, <1>11 DEF ReconciledPageWhole, telegram
  <2> QED
    BY <1>1, ReconciledPage
<1> QED
  BY <1>6, <1>7, <1>8, <1>9, <1>10, <1>12, <1>13, <1>14, <1>15 DEF IInv

\* A batch of the page is committed.
LEMMA PersistBatchInv ==
  ASSUME IInv, PersistBatch
  PROVE  IInv'
<1> DEFINE batch == Oldest(run.todo, Batch)
<1>1. /\ pc = "persist" /\ Commit("message_new", batch)
      /\ run' = [run EXCEPT !.todo = run.todo \ batch]
      /\ UNCHANGED <<telegram, lifecycle, jobs, process, live, pc, bounds, top>>
  BY DEF PersistBatch
<1>2. batch \subseteq run.todo /\ run.todo \subseteq Msg /\ run.todo \subseteq run.got
  BY DEF Oldest, IInv, TypeOK, PageStored
<1> HIDE DEF batch
<1>3. /\ inbox' \subseteq [type : EventType, msg : Msg] /\ inbox \subseteq inbox'
      /\ \A m \in batch : HasEnvelope(m)'
      /\ checkpoint' \in 0 .. MaxMsg
      /\ CheckpointCommitted'
  <2>1. PICK type \in EventType : type = "message_new"
    BY DEF EventType
  <2>2. batch \in SUBSET Msg /\ Commit(type, batch) /\ TypeOK /\ CheckpointCommitted
    BY <1>1, <1>2, <2>1 DEF IInv
  <2> QED
    BY <2>1, <2>2, CommitKeeps
<1>4. /\ run'.job = run.job /\ run'.after = run.after /\ run'.before = run.before
      /\ run'.got = run.got /\ run'.todo = run.todo \ batch /\ run'.full = run.full
      /\ run' \in RunType(jobs)
  <2>1. run \in RunType(jobs) /\ run.todo \ batch \subseteq Msg
    BY <1>2 DEF IInv, TypeOK, RunType
  <2> QED
    BY <1>1, <2>1 DEF RunType
<1>5. TypeOK'
  BY <1>1, <1>3, <1>4 DEF IInv, TypeOK, RunType, telegram, process, bounds
<1>6. ContinuationLeavesNoHole'
  <2> SUFFICES ASSUME NEW j \in DOMAIN jobs, jobs[j].type = "continuation",
                      NEW m \in chat, jobs[j].key <= m, m <= top
               PROVE  HasEnvelope(m)'
    BY <1>1 DEF ContinuationLeavesNoHole, HasEnvelope, telegram
  <2>1. HasEnvelope(m)
    BY DEF IInv, ContinuationLeavesNoHole
  <2> QED
    BY <1>3, <2>1, EnvelopeStays
<1>7. ChatPosted' /\ ChainInOrder'
  BY <1>1, <1>4 DEF IInv, ChatPosted, ChainInOrder, IsInitial, IsContinuation, telegram
<1>8. Row' = Row
  BY <1>1, <1>4 DEF Row
<1>9. RequestOfRow'
  BY <1>1, <1>4, <1>8 DEF IInv, RequestOfRow
<1>10. PageStored'
  <2> SUFFICES ASSUME NEW m \in run.got, m \notin run.todo \ batch
               PROVE  HasEnvelope(m)'
    BY <1>2, <1>4 DEF PageStored, HasEnvelope
  <2>1. CASE m \in batch
    BY <1>3, <2>1
  <2>2. CASE m \notin run.todo
    <3>1. HasEnvelope(m)
      BY <2>2 DEF IInv, PageStored
    <3> QED
      BY <1>3, <3>1, EnvelopeStays
  <2> QED
    BY <2>1, <2>2
<1>11. ChainPageWhole' /\ ReconciledPageWhole'
  BY <1>1, <1>4, <1>8 DEF IInv, ChainPageWhole, ReconciledPageWhole, telegram
<1> QED
  BY <1>3, <1>5, <1>6, <1>7, <1>9, <1>10, <1>11 DEF IInv

\* What a job that succeeds leaves: its row, and a row for the rest of the chain when
\* there is one.
LEMMA FinalizeRows ==
  ASSUME IInv, Finalize, lifecycle = "monitoring"
  PROVE  \E rows :
           /\ SameJobs(rows)
           /\ rows[run.job].state = "succeeded"
           /\ \A k \in DOMAIN jobs : k # run.job => rows[k] = jobs[k]
           /\ \/ jobs' = rows
              \/ /\ Continues
                 /\ \E r \in JobRow : /\ r.type = "continuation" /\ r.key = Min(run.got)
                                      /\ jobs' = Append(rows, r)
<1> DEFINE total == Row.cum + Cardinality(run.got)
           job   == [jobs[run.job] EXCEPT !.state = "succeeded",
                                          !.leased = FALSE,
                                          !.cum = total]
           rows  == [jobs EXCEPT ![run.job] = job]
<1>1. pc = "persist"
  BY DEF Finalize
<1>2. /\ run.job \in DOMAIN jobs /\ jobs[run.job] \in JobRow /\ SameJobs(jobs)
      /\ Row.cum \in Nat
  BY <1>1, RowOfRun
<1>10. jobs' = IF Continues THEN Enqueued(rows, "continuation", Min(run.got), total) ELSE rows
  <2>1. rows = [SetState(run.job, "succeeded") EXCEPT ![run.job].cum = total]
    BY <1>2 DEF SetState
  <2> QED
    BY <2>1 DEF Finalize
<1>3. run.got \in SUBSET Msg
  BY DEF IInv, TypeOK
<1>4. total \in Nat
  BY <1>2, <1>3, MessagesFinite
<1>5. /\ job \in JobRow /\ job.state = "succeeded"
      /\ job.type = jobs[run.job].type /\ job.key = jobs[run.job].key
  <2> HIDE DEF total
  <2>1. "succeeded" \in JobState
    BY DEF JobState, Finished
  <2> QED
    BY <1>2, <1>4, <2>1, Zenon DEF JobRow, JobState
<1> HIDE DEF job, total
<1>6. /\ SameJobs(rows) /\ rows[run.job] = job
      /\ \A k \in DOMAIN jobs : k # run.job => rows[k] = jobs[k]
  BY <1>2, <1>5, RowReplaced, Zenon DEF IInv
<1> HIDE DEF rows
<1>7. rows[run.job].state = "succeeded"
  BY <1>5, <1>6
<1>8. \/ jobs' = rows
      \/ /\ Continues
         /\ \E r \in JobRow : /\ r.type = "continuation" /\ r.key = Min(run.got)
                              /\ jobs' = Append(rows, r)
  <2>1. CASE ~Continues
    BY <1>10, <2>1
  <2>2. CASE Continues
    <3>1. run.got # {} /\ run.got \in SUBSET Nat
      BY <1>3, <2>2 DEF Continues, Msg
    <3>2. Min(run.got) \in Nat
      BY <3>1, MinIsLeast
    <3>3. rows \in Seq(JobRow) /\ "continuation" \in Reconciliation \cup Chain
      BY <1>6 DEF SameJobs, Chain
    <3>4. jobs' = Enqueued(rows, "continuation", Min(run.got), total)
      BY <1>10, <2>2
    <3> QED
      BY <1>4, <2>2, <3>2, <3>3, <3>4, EnqueuedRows
  <2> QED
    BY <2>1, <2>2
<1> QED
  BY <1>6, <1>7, <1>8

\* What is in the inbox when a chain job's page is: the rest of the chat, up to the
\* newest message of the first page.
LEMMA ChainStored ==
  ASSUME IInv, Finalize, Continues, NEW m \in chat, Min(run.got) <= m, m <= top
  PROVE  HasEnvelope(m)
<1>1. /\ pc = "persist" /\ run.todo = {} /\ run.got # {} /\ Row.type \in Chain
      /\ Row.cum + Cardinality(run.got) < MaxBackfill
  BY DEF Finalize, Persisted, Continues
<1>2. run.got \in SUBSET Nat /\ m \in Msg
  BY DEF IInv, TypeOK, Msg
<1>3. Min(run.got) \in run.got
  BY <1>1, <1>2, MinIsLeast
<1>4. run.job \in DOMAIN jobs /\ Row = jobs[run.job]
  BY <1>1, RowOfRun
<1>5. CASE m < run.before
  <2>1. m \in run.got
    BY <1>1, <1>3, <1>5 DEF IInv, ChainPageWhole
  <2> QED
    BY <1>1, <2>1 DEF IInv, PageStored
<1>6. CASE ~(m < run.before)
  <2>1. Row.type = "continuation" /\ run.before = Row.key
    BY <1>1, <1>2, <1>6, CollectorAssumption DEF IInv, RequestOfRow, Msg
  <2>2. jobs[run.job].key <= m
    <3>1. jobs[run.job].key \in Nat
      BY <1>4, RowTypes DEF IInv
    <3> QED
      BY <1>2, <1>4, <1>6, <2>1, <3>1 DEF Msg
  <2> QED
    BY <1>4, <2>1, <2>2 DEF IInv, ContinuationLeavesNoHole
<1> QED
  BY <1>5, <1>6

\* A job ends, and the chain goes on from where its page began.
LEMMA FinalizeInv ==
  ASSUME IInv, Finalize
  PROVE  IInv'
<1>1. /\ pc = "persist" /\ Done /\ faults' \in Nat
      /\ UNCHANGED <<telegram, lifecycle, inbox, checkpoint, process, live, bounds, top>>
  BY DEF Finalize, IInv, TypeOK, bounds
<1>2. /\ run.job \in DOMAIN jobs /\ Row = jobs[run.job] /\ SameJobs(jobs)
  BY <1>1, RowOfRun
<1>3. CASE lifecycle # "monitoring"
  <2>1. PICK s \in JobState : jobs' = SetState(run.job, s)
    BY <1>3 DEF Finalize, JobState, Finished
  <2>2. SameJobs(jobs') /\ \A k \in DOMAIN jobs : k # run.job => jobs'[k] = jobs[k]
    BY <1>2, <2>1, SetStateRows, Zenon DEF IInv
  <2>3. pc # "idle" /\ buckets' = buckets /\ pauses' = pauses
    BY <1>1 DEF bounds
  <2> QED
    BY <1>1, <2>2, <2>3, EndTurnInv
<1>4. CASE lifecycle = "monitoring"
  <2>1. PICK rows :
           /\ SameJobs(rows)
           /\ rows[run.job].state = "succeeded"
           /\ \A k \in DOMAIN jobs : k # run.job => rows[k] = jobs[k]
           /\ \/ jobs' = rows
              \/ /\ Continues
                 /\ \E r \in JobRow : /\ r.type = "continuation" /\ r.key = Min(run.got)
                                      /\ jobs' = Append(rows, r)
    BY <1>4, FinalizeRows
  <2>2. CASE jobs' = rows
    <3>1. pc # "idle" /\ buckets' = buckets /\ pauses' = pauses
      BY <1>1 DEF bounds
    <3> QED
      BY <1>1, <2>1, <2>2, <3>1, EndTurnInv
  <2>3. CASE /\ Continues
             /\ \E r \in JobRow : /\ r.type = "continuation" /\ r.key = Min(run.got)
                                  /\ jobs' = Append(rows, r)
    <3>1. PICK r \in JobRow : /\ r.type = "continuation" /\ r.key = Min(run.got)
                              /\ jobs' = Append(rows, r)
      BY <2>3
    <3>2. /\ rows \in Seq(JobRow) /\ Len(rows) = Len(jobs) /\ DOMAIN rows = DOMAIN jobs
          /\ DOMAIN jobs = 1 .. Len(jobs) /\ Len(jobs) \in Nat
          /\ \A k \in DOMAIN jobs : rows[k].type = jobs[k].type /\ rows[k].key = jobs[k].key
      BY <2>1 DEF SameJobs, IInv, TypeOK
    <3>3. /\ jobs' \in Seq(JobRow) /\ Len(jobs') = Len(jobs) + 1
          /\ \A k \in DOMAIN jobs : jobs'[k] = rows[k]
          /\ jobs'[Len(jobs) + 1] = r
          /\ DOMAIN jobs' = 1 .. Len(jobs) + 1
      BY <3>1, <3>2
    <3>4. \A k \in DOMAIN jobs' : k \in DOMAIN jobs \/ k = Len(jobs) + 1
      BY <3>2, <3>3
    <3>5. pc' = "idle" /\ run' = NoRun
      BY <1>1 DEF Done
    <3>6. TypeOK'
      <4>1. NoRun \in RunType(jobs')
        BY <3>3, NoRunType
      <4> QED
        BY <1>1, <3>3, <3>5, <4>1 DEF IInv, TypeOK, RunType, telegram, process, bounds
    <3>7. CheckpointCommitted'
      BY <1>1 DEF IInv, CheckpointCommitted, HasEnvelope
    <3>8. ContinuationLeavesNoHole'
      <4> SUFFICES ASSUME NEW j \in DOMAIN jobs', jobs'[j].type = "continuation",
                          NEW m \in chat, jobs'[j].key <= m, m <= top
                   PROVE  HasEnvelope(m)
        BY <1>1 DEF ContinuationLeavesNoHole, HasEnvelope, telegram
      <4>1. CASE j \in DOMAIN jobs
        <5>1. jobs[j].type = "continuation" /\ jobs[j].key <= m
          BY <3>2, <3>3, <4>1
        <5> QED
          BY <4>1, <5>1 DEF IInv, ContinuationLeavesNoHole
      <4>2. CASE j = Len(jobs) + 1
        <5>1. Min(run.got) <= m
          BY <3>1, <3>3, <4>2
        <5> QED
          BY <2>3, <5>1, ChainStored
      <4> QED
        BY <3>4, <4>1, <4>2
    <3>9. ChatPosted' /\ PageStored'
      BY <1>1, <3>5 DEF IInv, ChatPosted, PageStored, NoRun, telegram
    <3>10. ChainInOrder'
      <4>1. lifecycle' # "candidate"
        BY <1>1, <1>4
      <4>2. \A k \in DOMAIN jobs' :
               jobs'[k].type = "initial_backfill" =>
                 k \in DOMAIN jobs /\ jobs[k].type = "initial_backfill"
        BY <3>1, <3>2, <3>3, <3>4
      <4>3. \A j, k \in DOMAIN jobs' :
               jobs'[j].type = "initial_backfill" /\ jobs'[k].type = "initial_backfill" => j = k
        BY <4>2 DEF IInv, ChainInOrder, IsInitial
      <4>4. ASSUME NEW j \in DOMAIN jobs', NEW k \in DOMAIN jobs',
                   jobs'[j].type = "continuation", jobs'[k].type = "initial_backfill"
            PROVE  jobs'[k].state = "succeeded"
        <5>1. k \in DOMAIN jobs /\ jobs[k].type = "initial_backfill" /\ jobs'[k] = rows[k]
          BY <3>3, <4>2, <4>4
        <5>2. CASE k = run.job
          BY <2>1, <5>1, <5>2
        <5>3. CASE k # run.job
          <6>1. Row.type = "continuation"
            <7>1. Row.type # "initial_backfill"
              BY <1>2, <5>1, <5>3 DEF IInv, ChainInOrder, IsInitial
            <7> QED
              BY <2>3, <7>1 DEF Continues, Chain
          <6>2. jobs[k].state = "succeeded"
            BY <1>2, <5>1, <6>1 DEF IInv, ChainInOrder, IsInitial, IsContinuation
          <6> QED
            BY <2>1, <5>1, <5>3, <6>2
        <5> QED
          BY <5>2, <5>3
      <4> QED
        BY <3>5, <4>1, <4>3, <4>4 DEF ChainInOrder, IsInitial, IsContinuation
    <3>11. RequestOfRow' /\ ChainPageWhole' /\ ReconciledPageWhole'
      BY <3>5 DEF RequestOfRow, ChainPageWhole, ReconciledPageWhole
    <3> QED
      BY <3>6, <3>7, <3>8, <3>9, <3>10, <3>11 DEF IInv
  <2> QED
    BY <2>1, <2>2, <2>3
<1> QED
  BY <1>3, <1>4

-------------------------------------------------------------------------------
(* The invariant of the specification *)

\* A step that changes nothing keeps it.
LEMMA StutterInv ==
  ASSUME IInv, UNCHANGED vars
  PROVE  IInv'
<1>1. UNCHANGED <<telegram, jobs, pc, run, top, inbox, lifecycle, checkpoint>>
  BY DEF vars, telegram
<1>2. TypeOK'
  BY DEF IInv, TypeOK, vars
<1>3. CheckpointCommitted'
  BY <1>1 DEF IInv, CheckpointCommitted, HasEnvelope
<1> QED
  BY <1>1, <1>2, <1>3, AsideQuiet, QuietInv

\* The program starts in it.
LEMMA InitInv == Init => IInv
<1> SUFFICES ASSUME Init PROVE IInv
  OBVIOUS
<1>1. /\ posted \in 0 .. MaxMsg /\ chat = 1 .. posted /\ MaxMsg \in Nat
      /\ jobs = <<>> /\ pc = "idle" /\ run = NoRun /\ checkpoint = 0 /\ top = 0
      /\ lifecycle = "candidate"
  BY CollectorAssumption DEF Init
<1>2. TypeOK
  <2>1. run \in RunType(jobs)
    <3>1. jobs \in Seq(JobRow)
      BY <1>1
    <3>2. NoRun \in RunType(jobs)
      BY <3>1, NoRunType
    <3> QED
      BY <1>1, <3>2
  <2>2. jobs \in Seq(JobRow) /\ live \in Seq([type : EventType, msg : Msg])
    BY DEF Init
  <2>3. {up, started, listening} \subseteq BOOLEAN
    BY DEF Init
  <2>4. chat \subseteq Msg /\ inbox = {} /\ checkpoint \in 0 .. MaxMsg
    BY <1>1 DEF Init, Msg
  <2>5. events \in Nat /\ buckets \in Nat /\ faults \in Nat /\ pauses \in Nat /\ top \in Nat
    BY DEF Init
  <2> QED
    BY <1>1, <2>1, <2>2, <2>3, <2>4, <2>5 DEF TypeOK, RunType
<1>3. DOMAIN jobs = {}
  BY <1>1
<1>4. CheckpointCommitted /\ ContinuationLeavesNoHole /\ ChainInOrder
  BY <1>1, <1>3 DEF CheckpointCommitted, ContinuationLeavesNoHole, ChainInOrder
<1>5. ChatPosted /\ PageStored
  BY <1>1 DEF ChatPosted, PageStored, NoRun
<1>6. RequestOfRow /\ ChainPageWhole /\ ReconciledPageWhole
  BY <1>1 DEF RequestOfRow, ChainPageWhole, ReconciledPageWhole
<1> QED
  BY <1>2, <1>4, <1>5, <1>6 DEF IInv

\* Every step keeps it.
LEMMA NextInv == IInv /\ [Next]_vars => IInv'
<1> SUFFICES ASSUME IInv, [Next]_vars PROVE IInv'
  OBVIOUS
<1>1. CASE Post
  BY <1>1, PostInv
<1>2. CASE \E m \in chat : Edit(m) \/ Delete(m)
  BY <1>2, EditDeleteInv
<1>3. CASE Ingest
  BY <1>3, IngestInv
<1>4. CASE IngestFails \/ Listen \/ Start \/ Pause \/ Resume \/ Disable
  BY <1>4, AsideInv
<1>5. CASE Approve
  BY <1>5, ApproveInv
<1>6. CASE EnqueueStartup \/ EnqueuePeriodic
  BY <1>6, EnqueueInv
<1>7. CASE RecoverStale
  BY <1>7, RecoverStaleInv
<1>8. CASE Claim
  BY <1>8, ClaimInv
<1>9. CASE ClaimNothing \/ UNCHANGED vars
  BY <1>9, StutterInv DEF ClaimNothing
<1>10. CASE Prepare
  BY <1>10, PrepareInv
<1>11. CASE Fetch
  BY <1>11, FetchInv
<1>12. CASE FloodWait \/ Transient \/ GatewayError
  BY <1>12, RequestFailsInv
<1>13. CASE PersistBatch
  BY <1>13, PersistBatchInv
<1>14. CASE Finalize
  BY <1>14, FinalizeInv
<1>15. CASE Crash
  BY <1>15, CrashInv
<1> QED
  BY <1>1, <1>2, <1>3, <1>4, <1>5, <1>6, <1>7, <1>8, <1>9, <1>10, <1>11, <1>12, <1>13,
     <1>14, <1>15 DEF Next, Worker

\* The invariant the theorems below rest on: where the chain of backfill jobs stands, what
\* is left of a page, and that a page leaves nothing out of the range it is read for.
THEOREM CollectorInvariant == Spec => []IInv
BY InitInv, NextInv, PTL DEF Spec

\* Every variable of the collector keeps its type.
THEOREM CollectorTypeOK == Spec => []TypeOK
<1>1. IInv => TypeOK
  BY DEF IInv
<1> QED
  BY <1>1, CollectorInvariant, PTL

\* The message the checkpoint names is in the inbox, whoever moved the checkpoint and
\* wherever the process died.
THEOREM CheckpointAlwaysCommitted == Spec => []CheckpointCommitted
<1>1. IInv => CheckpointCommitted
  BY DEF IInv
<1> QED
  BY <1>1, CollectorInvariant, PTL

\* From the cursor of a continuation up to the newest message of the first page,
\* everything still in the chat is in the inbox, for any sizes of page, batch and chain.
THEOREM ChainNeverLeavesHole == Spec => []ContinuationLeavesNoHole
<1>1. IInv => ContinuationLeavesNoHole
  BY DEF IInv
<1> QED
  BY <1>1, CollectorInvariant, PTL

-------------------------------------------------------------------------------
(* A job that succeeds *)

\* Only _finalize_backfill makes a job succeed, and only the one it runs.
LEMMA OnlyFinalizeSucceeds ==
  ASSUME IInv, [Next]_vars, NEW j \in DOMAIN jobs, Succeeds(j)
  PROVE  Finalize /\ j = run.job
<1>1. jobs[j].state # "succeeded" /\ jobs'[j].state = "succeeded"
  BY DEF Succeeds
<1>2. jobs' # jobs
  BY <1>1
<1>3. jobs \in Seq(JobRow) /\ TypeOK
  BY DEF IInv, TypeOK
<1>4. ASSUME NEW type \in Reconciliation \cup Chain, NEW key \in Nat
      PROVE  jobs' # Enqueued(jobs, type, key, 0)
  <2> SUFFICES ASSUME jobs' = Enqueued(jobs, type, key, 0) PROVE FALSE
    OBVIOUS
  <2>1. PICK r \in JobRow : Enqueued(jobs, type, key, 0) = Append(jobs, r)
    BY <1>2, <1>3, EnqueuedRows
  <2>2. jobs' = Append(jobs, r)
    BY <2>1
  <2>3. jobs'[j] = jobs[j]
    BY <1>3, <2>2
  <2> QED
    BY <1>1, <2>3
<1>5. ~RecoverStale
  <2> SUFFICES ASSUME NEW S \in SUBSET MayBeStale, jobs' = Requeued(S) PROVE FALSE
    BY DEF RecoverStale
  <2> QED
    BY <1>1, <1>3, RequeuedRows
<1>6. ~Approve
  <2>1. "initial_backfill" \in Reconciliation \cup Chain /\ 0 \in Nat
    BY DEF Chain
  <2> QED
    BY <1>4, <2>1 DEF Approve
<1>7. ~EnqueueStartup /\ ~EnqueuePeriodic
  <2>1. /\ "startup_reconciliation" \in Reconciliation \cup Chain /\ faults \in Nat
        /\ "periodic_reconciliation" \in Reconciliation \cup Chain /\ buckets + 1 \in Nat
    BY <1>3 DEF Reconciliation, TypeOK
  <2> QED
    BY <1>2, <1>4, <2>1 DEF EnqueueStartup, EnqueuePeriodic, EnqueueFor
<1>8. ~Claim
  <2> SUFFICES ASSUME Claim PROVE FALSE
    OBVIOUS
  <2>1. PICK S \in SUBSET MayBeStale : \E i \in DOMAIN jobs :
             jobs' = [Requeued(S) EXCEPT ![i].state = "running", ![i].leased = TRUE,
                                     ![i].attempt = @ + 1]
    BY DEF Claim
  <2>2. PICK i \in DOMAIN jobs :
             jobs' = [Requeued(S) EXCEPT ![i].state = "running", ![i].leased = TRUE,
                                     ![i].attempt = @ + 1]
    BY <2>1
  <2>3. /\ SameJobs(Requeued(S))
        /\ Requeued(S)[j] = jobs[j] \/ Requeued(S)[j].state = "queued"
    BY <1>3, RequeuedRows
  <2> DEFINE freed == Requeued(S)
             r     == [freed[i] EXCEPT !.state = "running", !.leased = TRUE,
                                      !.attempt = freed[i].attempt + 1]
  <2>4. jobs' = [freed EXCEPT ![i] = r]
    BY <2>2
  <2>5. freed[i] \in JobRow /\ i \in DOMAIN freed /\ j \in DOMAIN freed
    BY <2>3 DEF SameJobs
  <2>6. r.state = "running"
    BY <2>5 DEF JobRow
  <2> HIDE DEF r, freed
  <2>7. j = i => jobs'[j].state = "running"
    BY <2>4, <2>5, <2>6
  <2>8. j # i => jobs'[j] = freed[j]
    BY <2>4, <2>5
  <2> QED
    BY <1>1, <2>3, <2>7, <2>8 DEF freed
<1>9. ASSUME pc # "idle", NEW s \in JobState, jobs' = SetState(run.job, s), s # "succeeded"
      PROVE  FALSE
  <2>1. run.job \in DOMAIN jobs
    BY <1>9, RowOfRun
  <2>2. /\ SetState(run.job, s)[run.job].state = s
        /\ \A k \in DOMAIN jobs : k # run.job => SetState(run.job, s)[k] = jobs[k]
    BY <1>3, <2>1, SetStateRows
  <2> QED
    BY <1>1, <1>9, <2>2
<1>10. ~Prepare
  <2>1. "running" \in JobState /\ "failed" \in JobState
    BY DEF JobState, Finished
  <2> QED
    BY <1>9, <2>1 DEF Prepare
<1>11. ~FloodWait
  <2> SUFFICES ASSUME FloodWait PROVE FALSE
    OBVIOUS
  <2>1. run.job \in DOMAIN jobs /\ jobs[run.job] \in JobRow
    BY RowOfRun DEF FloodWait
  <2> DEFINE r == [jobs[run.job] EXCEPT !.state = "retry_wait",
                                        !.leased = jobs[run.job].leased /\ "retry_wait" = "running",
                                        !.attempt = Refunded(jobs[run.job].attempt)]
  <2>2. jobs' = [jobs EXCEPT ![run.job] = r] /\ r.state = "retry_wait"
    BY <2>1 DEF FloodWait, SetState, JobRow
  <2> HIDE DEF r
  <2>3. /\ j = run.job => jobs'[j].state = "retry_wait"
        /\ j # run.job => jobs'[j] = jobs[j]
    BY <1>3, <2>1, <2>2
  <2> QED
    BY <1>1, <2>3
<1>12. ~Transient
  <2>1. "dead" \in JobState /\ "retry_wait" \in JobState
    BY DEF JobState, Finished
  <2> QED
    BY <1>9, <2>1 DEF Transient
<1>13. Finalize
  BY <1>2, <1>5, <1>6, <1>7, <1>8, <1>10, <1>11, <1>12
  DEF Next, Worker, vars, Post, Edit, Delete, Ingest, IngestFails, Listen, Start, Pause, Resume,
      Disable, Transition, ClaimNothing, Fetch, GatewayError, PersistBatch, Crash
<1>14. j = run.job
  <2>1. pc # "idle"
    BY <1>13 DEF Finalize
  <2>2. lifecycle = "monitoring"
    <3>1. "cancelled" \in JobState
      BY DEF JobState, Finished
    <3> QED
      BY <1>9, <1>13, <2>1, <3>1 DEF Finalize
  <2>3. PICK rows :
           /\ SameJobs(rows)
           /\ rows[run.job].state = "succeeded"
           /\ \A k \in DOMAIN jobs : k # run.job => rows[k] = jobs[k]
           /\ jobs' = rows \/ \E r \in JobRow : jobs' = Append(rows, r)
    BY <1>13, <2>2, FinalizeRows
  <2>4. jobs'[j] = rows[j]
    <3>1. CASE jobs' = rows
      BY <3>1
    <3>2. CASE \E r \in JobRow : jobs' = Append(rows, r)
      <4>1. PICK r \in JobRow : jobs' = Append(rows, r)
        BY <3>2
      <4>2. rows \in Seq(JobRow) /\ j \in DOMAIN rows
        BY <2>3 DEF SameJobs
      <4> QED
        BY <4>1, <4>2
    <3> QED
      BY <2>3, <3>1, <3>2
  <2> QED
    BY <1>1, <2>3, <2>4
<1> QED
  BY <1>13, <1>14

\* A reconciliation succeeds, its page not full, only after everything between the
\* checkpoint it started from and the newest message it read is in the inbox, however it
\* was interrupted and whatever live updates did to the checkpoint meanwhile.
THEOREM ReconciliationStoresRange == Spec => ReconciledRangeStored
<1>1. ASSUME IInv, [Next]_vars
      PROVE  [\A j \in DOMAIN jobs : ReconciledBy(j) /\ ~run.full =>
                \A m \in chat : run.after < m /\ m <= Max(run.got \cup {0})
                                  => HasEnvelope(m)]_vars
  <2> SUFFICES ASSUME NEW j \in DOMAIN jobs, ReconciledBy(j), ~run.full,
                      NEW m \in chat, run.after < m, m <= Max(run.got \cup {0})
               PROVE  HasEnvelope(m)
    OBVIOUS
  <2>1. Finalize /\ j = run.job
    BY <1>1, OnlyFinalizeSucceeds DEF ReconciledBy
  <2>2. /\ pc = "persist" /\ run.todo = {} /\ Row.type \in Reconciliation
    BY <2>1 DEF Finalize, Persisted, ReconciledBy, Row
  <2> DEFINE S == run.got \cup {0}
  <2>3. posted \in Nat /\ run.got \subseteq 1 .. posted /\ m \in Nat /\ m # 0
    BY <1>1 DEF IInv, TypeOK, ChatPosted, Msg
  <2>4. S \in SUBSET (0 .. posted) /\ S # {}
    BY <2>3
  <2> HIDE DEF S
  <2>5. Max(S) \in S
    BY <2>3, <2>4, MaxIsGreatest
  <2>6. m <= Max(S)
    BY DEF S
  <2>7. Max(S) \in run.got
    BY <2>3, <2>4, <2>5, <2>6 DEF S
  <2>8. m \in run.got
    BY <1>1, <2>2, <2>6, <2>7 DEF IInv, ReconciledPageWhole
  <2> QED
    BY <1>1, <2>2, <2>8 DEF IInv, PageStored
<1> QED
  BY <1>1, CollectorInvariant, PTL DEF Spec, ReconciledRangeStored
===============================================================================
