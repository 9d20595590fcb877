---------------------------- MODULE KeywordRunProofs ----------------------------
(***************************************************************************)
(* For any queries, histories and caps, and whatever fails, parks, crashes *)
(* or is cancelled: a keyword run fixes its pool once, reads each history  *)
(* once to the outcome it would have alone, leaves no source of the pool   *)
(* without an outcome, and its gate fails only on proof.                   *)
(***************************************************************************)
EXTENDS KeywordRun, FiniteSetTheorems, SequenceTheorems, WellFoundedInduction, TLAPS

\* The worker holds the job while it is not idle, and forgets what it held when it is; what
\* ends the run ends the job.
Held ==
    /\ pc # "idle" => job = "running"
    /\ pc # "call" => at = None
    /\ pc = "idle" => phase = "seeds" /\ done = {} /\ left = {} /\ hidden = {} /\ index = {}
    /\ run \in Terminal \/ gate = "fail" => job \in Terminal

Verifying == phase \in {"resume", "fair", "over"}

\* A source is only asked for while it and the run may be read further, and a seed while
\* the search is not known to be exhausted.
Asking ==
    pc = "call" =>
        /\ at \in Query /\ query[at] = "running"
        /\ at \in Source <=> Verifying
        /\ at \in Source => /\ at \in Range(pool) /\ phase # "over"
                            /\ total < RunCap /\ cursor[at].scanned < SourceCap
        /\ at \in Seed => ~exhausted

\* A query that has not failed has an attempt left.
TriesLeft == \A q \in Seed \cup Channel : query[q] # "failed" => tries[q] < MaxTransient

Begun == \E s \in Source : query[s] # None

\* Only sources of the pool are asked for; and once there is a pool, or the search is
\* known to be exhausted, an execution that goes on knows it by what has begun.
PoolBegun ==
    /\ \A s \in Source : query[s] # None => s \in Range(pool)
    /\ pool # <<>> \/ exhausted => job \in Terminal \/ Verifying \/ Begun
    /\ exhausted => more = {} /\ \A q \in Seed : query[q] \in {None, "succeeded"}
    /\ phase = "replace" => ~exhausted

\* Nothing read so far ends the reading of s.
Going(s) ==
    /\ cursor[s].scanned < SourceCap /\ cursor[s].asks < MinRequests
    /\ \A i \in 1 .. cursor[s].scanned : History[s][i] # "old"

\* A history is read to its end at most, and no further than what ends it.
ReadSoFar ==
    \A s \in Source : /\ cursor[s].scanned <= Len(History[s])
                      /\ query[s] # "succeeded" => Going(s)

\* A source that is finished has an outcome, and the worker takes all those that were read
\* to the end for finished.
FinishedSettled ==
    /\ left # {} => phase = "resume"
    /\ \A s \in left : s \in Range(pool) /\ query[s] \in Open
    /\ job \notin Terminal => \A s \in Finished : outcome[s] # None
    /\ phase \in {"resume", "fair"} => \A s \in Source : query[s] = "succeeded" => s \in done
    /\ \A s \in done : outcome[s] # None
    /\ phase = "over" => QualityFound \/ \A s \in Range(pool) : outcome[s] # None

IInv ==
    /\ TypeOK /\ Held /\ Asking /\ TriesLeft /\ PoolBegun /\ ReadSoFar /\ FinishedSettled
    /\ ReadOnce /\ PoolSettled /\ FailIsProven

-------------------------------------------------------------------------------
(* Least members *)

LEMMA MinFacts ==
  ASSUME NEW S \in SUBSET Nat, S # {}
  PROVE  Min(S) \in S /\ \A x \in S : Min(S) <= x
<1>1. PICK x \in S : \A y \in S : ~(<<y, x>> \in OpToRel(<, Nat))
  BY WFMin, NatLessThanWellFounded
<1>2. ASSUME NEW y \in S PROVE x <= y
  <2>1. ~(y < x)
    BY <1>1 DEF OpToRel
  <2> QED
    BY <2>1
<1> QED
  BY <1>1, <1>2 DEF Min

LEMMA MinOfTwo ==
  ASSUME NEW a \in Int, NEW b \in Int
  PROVE  Min({a, b}) = IF a <= b THEN a ELSE b
<1> DEFINE m == IF a <= b THEN a ELSE b
<1>1. m \in {a, b} /\ (\A y \in {a, b} : m <= y)
  OBVIOUS
<1>2. ASSUME NEW x \in {a, b}, \A y \in {a, b} : x <= y
      PROVE  x = m
  BY <1>2
<1> HIDE DEF m
<1>3. Min({a, b}) = m
  BY <1>1, <1>2 DEF Min
<1> QED
  BY <1>3 DEF m

\* The first of S in a sequence that holds some of S.
LEMMA FirstOfFacts ==
  ASSUME NEW T, NEW seq \in Seq(T), NEW S, NEW x \in Range(seq), x \in S
  PROVE  FirstOf(seq, S) \in S \cap Range(seq)
<1> DEFINE I == {i \in DOMAIN seq : seq[i] \in S}
<1>1. DOMAIN seq \subseteq Nat
  OBVIOUS
<1>2. I \in SUBSET Nat /\ I # {}
  BY <1>1 DEF Range
<1>3. Min(I) \in I
  <2> HIDE DEF I
  <2> QED
    BY <1>2, MinFacts
<1> QED
  BY <1>3 DEF FirstOf, Range

-------------------------------------------------------------------------------
(* Steps that leave alone what has been read *)

\* While the worker is at work nothing has ended.
LEMMA AtWork ==
  ASSUME IInv, pc # "idle"
  PROVE  job = "running" /\ job \notin Terminal /\ run \notin Terminal /\ gate # "fail"
BY DEF IInv, Held, Terminal

\* The kinds of queries are disjoint, and None is not one of them.
LEMMA Kinds ==
  /\ \A s \in Source : s \in Query /\ s \notin Seed /\ s \notin Channel
  /\ \A q \in Seed : q \in Query /\ q \notin Channel
  /\ Channel \subseteq Query /\ None \notin Query
  /\ \A q \in Query : q \in Seed \/ q \in Channel \/ q \in Source
BY KeywordRunAssumption DEF Query

\* The worker goes on to the next phase.
LEMMA PhaseInv ==
  ASSUME IInv, SeedsDone \/ LinkedDone \/ ResumeDone
  PROVE  IInv'
<1> USE DEF SeedsDone, LinkedDone, ResumeDone, Deciding, state, cancel, search, read, ends
<1>1. TypeOK'
  BY DEF IInv, TypeOK
<1>2. Held'
  BY DEF IInv, Held
<1>3. Asking' /\ TriesLeft'
  BY DEF IInv, Asking, TriesLeft
<1>4. PoolBegun'
  BY DEF IInv, PoolBegun, Begun, Verifying
<1>5. ReadSoFar' /\ ReadOnce'
  BY DEF IInv, ReadSoFar, ReadOnce, Going
<1>6. FinishedSettled'
  BY DEF IInv, FinishedSettled, Finished
<1>7. PoolSettled' /\ FailIsProven'
  BY DEF IInv, PoolSettled, QualityFound, FailIsProven
<1> QED
  BY <1>1, <1>2, <1>3, <1>4, <1>5, <1>6, <1>7 DEF IInv

\* Verification is over.
LEMMA OverInv ==
  ASSUME IInv, VerificationOver
  PROVE  IInv'
<1> USE DEF VerificationOver, Deciding, state, cancel, search, read, ends
<1>1. TypeOK'
  BY DEF IInv, TypeOK
<1>2. Held'
  BY DEF IInv, Held
<1>3. Asking' /\ TriesLeft'
  BY DEF IInv, Asking, TriesLeft
<1>4. PoolBegun'
  BY DEF IInv, PoolBegun, Begun, Verifying
<1>5. ReadSoFar' /\ ReadOnce'
  BY DEF IInv, ReadSoFar, ReadOnce, Going
<1>6. FinishedSettled'
  <2>1. ASSUME ~QualityFound, NEW s \in Range(pool) PROVE outcome[s] # None
    <3>1. PICK i \in DOMAIN pool : s = pool[i]
      BY DEF Range
    <3>2. s \in Source
      BY <3>1 DEF IInv, TypeOK
    <3>3. cursor[s].scanned \in Nat /\ SourceCap \in Nat
      BY <3>2, KeywordRunAssumption DEF IInv, TypeOK
    <3>4. s \in done \/ ~(cursor[s].scanned < SourceCap)
      BY <2>1, <3>1, <3>3 DEF Eligible
    <3>5. query[s] = "succeeded" => s \in done
      BY <3>2 DEF IInv, FinishedSettled
    <3>6. s \in done
      BY <3>2, <3>3, <3>4, <3>5 DEF IInv, ReadSoFar, Going
    <3> QED
      BY <3>6 DEF IInv, FinishedSettled
  <2> QED
    BY <2>1 DEF IInv, FinishedSettled, Finished, QualityFound
<1>7. PoolSettled' /\ FailIsProven'
  BY DEF IInv, PoolSettled, QualityFound, FailIsProven
<1> QED
  BY <1>1, <1>2, <1>3, <1>4, <1>5, <1>6, <1>7 DEF IInv

\* The worker asks for q.
LEMMA AskInv ==
  ASSUME IInv, Deciding, NEW q \in Query, Ask(q),
         UNCHANGED <<state, cancel, search, pool, read, ends, ledger, left, done, index,
                     hidden, faults>>,
         quota' \in Nat, phase' = phase \/ (phase' = "replace" /\ q \in Seed),
         q \in Seed \cup Channel => query[q] \in Open \cup {None} /\ ~Verifying,
         q \in Seed => ~exhausted,
         q \in Source => /\ Verifying /\ phase # "over" /\ q \in Range(pool)
                         /\ query[q] # "succeeded" /\ total < RunCap
  PROVE  IInv'
<1> USE DEF Deciding, Ask, state, cancel, search, read, ends, memory
<1>1. TypeOK'
  BY DEF IInv, TypeOK, QueryStates
<1>2. Held'
  BY DEF IInv, Held
<1> query' \in [Query -> QueryStates \cup {None}] /\ query \in [Query -> QueryStates \cup {None}]
  BY <1>1 DEF IInv, TypeOK
<1> query'[q] = "running" /\ \A r \in Query \ {q} : query'[r] = query[r]
  OBVIOUS
<1>3. Asking'
  BY Kinds DEF IInv, Asking, ReadSoFar, Going, Verifying
<1>4. TriesLeft'
  BY Kinds, KeywordRunAssumption DEF IInv, TriesLeft, Open, QueryStates
<1>5. PoolBegun'
  <2>1. None # "running"
    BY KeywordRunAssumption DEF QueryStates
  <2>2. Begun => Begun'
    BY <2>1, Kinds DEF Begun
  <2>3. exhausted => \A r \in Seed : query'[r] = query[r]
    BY Kinds
  <2>4. \A s \in Source : query'[s] # None => s \in Range(pool)
    BY Kinds DEF IInv, PoolBegun
  <2> QED
    BY <2>2, <2>3, <2>4 DEF IInv, PoolBegun, Verifying
<1>6. ReadSoFar' /\ ReadOnce'
  BY Kinds DEF IInv, ReadSoFar, ReadOnce, Going
<1>7. FinishedSettled'
  BY Kinds DEF IInv, FinishedSettled, Finished, QualityFound, Open, Verifying
<1>8. PoolSettled' /\ FailIsProven'
  BY AtWork DEF IInv, PoolSettled, FailIsProven, Terminal
<1> QED
  BY <1>1, <1>2, <1>3, <1>4, <1>5, <1>6, <1>7, <1>8 DEF IInv

\* A query or a channel is answered, has failed, or goes on with its next page.
LEMMA AnswerInv ==
  ASSUME IInv, NEW q \in Query \ Source,
         NEW st \in {"running", "succeeded", "failed", "quota_skipped"}, Answered(q, st),
         UNCHANGED <<state, cancel, pool, read, ends, ledger, memory, faults>>,
         pages' \in [Paged -> 0 .. MaxPages - 1],
         tries' \in [Seed \cup Channel -> 0 .. MaxTransient],
         \A r \in Seed \cup Channel :
             (r # q \/ st # "failed") /\ tries[r] < MaxTransient => tries'[r] < MaxTransient,
         hits' \subseteq Seed \cup Channel, more' \subseteq Seed,
         q \in Channel => more' = more
  PROVE  IInv'
<1> USE DEF Answered, state, cancel, read, ends, memory
<1>1. TypeOK'
  BY DEF IInv, TypeOK, QueryStates
<1>2. Held'
  BY DEF IInv, Held
<1> query' \in [Query -> QueryStates \cup {None}] /\ query \in [Query -> QueryStates \cup {None}]
  BY <1>1 DEF IInv, TypeOK
<1> query'[q] = st /\ query[q] = "running" /\ \A r \in Query \ {q} : query'[r] = query[r]
  BY DEF IInv, Asking
<1>3. Asking'
  BY DEF Asking
<1>4. TriesLeft'
  <2> SUFFICES ASSUME NEW r \in Seed \cup Channel, query'[r] # "failed"
               PROVE  tries'[r] < MaxTransient
    BY DEF TriesLeft
  <2>1. query[r] # "failed" /\ (r # q \/ st # "failed")
    BY Kinds
  <2> QED
    BY <2>1 DEF IInv, TriesLeft
<1>5. PoolBegun'
  <2>1. q \in Seed => ~exhausted
    BY DEF IInv, Asking
  <2>2. \A s \in Source : query'[s] = query[s]
    BY Kinds
  <2>3. exhausted => more' = more /\ \A r \in Seed : query'[r] = query[r]
    BY <2>1, Kinds
  <2>4. Begun' = Begun
    BY <2>2 DEF Begun
  <2> QED
    BY <2>1, <2>2, <2>3, <2>4 DEF IInv, PoolBegun, Verifying
<1>6. ReadSoFar' /\ ReadOnce'
  BY Kinds DEF IInv, ReadSoFar, ReadOnce, Going
<1>7. FinishedSettled'
  BY Kinds DEF IInv, FinishedSettled, Finished, QualityFound, TypeOK
<1>8. PoolSettled' /\ FailIsProven'
  BY AtWork DEF IInv, PoolSettled, FailIsProven, Terminal
<1> QED
  BY <1>1, <1>2, <1>3, <1>4, <1>5, <1>6, <1>7, <1>8 DEF IInv

\* A search, or the question about a channel, brings an answer or is given up.
LEMMA SearchInv ==
  ASSUME IInv,
         \/ \E q \in Seed : SeedPage(q) \/ SeedAnswer(q) \/ SeedSkipped(q) \/ SeedLost(q)
         \/ \E c \in Channel : LinkedAnswer(c) \/ LinkedLost(c)
         \/ \E q \in Query : TransientLast(q)
  PROVE  IInv'
<1> USE DEF search
<1>1. /\ pages \in [Paged -> 0 .. MaxPages - 1]
      /\ tries \in [Seed \cup Channel -> 0 .. MaxTransient]
      /\ hits \subseteq Seed \cup Channel /\ more \subseteq Seed
  BY DEF IInv, TypeOK
<1>2. MaxPages \in Nat \ {0} /\ MaxTransient \in Nat \ {0} /\ Paged \subseteq Seed
  BY KeywordRunAssumption DEF Paged
<1>3. CASE \E q \in Seed : SeedPage(q)
  <2>1. PICK q \in Seed : SeedPage(q)
    BY <1>3
  <2>2. pages' \in [Paged -> 0 .. MaxPages - 1] /\ tries' \in [Seed \cup Channel -> 0 .. MaxTransient]
    BY <1>1, <1>2, <2>1 DEF SeedPage
  <2>3. \A r \in Seed \cup Channel : tries'[r] = tries[r] \/ tries'[r] = 0
    BY <1>1, <2>1 DEF SeedPage
  <2> QED
    BY <1>1, <1>2, <2>1, <2>2, <2>3, Kinds, AnswerInv DEF SeedPage
<1>4. CASE \E q \in Seed : SeedAnswer(q) \/ SeedSkipped(q) \/ SeedLost(q)
  <2>1. PICK q \in Seed : SeedAnswer(q) \/ SeedSkipped(q) \/ SeedLost(q)
    BY <1>4
  <2> QED
    BY <1>1, <2>1, Kinds, AnswerInv DEF SeedAnswer, SeedSkipped, SeedLost
<1>5. CASE \E c \in Channel : LinkedAnswer(c) \/ LinkedLost(c)
  <2>1. PICK c \in Channel : LinkedAnswer(c) \/ LinkedLost(c)
    BY <1>5
  <2> QED
    BY <1>1, <2>1, Kinds, AnswerInv DEF LinkedAnswer, LinkedLost
<1>6. CASE \E q \in Query : TransientLast(q)
  <2>1. PICK q \in Query : TransientLast(q)
    BY <1>6
  <2>2. q \in Seed \cup Channel
    BY <2>1, Kinds DEF TransientLast
  <2>3. tries[q] < MaxTransient
    <3>1. query[q] = "running"
      BY <2>1 DEF TransientLast, Answered, IInv, Asking
    <3> QED
      BY <2>2, <3>1 DEF IInv, TriesLeft
  <2>4. tries' \in [Seed \cup Channel -> 0 .. MaxTransient]
        /\ \A r \in Seed \cup Channel : r # q => tries'[r] = tries[r]
    BY <1>1, <1>2, <2>1, <2>2, <2>3 DEF TransientLast
  <2> QED
    BY <1>1, <2>1, <2>2, <2>4, AnswerInv DEF TransientLast
<1> QED
  BY <1>3, <1>4, <1>5, <1>6

\* An execution ends before the run is over: with a query that waits for its next attempt,
\* or with what the last commit left.
LEMMA LeaveInv ==
  ASSUME IInv, pc = "call", Idle,
         UNCHANGED <<cancel, pages, hits, more, pool, read, ends, ledger>>,
         query' = query \/ query' = [query EXCEPT ![at] = "retry_wait"],
         job' \in {job, "retry_wait"}, run' \in {run, "retry_wait_flood"},
         tries' \in [Seed \cup Channel -> 0 .. MaxTransient],
         \A q \in Seed \cup Channel : tries[q] < MaxTransient => tries'[q] < MaxTransient,
         faults' \in 0 .. MaxFaults
  PROVE  IInv'
<1> USE DEF Idle, cancel, read, ends
<1>1. TypeOK'
  BY DEF IInv, TypeOK, QueryStates
<1>2. job' \in {"running", "retry_wait"} /\ run' \notin Terminal /\ gate # "fail"
  BY AtWork DEF Terminal
<1>3. Held'
  BY <1>2 DEF Held
<1>4. at \in Query /\ query[at] = "running"
  BY DEF IInv, Asking
<1>5. /\ query'[at] \in {"running", "retry_wait"}
      /\ \A q \in Query \ {at} : query'[q] = query[q]
  BY <1>1, <1>4 DEF IInv, TypeOK
<1>6. Asking'
  BY DEF Asking
<1>7. TriesLeft'
  <2> SUFFICES ASSUME NEW q \in Seed \cup Channel, query'[q] # "failed"
               PROVE  tries'[q] < MaxTransient
    BY DEF TriesLeft
  <2>1. query[q] # "failed"
    BY <1>4, <1>5, Kinds
  <2> QED
    BY <2>1 DEF IInv, TriesLeft
<1>8. PoolBegun'
  <2>1. None \notin {"running", "retry_wait"}
    BY KeywordRunAssumption DEF QueryStates
  <2>2. Begun \/ Verifying => Begun'
    <3>1. Verifying => at \in Source
      BY DEF IInv, Asking
    <3> QED
      BY <1>5, <2>1, <3>1, Kinds DEF Begun
  <2>3. job \notin Terminal
    BY AtWork
  <2>4. exhausted => at \notin Seed
    BY DEF IInv, Asking
  <2>5. exhausted => \A q \in Seed : query'[q] = query[q]
    BY <1>5, <2>4, Kinds
  <2>6. \A s \in Source : query'[s] # None => query[s] # None
    BY <1>4, <1>5, <2>1, Kinds
  <2> QED
    BY <2>2, <2>3, <2>5, <2>6 DEF IInv, PoolBegun
<1>9. ReadSoFar' /\ ReadOnce'
  BY <1>4, <1>5, Kinds DEF IInv, ReadSoFar, ReadOnce, Going
<1>10. FinishedSettled'
  <2>1. Finished' \subseteq Finished
    BY <1>4, <1>5, Kinds DEF Finished
  <2> QED
    BY <2>1, AtWork DEF IInv, FinishedSettled
<1>11. PoolSettled' /\ FailIsProven'
  BY <1>2 DEF IInv, PoolSettled, FailIsProven, Terminal
<1> QED
  BY <1>1, <1>3, <1>6, <1>7, <1>8, <1>9, <1>10, <1>11 DEF IInv

\* A call meets a flood wait or a transient error, or the process dies.
LEMMA TroubleInv ==
  ASSUME IInv,
         \/ \E q \in Query : Flood(q) \/ Transient(q)
         \/ \E s \in Source : PageRefused(s)
         \/ Crash
  PROVE  IInv'
<1> USE DEF state, cancel, search
<1>1. /\ tries \in [Seed \cup Channel -> 0 .. MaxTransient] /\ faults \in 0 .. MaxFaults
      /\ MaxTransient \in Nat \ {0} /\ Paged \subseteq Seed
  BY KeywordRunAssumption DEF IInv, TypeOK, Paged
<1>2. MaxFaults \in Nat /\ (Fault => faults' \in 0 .. MaxFaults)
  BY <1>1, KeywordRunAssumption DEF Fault
<1>3. CASE \E q \in Query : Flood(q)
  <2>1. PICK q \in Query : Flood(q)
    BY <1>3
  <2>2. /\ tries' \in [Seed \cup Channel -> 0 .. MaxTransient]
        /\ \A r \in Seed \cup Channel : tries'[r] = tries[r] \/ tries'[r] = 0
    BY <1>1, <2>1 DEF Flood
  <2> QED
    BY <1>1, <1>2, <2>1, <2>2, LeaveInv DEF Flood, Park
<1>4. CASE \E q \in Query : Transient(q)
  <2>1. PICK q \in Query : Transient(q)
    BY <1>4
  <2>2. tries' = tries \/ q \in Seed \cup Channel
    BY <2>1, Kinds DEF Transient
  <2>3. /\ tries' \in [Seed \cup Channel -> 0 .. MaxTransient]
        /\ \A r \in Seed \cup Channel : tries[r] < MaxTransient => tries'[r] < MaxTransient
    BY <1>1, <2>1, <2>2 DEF Transient
  <2> QED
    BY <1>2, <2>1, <2>3, LeaveInv DEF Transient, Park
<1>5. CASE Crash \/ \E s \in Source : PageRefused(s)
  BY <1>1, <1>2, <1>5, LeaveInv DEF Crash, PageRefused
<1> QED
  BY <1>3, <1>4, <1>5

\* The authorisation is lost.
LEMMA FatalInv ==
  ASSUME IInv, Fatal \/ ClaimUnfit
  PROVE  IInv'
<1>0. FailRun
  BY DEF Fatal, ClaimUnfit
<1> USE <1>0 DEF FailRun, Idle, cancel, search, read
<1>1. TypeOK'
  BY DEF IInv, TypeOK, QueryStates, Terminal
<1>2. gate # "fail" /\ "failed" \in Terminal /\ None # "running"
  <2>1. job \notin Terminal
    BY DEF Fatal, ClaimUnfit, IInv, Held, Terminal
  <2> QED
    BY <2>1, KeywordRunAssumption DEF IInv, Held, Terminal, QueryStates
<1>3. Held' /\ Asking'
  BY <1>2 DEF Held, Asking
<1>4. \A q \in Query : query'[q] = query[q] \/ (query[q] = "running" /\ query'[q] = "failed")
  OBVIOUS
<1>5. TriesLeft'
  BY <1>4, Kinds DEF IInv, TriesLeft
<1>6. PoolBegun'
  BY <1>2, <1>4, Kinds DEF IInv, PoolBegun
<1>7. ReadSoFar' /\ ReadOnce'
  BY <1>4, Kinds DEF IInv, ReadSoFar, ReadOnce, Going
<1>8. FinishedSettled'
  BY <1>2 DEF FinishedSettled
<1>9. PoolSettled' /\ FailIsProven'
  BY <1>2 DEF IInv, PoolSettled, FailIsProven
<1> QED
  BY <1>1, <1>3, <1>5, <1>6, <1>7, <1>8, <1>9 DEF IInv

\* The job is taken, or taken from a worker that is gone; a request to cancel, a dismissal.
LEMMA OutsideInv ==
  ASSUME IInv,
         \/ Claim \/ RecoverStale \/ CancelRead \/ CancelCommit \/ Poll \/ UNCHANGED vars
         \/ \E s \in Dismissible : Dismiss(s)
  PROVE  IInv'
<1> USE DEF state, cancel, search, read, ends, memory
<1>1. TypeOK'
  <2>1. CASE Claim \/ RecoverStale
    BY <2>1 DEF Claim, RecoverStale, IInv, TypeOK, Held
  <2>2. CASE CancelRead
    BY <2>2 DEF CancelRead, IInv, TypeOK
  <2>5. CASE CancelCommit
    BY <2>5 DEF CancelCommit, IInv, TypeOK
  <2>3. CASE \E s \in Dismissible : Dismiss(s)
    <3>1. Dismissible \subseteq Source
      BY KeywordRunAssumption
    <3> QED
      BY <2>3, <3>1 DEF Dismiss, IInv, TypeOK
  <2>4. CASE Poll \/ UNCHANGED vars
    BY <2>4 DEF Poll, vars, IInv, TypeOK
  <2> QED
    BY <2>1, <2>2, <2>3, <2>4, <2>5
<1>2. /\ UNCHANGED <<query, pool, read, ends, left, done, phase, at, tries, more>>
      /\ job' = job \/ (job' \notin Terminal /\ job \notin Terminal /\ pc = "idle")
      /\ run' = run \/ run' \notin Terminal
      /\ pc' = pc \/ (pc = "idle" /\ pc' = "decide")
      /\ ledger \subseteq ledger'
  <2>1. CASE Claim \/ RecoverStale
    BY <2>1 DEF Claim, RecoverStale, Terminal
  <2>2. CASE CancelRead \/ CancelCommit
    BY <2>2 DEF CancelRead, CancelCommit, Terminal
  <2>3. CASE \E s \in Dismissible : Dismiss(s)
    BY <2>3 DEF Dismiss
  <2>4. CASE Poll \/ UNCHANGED vars
    BY <2>4 DEF Poll, vars
  <2> QED
    BY <2>1, <2>2, <2>3, <2>4
<1>3. Held'
  <2>1. CASE Claim
    BY <2>1 DEF Claim, IInv, Held, Terminal
  <2>2. CASE RecoverStale
    BY <2>2 DEF RecoverStale, IInv, Held, Terminal
  <2>3. CASE CancelRead \/ CancelCommit \/ Poll \/ UNCHANGED vars \/ \E s \in Dismissible : Dismiss(s)
    BY <2>3 DEF CancelRead, CancelCommit, Poll, Dismiss, vars, IInv, Held, Terminal
  <2> QED
    BY <2>1, <2>2, <2>3
<1>4. Asking'
  BY <1>2 DEF IInv, Asking, Verifying
<1>5. TriesLeft' /\ ReadSoFar' /\ ReadOnce'
  BY <1>2 DEF IInv, TriesLeft, ReadSoFar, ReadOnce, Going
<1>6. PoolBegun' /\ FinishedSettled'
  BY <1>2 DEF IInv, PoolBegun, Begun, Verifying, FinishedSettled, Finished, QualityFound
<1>7. PoolSettled' /\ FailIsProven'
  BY <1>2 DEF IInv, PoolSettled, FailIsProven, QualityFound, Terminal
<1> QED
  BY <1>1, <1>3, <1>4, <1>5, <1>6, <1>7 DEF IInv

-------------------------------------------------------------------------------
(* Steps that settle sources, but read nothing *)

\* What is made of the end of a reading is an outcome.
LEMMA OutcomeType ==
  ASSUME NEW stop \in {"quality_reached", "window_complete", "history_exhausted", "source_cap",
                       "run_cap", "inaccessible", "cancelled"}, NEW asks
  PROVE  Outcome(stop, asks) \in Outcomes
BY DEF Outcome, Outcomes, Truth

\* Sources of the pool that have no outcome get one that owes nothing to their history.
CutOff(stop) ==
    \A s \in Source :
        \/ outcome'[s] = outcome[s]
        \/ /\ outcome[s] = None /\ s \in Range(pool)
           /\ outcome'[s] = Outcome(stop, cursor[s].asks)

\* Cutting sources off takes no outcome back and reads nothing.
LEMMA CutOffFacts ==
  ASSUME IInv, NEW stop \in {"run_cap", "inaccessible", "cancelled"}, CutOff(stop),
         UNCHANGED <<cursor, total, pool>>
  PROVE  /\ ReadOnce'
         /\ \A s \in Source : /\ outcome[s] # None => outcome'[s] = outcome[s]
                              /\ outcome'[s] # None => s \in Range(pool)
         /\ QualityFound => QualityFound'
<1>1. \A s \in Source : outcome[s] # None => outcome'[s] = outcome[s]
  BY DEF CutOff
<1>2. ReadOnce'
  <2> SUFFICES ASSUME NEW s \in Source
               PROVE  \/ outcome'[s] = None \/ outcome'[s] = Alone(s)
                      \/ outcome'[s].stop \in {"run_cap", "inaccessible", "cancelled"}
    BY DEF IInv, ReadOnce
  <2>1. CASE outcome'[s] = outcome[s]
    BY <2>1 DEF IInv, ReadOnce
  <2>2. CASE outcome'[s] = Outcome(stop, cursor[s].asks)
    BY <2>2 DEF Outcome
  <2> QED
    BY <2>1, <2>2 DEF CutOff
<1>3. \A s \in Source : outcome'[s] # None => s \in Range(pool)
  BY DEF CutOff, IInv, PoolSettled
<1> QED
  BY <1>1, <1>2, <1>3 DEF QualityFound

\* What the gate makes of the outcomes.
LEMMA GateFacts ==
  ASSUME NEW outcomes, Gate(outcomes) = "fail"
  PROVE  /\ exhausted
         /\ \A s \in Source :
                outcomes[s] # None => outcomes[s].truth \notin {"quality", "inconclusive"}
BY DEF Gate

\* The gate has one of three values.
LEMMA GateType ==
  ASSUME NEW outcomes
  PROVE  Gate(outcomes) \in {"pass", "fail", "inconclusive"}
BY DEF Gate

\* The run ends because verification is over.
LEMMA FinishInv ==
  ASSUME IInv, Finish
  PROVE  IInv'
<1> USE DEF Finish, Deciding, Idle, cancel, search, read
<1>1. TypeOK'
  <2>1. gate' \in {"pass", "fail", "inconclusive"}
    BY GateType
  <2> QED
    BY <2>1 DEF IInv, TypeOK, Terminal
<1>2. Held' /\ Asking' /\ TriesLeft' /\ PoolBegun' /\ ReadSoFar' /\ ReadOnce'
  BY DEF IInv, Held, Asking, TriesLeft, PoolBegun, ReadSoFar, Going, ReadOnce, Terminal
<1>3. FinishedSettled'
  BY DEF FinishedSettled, Terminal
<1>4. QualityFound \/ \A s \in Range(pool) : outcome[s] # None
  BY DEF IInv, FinishedSettled
<1>5. PoolSettled'
  BY <1>4 DEF IInv, PoolSettled, QualityFound
<1>6. FailIsProven'
  <2> SUFFICES ASSUME gate' = "fail"
               PROVE  /\ \A q \in Seed : query[q] \in {None, "succeeded"} /\ q \notin more
                      /\ \A s \in Range(pool) :
                             outcome[s] # None /\ outcome[s].truth \in {"near", "rejected"}
    BY DEF FailIsProven
  <2>1. /\ exhausted
        /\ \A s \in Source :
               outcome[s] # None => outcome[s].truth \notin {"quality", "inconclusive"}
    BY GateFacts
  <2>2. ~QualityFound
    BY <2>1 DEF QualityFound
  <2>3. Range(pool) \subseteq Source
    BY DEF IInv, TypeOK, Range
  <2>4. ASSUME NEW s \in Range(pool)
        PROVE  outcome[s] # None /\ outcome[s].truth \in {"near", "rejected"}
    <3>1. s \in Source /\ outcome[s] # None
      BY <1>4, <2>2, <2>3
    <3>2. outcome[s] \in Outcomes
      BY <3>1 DEF IInv, TypeOK
    <3> QED
      BY <2>1, <3>1, <3>2 DEF Outcomes
  <2> QED
    BY <2>1, <2>4 DEF IInv, PoolBegun
<1> QED
  BY <1>1, <1>2, <1>3, <1>5, <1>6 DEF IInv

\* What a step that settles a set of sources does to the outcomes.
LEMMA SettledAllFacts ==
  ASSUME IInv, NEW S, S \subseteq Range(pool),
         NEW stop \in {"run_cap", "inaccessible", "cancelled"}, outcome' = SettledAll(S, stop)
  PROVE  /\ outcome' \in [Source -> Outcomes \cup {None}]
         /\ CutOff(stop)
         /\ \A s \in Source \cap S : outcome'[s] # None
<1>1. /\ \A s \in Source : Outcome(stop, cursor[s].asks) \in Outcomes
      /\ None \notin Outcomes
  BY OutcomeType, KeywordRunAssumption
<1>2. outcome' = [s \in Source |-> IF s \in S THEN Settled(s, Outcome(stop, cursor[s].asks))
                                   ELSE outcome[s]]
  BY DEF SettledAll
<1>3. \A s \in Source : outcome[s] \in Outcomes \cup {None}
  BY DEF IInv, TypeOK
<1>4. \A s \in Source : Settled(s, Outcome(stop, cursor[s].asks)) \in Outcomes
  BY <1>1, <1>3 DEF Settled
<1> QED
  BY <1>1, <1>2, <1>3, <1>4 DEF CutOff, Settled

\* The run ends because that was asked for: what is unfinished is cut short.
LEMMA CancelledInv ==
  ASSUME IInv, Cancelled
  PROVE  IInv'
<1> USE DEF Cancelled, Idle, cancel, search
<1>1. /\ CutShort \subseteq Range(pool) /\ Range(pool) \subseteq Source
  BY DEF CutShort, Unfinished, Range, IInv, TypeOK
<1>2. /\ outcome' \in [Source -> Outcomes \cup {None}]
      /\ CutOff("cancelled")
      /\ \A s \in CutShort : outcome'[s] # None
  BY <1>1, SettledAllFacts
<1>3. /\ ReadOnce'
      /\ \A s \in Source : /\ outcome[s] # None => outcome'[s] = outcome[s]
                           /\ outcome'[s] # None => s \in Range(pool)
  BY <1>2, CutOffFacts
<1>4. TypeOK'
  <2>1. gate' \in {"pass", "fail", "inconclusive"}
    BY GateType
  <2>2. query' \in [Query -> QueryStates \cup {None}]
    BY DEF IInv, TypeOK, QueryStates
  <2> QED
    BY <1>2, <2>1, <2>2 DEF IInv, TypeOK, Terminal
<1>5. \A q \in Query : query'[q] = query[q] \/ (query[q] \in Open /\ query'[q] = "cancelled")
  OBVIOUS
<1>6. None \notin Open /\ "cancelled" \in Terminal
  BY KeywordRunAssumption DEF Open, QueryStates, Terminal
<1>7. Held' /\ Asking'
  BY <1>6 DEF Held, Asking
<1>8. TriesLeft'
  BY <1>5, Kinds DEF IInv, TriesLeft, Open
<1>9. PoolBegun'
  BY <1>5, <1>6, Kinds DEF IInv, PoolBegun, Open
<1>10. ReadSoFar'
  BY <1>5, Kinds DEF IInv, ReadSoFar, Going, Open
<1>11. FinishedSettled'
  BY <1>6 DEF FinishedSettled
<1>12. \A s \in Range(pool) \ ledger : outcome'[s] # None
  <2> SUFFICES ASSUME NEW s \in Range(pool), s \notin ledger PROVE outcome'[s] # None
    OBVIOUS
  <2>1. s \in Source /\ s \notin hidden
    BY <1>1 DEF IInv, TypeOK
  <2>2. CASE s \in Finished
    <3>1. outcome[s] # None
      BY <2>1, <2>2, AtWork DEF IInv, FinishedSettled
    <3> QED
      BY <1>3, <2>1, <3>1
  <2>3. CASE s \notin Finished
    BY <1>2, <2>1, <2>3 DEF CutShort, Unfinished
  <2> QED
    BY <2>2, <2>3
<1>13. PoolSettled'
  BY <1>3, <1>12 DEF PoolSettled
<1>14. FailIsProven'
  <2> SUFFICES ASSUME gate' = "fail"
               PROVE  /\ \A q \in Seed : query'[q] \in {None, "succeeded"} /\ q \notin more
                      /\ \A s \in Range(pool) \ ledger :
                             outcome'[s] # None /\ outcome'[s].truth \in {"near", "rejected"}
    BY DEF FailIsProven
  <2>1. /\ exhausted
        /\ \A s \in Source :
               outcome'[s] # None => outcome'[s].truth \notin {"quality", "inconclusive"}
    BY GateFacts
  <2>2. ASSUME NEW s \in Range(pool) \ ledger
        PROVE  outcome'[s] # None /\ outcome'[s].truth \in {"near", "rejected"}
    <3>1. s \in Source /\ outcome'[s] # None
      BY <1>1, <1>12
    <3>2. outcome'[s] \in Outcomes
      BY <1>2, <3>1
    <3> QED
      BY <2>1, <3>1, <3>2 DEF Outcomes
  <2> QED
    BY <1>9, <2>1, <2>2 DEF PoolBegun
<1> QED
  BY <1>3, <1>4, <1>7, <1>8, <1>9, <1>10, <1>11, <1>13, <1>14 DEF IInv

\* Sources get an outcome without being read further.
LEMMA SettleInv ==
  ASSUME IInv, pc # "idle", NEW stop \in {"run_cap", "inaccessible"}, CutOff(stop),
         UNCHANGED <<state, cancel, search, pool, cursor, total, ends, ledger, quota, index,
                     hidden, faults>>,
         pc' = "decide", at' = None,
         outcome' \in [Source -> Outcomes \cup {None}],
         query' \in [Query -> QueryStates \cup {None}],
         \A q \in Query :
             \/ query'[q] = query[q]
             \/ /\ q \in Source /\ query[q] \in Open /\ outcome'[q] # None
                /\ \/ query'[q] = "failed"
                   \/ query'[q] = "succeeded" /\ (q \in done' \/ phase' = "over"),
         left' \subseteq left, \A s \in left' : query'[s] = query[s],
         done \subseteq done', done' \subseteq Source, \A s \in done' : outcome'[s] # None,
         phase \in {"resume", "fair"},
         \/ phase' = phase
         \/ phase' = "over" /\ left' = {} /\ \A s \in Range(pool) : outcome'[s] # None
  PROVE  IInv'
<1> USE DEF state, cancel, search, ends
<1>1. /\ ReadOnce'
      /\ \A s \in Source : /\ outcome[s] # None => outcome'[s] = outcome[s]
                           /\ outcome'[s] # None => s \in Range(pool)
      /\ QualityFound => QualityFound'
  BY CutOffFacts
<1>2. TypeOK'
  BY DEF IInv, TypeOK
<1>3. Held' /\ Asking'
  BY AtWork DEF Held, Asking, IInv
<1>4. TriesLeft'
  BY Kinds DEF IInv, TriesLeft
<1>5. None \notin {"failed", "succeeded"} /\ None \notin Open
  BY KeywordRunAssumption DEF QueryStates, Open
<1>6. PoolBegun'
  <2>1. \A s \in Source : query'[s] # None <=> query[s] # None
    BY <1>5, Kinds
  <2>2. Begun' = Begun /\ Verifying /\ Verifying'
    BY <2>1 DEF Begun, Verifying
  <2>3. \A q \in Seed : query'[q] = query[q]
    BY Kinds
  <2> QED
    BY <2>1, <2>2, <2>3 DEF IInv, PoolBegun
<1>7. ReadSoFar'
  <2> SUFFICES ASSUME NEW s \in Source, query'[s] # "succeeded" PROVE query[s] # "succeeded"
    BY DEF IInv, ReadSoFar, Going
  <2> QED
    BY Kinds DEF Open
<1>8. FinishedSettled'
  <2>1. ASSUME NEW s \in Source, query'[s] \in {"succeeded", "failed", "cancelled"}
        PROVE  outcome'[s] # None
    BY <1>1, <2>1, AtWork, Kinds DEF IInv, FinishedSettled, Finished
  <2>2. ASSUME phase' \in {"resume", "fair"}, NEW s \in Source, query'[s] = "succeeded"
        PROVE  s \in done'
    BY <2>2, Kinds DEF IInv, FinishedSettled
  <2>3. \A s \in left' : s \in Range(pool) /\ query'[s] \in Open
    BY DEF IInv, FinishedSettled
  <2>4. left' # {} => phase' = "resume"
    BY DEF IInv, FinishedSettled
  <2> QED
    BY <2>1, <2>2, <2>3, <2>4 DEF FinishedSettled, Finished
<1>9. PoolSettled' /\ FailIsProven'
  BY <1>1, AtWork DEF PoolSettled, FailIsProven, Terminal
<1> QED
  BY <1>1, <1>2, <1>3, <1>4, <1>6, <1>7, <1>8, <1>9 DEF IInv

\* A source that was being read is cut short: the run may read no more.
LEMMA ResumeCappedInv ==
  ASSUME IInv, ResumeCapped
  PROVE  IInv'
<1> DEFINE s == FirstOf(pool, left)
           o == Outcome("run_cap", cursor[s].asks)
<1>1. /\ outcome' = [outcome EXCEPT ![s] = Settled(s, o)]
      /\ query' = [query EXCEPT ![s] = "succeeded"]
      /\ done' = done \cup {s} /\ left' = left \ {s}
      /\ pc = "decide" /\ phase = "resume" /\ left # {}
      /\ UNCHANGED <<state, cancel, search, pool, cursor, total, ends, ledger, pc, at, phase, quota,
                     index, hidden, faults>>
  BY DEF ResumeCapped, Deciding
<1>2. s \in left /\ s \in Range(pool)
  <2>1. pool \in Seq(Source) /\ left \subseteq Range(pool)
    BY DEF IInv, TypeOK, FinishedSettled
  <2>2. PICK x \in left : x \in Range(pool)
    BY <1>1, <2>1
  <2> QED
    BY <2>1, <2>2, FirstOfFacts
<1>3. o \in Outcomes /\ None \notin Outcomes
  BY OutcomeType, KeywordRunAssumption
<1>4. /\ query \in [Query -> QueryStates \cup {None}] /\ query[s] \in Open
      /\ outcome \in [Source -> Outcomes \cup {None}] /\ s \in Source /\ s \in Query
      /\ done \subseteq Source
  BY <1>2, Kinds DEF IInv, TypeOK, FinishedSettled
<1> HIDE DEF s, o
<1>5. outcome' \in [Source -> Outcomes \cup {None}] /\ outcome'[s] \in Outcomes
  BY <1>1, <1>3, <1>4 DEF Settled
<1>6. CutOff("run_cap")
  BY <1>1, <1>2, <1>4 DEF CutOff, Settled, o
<1>7. query' \in [Query -> QueryStates \cup {None}]
  BY <1>1, <1>4 DEF QueryStates
<1>8. \A x \in done' : outcome'[x] # None
  BY <1>1, <1>3, <1>4, <1>5 DEF IInv, FinishedSettled
<1>9. at' = None
  BY <1>1 DEF IInv, Held
<1>10. \A x \in Source : x # s => query'[x] = query[x]
  BY <1>1, <1>4, Kinds
<1>11. left' \subseteq Source
  BY <1>1 DEF IInv, TypeOK
<1> QED
  BY <1>1, <1>3, <1>4, <1>5, <1>6, <1>7, <1>8, <1>9, <1>10, <1>11, SettleInv

\* All that is unfinished is cut short: the run may read no more.
LEMMA RunCapReachedInv ==
  ASSUME IInv, RunCapReached
  PROVE  IInv'
<1> USE DEF RunCapReached, Deciding, Unfinished
<1>1. Range(pool) \subseteq Source /\ done \subseteq Source
  BY DEF IInv, TypeOK, Range
<1>2. /\ outcome' \in [Source -> Outcomes \cup {None}]
      /\ CutOff("run_cap")
      /\ \A s \in Range(pool) \ done : outcome'[s] # None
  <2> DEFINE S == Range(pool) \ done
  <2>1. S \subseteq Range(pool) /\ outcome' = SettledAll(S, "run_cap")
    OBVIOUS
  <2> HIDE DEF S
  <2>2. /\ outcome' \in [Source -> Outcomes \cup {None}]
        /\ CutOff("run_cap")
        /\ \A s \in Source \cap S : outcome'[s] # None
    BY <2>1, SettledAllFacts
  <2> QED
    BY <1>1, <2>2 DEF S
<1>3. \A s \in done : outcome'[s] # None
  BY <1>1, <1>2 DEF IInv, FinishedSettled, CutOff
<1>4. query' \in [Query -> QueryStates \cup {None}]
  BY DEF IInv, TypeOK, QueryStates
<1>5. \A q \in Query :
          \/ query'[q] = query[q]
          \/ q \in Range(pool) \ done /\ query[q] \in Open /\ query'[q] = "succeeded"
  OBVIOUS
<1>6. at' = None /\ left = {}
  BY DEF IInv, Held, FinishedSettled
<1> QED
  BY <1>1, <1>2, <1>3, <1>4, <1>5, <1>6, SettleInv

\* A source proves inaccessible.
LEMMA SourceLostInv ==
  ASSUME IInv, NEW s \in Source, SourceLost(s)
  PROVE  IInv'
<1> DEFINE o == Outcome("inaccessible", cursor[s].asks)
<1>1. /\ outcome' = [outcome EXCEPT ![s] = Settled(s, o)]
      /\ query' = [query EXCEPT ![s] = "failed"]
      /\ left' = left \ {s} /\ at = s
      /\ pc = "call" /\ pc' = "decide" /\ at' = None
      /\ UNCHANGED <<state, cancel, search, pool, cursor, total, ends, ledger, phase, quota, done,
                     index, hidden, faults>>
  BY DEF SourceLost, Answered, AfterPage
<1>2. o \in Outcomes /\ None \notin Outcomes
  BY OutcomeType, KeywordRunAssumption
<1>3. /\ query \in [Query -> QueryStates \cup {None}] /\ query[s] \in Open
      /\ outcome \in [Source -> Outcomes \cup {None}] /\ s \in Query
      /\ done \subseteq Source /\ s \in Range(pool) /\ phase \in {"resume", "fair"}
  BY <1>1, Kinds DEF IInv, TypeOK, Asking, Verifying, Open
<1> HIDE DEF o
<1>4. outcome' \in [Source -> Outcomes \cup {None}] /\ outcome'[s] \in Outcomes
  BY <1>1, <1>2, <1>3 DEF Settled
<1>5. CutOff("inaccessible")
  BY <1>1, <1>3 DEF CutOff, Settled, o
<1>6. query' \in [Query -> QueryStates \cup {None}] /\ query'[s] = "failed"
  BY <1>1, <1>3 DEF QueryStates
<1>7. \A x \in done' : outcome'[x] # None
  BY <1>1, <1>2, <1>3, <1>4 DEF IInv, FinishedSettled
<1>8. \A x \in Query : x # s => query'[x] = query[x]
  BY <1>1, <1>3
<1>9. left' \subseteq Source
  BY <1>1 DEF IInv, TypeOK
<1> QED
  BY <1>1, <1>2, <1>3, <1>4, <1>5, <1>6, <1>7, <1>8, <1>9, Kinds, SettleInv

-------------------------------------------------------------------------------
(* What is asked for next *)

\* The pool is only built anew as long as there is none.
LEMMA RebuildsNothing ==
  ASSUME IInv, pc # "idle", phase \in {"pool", "replace"}, Rebuild
  PROVE  pool = <<>> /\ ~exhausted /\ ~Begun
<1>1. pool # <<>> \/ exhausted => Begun
  BY AtWork DEF IInv, PoolBegun, Verifying
<1>2. Begun => pool # <<>>
  <2> SUFFICES ASSUME NEW s \in Source, query[s] # None PROVE pool # <<>>
    BY DEF Begun
  <2>1. s \in Range(pool)
    BY DEF IInv, PoolBegun
  <2> QED
    BY <2>1 DEF Range
<1>3. ~Begun
  BY <1>2 DEF Rebuild, Begun
<1> QED
  BY <1>1, <1>3

\* The source whose turn it is belongs to the pool and is not finished.
LEMMA FairestFacts ==
  ASSUME TypeOK, Eligible # {}
  PROVE  Fairest \in Range(pool) \ done
<1> DEFINE read_of(i) == cursor[pool[i]].scanned
           S          == {read_of(i) : i \in Eligible}
           I          == {i \in Eligible : \A j \in Eligible : read_of(i) <= read_of(j)}
<1>1. Eligible \subseteq DOMAIN pool /\ DOMAIN pool \subseteq Nat
  BY DEF Eligible, TypeOK
<1>2. \A i \in DOMAIN pool : pool[i] \in Source
  BY DEF TypeOK
<1>3. \A i \in Eligible : read_of(i) \in Nat
  <2>1. \A s \in Source : cursor[s].scanned \in 0 .. SourceCap
    BY DEF TypeOK
  <2>2. \A s \in Source : cursor[s].scanned \in Nat
    BY <2>1
  <2> QED
    BY <1>1, <1>2, <2>2
<1> HIDE DEF read_of
<1>4. S \in SUBSET Nat /\ S # {}
  BY <1>3
<1>5. Min(S) \in S /\ \A x \in S : Min(S) <= x
  <2> HIDE DEF S
  <2> QED
    BY <1>4, MinFacts
<1>6. I \in SUBSET Nat /\ I # {}
  <2>1. PICK i \in Eligible : Min(S) = read_of(i)
    BY <1>5
  <2>2. \A j \in Eligible : read_of(i) <= read_of(j)
    BY <1>5, <2>1
  <2> QED
    BY <1>1, <2>2
<1>7. Min(I) \in I
  <2> HIDE DEF I
  <2> QED
    BY <1>6, MinFacts
<1>8. Fairest = pool[Min(I)]
  BY DEF Fairest, read_of
<1> QED
  BY <1>1, <1>7, <1>8 DEF Eligible, Range

-------------------------------------------------------------------------------
(* Reading page by page *)

\* Induction on the natural numbers, for a set of them.
LEMMA AllNaturals ==
  ASSUME NEW G \in SUBSET Nat, 0 \in G, \A n \in G : n + 1 \in G
  PROVE  \A n \in Nat : n \in G
<1> SUFFICES ASSUME Nat \ G # {} PROVE FALSE
  OBVIOUS
<1> DEFINE x == Min(Nat \ G)
<1>1. x \in Nat \ G /\ \A y \in Nat \ G : x <= y
  BY MinFacts
<1> HIDE DEF x
<1>2. x # 0 /\ x - 1 \in Nat /\ ~(x <= x - 1) /\ (x - 1) + 1 = x
  BY <1>1
<1>3. x - 1 \in G
  BY <1>1, <1>2
<1> QED
  BY <1>1, <1>2, <1>3

Message == {"chat", "ask", "old"}

\* The requests among the first messages, counted one by one.
LEMMA AsksFacts ==
  ASSUME NEW m, NEW n \in Nat
  PROVE  /\ AsksIn(m, n) \in Nat /\ AsksIn(m, 0) = 0
         /\ AsksIn(m, n + 1) = AsksIn(m, n) + (IF m[n + 1] = "ask" THEN 1 ELSE 0)
<1> DEFINE asks(k) == {i \in 1 .. k : m[i] = "ask"}
<1>1. \A k \in Nat : IsFiniteSet(1 .. k) /\ asks(k) \subseteq 1 .. k
  BY FS_Interval
<1>2. \A k \in Nat : IsFiniteSet(asks(k)) /\ Cardinality(asks(k)) \in Nat
  BY <1>1, FS_Subset, FS_CardinalityType
<1>3. asks(0) = {} /\ Cardinality({}) = 0
  BY FS_EmptySet
<1>4. n + 1 \notin asks(n)
  OBVIOUS
<1>5. asks(n + 1) = IF m[n + 1] = "ask" THEN asks(n) \cup {n + 1} ELSE asks(n)
  <2>1. 1 .. (n + 1) = (1 .. n) \cup {n + 1}
    OBVIOUS
  <2> QED
    BY <2>1
<1>6. Cardinality(asks(n) \cup {n + 1}) = Cardinality(asks(n)) + 1
  <2> HIDE DEF asks
  <2> QED
    BY <1>2, <1>4, FS_AddElement
<1>7. \A k \in Nat : AsksIn(m, k) = Cardinality(asks(k))
  BY DEF AsksIn
<1> HIDE DEF asks
<1> QED
  BY <1>2, <1>3, <1>5, <1>6, <1>7

\* A page holds what comes after the first c messages.
IsPage(M, H, c) ==
    /\ H \in Seq(Message) /\ M \in Seq(Message) /\ c \in Nat /\ c + Len(M) <= Len(H)
    /\ \A k \in 1 .. Len(M) : M[k] = H[c + k]

\* The requests of a page are those of the history beyond what comes before it.
LEMMA AsksOnward ==
  ASSUME NEW H, NEW M, NEW c, IsPage(M, H, c), NEW n \in 0 .. Len(M)
  PROVE  AsksIn(H, c + n) = AsksIn(H, c) + AsksIn(M, n)
<1> DEFINE G == {i \in Nat : i <= Len(M) => AsksIn(H, c + i) = AsksIn(H, c) + AsksIn(M, i)}
<1>1. c \in Nat /\ Len(M) \in Nat /\ \A k \in 1 .. Len(M) : M[k] = H[c + k]
  BY DEF IsPage
<1>2. 0 \in G
  <2>1. AsksIn(M, 0) = 0 /\ AsksIn(H, c) \in Nat /\ c + 0 = c
    BY <1>1, AsksFacts
  <2> QED
    BY <2>1
<1>3. ASSUME NEW i \in G PROVE i + 1 \in G
  <2> SUFFICES ASSUME i + 1 <= Len(M)
               PROVE  AsksIn(H, c + (i + 1)) = AsksIn(H, c) + AsksIn(M, i + 1)
    OBVIOUS
  <2>1. i \in Nat /\ c + i \in Nat /\ (c + i) + 1 = c + (i + 1)
    BY <1>1
  <2>2. AsksIn(H, c + i) = AsksIn(H, c) + AsksIn(M, i)
    BY <1>1, <2>1
  <2>3. M[i + 1] = H[c + (i + 1)]
    BY <1>1, <2>1
  <2>4. /\ AsksIn(H, c) \in Nat /\ AsksIn(M, i) \in Nat
        /\ AsksIn(M, i + 1) = AsksIn(M, i) + (IF M[i + 1] = "ask" THEN 1 ELSE 0)
        /\ AsksIn(H, (c + i) + 1) = AsksIn(H, c + i) + (IF H[(c + i) + 1] = "ask" THEN 1 ELSE 0)
    BY <1>1, <2>1, AsksFacts
  <2> QED
    BY <2>1, <2>2, <2>3, <2>4
<1>4. n \in G
  <2>1. G \in SUBSET Nat /\ n \in Nat
    BY <1>1
  <2> HIDE DEF G
  <2> QED
    BY <1>2, <1>3, <2>1, AllNaturals
<1> QED
  BY <1>1, <1>4

\* More messages hold no fewer requests, and one message at most one.
LEMMA AsksGrow ==
  ASSUME NEW m, NEW a \in Nat, NEW b \in Nat, a <= b
  PROVE  AsksIn(m, a) <= AsksIn(m, b)
<1> DEFINE asks(k) == {i \in 1 .. k : m[i] = "ask"}
<1>1. IsFiniteSet(1 .. b) /\ asks(b) \subseteq 1 .. b /\ asks(a) \subseteq asks(b)
  BY FS_Interval
<1>2. Cardinality(asks(a)) <= Cardinality(asks(b))
  <2> HIDE DEF asks
  <2> QED
    BY <1>1, FS_Subset
<1> QED
  BY <1>2 DEF AsksIn

\* What ends the reading of a history at message k, whatever the page it is read with.
EndsAt(H, k) ==
    IF H[k] = "old" THEN "window_complete"
    ELSE IF AsksIn(H, k) >= MinRequests THEN "quality_reached"
    ELSE IF k >= SourceCap THEN "source_cap"
    ELSE "none"

\* The cursor of a history of which n messages have been read
ReadTo(H, n) == [scanned |-> n, asks |-> AsksIn(H, n)]

\* A page stops where the history does, or where the run's cap cuts it off.
LEMMA StopFacts ==
  ASSUME NEW H, NEW M, NEW c, IsPage(M, H, c), NEW room \in Int, NEW k \in 1 .. Len(M)
  PROVE  Stop(M, ReadTo(H, c), room, k) =
             IF EndsAt(H, c + k) # "none" THEN EndsAt(H, c + k)
             ELSE IF k >= room THEN "run_cap" ELSE "none"
<1>1. M[k] = H[c + k]
  BY DEF IsPage
<1>2. AsksIn(H, c + k) = AsksIn(H, c) + AsksIn(M, k)
  <2>1. k \in 0 .. Len(M)
    BY DEF IsPage
  <2> QED
    BY <2>1, AsksOnward
<1>3. ReadTo(H, c).asks = AsksIn(H, c) /\ ReadTo(H, c).scanned = c
  BY DEF ReadTo
<1> QED
  BY <1>1, <1>2, <1>3 DEF Stop, EndsAt

\* A page with nothing to stop at is read to its end.
LEMMA ConsumedWhole ==
  ASSUME NEW H, NEW M, NEW c, IsPage(M, H, c), NEW room \in Int, NEW limit \in Int,
         \A k \in 1 .. Len(M) : EndsAt(H, c + k) = "none" /\ k < room
  PROVE  Consumed(M, ReadTo(H, c), room, limit) =
             [cursor |-> ReadTo(H, c + Len(M)),
              stop   |-> IF Len(M) < limit THEN "history_exhausted" ELSE "none"]
<1> DEFINE stops == {k \in DOMAIN M : Stop(M, ReadTo(H, c), room, k) # "none"}
<1>1. Len(M) \in Nat /\ DOMAIN M = 1 .. Len(M) /\ c \in Nat
  BY DEF IsPage
<1>2. stops = {}
  <2> SUFFICES ASSUME NEW k \in 1 .. Len(M) PROVE Stop(M, ReadTo(H, c), room, k) = "none"
    BY <1>1
  <2>1. EndsAt(H, c + k) = "none" /\ ~(k >= room) /\ k \in Int
    BY <1>1
  <2> QED
    BY <2>1, StopFacts
<1>3. ~(Len(M) > 0 /\ M[Len(M)] = "old")
  <2> SUFFICES ASSUME Len(M) > 0 PROVE M[Len(M)] # "old"
    OBVIOUS
  <2>1. Len(M) \in 1 .. Len(M)
    BY <1>1
  <2>2. M[Len(M)] = H[c + Len(M)] /\ EndsAt(H, c + Len(M)) = "none"
    BY <2>1 DEF IsPage
  <2> QED
    BY <2>2 DEF EndsAt
<1>4. Progress(ReadTo(H, c), Len(M), AsksIn(M, Len(M))) = ReadTo(H, c + Len(M))
  <2>1. Len(M) \in 0 .. Len(M)
    BY <1>1
  <2> QED
    BY <2>1, AsksOnward DEF Progress, ReadTo
<1> HIDE DEF stops
<1>5. Consumed(M, ReadTo(H, c), room, limit) =
          [cursor |-> Progress(ReadTo(H, c), Len(M), AsksIn(M, Len(M))),
           stop   |-> IF Len(M) < limit THEN "history_exhausted" ELSE "none"]
  BY <1>2, <1>3 DEF Consumed, stops
<1> QED
  BY <1>4, <1>5

\* Otherwise it is read up to the first message that stops it.
LEMMA ConsumedInPart ==
  ASSUME NEW H, NEW M, NEW c, IsPage(M, H, c), NEW room \in Int, NEW limit \in Int,
         NEW last \in 1 .. Len(M), EndsAt(H, c + last) # "none" \/ last >= room,
         \A k \in 1 .. last - 1 : EndsAt(H, c + k) = "none" /\ k < room
  PROVE  Consumed(M, ReadTo(H, c), room, limit) =
             [cursor |-> ReadTo(H, IF H[c + last] = "old" THEN (c + last) - 1 ELSE c + last),
              stop   |-> IF EndsAt(H, c + last) # "none" THEN EndsAt(H, c + last) ELSE "run_cap"]
<1> DEFINE stops == {k \in DOMAIN M : Stop(M, ReadTo(H, c), room, k) # "none"}
           n     == IF last > 0 /\ M[last] = "old" THEN last - 1 ELSE last
           why   == IF EndsAt(H, c + last) # "none" THEN EndsAt(H, c + last) ELSE "run_cap"
<1>1. Len(M) \in Nat /\ DOMAIN M = 1 .. Len(M) /\ c \in Nat /\ last \in Nat \ {0}
  BY DEF IsPage
<1>2. Stop(M, ReadTo(H, c), room, last) = why
  BY StopFacts
<1>3. why # "none"
  OBVIOUS
<1>4. last \in stops
  BY <1>1, <1>2, <1>3
<1>5. \A k \in stops : last <= k
  <2> SUFFICES ASSUME NEW k \in 1 .. Len(M), k < last
               PROVE  Stop(M, ReadTo(H, c), room, k) = "none"
    BY <1>1
  <2>1. k \in 1 .. last - 1
    BY <1>1
  <2>2. EndsAt(H, c + k) = "none" /\ ~(k >= room)
    BY <2>1
  <2> QED
    BY <2>2, StopFacts
<1>6. stops \in SUBSET Nat /\ stops # {}
  BY <1>1, <1>4
<1> HIDE DEF stops, why
<1>7. Min(stops) = last
  <2>1. Min(stops) \in stops /\ Min(stops) <= last
    BY <1>4, <1>6, MinFacts
  <2>2. Min(stops) \in Nat /\ last <= Min(stops)
    BY <1>5, <1>6, <2>1
  <2> QED
    BY <1>1, <2>1, <2>2
<1>8. n \in 0 .. Len(M)
  BY <1>1
<1>9. M[last] = H[c + last]
  BY DEF IsPage
<1>10. c + n = IF H[c + last] = "old" THEN (c + last) - 1 ELSE c + last
  BY <1>1, <1>9
<1>11. Progress(ReadTo(H, c), n, AsksIn(M, n)) = ReadTo(H, c + n)
  <2> HIDE DEF n
  <2> QED
    BY <1>8, AsksOnward DEF Progress, ReadTo
<1>12. Consumed(M, ReadTo(H, c), room, limit) =
           [cursor |-> Progress(ReadTo(H, c), n, AsksIn(M, n)), stop |-> why]
  BY <1>2, <1>6, <1>7 DEF Consumed, stops
<1> HIDE DEF n
<1> QED
  BY <1>10, <1>11, <1>12 DEF why

\* Read alone, a source comes to what its first message that ends the reading says, ...
LEMMA AloneEnds ==
  ASSUME NEW s \in Source, NEW k \in 1 .. Len(History[s]), k <= SourceCap,
         EndsAt(History[s], k) # "none",
         \A i \in 1 .. k - 1 : EndsAt(History[s], i) = "none"
  PROVE  Alone(s) = Outcome(EndsAt(History[s], k),
                            AsksIn(History[s], IF History[s][k] = "old" THEN k - 1 ELSE k))
<1> DEFINE H   == History[s]
           len == Min({Len(H), SourceCap})
           M   == SubSeq(H, 1, len)
<1>1. H \in Seq(Message) /\ Len(H) \in Nat /\ SourceCap \in Nat
  BY KeywordRunAssumption DEF Message
<1>2. len = IF Len(H) <= SourceCap THEN Len(H) ELSE SourceCap
  BY <1>1, MinOfTwo
<1> HIDE DEF len, H
<1>3. len \in Nat /\ len <= Len(H) /\ len <= SourceCap /\ k <= len /\ k \in Nat \ {0}
  BY <1>1, <1>2 DEF H
<1>4. Len(M) = len /\ M \in Seq(Message) /\ \A i \in 1 .. len : M[i] = H[0 + i]
  BY <1>1, <1>3
<1> HIDE DEF M
<1>5. IsPage(M, H, 0)
  BY <1>1, <1>3, <1>4 DEF IsPage
<1>6. AsksIn(H, 0) = 0
  BY AsksFacts
<1>7. /\ k \in 1 .. Len(M) /\ 0 + k = k
      /\ \A i \in 1 .. k - 1 : EndsAt(H, 0 + i) = "none" /\ i < SourceCap + 1
  BY <1>1, <1>3, <1>4 DEF H
<1>8. Consumed(M, ReadTo(H, 0), SourceCap + 1, SourceCap + 1) =
          [cursor |-> ReadTo(H, IF H[k] = "old" THEN k - 1 ELSE k), stop |-> EndsAt(H, k)]
  <2>1. EndsAt(H, 0 + k) # "none"
    BY <1>7 DEF H
  <2>2. SourceCap + 1 \in Int
    BY <1>1
  <2>3. Consumed(M, ReadTo(H, 0), SourceCap + 1, SourceCap + 1) =
          [cursor |-> ReadTo(H, IF H[0 + k] = "old" THEN (0 + k) - 1 ELSE 0 + k),
           stop   |-> IF EndsAt(H, 0 + k) # "none" THEN EndsAt(H, 0 + k) ELSE "run_cap"]
    BY <1>5, <1>7, <2>1, <2>2, ConsumedInPart
  <2> QED
    BY <1>7, <2>1, <2>3
<1>9. ReadTo(H, 0) = [scanned |-> 0, asks |-> 0]
  BY <1>6 DEF ReadTo
<1> QED
  BY <1>8, <1>9 DEF Alone, ReadTo, M, len, H

\* ... and if there is none, it has been read to its end.
LEMMA AloneExhausts ==
  ASSUME NEW s \in Source, \A i \in 1 .. Len(History[s]) : EndsAt(History[s], i) = "none"
  PROVE  Alone(s) = Outcome("history_exhausted", AsksIn(History[s], Len(History[s])))
<1> DEFINE H   == History[s]
           len == Min({Len(H), SourceCap})
           M   == SubSeq(H, 1, len)
<1>1. H \in Seq(Message) /\ Len(H) \in Nat /\ SourceCap \in Nat \ {0}
  BY KeywordRunAssumption DEF Message
<1> HIDE DEF H, M
<1>2. Len(H) < SourceCap
  <2> SUFFICES ASSUME SourceCap <= Len(H) PROVE FALSE
    BY <1>1
  <2>1. EndsAt(H, SourceCap) = "none"
    BY <1>1 DEF H
  <2> QED
    BY <1>1, <2>1 DEF EndsAt
<1>3. len = Len(H)
  BY <1>1, <1>2, MinOfTwo
<1> HIDE DEF len
<1>4. Len(M) = Len(H) /\ M \in Seq(Message) /\ \A i \in 1 .. Len(H) : M[i] = H[0 + i]
  BY <1>1, <1>3 DEF M
<1>5. IsPage(M, H, 0)
  BY <1>1, <1>4 DEF IsPage
<1>6. \A i \in 1 .. Len(M) : EndsAt(H, 0 + i) = "none" /\ i < SourceCap + 1
  BY <1>1, <1>2, <1>4 DEF H
<1>7. Consumed(M, ReadTo(H, 0), SourceCap + 1, SourceCap + 1) =
          [cursor |-> ReadTo(H, Len(H)), stop |-> "history_exhausted"]
  <2>1. SourceCap + 1 \in Int /\ Len(M) < SourceCap + 1 /\ 0 + Len(M) = Len(H)
    BY <1>1, <1>2, <1>4
  <2>2. Consumed(M, ReadTo(H, 0), SourceCap + 1, SourceCap + 1) =
          [cursor |-> ReadTo(H, 0 + Len(M)),
           stop   |-> IF Len(M) < SourceCap + 1 THEN "history_exhausted" ELSE "none"]
    BY <1>5, <1>6, <2>1, ConsumedWhole
  <2> QED
    BY <2>1, <2>2
<1>8. ReadTo(H, 0) = [scanned |-> 0, asks |-> 0]
  BY AsksFacts DEF ReadTo
<1> QED
  BY <1>7, <1>8 DEF Alone, ReadTo, M, len, H

\* Nothing before the cursor of a source that goes on ends its reading.
LEMMA GoingFacts ==
  ASSUME IInv, NEW s \in Source, Going(s)
  PROVE  /\ cursor[s] = ReadTo(History[s], cursor[s].scanned)
         /\ History[s] \in Seq(Message) /\ cursor[s].scanned \in 0 .. Len(History[s])
         /\ cursor[s].scanned < SourceCap
         /\ AsksIn(History[s], cursor[s].scanned) < MinRequests
         /\ \A k \in 1 .. cursor[s].scanned : EndsAt(History[s], k) = "none"
<1> DEFINE H == History[s]
           c == cursor[s].scanned
<1>1. /\ cursor[s] \in [scanned : 0 .. SourceCap, asks : 0 .. MinRequests]
      /\ cursor[s].asks = AsksIn(H, c) /\ c <= Len(H)
  BY DEF IInv, TypeOK, ReadOnce, ReadSoFar
<1>2. cursor[s] = ReadTo(H, c)
  BY <1>1 DEF ReadTo
<1>3. H \in Seq(Message) /\ Len(H) \in Nat /\ {SourceCap, MinRequests} \subseteq Nat
  BY KeywordRunAssumption DEF Message
<1>4. c \in Nat /\ c \in 0 .. Len(H)
  BY <1>1, <1>3
<1>5. c < SourceCap /\ AsksIn(H, c) < MinRequests /\ \A k \in 1 .. c : H[k] # "old"
  BY <1>1 DEF Going
<1> HIDE DEF H, c
<1>6. ASSUME NEW k \in 1 .. c PROVE EndsAt(H, k) = "none"
  <2>1. k \in Nat /\ k <= c
    BY <1>4
  <2>2. AsksIn(H, k) <= AsksIn(H, c) /\ AsksIn(H, k) \in Nat /\ AsksIn(H, c) \in Nat
    BY <1>4, <2>1, AsksGrow, AsksFacts
  <2>3. ~(AsksIn(H, k) >= MinRequests) /\ ~(k >= SourceCap)
    BY <1>3, <1>4, <1>5, <2>1, <2>2
  <2> QED
    BY <1>5, <2>3 DEF EndsAt
<1> QED
  BY <1>2, <1>3, <1>4, <1>5, <1>6 DEF H, c

\* The least n that something is said of, if there is one.
LEMMA LeastOf ==
  ASSUME NEW S \in SUBSET Nat, S # {}
  PROVE  \E n \in S : \A k \in Nat : k < n => k \notin S
<1>1. Min(S) \in S /\ \A x \in S : Min(S) <= x
  BY MinFacts
<1>2. Min(S) \in Nat
  BY <1>1
<1> QED
  BY <1>1, <1>2

\* The next page takes a source that goes on a bit further, but neither it nor the run
\* beyond their caps; what it stops at is what would have ended it anyway.
LEMMA PageFacts ==
  ASSUME IInv, NEW s \in Source, Going(s), total < RunCap
  PROVE  \E n \in Nat :
             /\ Page(s).cursor = ReadTo(History[s], n)
             /\ cursor[s].scanned <= n /\ n <= Len(History[s]) /\ n <= SourceCap
             /\ AsksIn(History[s], n) <= MinRequests
             /\ total + (n - cursor[s].scanned) <= RunCap
             /\ \/ /\ Page(s).stop = "none"
                   /\ n < SourceCap /\ AsksIn(History[s], n) < MinRequests
                   /\ \A k \in 1 .. n : EndsAt(History[s], k) = "none"
                \/ Page(s).stop = "run_cap"
                \/ /\ Page(s).stop \in {"quality_reached", "window_complete",
                                        "history_exhausted", "source_cap"}
                   /\ Outcome(Page(s).stop, AsksIn(History[s], n)) = Alone(s)
<1> DEFINE H     == History[s]
           c     == cursor[s].scanned
           limit == Limit(s)
           room  == RunCap - total
           M     == SubSeq(H, c + 1, Min({Len(H), c + limit}))
<1>1. /\ cursor[s] = ReadTo(H, c) /\ H \in Seq(Message) /\ c \in 0 .. Len(H)
      /\ c < SourceCap /\ AsksIn(H, c) < MinRequests
      /\ \A k \in 1 .. c : EndsAt(H, k) = "none"
  BY GoingFacts
<1>2. /\ {PageSize, SourceCap, RunCap, MinRequests} \subseteq Nat \ {0}
      /\ Len(H) \in Nat /\ c \in Nat /\ total \in Nat
  <2>1. total \in 0 .. RunCap
    BY DEF IInv, TypeOK
  <2> QED
    BY <1>1, <2>1, KeywordRunAssumption
<1>3. limit \in Nat \ {0} /\ limit <= SourceCap - c /\ limit <= room
  <2> DEFINE L == {PageSize, SourceCap - c, room}
  <2>1. L \in SUBSET Nat /\ L # {}
    BY <1>1, <1>2
  <2>2. Min(L) \in L /\ \A x \in L : Min(L) <= x
    <3> HIDE DEF L
    <3> QED
      BY <2>1, MinFacts
  <2>3. limit = Min(L)
    BY DEF Limit
  <2> HIDE DEF limit
  <2> QED
    BY <1>1, <1>2, <2>2, <2>3
<1>4. Page(s) = Consumed(M, ReadTo(H, c), room, limit)
  BY <1>1 DEF Page
<1> HIDE DEF limit, H, c
<1>5. Min({Len(H), c + limit}) = IF Len(H) <= c + limit THEN Len(H) ELSE c + limit
  BY <1>2, <1>3, MinOfTwo
<1>6. /\ M \in Seq(Message)
      /\ Len(M) = IF Len(H) <= c + limit THEN Len(H) - c ELSE limit
      /\ \A k \in 1 .. Len(M) : M[k] = H[c + k]
  <2> DEFINE last == Min({Len(H), c + limit})
  <2>1. /\ last = IF Len(H) <= c + limit THEN Len(H) ELSE c + limit
        /\ c + 1 \in Nat \ {0} /\ last \in Nat /\ last <= Len(H) /\ last >= c
    BY <1>1, <1>2, <1>3, <1>5
  <2> HIDE DEF last
  <2> DEFINE first == c + 1
  <2>2. M = SubSeq(H, first, last)
    BY DEF last
  <2>3. /\ first \in Int /\ last \in Int /\ first = c + 1
        /\ \A k \in first .. last : H[k] \in Message
    BY <1>1, <1>2, <2>1
  <2> HIDE DEF first, M
  <2>4. /\ M \in Seq(Message)
        /\ Len(M) = IF first <= last THEN last - first + 1 ELSE 0
        /\ \A k \in 1 .. last - first + 1 : M[k] = H[first + k - 1]
    BY <2>2, <2>3, SubSeqProperties
  <2>5. c \in Int /\ last \in Int /\ c <= last /\ first = c + 1
    BY <1>2, <2>1, <2>3
  <2>6. Len(M) = IF first <= last THEN last - first + 1 ELSE 0
    BY <2>4
  <2>7. Len(M) = last - c /\ last - first + 1 = last - c
    BY <2>5, <2>6
  <2>8. ASSUME NEW k \in 1 .. Len(M) PROVE M[k] = H[c + k]
    <3>1. k \in 1 .. last - first + 1 /\ first + k - 1 = c + k
      BY <2>5, <2>7
    <3> QED
      BY <2>4, <3>1
  <2>9. last - c = IF Len(H) <= c + limit THEN Len(H) - c ELSE limit
    BY <1>2, <1>3, <2>1
  <2> QED
    BY <2>4, <2>7, <2>8, <2>9
<1> HIDE DEF M
<1>7. /\ IsPage(M, H, c) /\ Len(M) \in Nat /\ Len(M) <= limit /\ room \in Int /\ limit \in Int
      /\ c + Len(M) <= Len(H)
  BY <1>1, <1>2, <1>3, <1>6 DEF IsPage
<1> DEFINE stops == {k \in 1 .. Len(M) : EndsAt(H, c + k) # "none" \/ k >= room}
<1> HIDE DEF room
<1>8. CASE stops = {}
  <2> DEFINE n == c + Len(M)
  <2>1. \A k \in 1 .. Len(M) : EndsAt(H, c + k) = "none" /\ k < room
    BY <1>7, <1>8
  <2>2. Page(s) = [cursor |-> ReadTo(H, n),
                   stop   |-> IF Len(M) < limit THEN "history_exhausted" ELSE "none"]
    BY <1>4, <1>7, <2>1, ConsumedWhole
  <2>3. \A k \in 1 .. n : EndsAt(H, k) = "none"
    <3> SUFFICES ASSUME NEW k \in 1 .. n, k > c PROVE EndsAt(H, k) = "none"
      BY <1>1, <1>2
    <3>1. k - c \in 1 .. Len(M) /\ c + (k - c) = k
      BY <1>2, <1>7
    <3> QED
      BY <2>1, <3>1
  <2>4. n \in Nat /\ c <= n /\ n <= Len(H)
    BY <1>2, <1>7
  <2>5. n < SourceCap /\ AsksIn(H, n) < MinRequests
    <3>1. CASE n = c
      BY <1>1, <3>1
    <3>2. CASE n > c
      <4>1. EndsAt(H, n) = "none"
        BY <1>2, <2>3, <2>4, <3>2
      <4>2. ~(n >= SourceCap) /\ ~(AsksIn(H, n) >= MinRequests) /\ AsksIn(H, n) \in Nat
        BY <2>4, <4>1, AsksFacts DEF EndsAt
      <4> QED
        BY <1>2, <2>4, <4>2
    <3> QED
      BY <1>2, <2>4, <3>1, <3>2
  <2>6. total + (n - c) <= RunCap
    BY <1>2, <1>3, <1>7 DEF room
  <2>7. CASE Len(M) < limit
    <3>1. n = Len(H)
      BY <1>2, <1>3, <1>6, <2>7
    <3>2. Alone(s) = Outcome("history_exhausted", AsksIn(H, n))
      BY <2>3, <3>1, AloneExhausts DEF H
    <3>3. Page(s).cursor = ReadTo(H, n) /\ Page(s).stop = "history_exhausted"
      BY <2>2, <2>7
    <3>4. AsksIn(H, n) \in Nat
      BY <2>4, AsksFacts
    <3> HIDE DEF n
    <3> QED
      BY <1>2, <2>4, <2>5, <2>6, <3>2, <3>3, <3>4 DEF H, c
  <2>8. CASE ~(Len(M) < limit)
    <3>1. Page(s).cursor = ReadTo(H, n) /\ Page(s).stop = "none"
      BY <2>2, <2>8
    <3>2. AsksIn(H, n) \in Nat
      BY <2>4, AsksFacts
    <3> HIDE DEF n
    <3> QED
      BY <1>2, <2>3, <2>4, <2>5, <2>6, <3>1, <3>2 DEF H, c
  <2> QED
    BY <2>7, <2>8
<1>9. CASE stops # {}
  <2>1. PICK last \in stops : \A k \in Nat : k < last => k \notin stops
    <3>1. stops \in SUBSET Nat
      OBVIOUS
    <3> HIDE DEF stops
    <3> QED
      BY <1>9, <3>1, LeastOf
  <2> DEFINE e == c + last
             n == IF H[e] = "old" THEN e - 1 ELSE e
             why == IF EndsAt(H, e) # "none" THEN EndsAt(H, e) ELSE "run_cap"
  <2>2. last \in 1 .. Len(M) /\ (EndsAt(H, c + last) # "none" \/ last >= room)
    OBVIOUS
  <2>3. \A k \in 1 .. last - 1 : EndsAt(H, c + k) = "none" /\ k < room
    <3> SUFFICES ASSUME NEW k \in 1 .. last - 1 PROVE EndsAt(H, c + k) = "none" /\ k < room
      OBVIOUS
    <3>1. k \in Nat /\ k < last /\ k \in 1 .. Len(M)
      BY <1>7, <2>2
    <3>2. k \notin stops
      <4> HIDE DEF stops
      <4> QED
        BY <2>1, <3>1
    <3> QED
      BY <1>7, <3>1, <3>2
  <2> HIDE DEF stops
  <2>4. Page(s) = [cursor |-> ReadTo(H, n), stop |-> why]
    <3>1. Consumed(M, ReadTo(H, c), room, limit) =
              [cursor |-> ReadTo(H, IF H[c + last] = "old" THEN (c + last) - 1 ELSE c + last),
               stop   |-> IF EndsAt(H, c + last) # "none" THEN EndsAt(H, c + last) ELSE "run_cap"]
      BY <1>7, <2>2, <2>3, ConsumedInPart
    <3>2. n = IF H[c + last] = "old" THEN (c + last) - 1 ELSE c + last
      OBVIOUS
    <3>3. why = IF EndsAt(H, c + last) # "none" THEN EndsAt(H, c + last) ELSE "run_cap"
      OBVIOUS
    <3> HIDE DEF n, why
    <3> QED
      BY <1>4, <3>1, <3>2, <3>3, Zenon
  <2>5. /\ e \in Nat /\ c < e /\ e <= Len(H) /\ e <= SourceCap /\ last <= room
        /\ e \in 1 .. Len(H)
    BY <1>1, <1>2, <1>3, <1>7, <2>2
  <2>6. \A k \in 1 .. e - 1 : EndsAt(H, k) = "none"
    <3> SUFFICES ASSUME NEW k \in 1 .. e - 1, k > c PROVE EndsAt(H, k) = "none"
      BY <1>1, <1>2
    <3>1. k - c \in 1 .. last - 1 /\ c + (k - c) = k
      BY <1>2, <2>2
    <3> QED
      BY <2>3, <3>1
  <2>7. n \in Nat /\ c <= n /\ n <= e
    BY <1>2, <2>5
  <2>8. AsksIn(H, e - 1) < MinRequests
    <3>1. CASE e - 1 = c
      BY <1>1, <3>1
    <3>2. CASE e - 1 > c
      <4>1. e - 1 \in 1 .. e - 1
        BY <1>2, <2>5, <3>2
      <4>2. ~(AsksIn(H, e - 1) >= MinRequests) /\ AsksIn(H, e - 1) \in Nat
        <5>1. EndsAt(H, e - 1) = "none"
          BY <2>6, <4>1
        <5>2. e - 1 \in Nat
          BY <2>5, <4>1
        <5> QED
          BY <5>1, <5>2, AsksFacts DEF EndsAt
      <4> QED
        BY <1>2, <4>2
    <3> QED
      BY <1>2, <2>5, <3>1, <3>2
  <2>9. AsksIn(H, n) <= MinRequests
    <3>1. e - 1 \in Nat /\ (e - 1) + 1 = e
      BY <1>2, <2>5
    <3>2. /\ AsksIn(H, e - 1) \in Nat
          /\ AsksIn(H, (e - 1) + 1) = AsksIn(H, e - 1) + (IF H[(e - 1) + 1] = "ask" THEN 1 ELSE 0)
      BY <3>1, AsksFacts
    <3>3. AsksIn(H, e) <= MinRequests /\ AsksIn(H, e - 1) <= MinRequests
      BY <1>2, <2>8, <3>1, <3>2
    <3> QED
      BY <3>3
  <2>10. total + (n - c) <= RunCap
    <3>1. n - c <= last
      BY <1>2, <2>2, <2>5
    <3> QED
      BY <1>2, <2>2, <2>5, <2>7, <3>1 DEF room
  <2>11. why = "run_cap" \/ (EndsAt(H, e) # "none" /\ why = EndsAt(H, e))
    OBVIOUS
  <2>12. ASSUME EndsAt(H, e) # "none"
         PROVE  Alone(s) = Outcome(EndsAt(H, e), AsksIn(H, n))
    BY <2>5, <2>6, <2>12, AloneEnds DEF H
  <2>13. EndsAt(H, e) \in {"none", "quality_reached", "window_complete", "source_cap"}
    BY DEF EndsAt
  <2>14. n <= Len(H) /\ n <= SourceCap
    BY <1>2, <2>5, <2>7
  <2>15. Page(s).cursor = ReadTo(H, n) /\ Page(s).stop = why
    BY <2>4
  <2> HIDE DEF n, e, why
  <2> QED
    BY <2>7, <2>9, <2>10, <2>11, <2>12, <2>13, <2>14, <2>15 DEF H, c
<1> QED
  BY <1>8, <1>9

-------------------------------------------------------------------------------
(* How much has been read in all: sums over a finite set, which the folds define by taking
   one member after another *)

\* The sums of f over the subsets of S, as a fold makes them.
SumsUp(sum, f, S) ==
    sum = [s \in SUBSET S |-> IF s = {} THEN 0
                              ELSE LET x == CHOOSE i \in s : TRUE IN f[x] + sum[s \ {x}]]

\* A set loses one member.
LEMMA OneLess ==
  ASSUME NEW S, IsFiniteSet(S), NEW s \in SUBSET S, NEW x \in s, NEW n \in Nat,
         Cardinality(s) <= n + 1
  PROVE  s \ {x} \in SUBSET S /\ Cardinality(s \ {x}) <= n
<1>1. IsFiniteSet(s)
  BY FS_Subset
<1>2. Cardinality(s) \in Nat /\ Cardinality(s \ {x}) = Cardinality(s) - 1
  BY <1>1, FS_CardinalityType, FS_RemoveElement
<1> QED
  BY <1>2

\* There are such sums.
LEMMA SumExists ==
  ASSUME NEW S, IsFiniteSet(S), NEW f
  PROVE  \E sum : SumsUp(sum, f, S)
<1> DEFINE pick(s)    == CHOOSE i \in s : TRUE
           body(g, s) == IF s = {} THEN 0 ELSE f[pick(s)] + g[s \ {pick(s)}]
           upto(g, n) == \A s \in SUBSET S : Cardinality(s) <= n => g[s] = body(g, s)
           G          == {n \in Nat : \E g : upto(g, n)}
<1>1. 0 \in G
  <2> DEFINE g == [s \in SUBSET S |-> 0]
  <2>1. \A s \in SUBSET S : Cardinality(s) <= 0 => s = {}
    BY FS_Subset, FS_CardinalityType, FS_EmptySet
  <2>2. upto(g, 0)
    BY <2>1
  <2> HIDE DEF g, upto
  <2> QED
    BY <2>2
<1>2. ASSUME NEW n \in G PROVE n + 1 \in G
  <2>1. PICK g : upto(g, n)
    OBVIOUS
  <2> DEFINE h == [s \in SUBSET S |-> body(g, s)]
  <2>2. ASSUME NEW s \in SUBSET S, Cardinality(s) <= n + 1
       PROVE  h[s] = body(h, s)
    <3>1. CASE s = {}
      BY <3>1
    <3>2. CASE s # {}
      <4>1. pick(s) \in s
        BY <3>2
      <4>2. s \ {pick(s)} \in SUBSET S /\ Cardinality(s \ {pick(s)}) <= n
        <5> HIDE DEF pick
        <5> QED
          BY <2>2, <4>1, OneLess
      <4>3. h[s \ {pick(s)}] = g[s \ {pick(s)}]
        <5>1. g[s \ {pick(s)}] = body(g, s \ {pick(s)})
          <6> HIDE DEF pick, body
          <6> QED
            BY <2>1, <4>2
        <5> HIDE DEF pick, body
        <5> QED
          BY <4>2, <5>1
      <4> HIDE DEF pick
      <4>4. h[s] = f[pick(s)] + g[s \ {pick(s)}]
        BY <3>2
      <4> HIDE DEF h
      <4> QED
        BY <3>2, <4>3, <4>4
    <3> QED
      BY <3>1, <3>2
  <2>3. upto(h, n + 1)
    <3> HIDE DEF h, body
    <3> QED
      BY <2>2
  <2> HIDE DEF upto, h
  <2> QED
    BY <2>3
<1>3. Cardinality(S) \in G
  <2>1. Cardinality(S) \in Nat
    BY FS_CardinalityType
  <2> HIDE DEF G
  <2>2. G \subseteq Nat
    BY DEF G
  <2> QED
    BY <1>1, <1>2, <2>1, <2>2, AllNaturals
<1>4. PICK g : upto(g, Cardinality(S))
  BY <1>3
<1> DEFINE sum == [s \in SUBSET S |-> body(g, s)]
<1>5. \A s \in SUBSET S : g[s] = body(g, s)
  <2> HIDE DEF body
  <2>1. \A s \in SUBSET S : Cardinality(s) <= Cardinality(S)
    BY FS_Subset
  <2> QED
    BY <1>4, <2>1
<1>6. \A s \in SUBSET S : sum[s] = g[s]
  <2> HIDE DEF body
  <2> QED
    BY <1>5
<1>7. \A s \in SUBSET S : body(g, s) = body(sum, s)
  <2> SUFFICES ASSUME NEW s \in SUBSET S, s # {} PROVE body(g, s) = body(sum, s)
    <3> HIDE DEF pick, sum
    <3> QED
      OBVIOUS
  <2>1. s \ {pick(s)} \in SUBSET S
    OBVIOUS
  <2>2. sum[s \ {pick(s)}] = g[s \ {pick(s)}]
    <3> HIDE DEF pick, sum
    <3> QED
      BY <1>6, <2>1
  <2> HIDE DEF sum, pick
  <2> QED
    BY <2>2
<1>8. sum = [s \in SUBSET S |-> body(sum, s)]
  <2>1. \A s \in SUBSET S : sum[s] = body(sum, s)
    <3> HIDE DEF body, sum
    <3> QED
      BY <1>5, <1>6, <1>7
  <2>2. sum = [s \in SUBSET S |-> sum[s]]
    <3> HIDE DEF body
    <3> QED
      OBVIOUS
  <2> HIDE DEF sum, body
  <2> QED
    BY <2>1, <2>2, Zenon
<1>9. SumsUp(sum, f, S)
  <2> HIDE DEF sum
  <2> QED
    BY <1>8, Zenon DEF SumsUp
<1> QED
  <2> HIDE DEF sum
  <2> QED
    BY <1>9

\* What holds of the empty set, and of a set if it holds of it without any one member, ...
LEMMA AllSubsets ==
  ASSUME NEW S, IsFiniteSet(S), NEW G, {} \in G,
         \A s \in SUBSET S : s # {} /\ (\A x \in s : s \ {x} \in G) => s \in G
  PROVE  S \in G
<1> DEFINE N == {n \in Nat : \A s \in SUBSET S : Cardinality(s) <= n => s \in G}
<1>1. 0 \in N
  <2>1. \A s \in SUBSET S : Cardinality(s) <= 0 => s = {}
    BY FS_Subset, FS_CardinalityType, FS_EmptySet
  <2> QED
    BY <2>1
<1>2. ASSUME NEW n \in N PROVE n + 1 \in N
  <2> SUFFICES ASSUME NEW s \in SUBSET S, Cardinality(s) <= n + 1, s # {} PROVE s \in G
    OBVIOUS
  <2>1. \A x \in s : s \ {x} \in SUBSET S /\ Cardinality(s \ {x}) <= n
    BY OneLess
  <2>2. \A x \in s : s \ {x} \in G
    BY <2>1
  <2> QED
    BY <2>2
<1>3. Cardinality(S) \in N
  <2>1. Cardinality(S) \in Nat /\ N \in SUBSET Nat
    BY FS_CardinalityType
  <2> HIDE DEF N
  <2> QED
    BY <1>1, <1>2, <2>1, AllNaturals
<1>4. Cardinality(S) <= Cardinality(S)
  BY FS_CardinalityType
<1> QED
  BY <1>3, <1>4

\* What is needed of them: they add what belongs to some member, the same for every f.
SumOf(sum, f, S) ==
    /\ SumFunction(f) = sum[S] /\ sum[{}] = 0
    /\ \A s \in SUBSET S :
           s # {} => \E x \in s : /\ x = CHOOSE i \in s : TRUE
                                  /\ sum[s] = f[x] + sum[s \ {x}]

\* The sum over a function is such a sum.
LEMMA SumIs ==
  ASSUME NEW S, IsFiniteSet(S), NEW f, DOMAIN f = S
  PROVE  \E sum : SumOf(sum, f, S)
<1> DEFINE E(sum) == sum = [s \in SUBSET S |->
                               IF s = {} THEN 0
                               ELSE LET x == CHOOSE i \in s : TRUE IN f[x] + sum[s \ {x}]]
           sum    == CHOOSE sum : E(sum)
<1>1. SumFunction(f) = sum[S]
  BY Zenon DEF SumFunction, SumFunctionOnSet, FoldFunctionOnSet, MapThenFoldSet
<1>2. \E it : E(it)
  <2>1. \E it : SumsUp(it, f, S)
    BY SumExists
  <2> QED
    BY <2>1, Zenon DEF SumsUp
<1>3. E(sum)
  <2> HIDE DEF E
  <2> QED
    BY <1>2, Zenon
<1> HIDE DEF sum
<1>4. \A s \in SUBSET S : sum[s] = IF s = {} THEN 0
                                   ELSE LET x == CHOOSE i \in s : TRUE IN f[x] + sum[s \ {x}]
  BY <1>3, Zenon
<1>5. sum[{}] = 0
  BY <1>4
<1>6. ASSUME NEW s \in SUBSET S, s # {}
      PROVE  \E x \in s : x = (CHOOSE i \in s : TRUE) /\ sum[s] = f[x] + sum[s \ {x}]
  <2> DEFINE x == CHOOSE i \in s : TRUE
  <2>1. x \in s
    BY <1>6
  <2>2. sum[s] = f[x] + sum[s \ {x}]
    BY <1>4, <1>6, Zenon
  <2> QED
    BY <2>1, <2>2
<1> QED
  BY <1>1, <1>5, <1>6, Zenon DEF SumOf

\* ... so the sum of nothing but zeros is zero, ...
LEMMA SumOfZeros ==
  ASSUME NEW S, IsFiniteSet(S)
  PROVE  SumFunction([x \in S |-> 0]) = 0
<1> DEFINE f == [x \in S |-> 0]
<1>1. PICK sum : SumOf(sum, f, S)
  <2>1. DOMAIN f = S
    OBVIOUS
  <2> HIDE DEF f
  <2> QED
    BY <2>1, SumIs
<1> DEFINE G == {s \in SUBSET S : sum[s] = 0}
<1>2. {} \in G
  BY <1>1 DEF SumOf
<1>3. ASSUME NEW s \in SUBSET S, s # {}, \A x \in s : s \ {x} \in G
      PROVE  s \in G
  <2>1. PICK x \in s : sum[s] = f[x] + sum[s \ {x}]
    BY <1>1, <1>3 DEF SumOf
  <2>2. f[x] = 0 /\ sum[s \ {x}] = 0
    BY <1>3, <2>1
  <2> QED
    BY <2>1, <2>2
<1>4. S \in G
  <2> HIDE DEF G
  <2> QED
    BY <1>2, <1>3, AllSubsets
<1> QED
  BY <1>1, <1>4 DEF SumOf

\* ... and a sum changes by as much as one of its terms does.
LEMMA SumOfChange ==
  ASSUME NEW S, IsFiniteSet(S), NEW f \in [S -> Int], NEW g \in [S -> Int], NEW y \in S,
         \A x \in S : x # y => g[x] = f[x]
  PROVE  SumFunction(f) \in Int /\ SumFunction(g) = SumFunction(f) + (g[y] - f[y])
<1>1. PICK a : SumOf(a, f, S)
  <2>1. DOMAIN f = S
    OBVIOUS
  <2> QED
    BY <2>1, SumIs
<1>2. PICK b : SumOf(b, g, S)
  <2>1. DOMAIN g = S
    OBVIOUS
  <2> QED
    BY <2>1, SumIs
<1> DEFINE more_of(s) == IF y \in s THEN g[y] - f[y] ELSE 0
           G          == {s \in SUBSET S : a[s] \in Int /\ b[s] = a[s] + more_of(s)}
<1>3. {} \in G
  BY <1>1, <1>2 DEF SumOf
<1>4. ASSUME NEW s \in SUBSET S, s # {}, \A x \in s : s \ {x} \in G
      PROVE  s \in G
  <2>1. PICK x \in s : x = (CHOOSE i \in s : TRUE) /\ a[s] = f[x] + a[s \ {x}]
    BY <1>1, <1>4 DEF SumOf
  <2>2. b[s] = g[x] + b[s \ {x}]
    BY <1>2, <1>4, <2>1 DEF SumOf
  <2>3. a[s \ {x}] \in Int /\ b[s \ {x}] = a[s \ {x}] + more_of(s \ {x})
    BY <1>4
  <2>4. f[x] \in Int /\ g[x] \in Int /\ f[y] \in Int /\ g[y] \in Int
    OBVIOUS
  <2>5. CASE x = y
    <3>1. more_of(s \ {x}) = 0 /\ more_of(s) = g[x] - f[x]
      BY <2>5
    <3> HIDE DEF more_of
    <3> QED
      BY <2>1, <2>2, <2>3, <2>4, <3>1
  <2>6. CASE x # y
    <3>1. more_of(s \ {x}) = more_of(s) /\ more_of(s) \in Int /\ g[x] = f[x]
      BY <2>4, <2>6
    <3> HIDE DEF more_of
    <3> QED
      BY <2>1, <2>2, <2>3, <2>4, <3>1
  <2> QED
    BY <2>5, <2>6
<1>5. S \in G
  <2> HIDE DEF G
  <2> QED
    BY <1>3, <1>4, AllSubsets
<1> QED
  BY <1>1, <1>2, <1>5 DEF SumOf

-------------------------------------------------------------------------------
(* A page is read *)

\* The page is counted once, and what it ends is settled.
LEMMA PageReadInv ==
  ASSUME IInv, NEW s \in Source, PageRead(s)
  PROVE  IInv'
<1> DEFINE c == cursor[s].scanned
<1>1. /\ pc = "call" /\ query[s] = "running" /\ s \in Range(pool) /\ s \in Query
      /\ phase \in {"resume", "fair"} /\ total < RunCap /\ Going(s)
  <2>1. pc = "call" /\ at = s
    BY DEF PageRead
  <2> QED
    BY <2>1, Kinds DEF IInv, Asking, Verifying, ReadSoFar
<1>2. PICK n \in Nat :
          /\ Page(s).cursor = ReadTo(History[s], n)
          /\ c <= n /\ n <= Len(History[s]) /\ n <= SourceCap
          /\ AsksIn(History[s], n) <= MinRequests
          /\ total + (n - c) <= RunCap
          /\ \/ /\ Page(s).stop = "none"
                /\ n < SourceCap /\ AsksIn(History[s], n) < MinRequests
                /\ \A k \in 1 .. n : EndsAt(History[s], k) = "none"
             \/ Page(s).stop = "run_cap"
             \/ /\ Page(s).stop \in {"quality_reached", "window_complete",
                                     "history_exhausted", "source_cap"}
                /\ Outcome(Page(s).stop, AsksIn(History[s], n)) = Alone(s)
  BY <1>1, PageFacts
<1> DEFINE stop == Page(s).stop
           asks == AsksIn(History[s], n)
           o    == Outcome(stop, asks)
<1>3. /\ cursor' = [cursor EXCEPT ![s] = [scanned |-> n, asks |-> asks]]
      /\ total' = total + (n - c) /\ left' = left \ {s}
      /\ pc' = "decide" /\ at' = None
      /\ UNCHANGED <<state, cancel, search, pool, ends, ledger, phase, quota, index, hidden, faults>>
  <2>1. /\ cursor' = [cursor EXCEPT ![s] = Page(s).cursor]
        /\ total' = total + (Page(s).cursor.scanned - c) /\ left' = left \ {s}
        /\ UNCHANGED <<state, cancel, search, pool, ends, ledger, phase, quota, index, hidden, faults>>
    BY Zenon DEF PageRead, AfterPage, Counted
  <2>2. pc' = "decide" /\ at' = None
    BY DEF PageRead, Answered
  <2> QED
    BY <1>2, <2>1, <2>2 DEF ReadTo
<1>4. \/ stop = "none" /\ query' = [query EXCEPT ![s] = "running"] /\ outcome' = outcome
         /\ done' = done
      \/ stop # "none" /\ query' = [query EXCEPT ![s] = "succeeded"]
         /\ outcome' = [outcome EXCEPT ![s] = Settled(s, o)] /\ done' = done \cup {s}
  BY <1>2 DEF PageRead, Answered, ReadTo
<1>5. /\ asks \in Nat /\ c \in Nat /\ total \in Nat
      /\ {SourceCap, RunCap, MinRequests} \subseteq Nat
  <2>1. cursor[s] \in [scanned : 0 .. SourceCap, asks : 0 .. MinRequests]
        /\ total \in 0 .. RunCap
    BY DEF IInv, TypeOK
  <2>2. {SourceCap, RunCap, MinRequests} \subseteq Nat
    BY KeywordRunAssumption
  <2>3. asks \in Nat
    BY AsksFacts
  <2>4. c \in 0 .. SourceCap
    BY <2>1
  <2> HIDE DEF c, asks
  <2> QED
    BY <2>1, <2>2, <2>3, <2>4
<1>6. stop # "none" => o \in Outcomes
  BY <1>2, OutcomeType
<1>7. stop \notin {"none", "run_cap"} => o = Alone(s)
  BY <1>2
<1>8. stop = "none" => n < SourceCap /\ asks < MinRequests
                       /\ \A k \in 1 .. n : History[s][k] # "old"
  BY <1>2 DEF EndsAt
<1>9. /\ query \in [Query -> QueryStates \cup {None}] /\ left \subseteq Source
      /\ outcome \in [Source -> Outcomes \cup {None}] /\ done \subseteq Source
      /\ cursor \in [Source -> [scanned : 0 .. SourceCap, asks : 0 .. MinRequests]]
      /\ None \notin Outcomes /\ None \notin {"running", "succeeded"}
  BY KeywordRunAssumption DEF IInv, TypeOK, QueryStates
<1> HIDE DEF c, stop, asks, o
<1>10. /\ query' \in [Query -> QueryStates \cup {None}]
       /\ \A q \in Query : q # s => query'[q] = query[q]
       /\ query'[s] = IF stop = "none" THEN "running" ELSE "succeeded"
  BY <1>1, <1>4, <1>9 DEF QueryStates
<1>11. /\ outcome' \in [Source -> Outcomes \cup {None}]
       /\ \A t \in Source : \/ outcome'[t] = outcome[t]
                            \/ t = s /\ stop # "none" /\ outcome[s] = None /\ outcome'[s] = o
       /\ stop # "none" => outcome'[s] # None
  BY <1>4, <1>6, <1>9 DEF Settled
<1>12. /\ done' = IF stop = "none" THEN done ELSE done \cup {s}
       /\ done' \subseteq Source
  BY <1>4, <1>9
<1>13. /\ cursor'[s] = [scanned |-> n, asks |-> asks]
       /\ \A t \in Source : t # s => cursor'[t] = cursor[t]
       /\ cursor' \in [Source -> [scanned : 0 .. SourceCap, asks : 0 .. MinRequests]]
  <2>1. n \in 0 .. SourceCap /\ asks \in 0 .. MinRequests
    BY <1>2, <1>5 DEF asks
  <2> QED
    BY <1>3, <1>9, <2>1
<1>14. total' \in 0 .. RunCap
  BY <1>2, <1>3, <1>5 DEF c
<1>15. TypeOK'
  <2>1. left' \subseteq Source
    BY <1>3, <1>9
  <2> QED
    BY <1>3, <1>10, <1>11, <1>12, <1>13, <1>14, <2>1 DEF IInv, TypeOK, state, cancel, search, ends
<1>16. Held' /\ Asking'
  BY <1>1, <1>3, AtWork DEF Held, Asking, IInv, state, ends
<1>17. \A q \in Query \ Source : query'[q] = query[q]
  BY <1>10
<1>18. TriesLeft'
  BY <1>3, <1>17, Kinds DEF IInv, TriesLeft, search
<1>19. PoolBegun'
  <2>1. Begun /\ Begun'
    BY <1>1, <1>9, <1>10 DEF Begun
  <2>2. \A t \in Source : query'[t] # None => t \in Range(pool)
    BY <1>1, <1>10, Kinds DEF IInv, PoolBegun
  <2>3. \A q \in Seed : query'[q] = query[q]
    BY <1>17, Kinds
  <2> QED
    BY <1>3, <2>1, <2>2, <2>3 DEF IInv, PoolBegun, search, ends
<1>20. ReadSoFar'
  <2> SUFFICES ASSUME NEW t \in Source
               PROVE  /\ cursor'[t].scanned <= Len(History[t])
                      /\ query'[t] # "succeeded" => Going(t)'
    BY DEF ReadSoFar
  <2>1. CASE t = s
    BY <1>2, <1>8, <1>10, <1>13, <2>1 DEF Going
  <2>2. CASE t # s
    <3>1. cursor'[t] = cursor[t] /\ query'[t] = query[t]
      BY <1>10, <1>13, <2>2, Kinds
    <3> QED
      BY <3>1 DEF IInv, ReadSoFar, Going
  <2> QED
    BY <2>1, <2>2
<1>21. FinishedSettled'
  <2>1. ASSUME NEW t \in Source, query'[t] \in {"succeeded", "failed", "cancelled"}
        PROVE  outcome'[t] # None
    <3>1. CASE t = s
      BY <1>10, <1>11, <2>1, <3>1
    <3>2. CASE t # s
      BY <1>1, <1>10, <1>11, <2>1, <3>2, AtWork, Kinds DEF IInv, FinishedSettled, Finished
    <3> QED
      BY <3>1, <3>2
  <2>2. ASSUME NEW t \in Source, query'[t] = "succeeded"
        PROVE  t \in done'
    BY <1>1, <1>10, <1>12, <2>2, Kinds DEF IInv, FinishedSettled
  <2>3. \A t \in left' : t \in Range(pool) /\ query'[t] \in Open
    BY <1>3, <1>9, <1>10, Kinds DEF IInv, FinishedSettled
  <2>4. \A t \in done' : outcome'[t] # None
    BY <1>9, <1>11, <1>12 DEF IInv, FinishedSettled
  <2> QED
    BY <1>1, <1>3, <2>1, <2>2, <2>3, <2>4 DEF IInv, FinishedSettled, Finished
<1>22. ReadOnce'
  <2> DEFINE f == [t \in Source |-> cursor[t].scanned]
             g == [t \in Source |-> cursor'[t].scanned]
  <2>1. total' = SumFunction(g)
    <3>1. f \in [Source -> Int] /\ g \in [Source -> Int] /\ f[s] = c /\ g[s] = n
          /\ \A t \in Source : t # s => g[t] = f[t]
      BY <1>9, <1>13 DEF c
    <3>2. total = SumFunction(f)
      BY DEF IInv, ReadOnce
    <3> HIDE DEF f, g
    <3>3. SumFunction(g) = SumFunction(f) + (g[s] - f[s])
      <4>1. IsFiniteSet(Source)
        BY KeywordRunAssumption
      <4> QED
        BY <3>1, <4>1, SumOfChange
    <3> QED
      BY <1>3, <3>1, <3>2, <3>3
  <2>2. ASSUME NEW t \in Source
        PROVE  /\ cursor'[t].asks = AsksIn(History[t], cursor'[t].scanned)
               /\ \/ outcome'[t] = None \/ outcome'[t] = Alone(t)
                  \/ outcome'[t].stop \in {"run_cap", "inaccessible", "cancelled"}
    <3>1. cursor'[t].asks = AsksIn(History[t], cursor'[t].scanned)
      BY <1>13 DEF IInv, ReadOnce, asks
    <3>2. \/ outcome[t] = None \/ outcome[t] = Alone(t)
          \/ outcome[t].stop \in {"run_cap", "inaccessible", "cancelled"}
      BY DEF IInv, ReadOnce
    <3>3. CASE outcome'[t] = outcome[t]
      BY <3>1, <3>2, <3>3
    <3>4. CASE t = s /\ stop # "none" /\ outcome'[s] = o
      <4>1. o.stop = stop
        BY DEF o, Outcome
      <4> QED
        BY <1>7, <3>1, <3>4, <4>1
    <3> QED
      BY <1>11, <3>3, <3>4
  <2> QED
    BY <2>1, <2>2 DEF ReadOnce, Alone
<1>23. PoolSettled' /\ FailIsProven'
  BY <1>1, <1>3, <1>11, AtWork DEF IInv, PoolSettled, FailIsProven, Terminal, state, ends
<1> QED
  BY <1>15, <1>16, <1>18, <1>19, <1>20, <1>21, <1>22, <1>23 DEF IInv

-------------------------------------------------------------------------------
(* The ranking *)

\* Of two sources one is the better, and better than what that is better than.
LEMMA BetterOrders ==
  ASSUME NEW order \in Order, NEW s \in Source, NEW t \in Source, NEW u \in Source
  PROVE  /\ ~Better(order, s, s)
         /\ s = t \/ Better(order, s, t) \/ Better(order, t, s)
         /\ Better(order, s, t) => ~Better(order, t, s)
         /\ Better(order, s, t) /\ Better(order, t, u) => Better(order, s, u)
<1> DEFINE linked(x) == IF order = "all" /\ LedBy(x, {"linked"}) THEN 1 ELSE 0
           standing  == Standing[order]
<1>1. \A x \in Source : /\ x \in Nat /\ Intent[x] \in Nat
                         /\ linked(x) \in Nat /\ standing[x] \in Nat
  BY KeywordRunAssumption
<1>2. \A x, y :
          Better(order, x, y) <=>
              \/ Intent[x] > Intent[y]
              \/ Intent[x] = Intent[y] /\ linked(x) > linked(y)
              \/ Intent[x] = Intent[y] /\ linked(x) = linked(y) /\ standing[x] > standing[y]
              \/ /\ Intent[x] = Intent[y] /\ linked(x) = linked(y)
                 /\ standing[x] = standing[y] /\ x < y
  BY DEF Better
<1> HIDE DEF linked, standing
<1>3. /\ {s, t, u, Intent[s], Intent[t], Intent[u]} \subseteq Nat
      /\ {linked(s), linked(t), linked(u)} \subseteq Nat
      /\ {standing[s], standing[t], standing[u]} \subseteq Nat
  BY <1>1
<1>4. ~Better(order, s, s) /\ (Better(order, s, t) => ~Better(order, t, s))
  BY <1>2, <1>3
<1>5. s = t \/ Better(order, s, t) \/ Better(order, t, s)
  BY <1>2, <1>3
<1>6. ASSUME Better(order, s, t), Better(order, t, u) PROVE Better(order, s, u)
  BY <1>2, <1>3, <1>6
<1> QED
  BY <1>4, <1>5, <1>6

\* A rank is below the number of those ranked, and the better has the lower.
LEMMA RankFacts ==
  ASSUME NEW order \in Order, NEW S \in SUBSET Source, NEW s \in S, NEW t \in S
  PROVE  /\ IsFiniteSet(S) /\ Cardinality(S) \in Nat
         /\ Rank(order, S, s) \in 0 .. Cardinality(S) - 1
         /\ Better(order, s, t) <=> Rank(order, S, s) < Rank(order, S, t)
         /\ s = t <=> Rank(order, S, s) = Rank(order, S, t)
<1> DEFINE above(x) == {y \in S : Better(order, y, x)}
<1>1. IsFiniteSet(S) /\ Cardinality(S) \in Nat
  BY FS_Subset, FS_CardinalityType, KeywordRunAssumption
<1>2. \A x \in S : IsFiniteSet(above(x)) /\ Cardinality(above(x)) \in Nat
  BY <1>1, FS_Subset, FS_CardinalityType
<1>3. \A x \in S : Rank(order, S, x) = Cardinality(above(x))
  BY DEF Rank
<1>4. ASSUME NEW x \in S, NEW y \in S, Better(order, x, y)
      PROVE  Cardinality(above(x)) < Cardinality(above(y))
  <2>1. x \notin above(x) /\ above(x) \cup {x} \subseteq above(y)
    <3>1. x \notin above(x)
      BY BetterOrders
    <3>2. \A z \in above(x) : Better(order, z, y)
      BY <1>4, BetterOrders
    <3> QED
      BY <1>4, <3>1, <3>2
  <2> HIDE DEF above
  <2>2. Cardinality(above(x) \cup {x}) = Cardinality(above(x)) + 1
    BY <1>2, <2>1, FS_AddElement
  <2>3. Cardinality(above(x) \cup {x}) <= Cardinality(above(y))
    BY <1>2, <2>1, FS_Subset
  <2> QED
    BY <1>2, <2>2, <2>3
<1>5. Cardinality(above(s)) <= Cardinality(S) - 1
  <2>1. above(s) \in SUBSET (S \ {s})
    BY BetterOrders
  <2> HIDE DEF above
  <2>2. IsFiniteSet(S \ {s}) /\ Cardinality(S \ {s}) = Cardinality(S) - 1
    BY <1>1, FS_RemoveElement
  <2> QED
    BY <2>1, <2>2, FS_Subset
<1> HIDE DEF above
<1>6. s = t \/ Better(order, s, t) \/ Better(order, t, s)
  BY BetterOrders
<1>7. /\ Better(order, s, t) => Rank(order, S, s) < Rank(order, S, t)
      /\ Better(order, t, s) => Rank(order, S, t) < Rank(order, S, s)
  BY <1>3, <1>4
<1>8. Rank(order, S, s) \in Nat /\ Rank(order, S, t) \in Nat /\ ~Better(order, s, s)
  BY <1>2, <1>3, BetterOrders
<1>9. Rank(order, S, s) \in 0 .. Cardinality(S) - 1
  BY <1>1, <1>3, <1>5, <1>8
<1>10. Better(order, s, t) <=> Rank(order, S, s) < Rank(order, S, t)
  BY <1>6, <1>7, <1>8
<1>11. s = t <=> Rank(order, S, s) = Rank(order, S, t)
  BY <1>6, <1>7, <1>8
<1> QED
  BY <1>1, <1>9, <1>10, <1>11

\* Every rank is somebody's.
LEMMA RankOnto ==
  ASSUME NEW order \in Order, NEW S \in SUBSET Source, NEW k \in 0 .. Cardinality(S) - 1
  PROVE  \E s \in S : Rank(order, S, s) = k
<1> DEFINE n == Cardinality(S)
           R == 0 .. n - 1
           f == [s \in S |-> Rank(order, S, s)]
<1>1. IsFiniteSet(S) /\ n \in Nat
  BY FS_Subset, FS_CardinalityType, KeywordRunAssumption
<1>2. IsFiniteSet(R) /\ Cardinality(R) = n
  <2>1. n - 1 \in Int
    BY <1>1
  <2>2. IsFiniteSet(R) /\ Cardinality(R) = IF 0 > n - 1 THEN 0 ELSE (n - 1) - 0 + 1
    <3> HIDE DEF n
    <3> QED
      BY <1>1, <2>1, FS_Interval
  <2> HIDE DEF n, R
  <2> QED
    BY <1>1, <2>2
<1>3. f \in Injection(S, R)
  <2>1. f \in [S -> R]
    BY RankFacts
  <2>2. \A x, y \in S : f[x] = f[y] => x = y
    BY RankFacts
  <2> QED
    BY <2>1, <2>2 DEF Injection, IsInjective
<1>4. f \in Surjection(S, R)
  <2> HIDE DEF f, R, n
  <2>1. Cardinality(S) = Cardinality(R)
    BY <1>2 DEF n
  <2> QED
    BY <1>2, <1>3, <2>1, FS_Injection
<1> QED
  BY <1>4 DEF Surjection, Range

\* The ranked sequence of a set holds it, once each, the better first.
LEMMA RankedFacts ==
  ASSUME NEW S \in SUBSET Source
  PROVE  /\ Ranked(S) \in Seq(S) /\ Len(Ranked(S)) = Cardinality(S) /\ Cardinality(S) \in Nat
         /\ Range(Ranked(S)) = S /\ IsInjective(Ranked(S))
         /\ \A i, j \in DOMAIN Ranked(S) : i < j => Better("all", Ranked(S)[i], Ranked(S)[j])
<1> DEFINE n == Cardinality(S)
           r == Ranked(S)
           at_rank(i) == CHOOSE s \in S : Rank("all", S, s) = i - 1
<1> "all" \in Order
  BY DEF Order
<1>1. n \in Nat
  BY FS_Subset, FS_CardinalityType, KeywordRunAssumption
<1>2. r = [i \in 1 .. n |-> at_rank(i)]
  BY Zenon DEF Ranked
<1>3. ASSUME NEW i \in 1 .. n PROVE r[i] \in S /\ Rank("all", S, r[i]) = i - 1
  <2>1. i - 1 \in 0 .. n - 1
    BY <1>1
  <2>2. \E s \in S : Rank("all", S, s) = i - 1
    BY <2>1, RankOnto
  <2>3. at_rank(i) \in S /\ Rank("all", S, at_rank(i)) = i - 1
    BY <2>2
  <2> HIDE DEF r, at_rank
  <2> QED
    BY <1>2, <2>3
<1>4. r \in [1 .. n -> S]
  <2> HIDE DEF r, at_rank
  <2> QED
    BY <1>2, <1>3
<1> HIDE DEF r, n
<1>5. r \in Seq(S) /\ DOMAIN r = 1 .. n /\ Len(r) = n
  BY <1>1, <1>4
<1>6. Range(r) = S
  <2>1. ASSUME NEW s \in S PROVE \E i \in 1 .. n : r[i] = s
    <3>1. Rank("all", S, s) \in 0 .. n - 1
      BY RankFacts DEF n
    <3> DEFINE i == Rank("all", S, s) + 1
    <3>2. i \in 1 .. n /\ Rank("all", S, s) = i - 1
      BY <1>1, <3>1
    <3> HIDE DEF i
    <3>3. r[i] \in S /\ Rank("all", S, r[i]) = Rank("all", S, s)
      BY <1>3, <3>2
    <3>4. r[i] = s
      BY <3>3, RankFacts
    <3> QED
      BY <3>2, <3>4
  <2> QED
    BY <1>3, <1>5, <2>1 DEF Range
<1>7. IsInjective(r)
  <2> SUFFICES ASSUME NEW i \in 1 .. n, NEW j \in 1 .. n, r[i] = r[j] PROVE i = j
    BY <1>5 DEF IsInjective
  <2>1. i - 1 = j - 1
    BY <1>3
  <2> QED
    BY <1>1, <2>1
<1>8. ASSUME NEW i \in 1 .. n, NEW j \in 1 .. n, i < j PROVE Better("all", r[i], r[j])
  <2>1. Rank("all", S, r[i]) < Rank("all", S, r[j]) /\ r[i] \in S /\ r[j] \in S
    BY <1>1, <1>3, <1>8
  <2> QED
    BY <2>1, RankFacts
<1> QED
  BY <1>1, <1>5, <1>6, <1>7, <1>8 DEF r, n

\* The n best are n, or all; and who is better than one of them is another.
LEMMA BestFacts ==
  ASSUME NEW order \in Order, NEW S \in SUBSET Source, NEW n \in Nat
  PROVE  /\ Best(order, S, n) \subseteq S
         /\ IsFiniteSet(Best(order, S, n)) /\ Cardinality(Best(order, S, n)) \in Nat
         /\ Cardinality(Best(order, S, n)) <= n
         /\ Best(order, S, n) # S => Cardinality(Best(order, S, n)) = n
         /\ \A s \in S, t \in Best(order, S, n) : Better(order, s, t) => s \in Best(order, S, n)
         /\ \A s \in S, t \in Best(order, S, n) : s \notin Best(order, S, n) => Better(order, t, s)
<1> DEFINE B == Best(order, S, n)
           m == Cardinality(S)
           R == 0 .. n - 1
           f == [s \in B |-> Rank(order, S, s)]
<1>1. IsFiniteSet(S) /\ m \in Nat
  BY FS_Subset, FS_CardinalityType, KeywordRunAssumption
<1>2. B \subseteq S /\ \A s \in S : s \in B <=> Rank(order, S, s) < n
  BY DEF Best
<1>3. \A s \in S : Rank(order, S, s) \in Nat /\ Rank(order, S, s) < m
  <2>1. \A s \in S : Rank(order, S, s) \in 0 .. m - 1
    BY RankFacts
  <2> HIDE DEF m
  <2> QED
    BY <1>1, <2>1
<1> HIDE DEF B
<1>4. IsFiniteSet(B) /\ Cardinality(B) \in Nat
  BY <1>1, <1>2, FS_Subset, FS_CardinalityType
<1>5. IsFiniteSet(R) /\ Cardinality(R) = n
  <2>1. n - 1 \in Int
    OBVIOUS
  <2>2. IsFiniteSet(R) /\ Cardinality(R) = IF 0 > n - 1 THEN 0 ELSE (n - 1) - 0 + 1
    BY <2>1, FS_Interval
  <2> HIDE DEF R
  <2> QED
    BY <2>2
<1>6. f \in Injection(B, R)
  <2>1. f \in [B -> R]
    BY <1>2, <1>3
  <2>2. \A x, y \in B : f[x] = f[y] => x = y
    BY <1>2, RankFacts
  <2> QED
    BY <2>1, <2>2 DEF Injection, IsInjective
<1>7. Cardinality(B) <= n
  <2> HIDE DEF f, R
  <2> QED
    BY <1>5, <1>6, FS_Injection
<1>8. ASSUME B # S PROVE Cardinality(B) = n
  <2>1. PICK s \in S : ~(Rank(order, S, s) < n)
    BY <1>2, <1>8
  <2>2. n <= Rank(order, S, s) /\ Rank(order, S, s) < m
    BY <1>3, <2>1
  <2>3. ASSUME NEW k \in R PROVE \E x \in B : f[x] = k
    <3>1. k \in 0 .. m - 1 /\ k < n
      BY <1>1, <1>3, <2>2
    <3>2. PICK x \in S : Rank(order, S, x) = k
      BY <3>1, RankOnto
    <3>3. x \in B
      BY <1>2, <3>1, <3>2
    <3> QED
      BY <3>2, <3>3
  <2>4. f \in Surjection(B, R)
    <3>1. f \in [B -> R]
      BY <1>6 DEF Injection
    <3> HIDE DEF f, R
    <3> QED
      BY <2>3, <3>1 DEF Surjection, Range
  <2> HIDE DEF f, R
  <2> QED
    BY <1>5, <1>6, <2>4, FS_Injection
<1>9. ASSUME NEW s \in S, NEW t \in B, Better(order, s, t) PROVE s \in B
  <2>1. Rank(order, S, s) < Rank(order, S, t) /\ Rank(order, S, t) < n
    BY <1>2, <1>9, RankFacts
  <2>2. Rank(order, S, s) \in Nat /\ Rank(order, S, t) \in Nat
    BY <1>2, <1>3
  <2> QED
    BY <1>2, <2>1, <2>2
<1>10. ASSUME NEW s \in S, NEW t \in B, s \notin B PROVE Better(order, t, s)
  BY <1>2, <1>9, <1>10, BetterOrders
<1> QED
  BY <1>2, <1>4, <1>7, <1>8, <1>9, <1>10 DEF B

\* The candidates of a lane, and the lanes places are reserved for
Of(lane) == {s \in Candidates : Lane(s) = lane}
BestOf(lane, n) == Best(OrderOf(lane), Of(lane), n)

\* The places a lane gets after T have theirs
Room(lane, T) == Min({Places(lane), MaxDeep - Cardinality(T)})
Reserving == {"OPERATOR_SEED", "LINKED_DISCUSSION", "DIRECTORY"}

\* The candidates and the places are as many as can be counted.
LEMMA CandidateFacts ==
  /\ Candidates \in SUBSET Source /\ IsFiniteSet(Candidates)
  /\ \A lane : /\ Of(lane) \in SUBSET Source /\ Of(lane) \subseteq Candidates
               /\ OrderOf(lane) \in Order
  /\ "all" \in Order
  /\ \A lane \in Reserving : Places(lane) \in Nat
<1>1. Candidates \in SUBSET Source /\ Found \cap Source \in SUBSET Source
  BY DEF Candidates
<1>2. IsFiniteSet(Candidates)
  BY <1>1, FS_Subset, KeywordRunAssumption
<1>3. /\ \A lane : Of(lane) \in SUBSET Source /\ Of(lane) \subseteq Candidates
      /\ \A lane : OrderOf(lane) \in Order
      /\ "all" \in Order
  BY <1>1 DEF Of, OrderOf, Order
<1>4. ASSUME NEW lane \in Reserving PROVE Places(lane) \in Nat
  <2> DEFINE seeded == {s \in Found \cap Source : LedBy(s, {"operator_seed"})}
  <2>1. Cardinality(seeded) \in Nat
    <3>1. seeded \in SUBSET Source
      BY <1>1
    <3> HIDE DEF seeded
    <3> QED
      BY <3>1, FS_Subset, FS_CardinalityType, KeywordRunAssumption
  <2> HIDE DEF seeded
  <2>2. MaxDeep \in Nat
    BY KeywordRunAssumption
  <2>3. Min({MaxDeep, Cardinality(seeded)}) \in Nat
    BY <2>1, <2>2, MinOfTwo
  <2>4. lane # "OPERATOR_SEED" => Reserved[lane] \in Nat
    BY KeywordRunAssumption DEF Reserving
  <2> QED
    BY <2>3, <2>4 DEF Places, seeded
<1> QED
  BY <1>1, <1>2, <1>3, <1>4

\* A lane is admitted: its best, as many as it has places, and as there is room for.
LEMMA AdmitFacts ==
  ASSUME NEW chosen \in SUBSET Candidates, Cardinality(chosen) <= MaxDeep,
         NEW lane \in Reserving
  PROVE  /\ Admit(chosen, lane) \in SUBSET Candidates
         /\ Cardinality(Admit(chosen, lane)) <= MaxDeep
         /\ \E n \in Nat : /\ n <= Places(lane) /\ n = Room(lane, chosen)
                           /\ Admit(chosen, lane) = chosen \cup BestOf(lane, n)
<1> DEFINE count == Cardinality(chosen)
           n     == Min({Places(lane), MaxDeep - count})
           B     == BestOf(lane, n)
<1>1. IsFiniteSet(chosen) /\ count \in Nat /\ MaxDeep \in Nat /\ Places(lane) \in Nat
  BY FS_Subset, FS_CardinalityType, CandidateFacts, KeywordRunAssumption
<1>2. n \in Nat /\ n <= Places(lane) /\ n <= MaxDeep - count
  <2> HIDE DEF count
  <2>1. MaxDeep - count \in Nat
    BY <1>1 DEF count
  <2> QED
    BY <1>1, <2>1, MinOfTwo
<1>3. Admit(chosen, lane) = chosen \cup B
  BY DEF Admit, Of, BestOf
<1> n = Room(lane, chosen)
  BY DEF Room
<1> HIDE DEF n
<1>4. B \subseteq Candidates /\ IsFiniteSet(B) /\ Cardinality(B) \in Nat /\ Cardinality(B) <= n
  BY <1>2, BestFacts, CandidateFacts DEF BestOf
<1> HIDE DEF B
<1>5. Cardinality(chosen \cup B) <= count + Cardinality(B)
  <2>1. IsFiniteSet(chosen \cap B)
    BY <1>1, FS_Intersection
  <2>2. Cardinality(chosen \cap B) \in Nat
    BY <2>1, FS_CardinalityType
  <2>3. Cardinality(chosen \cup B) = count + Cardinality(B) - Cardinality(chosen \cap B)
    BY <1>1, <1>4, FS_Union
  <2> HIDE DEF count
  <2> QED
    BY <1>1, <1>4, <2>2, <2>3
<1>6. Cardinality(chosen \cup B) \in Nat
  BY <1>1, <1>4, FS_Union, FS_CardinalityType
<1>7. Cardinality(chosen \cup B) <= MaxDeep
  <2> HIDE DEF count
  <2> QED
    BY <1>1, <1>2, <1>4, <1>5, <1>6
<1> QED
  BY <1>2, <1>3, <1>4, <1>7 DEF B

\* It gets no more places if more had theirs before.
LEMMA RoomShrinks ==
  ASSUME NEW lane \in Reserving, NEW T \in SUBSET Source, NEW S \in SUBSET T
  PROVE  Room(lane, T) <= Room(lane, S)
<1>1. /\ Cardinality(S) \in Nat /\ Cardinality(T) \in Nat /\ Cardinality(S) <= Cardinality(T)
      /\ MaxDeep \in Nat /\ Places(lane) \in Nat
  <2>1. IsFiniteSet(T) /\ IsFiniteSet(S)
    BY FS_Subset, KeywordRunAssumption
  <2> QED
    BY <2>1, FS_Subset, FS_CardinalityType, CandidateFacts, KeywordRunAssumption
<1> DEFINE a == MaxDeep - Cardinality(T)
           b == MaxDeep - Cardinality(S)
<1>2. a \in Int /\ b \in Int /\ a <= b
  BY <1>1
<1> HIDE DEF a, b
<1>3. Min({Places(lane), a}) <= Min({Places(lane), b})
  BY <1>1, <1>2, MinOfTwo
<1> QED
  BY <1>3 DEF Room, a, b

\* Whoever is admitted is among the best of a lane that reserves places, and a lane gets
\* them all unless the lanes before it leave it fewer.
LEMMA AdmittedFacts ==
  /\ Admitted \in SUBSET Candidates /\ Cardinality(Admitted) <= MaxDeep
  /\ \E n \in [Reserving -> Nat] :
         /\ \A lane \in Reserving : /\ n[lane] <= Places(lane)
                                    /\ BestOf(lane, n[lane]) \subseteq Admitted
         /\ \A s \in Admitted : Lane(s) \in Reserving /\ s \in BestOf(Lane(s), n[Lane(s)])
         /\ \A lane \in Reserving, T \in SUBSET Source :
                (\A s \in Admitted : Lane(s) \in Earlier[lane] => s \in T)
                    => Room(lane, T) <= n[lane]
<1> DEFINE A1 == Admit({}, "OPERATOR_SEED")
           A2 == Admit(A1, "LINKED_DISCUSSION")
<1>1. {} \in SUBSET Candidates /\ Cardinality({}) <= MaxDeep
  BY FS_EmptySet, KeywordRunAssumption
<1>2. A1 \in SUBSET Candidates /\ Cardinality(A1) <= MaxDeep
  BY <1>1, AdmitFacts DEF Reserving
<1>3. PICK n1 \in Nat : /\ n1 <= Places("OPERATOR_SEED") /\ n1 = Room("OPERATOR_SEED", {})
                        /\ A1 = BestOf("OPERATOR_SEED", n1)
  <2>1. \E n \in Nat : /\ n <= Places("OPERATOR_SEED") /\ n = Room("OPERATOR_SEED", {})
                       /\ A1 = {} \cup BestOf("OPERATOR_SEED", n)
    BY <1>1, AdmitFacts DEF Reserving
  <2> HIDE DEF A1
  <2> QED
    BY <2>1
<1> HIDE DEF A1
<1>4. A2 \in SUBSET Candidates /\ Cardinality(A2) <= MaxDeep
  BY <1>2, AdmitFacts DEF Reserving
<1>5. PICK n2 \in Nat : /\ n2 <= Places("LINKED_DISCUSSION")
                        /\ n2 = Room("LINKED_DISCUSSION", A1)
                        /\ A2 = A1 \cup BestOf("LINKED_DISCUSSION", n2)
  BY <1>2, AdmitFacts DEF Reserving
<1> HIDE DEF A2
<1>6. Admitted = Admit(A2, "DIRECTORY")
  BY DEF Admitted, A1, A2
<1>7. Admitted \in SUBSET Candidates /\ Cardinality(Admitted) <= MaxDeep
  BY <1>4, <1>6, AdmitFacts DEF Reserving
<1>8. PICK n3 \in Nat : /\ n3 <= Places("DIRECTORY") /\ n3 = Room("DIRECTORY", A2)
                        /\ Admitted = A2 \cup BestOf("DIRECTORY", n3)
  BY <1>4, <1>6, AdmitFacts DEF Reserving
<1> DEFINE n == [lane \in Reserving |-> IF lane = "OPERATOR_SEED" THEN n1
                                        ELSE IF lane = "LINKED_DISCUSSION" THEN n2 ELSE n3]
<1>9. /\ n \in [Reserving -> Nat] /\ n["OPERATOR_SEED"] = n1
      /\ n["LINKED_DISCUSSION"] = n2 /\ n["DIRECTORY"] = n3
  BY DEF Reserving
<1> HIDE DEF n
<1>10. \A lane, k : \A s \in BestOf(lane, k) : Lane(s) = lane
  BY DEF BestOf, Best, Of
<1>11. \A lane \in Reserving : /\ n[lane] <= Places(lane)
                               /\ BestOf(lane, n[lane]) \subseteq Admitted
  BY <1>3, <1>5, <1>8, <1>9 DEF Reserving
<1>12. ASSUME NEW s \in Admitted
       PROVE  Lane(s) \in Reserving /\ s \in BestOf(Lane(s), n[Lane(s)])
  <2>1. PICK lane \in Reserving : s \in BestOf(lane, n[lane])
    BY <1>3, <1>5, <1>8, <1>9 DEF Reserving
  <2> QED
    BY <1>10, <2>1
<1>13. ASSUME NEW lane \in Reserving, NEW T \in SUBSET Source,
              \A s \in Admitted : Lane(s) \in Earlier[lane] => s \in T
       PROVE  Room(lane, T) <= n[lane]
  <2>1. CASE lane = "OPERATOR_SEED"
    <3>1. {} \in SUBSET T
      OBVIOUS
    <3> QED
      BY <1>3, <1>9, <2>1, <3>1, RoomShrinks
  <2>2. CASE lane = "LINKED_DISCUSSION"
    <3>1. A1 \in SUBSET T
      BY <1>3, <1>5, <1>8, <1>10, <1>13, <2>2 DEF Earlier
    <3> QED
      BY <1>5, <1>9, <2>2, <3>1, RoomShrinks
  <2>3. CASE lane = "DIRECTORY"
    <3>1. A2 \in SUBSET T
      BY <1>3, <1>5, <1>8, <1>10, <1>13, <2>3 DEF Earlier
    <3> QED
      BY <1>8, <1>9, <2>3, <3>1, RoomShrinks
  <2> QED
    BY <2>1, <2>2, <2>3 DEF Reserving
<1> QED
  BY <1>7, <1>9, <1>11, <1>12, <1>13

\* The pool is filled up with the best of the others.
LEMMA FillFacts ==
  LET A == Admitted
      B == Best("all", Candidates \ A, MaxDeep - Cardinality(A))
  IN  /\ Fill(A) = A \cup B /\ Fill(A) \in SUBSET Candidates
      /\ Cardinality(Fill(A)) <= MaxDeep
      /\ Candidates \ Fill(A) # {} => Cardinality(Fill(A)) = MaxDeep
      /\ \A s \in Candidates \ Fill(A), t \in B : Better("all", t, s)
<1> DEFINE A == Admitted
           C == Candidates \ A
           n == MaxDeep - Cardinality(A)
           B == Best("all", C, n)
<1>1. Fill(A) = A \cup B
  BY DEF Fill
<1>2. A \in SUBSET Candidates /\ Cardinality(A) <= MaxDeep
  BY AdmittedFacts
<1> HIDE DEF A
<1>3. IsFiniteSet(A) /\ Cardinality(A) \in Nat /\ MaxDeep \in Nat
  BY <1>2, FS_Subset, FS_CardinalityType, CandidateFacts, KeywordRunAssumption
<1>4. n \in Nat /\ Cardinality(A) + n = MaxDeep
  BY <1>2, <1>3
<1>5. C \in SUBSET Source
  BY CandidateFacts
<1> HIDE DEF n
<1>6. /\ B \subseteq C /\ IsFiniteSet(B) /\ Cardinality(B) \in Nat /\ Cardinality(B) <= n
      /\ B # C => Cardinality(B) = n
      /\ \A s \in C, t \in B : s \notin B => Better("all", t, s)
  BY <1>4, <1>5, BestFacts, CandidateFacts
<1> HIDE DEF B
<1>7. Cardinality(A \cup B) = Cardinality(A) + Cardinality(B)
  <2>1. A \cap B = {}
    BY <1>6
  <2>2. Cardinality(A \cup B) = Cardinality(A) + Cardinality(B) - Cardinality(A \cap B)
    BY <1>3, <1>6, FS_Union
  <2>3. Cardinality(A \cap B) = 0
    BY <2>1, FS_EmptySet
  <2> QED
    BY <1>3, <1>6, <2>2, <2>3
<1>8. Cardinality(Fill(A)) <= MaxDeep
  BY <1>1, <1>3, <1>4, <1>6, <1>7
<1>9. Candidates \ Fill(A) # {} => Cardinality(Fill(A)) = MaxDeep
  BY <1>1, <1>3, <1>4, <1>6, <1>7
<1>10. \A s \in Candidates \ Fill(A), t \in B : Better("all", t, s)
  BY <1>1, <1>6
<1>11. Fill(A) \in SUBSET Candidates
  BY <1>1, <1>2, <1>6
<1> QED
  BY <1>1, <1>8, <1>9, <1>10, <1>11 DEF A, B, n

\* The pool is ranked: full, or all there is, and a place that a better source does not have
\* is one that is reserved.
LEMMA SelectedFacts ==
  /\ Selected \in Seq(Source) /\ IsInjective(Selected) /\ Len(Selected) <= MaxDeep
  /\ RankedPool(Selected)
<1> DEFINE A == Admitted
           B == Best("all", Candidates \ A, MaxDeep - Cardinality(A))
           F == Fill(A)
<1>1. /\ F = A \cup B /\ F \in SUBSET Candidates /\ Cardinality(F) <= MaxDeep
      /\ Candidates \ F # {} => Cardinality(F) = MaxDeep
      /\ \A s \in Candidates \ F, t \in B : Better("all", t, s)
  BY FillFacts
<1>2. Selected = Ranked(F)
  BY DEF Selected
<1> HIDE DEF B, F
<1>3. F \in SUBSET Source /\ IsFiniteSet(F) /\ IsFiniteSet(Candidates)
  BY <1>1, CandidateFacts, FS_Subset
<1>4. /\ Selected \in Seq(F) /\ Len(Selected) = Cardinality(F)
      /\ Range(Selected) = F /\ IsInjective(Selected)
      /\ \A i, j \in DOMAIN Selected : i < j => Better("all", Selected[i], Selected[j])
  BY <1>2, <1>3, RankedFacts
<1>5. PICK n \in [Reserving -> Nat] :
          /\ \A lane \in Reserving : /\ n[lane] <= Places(lane)
                                     /\ BestOf(lane, n[lane]) \subseteq A
          /\ \A s \in A : Lane(s) \in Reserving /\ s \in BestOf(Lane(s), n[Lane(s)])
          /\ \A lane \in Reserving, T \in SUBSET Source :
                 (\A s \in A : Lane(s) \in Earlier[lane] => s \in T)
                     => Room(lane, T) <= n[lane]
  BY AdmittedFacts
<1> HIDE DEF A
<1>6. ASSUME NEW s \in Candidates \ F, NEW t \in F, Better("all", s, t)
      PROVE  /\ Lane(t) # "SEARCH"
             /\ Lane(t) = Lane(s) => Better(OrderOf(Lane(t)), t, s)
             /\ Cardinality({u \in F : Better("all", s, u) /\ Lane(u) = Lane(t)})
                    <= Places(Lane(t))
  <2>1. s \in Source /\ s \in Candidates /\ s \notin A /\ "all" \in Order
    BY <1>1, <1>3, CandidateFacts
  <2>2. ASSUME NEW u \in F, Better("all", s, u) PROVE u \in A
    BY <1>1, <1>3, <2>1, <2>2, BetterOrders
  <2> DEFINE lane == Lane(t)
             L    == BestOf(lane, n[lane])
             U    == {u \in F : Better("all", s, u) /\ Lane(u) = lane}
  <2>3. lane \in Reserving /\ t \in L /\ L \subseteq A /\ n[lane] <= Places(lane)
        /\ n[lane] \in Nat /\ Places(lane) \in Nat
    BY <1>5, <1>6, <2>2, CandidateFacts
  <2> HIDE DEF lane
  <2>4. /\ IsFiniteSet(L) /\ Cardinality(L) \in Nat /\ Cardinality(L) <= n[lane]
        /\ \A u \in Of(lane), v \in L : u \notin L => Better(OrderOf(lane), v, u)
    BY <2>3, BestFacts, CandidateFacts DEF BestOf
  <2>5. lane = Lane(s) => Better(OrderOf(lane), t, s)
    BY <2>1, <2>3, <2>4 DEF Of
  <2>6. U \in SUBSET L
    BY <1>5, <2>2
  <2>7. Cardinality(U) <= Places(lane)
    <3> HIDE DEF L, U
    <3>1. Cardinality(U) <= Cardinality(L) /\ Cardinality(U) \in Nat
      BY <2>4, <2>6, FS_Subset, FS_CardinalityType
    <3> QED
      BY <2>3, <2>4, <3>1
  <2>8. lane # "SEARCH"
    BY <2>3 DEF Reserving
  <2> QED
    BY <2>5, <2>7, <2>8 DEF lane
<1>7. Selected \in Seq(Source)
  BY <1>3, <1>4
<1>8. Len(Selected) <= MaxDeep /\ (Candidates \ F # {} => Len(Selected) = MaxDeep)
  BY <1>1, <1>4
<1> DEFINE favoured(s) == {t \in F : Better("all", s, t)}
           ahead(s)    == {t \in F : Lane(t) = Lane(s) /\ Better(OrderOf(Lane(s)), t, s)}
           before(s)   == {t \in F : Lane(t) \in Earlier[Lane(s)]}
<1>9. ASSUME NEW s \in Candidates \ F, NEW t \in favoured(s)
      PROVE  /\ Lane(t) # "SEARCH"
             /\ Lane(t) = Lane(s) => t \in ahead(s)
             /\ Cardinality({u \in favoured(s) : Lane(u) = Lane(t)}) <= Places(Lane(t))
  <2>1. {u \in favoured(s) : Lane(u) = Lane(t)}
            = {u \in F : Better("all", s, u) /\ Lane(u) = Lane(t)}
    OBVIOUS
  <2> QED
    BY <1>6, <2>1
<1>10. ASSUME NEW s \in Candidates \ F, Lane(s) # "SEARCH"
       PROVE  Cardinality(ahead(s)) >= Room(Lane(s), before(s))
  <2> DEFINE lane == Lane(s)
             L    == BestOf(lane, n[lane])
  <2>1. lane \in Reserving
    BY <1>10 DEF Lane, Reserving
  <2>2. n[lane] \in Nat /\ L \subseteq A
    BY <1>5, <2>1
  <2> HIDE DEF lane
  <2>3. /\ L \subseteq Of(lane) /\ (L # Of(lane) => Cardinality(L) = n[lane])
        /\ \A u \in Of(lane), v \in L : u \notin L => Better(OrderOf(lane), v, u)
    BY <2>2, BestFacts, CandidateFacts DEF BestOf
  <2>4. s \in Of(lane) /\ s \notin L
    BY <1>1, <2>2 DEF Of, lane
  <2>5. Cardinality(L) = n[lane]
    BY <2>3, <2>4
  <2>6. L \in SUBSET ahead(s)
    BY <1>1, <2>2, <2>3, <2>4 DEF Of, lane
  <2>7. before(s) \in SUBSET Source
    BY <1>3
  <2>8. Room(lane, before(s)) <= n[lane]
    BY <1>1, <1>5, <2>1, <2>7 DEF lane
  <2>9. ahead(s) \in SUBSET Source
    BY <1>3
  <2> HIDE DEF ahead, before, L
  <2>10. IsFiniteSet(ahead(s)) /\ Cardinality(ahead(s)) \in Nat
    BY <2>9, FS_Subset, FS_CardinalityType, KeywordRunAssumption
  <2>11. n[lane] <= Cardinality(ahead(s))
    BY <2>5, <2>6, <2>10, FS_Subset
  <2>12. Room(lane, before(s)) \in Int
    <3>1. Cardinality(before(s)) \in Nat
      BY <2>7, FS_Subset, FS_CardinalityType, KeywordRunAssumption
    <3>2. Places(lane) \in Int /\ MaxDeep - Cardinality(before(s)) \in Int
      BY <2>1, <3>1, CandidateFacts, KeywordRunAssumption
    <3> QED
      BY <3>2, MinOfTwo DEF Room
  <2> QED
    BY <2>2, <2>8, <2>10, <2>11, <2>12 DEF lane
<1>11. RankedPool(Selected)
  <2>1. /\ Range(Selected) \subseteq Candidates
        /\ Candidates \ Range(Selected) # {} => Len(Selected) = MaxDeep
        /\ \A i, j \in DOMAIN Selected : i < j => Better("all", Selected[i], Selected[j])
    BY <1>1, <1>4, <1>8
  <2>2. \A s \in Candidates \ F :
            Lane(s) # "SEARCH" =>
                Cardinality(ahead(s)) >= Min({Places(Lane(s)), MaxDeep - Cardinality(before(s))})
    BY <1>10 DEF Room
  <2> QED
    BY <1>4, <1>9, <2>1, <2>2 DEF RankedPool
<1> QED
  BY <1>4, <1>7, <1>8, <1>11

-------------------------------------------------------------------------------
(* The pool *)

\* The pool is fixed, or taken over.
LEMMA FixPoolInv ==
  ASSUME IInv, FixPool
  PROVE  IInv'
<1>1. /\ pc = "decide" /\ pc' = "decide" /\ phase \in {"pool", "replace"}
      /\ phase' = "resume" /\ quota' = 0
      /\ done' = Finished /\ hidden' \subseteq index
      /\ left' = {s \in Range(pool) : query[s] \in Open}
      /\ UNCHANGED <<state, cancel, query, search, read, gate, ledger, at, index, faults>>
  BY DEF FixPool, Deciding
<1>2. /\ pool' = IF Rebuild THEN Selected ELSE pool
      /\ exhausted' = IF Rebuild THEN exhausted \/ ProvesExhaustion(Selected) ELSE exhausted
  BY DEF FixPool
<1>3. Rebuild => pool = <<>> /\ \A s \in Source : query[s] = None
  BY <1>1, RebuildsNothing DEF Begun
<1>4. pool = <<>> => Range(pool) = {}
  BY DEF Range
<1>5. \A s \in Source : s \in Range(pool) /\ query[s] # None => s \in Range(pool')
  BY <1>2, <1>3
<1>6. \A s \in Source : outcome[s] # None => s \in Range(pool')
  BY <1>2, <1>3, <1>4 DEF IInv, PoolSettled
<1>7. /\ pool' \in Seq(Source) /\ IsInjective(pool') /\ Len(pool') <= MaxDeep
  BY <1>2, SelectedFacts DEF IInv, TypeOK
<1>8. Finished \subseteq Source /\ left' \subseteq Source
  <2>1. Range(pool) \subseteq Source
    BY DEF IInv, TypeOK, Range
  <2> QED
    BY <1>1, <2>1 DEF Finished
<1>9. exhausted' \in BOOLEAN
  BY <1>2 DEF IInv, TypeOK, ProvesExhaustion
<1>10. TypeOK'
  BY <1>1, <1>7, <1>8, <1>9 DEF IInv, TypeOK, state, cancel, search, read
<1>11. Held' /\ Asking' /\ TriesLeft'
  BY <1>1 DEF IInv, Held, Asking, TriesLeft, state, search
<1>12. PoolBegun'
  <2>1. exhausted' => more = {} /\ \A q \in Seed : query[q] \in {None, "succeeded"}
    BY <1>2 DEF IInv, PoolBegun, ProvesExhaustion
  <2>2. \A s \in Source : query[s] # None => s \in Range(pool')
    BY <1>5 DEF IInv, PoolBegun
  <2> QED
    BY <1>1, <2>1, <2>2 DEF PoolBegun, Verifying, search
<1>13. ReadSoFar' /\ ReadOnce'
  BY <1>1 DEF IInv, ReadSoFar, ReadOnce, Going, read
<1>14. FinishedSettled'
  <2>1. \A s \in Finished : outcome[s] # None
    BY <1>1, AtWork DEF IInv, FinishedSettled
  <2>2. \A s \in left' : s \in Range(pool') /\ query[s] \in Open
    BY <1>1, <1>2, <1>3, <1>4
  <2> QED
    BY <1>1, <2>1, <2>2 DEF FinishedSettled, Finished, read
<1>15. PoolSettled' /\ FailIsProven'
  BY <1>1, <1>6, AtWork DEF PoolSettled, FailIsProven, Terminal, state, read
<1> QED
  BY <1>10, <1>11, <1>12, <1>13, <1>14, <1>15 DEF IInv

\* Whatever the worker asks for next, it may ask for.
LEMMA NextCallInv ==
  ASSUME IInv, NextSeed \/ NextLinked \/ NextReplacement \/ Resume \/ NextPage
  PROVE  IInv'
<1>0. UNCHANGED memory => /\ quota' \in Nat /\ phase' = phase
                          /\ UNCHANGED <<left, done, index, hidden>>
  BY DEF memory, IInv, TypeOK
<1>1. /\ Range(AllSeeds) = Seed /\ AllSeeds \in Seq(Seed)
      /\ Range(Replacements) \subseteq Seed /\ Replacements \in Seq(Seed)
  <2>1. Seeds \in Seq(Seed) /\ Replacements \in Seq(Seed)
    BY KeywordRunAssumption
  <2>2. AllSeeds \in Seq(Seed)
    BY <2>1 DEF AllSeeds
  <2> QED
    BY <2>1, <2>2 DEF Range, Seed
<1>2. CASE NextSeed
  <2> DEFINE q == FirstOf(AllSeeds, OpenSeeds)
  <2>1. q \in OpenSeeds
    <3>1. PICK x \in OpenSeeds : x \in Range(AllSeeds)
      BY <1>1, <1>2 DEF NextSeed, OpenSeeds
    <3> QED
      BY <1>1, <3>1, FirstOfFacts
  <2>2. q \in Seed /\ query[q] \in Open /\ q \in Query
    BY <2>1, Kinds DEF OpenSeeds
  <2>3. ~exhausted
    BY <2>2, KeywordRunAssumption DEF IInv, PoolBegun, Open, QueryStates
  <2> QED
    BY <1>0, <1>2, <2>2, <2>3, AskInv, Kinds DEF NextSeed, Verifying
<1>3. CASE NextLinked
  <2> DEFINE C == IF Interrupted # {} THEN Interrupted ELSE Unasked
  <2>1. C \in SUBSET Nat /\ C # {}
    BY <1>3, KeywordRunAssumption DEF NextLinked, Interrupted, Unasked
  <2>2. Min(C) \in C
    <3> HIDE DEF C
    <3> QED
      BY <2>1, MinFacts
  <2>3. Min(C) \in Channel /\ query[Min(C)] \in Open \cup {None}
    BY <2>2 DEF Interrupted, Unasked
  <2>4. Min(C) \in Query /\ Min(C) \notin Seed /\ Min(C) \notin Source
    BY <2>3, Kinds
  <2>5. Deciding /\ Ask(Min(C)) /\ phase = "linked"
        /\ UNCHANGED <<state, cancel, search, pool, read, ends, ledger, memory, faults>>
    BY <1>3 DEF NextLinked
  <2> HIDE DEF C
  <2> QED
    BY <1>0, <2>3, <2>4, <2>5, AskInv DEF Verifying
<1>4. CASE NextReplacement
  <2> DEFINE q == FirstOf(Replacements, Unused)
  <2>1. q \in Unused
    <3>1. PICK x \in Unused : x \in Range(Replacements)
      BY <1>4 DEF NextReplacement, Unused
    <3> QED
      BY <1>1, <3>1, FirstOfFacts
  <2>2. q \in Seed /\ query[q] = None /\ q \in Query
    BY <1>1, <2>1, Kinds DEF Unused
  <2>3. ~exhausted
    BY <1>4, RebuildsNothing DEF NextReplacement, Deciding, IInv, PoolBegun
  <2>4. quota' \in Nat
    <3>1. quota \in Nat /\ MaxDeep \in Nat
      BY KeywordRunAssumption DEF IInv, TypeOK
    <3>2. IsFiniteSet(Unseen)
      BY KeywordRunAssumption, FS_Subset DEF Unseen
    <3>3. Cardinality(Unseen) \in Nat
      BY <3>2, FS_CardinalityType
    <3>4. Len(Selected) \in Nat
      BY SelectedFacts
    <3> HIDE DEF Selected
    <3> QED
      BY <1>4, <3>1, <3>3, <3>4 DEF NextReplacement
  <2> QED
    BY <1>4, <2>2, <2>3, <2>4, AskInv, Kinds DEF NextReplacement, Verifying
<1>5. CASE Resume
  <2> DEFINE s == FirstOf(pool, left)
  <2>1. left \subseteq Range(pool) /\ pool \in Seq(Source) /\ left \subseteq Source
    BY DEF IInv, TypeOK, FinishedSettled
  <2>2. s \in left
    <3>1. PICK x \in left : x \in Range(pool)
      BY <1>5, <2>1 DEF Resume
    <3> QED
      BY <2>1, <3>1, FirstOfFacts
  <2>3. s \in Range(pool) /\ s \in Source /\ query[s] \in Open
    BY <2>1, <2>2 DEF IInv, FinishedSettled
  <2> QED
    BY <1>0, <1>5, <2>3, AskInv, Kinds DEF Resume, Verifying, Open
<1>6. CASE NextPage
  <2>1. Fairest \in Range(pool) /\ Fairest \notin done
    BY <1>6, FairestFacts DEF IInv, NextPage
  <2>2. Fairest \in Source
    BY <2>1 DEF IInv, TypeOK, Range
  <2>3. query[Fairest] # "succeeded"
    BY <1>6, <2>1, <2>2 DEF IInv, FinishedSettled, NextPage
  <2> QED
    BY <1>0, <1>6, <2>1, <2>2, <2>3, AskInv, Kinds DEF NextPage, Verifying
<1> QED
  BY <1>2, <1>3, <1>4, <1>5, <1>6

-------------------------------------------------------------------------------
(* The invariant holds throughout *)

\* The invariant holds at first, ...
LEMMA InitInv ==
  ASSUME Init
  PROVE  IInv
<1>1. {MaxDeep, MaxPages, MaxTransient, PageSize, SourceCap, RunCap, MinRequests}
          \subseteq Nat \ {0}
  BY KeywordRunAssumption
<1>2. /\ \A s \in Source : cursor[s] = [scanned |-> 0, asks |-> 0] /\ outcome[s] = None
      /\ pool = <<>> /\ total = 0 /\ hits = {} /\ more = {} /\ pc = "idle" /\ run = "queued"
      /\ \A s \in Source : query[s] = None
      /\ \A q \in Query : query[q] \in {"queued", None}
  <2>1. Range(Seeds) \subseteq Seed
    BY KeywordRunAssumption DEF Range
  <2> QED
    BY <2>1, Kinds DEF Init
<1>3. Range(pool) = {}
  BY <1>2 DEF Range
<1>4. TypeOK
  <2>1. pages \in [Paged -> 0 .. MaxPages - 1] /\ tries \in [Seed \cup Channel -> 0 .. MaxTransient]
    BY <1>1 DEF Init
  <2>2. cursor \in [Source -> [scanned : 0 .. SourceCap, asks : 0 .. MinRequests]]
    BY <1>1 DEF Init
  <2>3. pool \in Seq(Source) /\ IsInjective(pool) /\ Len(pool) <= MaxDeep
    BY <1>1, <1>2 DEF IsInjective
  <2>4. total \in 0 .. RunCap /\ faults \in 0 .. MaxFaults
    BY <1>1, <1>2, KeywordRunAssumption DEF Init
  <2>5. outcome \in [Source -> Outcomes \cup {None}]
        /\ query \in [Query -> QueryStates \cup {None}]
    BY DEF Init, QueryStates
  <2> QED
    BY <2>1, <2>2, <2>3, <2>4, <2>5 DEF Init, TypeOK, Terminal
<1>5. Held /\ Asking
  BY DEF Init, Held, Asking, Terminal
<1>6. TriesLeft
  BY <1>1 DEF Init, TriesLeft
<1>7. PoolBegun
  BY <1>2 DEF Init, PoolBegun
<1>8. ReadSoFar
  <2>1. \A s \in Source : Len(History[s]) \in Nat
    BY KeywordRunAssumption
  <2> QED
    BY <1>1, <1>2, <2>1 DEF ReadSoFar, Going
<1>9. FinishedSettled
  <2>1. None \notin {"succeeded", "failed", "cancelled"}
    BY KeywordRunAssumption DEF QueryStates
  <2> QED
    BY <1>2, <2>1 DEF Init, FinishedSettled, Finished
<1>10. ReadOnce
  <2>1. [s \in Source |-> cursor[s].scanned] = [s \in Source |-> 0]
    BY <1>2
  <2>2. SumFunction([s \in Source |-> 0]) = 0
    BY SumOfZeros, KeywordRunAssumption
  <2>3. total = SumFunction([s \in Source |-> cursor[s].scanned])
    BY <1>2, <2>1, <2>2
  <2>4. \A s \in Source : cursor[s].asks = AsksIn(History[s], cursor[s].scanned)
    BY <1>2, AsksFacts
  <2> QED
    BY <1>2, <2>3, <2>4 DEF ReadOnce
<1>11. PoolSettled /\ FailIsProven
  BY <1>2 DEF Init, PoolSettled, FailIsProven
<1> QED
  BY <1>4, <1>5, <1>6, <1>7, <1>8, <1>9, <1>10, <1>11 DEF IInv

\* ... and every step keeps it.
LEMMA NextInv ==
  ASSUME IInv, [Next]_vars
  PROVE  IInv'
<1>1. CASE Decide
  BY <1>1, PhaseInv, OverInv, NextCallInv, FixPoolInv, ResumeCappedInv, RunCapReachedInv,
     FinishInv, CancelledInv DEF Decide
<1>2. CASE Answer
  BY <1>2, SearchInv, PageReadInv, TroubleInv, LeaveInv, SourceLostInv DEF Answer
<1>3. CASE ClaimUnfit \/ Trouble
  BY <1>3, SearchInv, TroubleInv, FatalInv DEF Trouble
<1>4. CASE Claim \/ RecoverStale \/ CancelRead \/ CancelCommit \/ Poll \/ UNCHANGED vars
           \/ \E s \in Dismissible : Dismiss(s)
  BY <1>4, OutsideInv
<1> QED
  BY <1>1, <1>2, <1>3, <1>4 DEF Next, Work

\* The inductive invariant, for any queries, histories and caps.
THEOREM KeywordRunInvariant == Spec => []IInv
<1>1. Init => IInv
  BY InitInv
<1>2. IInv /\ [Next]_vars => IInv'
  BY NextInv
<1> QED
  BY <1>1, <1>2, PTL DEF Spec

\* Every variable keeps its type, and no source and no run is read beyond its cap
\* (_execute_history_page, _bump_counter).
THEOREM KeywordRunTypes == Spec => []TypeOK
<1>1. IInv => TypeOK
  BY DEF IInv
<1> QED
  BY <1>1, KeywordRunInvariant, PTL

\* Reading by turns, page by page, over parks and crashes, counts every message once and
\* comes to what reading each source alone would come to (_save_history_progress).
THEOREM EachHistoryReadOnce == Spec => []ReadOnce
<1>1. IInv => ReadOnce
  BY DEF IInv
<1> QED
  BY <1>1, KeywordRunInvariant, PTL

\* When a run is over, no source of its pool is left without an outcome, unless a better one
\* ended it or it was dismissed before a cancellation (_finish_run, _mark_cancelled).
THEOREM PoolIsSettled == Spec => []PoolSettled
<1>1. IInv => PoolSettled
  BY DEF IInv
<1> QED
  BY <1>1, KeywordRunInvariant, PTL

\* The gate only fails when all there was to find was found, read to its end, and wanting
\* (evaluate_run_gate, _classify_acquisition_stop).
THEOREM FailIsAlwaysProven == Spec => []FailIsProven
<1>1. IInv => FailIsProven
  BY DEF IInv
<1> QED
  BY <1>1, KeywordRunInvariant, PTL

\* The pool is ranked, with its reserved places, when it is fixed, and never changes
\* afterwards (select_preliminary_candidates, _should_rebuild_acquisition_pool).
THEOREM PoolStaysFixed == Spec => PoolFixed
<1>1. IInv /\ [Next]_vars
        => [IF pool = <<>> THEN RankedPool(pool') ELSE UNCHANGED pool]_<<pool>>
  <2> SUFFICES ASSUME IInv, [Next]_vars, pool' # pool
               PROVE  pool = <<>> /\ RankedPool(pool')
    OBVIOUS
  <2>1. FixPool
    BY DEF Next, Work, Decide, Answer, Trouble, Claim, ClaimUnfit, FailRun,
           RecoverStale, CancelRead, CancelCommit, Poll, Dismiss, vars,
           NextSeed, SeedsDone, NextLinked, LinkedDone, NextReplacement, Resume, ResumeCapped,
           ResumeDone, NextPage, RunCapReached, VerificationOver, Finish, Cancelled, SeedPage,
           SeedAnswer, SeedSkipped, SeedLost, LinkedAnswer, LinkedLost, PageRead, PageRefused,
           SourceLost, Flood, Transient, TransientLast, Fatal, Crash
  <2>2. Rebuild /\ pool' = Selected /\ pc = "decide" /\ phase \in {"pool", "replace"}
    BY <2>1 DEF FixPool, Deciding
  <2>3. pool = <<>>
    BY <2>2, RebuildsNothing
  <2> QED
    BY <2>2, <2>3, SelectedFacts
<1> QED
  BY <1>1, KeywordRunInvariant, PTL DEF Spec, PoolFixed

-------------------------------------------------------------------------------
(* The run implements the abstract run *)

\* No step changes an outcome.
LEMMA OutcomesStay ==
  ASSUME IInv, [Next]_vars, NEW s \in Source, outcome[s] # None
  PROVE  outcome'[s] = outcome[s]
<1>1. outcome \in [Source -> Outcomes \cup {None}]
  BY DEF IInv, TypeOK
<1>2. CASE UNCHANGED outcome
  BY <1>2
<1>3. ASSUME NEW t \in Source, NEW o, outcome' = [outcome EXCEPT ![t] = Settled(t, o)]
      PROVE  outcome'[s] = outcome[s]
  BY <1>1, <1>3 DEF Settled
<1>4. ASSUME NEW S, NEW stop, outcome' = SettledAll(S, stop)
      PROVE  outcome'[s] = outcome[s]
  BY <1>4 DEF SettledAll, Settled
<1>5. CASE \E t \in Source : PageRead(t) \/ SourceLost(t)
  BY <1>2, <1>3, <1>5 DEF PageRead, SourceLost
<1>6. CASE ResumeCapped
  <2>1. outcome' = [outcome EXCEPT ![FirstOf(pool, left)] =
                       Settled(FirstOf(pool, left),
                               Outcome("run_cap", cursor[FirstOf(pool, left)].asks))]
    BY <1>6 DEF ResumeCapped
  <2> QED
    BY <1>1, <2>1 DEF Settled
<1>7. CASE RunCapReached \/ Cancelled
  BY <1>4, <1>7 DEF RunCapReached, Cancelled
<1> QED
  BY <1>2, <1>5, <1>6, <1>7
  DEF Next, Work, Decide, Answer, Trouble, Claim, ClaimUnfit, FailRun,
      RecoverStale, CancelRead, CancelCommit, Poll, Dismiss, vars,
      read, NextSeed, SeedsDone, NextLinked, LinkedDone, NextReplacement, FixPool, Resume,
      ResumeDone, NextPage, VerificationOver, Finish, SeedPage, SeedAnswer, SeedSkipped,
      SeedLost, LinkedAnswer, LinkedLost, PageRefused, Flood, Transient, TransientLast, Fatal,
      Crash

\* An execution holds the job, and goes on with it, parks it or ends it with the run; only
\* where it goes on or ends it does it write outcomes.
LEMMA ExecutionHolds ==
  ASSUME IInv, Decide \/ Answer \/ Trouble
  PROVE  /\ job = "running" /\ asked' = asked
         /\ \/ job' = job
            \/ job' = "retry_wait" /\ outcome' = outcome
            \/ job' \in {"succeeded", "cancelled", "failed"} /\ run' \in Terminal
<1>1. pc # "idle"
  BY DEF Decide, Answer, Trouble, Deciding, Answered, Park, NextSeed, SeedsDone, NextLinked,
         LinkedDone, NextReplacement, FixPool, Resume, ResumeCapped, ResumeDone, NextPage,
         RunCapReached, VerificationOver, Finish, Cancelled, SeedPage, SeedAnswer, SeedSkipped,
         SeedLost, LinkedAnswer, LinkedLost, PageRead, PageRefused, SourceLost, Flood, Transient,
         TransientLast, Fatal, Crash
<1>2. job = "running"
  BY <1>1 DEF IInv, Held
<1>3. CASE Decide
  <2>1. asked' = asked
    BY <1>3 DEF Decide, NextSeed, SeedsDone, NextLinked, LinkedDone, NextReplacement, FixPool,
           Resume, ResumeCapped, ResumeDone, NextPage, RunCapReached, VerificationOver, Finish,
           Cancelled, cancel
  <2>2. CASE Finish \/ Cancelled
    BY <1>2, <2>1, <2>2 DEF Finish, Cancelled, Terminal
  <2>3. CASE ~(Finish \/ Cancelled)
    BY <1>2, <1>3, <2>1, <2>3 DEF Decide, NextSeed, SeedsDone, NextLinked, LinkedDone,
       NextReplacement, FixPool, Resume, ResumeCapped, ResumeDone, NextPage, RunCapReached,
       VerificationOver, state
  <2> QED
    BY <2>2, <2>3
<1>4. CASE Answer
  BY <1>2, <1>4 DEF Answer, SeedPage, SeedAnswer, SeedSkipped, SeedLost, LinkedAnswer, LinkedLost,
     PageRead, PageRefused, SourceLost, state, cancel
<1>5. CASE Trouble
  BY <1>2, <1>5 DEF Trouble, Flood, Transient, TransientLast, Park, Fatal, FailRun, Crash,
     state, cancel, read, Terminal
<1> QED
  BY <1>2, <1>3, <1>4, <1>5

\* Every step of the run is one of the abstract run, or none.
LEMMA StepImplements ==
  ASSUME IInv, IInv', [Next]_vars
  PROVE  [Abstract!Next]_Abstract!vars
<1> DEFINE theState == IF job \in Terminal THEN run ELSE "open"
           theAsked == IF asked THEN "mark" ELSE "none"
<1>1. Abstract!Extended
  <2>1. DOMAIN outcome' = Source
    BY DEF IInv, TypeOK
  <2> QED
    BY <2>1, OutcomesStay DEF Abstract!Extended
<1>2. /\ asked \in BOOLEAN /\ run # "open" /\ Abstract!Terminal = Terminal
      /\ run \in Terminal => job \in Terminal
  BY DEF IInv, TypeOK, Held, Terminal, Abstract!Terminal
<1>3. CASE Decide \/ Answer \/ Trouble
  <2>1. job = "running" /\ theState = "open" /\ theAsked' = theAsked
    BY <1>3, ExecutionHolds DEF Terminal
  <2>2. CASE job' = job
    BY <1>1, <2>1, <2>2 DEF Abstract!Next, Abstract!Publish, Terminal
  <2>3. CASE job' = "retry_wait" /\ outcome' = outcome
    BY <2>1, <2>3 DEF Abstract!Next, Abstract!Release, Terminal
  <2>4. CASE job' \in {"succeeded", "cancelled", "failed"} /\ run' \in Terminal
    BY <1>1, <1>2, <2>1, <2>4 DEF Abstract!Next, Abstract!End, Terminal
  <2> QED
    BY <1>3, <2>2, <2>3, <2>4, ExecutionHolds
<1>4. CASE Claim
  BY <1>4 DEF Claim, cancel, read, Abstract!Next, Abstract!Take, Terminal
<1>5. CASE ClaimUnfit
  BY <1>1, <1>2, <1>5 DEF ClaimUnfit, FailRun, cancel, Abstract!Next, Abstract!End, Terminal
<1>6. CASE RecoverStale
  BY <1>6 DEF RecoverStale, cancel, read, Abstract!Next, Abstract!Release, Terminal
<1>7. CASE CancelRead
  <2>1. /\ ~asked /\ asked' /\ run \notin Terminal
        /\ UNCHANGED <<run, job, outcome>>
    BY <1>7 DEF CancelRead, state, read
  <2> QED
    BY <1>2, <2>1 DEF Abstract!Next, Abstract!Ask, Terminal
<1>8. CASE CancelCommit
  <2>1. /\ asked /\ asked' = FALSE /\ run' = "cancelling"
        /\ UNCHANGED <<job, outcome>>
    BY <1>8 DEF CancelCommit, read
  <2> QED
    BY <1>2, <2>1 DEF Abstract!Next, Abstract!Mark
<1>9. CASE Poll \/ UNCHANGED vars \/ \E s \in Dismissible : Dismiss(s)
  BY <1>9 DEF Poll, Dismiss, vars, state, cancel, read, Abstract!vars
<1> QED
  BY <1>3, <1>4, <1>5, <1>6, <1>7, <1>8, <1>9 DEF Next, Work

\* The run implements the abstract run: only the execution that holds the job writes
\* outcomes, none is changed, none is added after the run's end, and only a cancel request
\* that had read the run before writes over that (_apply_source_truth, _finish_run,
\* _mark_cancelled, _fail_run, cancel_keyword_discovery_run).
THEOREM ImplementsDiscoveryRun == Spec => Implements
<1>1. Init => Abstract!Init
  BY DEF Init, Terminal, Abstract!Init
<1>2. IInv /\ IInv' /\ [Next]_vars => [Abstract!Next]_Abstract!vars
  BY StepImplements
<1> QED
  BY <1>1, <1>2, KeywordRunInvariant, PTL DEF Spec, Abstract!Spec, Implements
===============================================================================
