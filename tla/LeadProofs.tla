------------------------------ MODULE LeadProofs ------------------------------
(***************************************************************************)
(* What becomes of a message that asks for a service: its score, and the   *)
(* alert about it.                                                         *)
(*                                                                         *)
(* LeadScore: for every catalogue, with any weights, caps and thresholds,  *)
(* and whatever times out, only a request becomes a lead, a total is       *)
(* between 0 and 100, and a rule that is late and does not speak against   *)
(* the message never raises it.                                            *)
(*                                                                         *)
(* Outbox: for any alerts and any number of attempts, rollbacks and        *)
(* switches of the mode, the log agrees with the rows, and an alert        *)
(* arrives at most once more than transactions are lost.                   *)
(***************************************************************************)
EXTENDS LeadScore, Outbox, FiniteSetTheorems, WellFoundedInduction, TLAPS

\* What is shown is the outcome for the rules of the current revision that answered.
IInv ==
    /\ text \subseteq Rules /\ late \subseteq Rules
    /\ detection # None => detection = Detected(text \ late)
    /\ score # None =>
          /\ detection # None
          /\ \E age \in Hours, quality \in Quality :
                score = Scored(detection, text \ late, age, quality)

-------------------------------------------------------------------------------
(* Sums over a finite set, which the folds define by taking one member after another *)

\* Induction on the natural numbers, for a set of them.
LEMMA AllNaturals ==
    ASSUME NEW G \in SUBSET Nat, 0 \in G, \A n \in G : n + 1 \in G
    PROVE  \A n \in Nat : n \in G
<1> SUFFICES ASSUME Nat \ G # {} PROVE FALSE
    OBVIOUS
<1>1. PICK x \in Nat \ G : \A y \in Nat \ G : ~(<<y, x>> \in OpToRel(<, Nat))
    BY WFMin, NatLessThanWellFounded
<1>2. x # 0 /\ x - 1 \in Nat /\ (x - 1) + 1 = x
    <2>1. x \in Nat /\ x \notin G
        BY <1>1
    <2>2. x # 0
        BY <2>1
    <2> QED
        BY <2>1, <2>2
<1>3. x - 1 \notin G
    BY <1>1, <1>2
<1>4. <<x - 1, x>> \in {p \in Nat \X Nat : p[1] < p[2]}
    <2>1. x - 1 < x
        BY <1>2
    <2> QED
        BY <1>2, <2>1
<1> QED
    BY <1>1, <1>2, <1>3, <1>4, Zenon DEF OpToRel

\* The sums of f over the subsets of S, as a fold makes them.
SumsUp(sum, f, S) ==
    sum = [s \in SUBSET S |-> IF s = {} THEN 0
                              ELSE LET x == CHOOSE i \in s : TRUE IN f[x] + sum[s \ {x}]]

\* A set loses one member.
LEMMA OneLess ==
    ASSUME NEW S, IsFiniteSet(S), NEW s \in SUBSET S, NEW x \in s, NEW n \in Nat,
           Cardinality(s) <= n + 1
    PROVE  s \ {x} \in SUBSET S /\ Cardinality(s \ {x}) <= n
<1>1. IsFiniteSet(s)
    BY FS_Subset
<1>2. Cardinality(s) \in Nat /\ Cardinality(s \ {x}) = Cardinality(s) - 1
    BY <1>1, FS_CardinalityType, FS_RemoveElement
<1> QED
    BY <1>2

\* There are such sums.
LEMMA SumExists ==
    ASSUME NEW S, IsFiniteSet(S), NEW f
    PROVE  \E sum : SumsUp(sum, f, S)
<1> DEFINE pick(s)    == CHOOSE i \in s : TRUE
           body(g, s) == IF s = {} THEN 0 ELSE f[pick(s)] + g[s \ {pick(s)}]
           upto(g, n) == \A s \in SUBSET S : Cardinality(s) <= n => g[s] = body(g, s)
           G          == {n \in Nat : \E g : upto(g, n)}
<1>1. 0 \in G
    <2> DEFINE g == [s \in SUBSET S |-> 0]
    <2>1. \A s \in SUBSET S : Cardinality(s) <= 0 => s = {}
        BY FS_Subset, FS_CardinalityType, FS_EmptySet
    <2>2. upto(g, 0)
        BY <2>1
    <2> HIDE DEF g, upto
    <2> QED
        BY <2>2
<1>2. ASSUME NEW n \in G PROVE n + 1 \in G
    <2>1. PICK g : upto(g, n)
        OBVIOUS
    <2> DEFINE h == [s \in SUBSET S |-> body(g, s)]
    <2>2. ASSUME NEW s \in SUBSET S, Cardinality(s) <= n + 1
          PROVE  h[s] = body(h, s)
        <3>1. CASE s = {}
            BY <3>1
        <3>2. CASE s # {}
            <4>1. pick(s) \in s
                BY <3>2
            <4>2. s \ {pick(s)} \in SUBSET S /\ Cardinality(s \ {pick(s)}) <= n
                <5> HIDE DEF pick
                <5> QED
                    BY <2>2, <4>1, OneLess
            <4>3. h[s \ {pick(s)}] = g[s \ {pick(s)}]
                <5>1. g[s \ {pick(s)}] = body(g, s \ {pick(s)})
                    <6> HIDE DEF pick, body
                    <6> QED
                        BY <2>1, <4>2
                <5> HIDE DEF pick, body
                <5> QED
                    BY <4>2, <5>1
            <4> HIDE DEF pick
            <4>4. h[s] = f[pick(s)] + g[s \ {pick(s)}]
                BY <3>2
            <4> HIDE DEF h
            <4> QED
                BY <3>2, <4>3, <4>4
        <3> QED
            BY <3>1, <3>2
    <2>3. upto(h, n + 1)
        <3> HIDE DEF h, body
        <3> QED
            BY <2>2
    <2> HIDE DEF upto, h
    <2> QED
        BY <2>3
<1>3. Cardinality(S) \in G
    <2>1. Cardinality(S) \in Nat
        BY FS_CardinalityType
    <2> HIDE DEF G
    <2>2. G \subseteq Nat
        BY DEF G
    <2> QED
        BY <1>1, <1>2, <2>1, <2>2, AllNaturals
<1>4. PICK g : upto(g, Cardinality(S))
    BY <1>3
<1> DEFINE sum == [s \in SUBSET S |-> body(g, s)]
<1>5. \A s \in SUBSET S : g[s] = body(g, s)
    <2> HIDE DEF body
    <2>1. \A s \in SUBSET S : Cardinality(s) <= Cardinality(S)
        BY FS_Subset
    <2> QED
        BY <1>4, <2>1
<1>6. \A s \in SUBSET S : sum[s] = g[s]
    <2> HIDE DEF body
    <2> QED
        BY <1>5
<1>7. \A s \in SUBSET S : body(g, s) = body(sum, s)
    <2> SUFFICES ASSUME NEW s \in SUBSET S, s # {} PROVE body(g, s) = body(sum, s)
        <3> HIDE DEF pick, sum
        <3> QED
            OBVIOUS
    <2>1. s \ {pick(s)} \in SUBSET S
        OBVIOUS
    <2>2. sum[s \ {pick(s)}] = g[s \ {pick(s)}]
        <3> HIDE DEF pick, sum
        <3> QED
            BY <1>6, <2>1
    <2> HIDE DEF sum, pick
    <2> QED
        BY <2>2
<1>8. sum = [s \in SUBSET S |-> body(sum, s)]
    <2>1. \A s \in SUBSET S : sum[s] = body(sum, s)
        <3> HIDE DEF body, sum
        <3> QED
            BY <1>5, <1>6, <1>7
    <2>2. sum = [s \in SUBSET S |-> sum[s]]
        <3> HIDE DEF body
        <3> QED
            OBVIOUS
    <2> HIDE DEF sum, body
    <2> QED
        BY <2>1, <2>2, Zenon
<1>9. SumsUp(sum, f, S)
    <2> HIDE DEF sum
    <2> QED
        BY <1>8, Zenon DEF SumsUp
<1> QED
    <2> HIDE DEF sum
    <2> QED
        BY <1>9

\* Whichever member is taken first, the sum is its value and that of the others.
IsSum(sum, f, S) ==
    /\ sum[{}] = 0
    /\ \A s \in SUBSET S : sum[s] \in Int
    /\ \A s \in SUBSET S : \A x \in s : sum[s] = f[x] + sum[s \ {x}]

\* The order of a fold does not matter.
LEMMA SumOfOneMore ==
    ASSUME NEW S, IsFiniteSet(S), NEW f, \A x \in S : f[x] \in Int,
           NEW sum, SumsUp(sum, f, S)
    PROVE  IsSum(sum, f, S)
<1> DEFINE pick(s) == CHOOSE i \in s : TRUE
           fine(s) == sum[s] \in Int /\ \A x \in s : sum[s] = f[x] + sum[s \ {x}]
           G       == {n \in Nat : \A s \in SUBSET S : Cardinality(s) <= n => fine(s)}
<1>1. \A s \in SUBSET S : sum[s] = IF s = {} THEN 0 ELSE f[pick(s)] + sum[s \ {pick(s)}]
    BY Zenon DEF SumsUp
<1>2. \A s \in SUBSET S : s # {} => pick(s) \in s
    OBVIOUS
<1> HIDE DEF pick
<1>3. sum[{}] = 0
    BY <1>1
<1>4. 0 \in G
    <2>1. \A s \in SUBSET S : Cardinality(s) <= 0 => s = {}
        BY FS_Subset, FS_CardinalityType, FS_EmptySet
    <2>2. fine({})
        BY <1>3
    <2> HIDE DEF fine
    <2> QED
        BY <2>1, <2>2
<1>5. ASSUME NEW n \in G PROVE n + 1 \in G
    <2>1. \A s \in SUBSET S : Cardinality(s) <= n => fine(s)
        OBVIOUS
    <2>2. ASSUME NEW s \in SUBSET S, Cardinality(s) <= n + 1, s # {} PROVE fine(s)
        <3> DEFINE y == pick(s)
        <3>1. y \in s /\ sum[s] = f[y] + sum[s \ {y}] /\ f[y] \in Int
            BY <1>1, <1>2, <2>2
        <3> HIDE DEF y
        <3>2. \A x \in s : s \ {x} \in SUBSET S /\ Cardinality(s \ {x}) <= n
            BY <2>2, OneLess
        <3>3. \A x \in s : fine(s \ {x})
            <4> HIDE DEF fine
            <4> QED
                BY <2>1, <3>2
        <3>4. ASSUME NEW x \in s PROVE sum[s] = f[x] + sum[s \ {x}]
            <4>1. CASE x = y
                BY <3>1, <4>1
            <4>2. CASE x # y
                <5> DEFINE rest == (s \ {y}) \ {x}
                <5>1. rest = (s \ {x}) \ {y}
                    OBVIOUS
                <5>2. sum[s \ {y}] = f[x] + sum[rest]
                    BY <3>1, <3>3, <4>2
                <5>3. sum[s \ {x}] = f[y] + sum[rest]
                    <6>1. fine(s \ {x}) /\ y \in s \ {x}
                        BY <3>1, <3>3, <4>2
                    <6>2. sum[s \ {x}] = f[y] + sum[(s \ {x}) \ {y}]
                        BY <6>1
                    <6> QED
                        BY <5>1, <6>2, Zenon
                <5>4. sum[rest] \in Int
                    <6>1. rest \in SUBSET S /\ Cardinality(rest) <= n
                        <7>1. IsFiniteSet(s \ {y}) /\ rest \subseteq s \ {y}
                            BY FS_Subset, FS_RemoveElement
                        <7>2. Cardinality(rest) <= Cardinality(s \ {y})
                            BY <7>1, FS_Subset
                        <7>3. Cardinality(rest) \in Nat /\ Cardinality(s \ {y}) \in Nat
                            BY <7>1, FS_Subset, FS_CardinalityType
                        <7> QED
                            BY <3>1, <3>2, <7>2, <7>3
                    <6>2. fine(rest)
                        <7> HIDE DEF fine, rest
                        <7> QED
                            BY <2>1, <6>1
                    <6> QED
                        BY <6>2
                <5> HIDE DEF rest
                <5>5. f[x] \in Int
                    OBVIOUS
                <5> QED
                    BY <3>1, <5>2, <5>3, <5>4, <5>5
            <4> QED
                BY <4>1, <4>2
        <3>5. sum[s] \in Int
            BY <3>1, <3>3
        <3> QED
            BY <3>4, <3>5
    <2>3. fine({})
        BY <1>3
    <2> HIDE DEF fine
    <2> QED
        BY <2>2, <2>3
<1>6. \A n \in Nat : n \in G
    <2>1. G \in SUBSET Nat
        OBVIOUS
    <2> HIDE DEF G
    <2> QED
        BY <1>4, <1>5, <2>1, AllNaturals
<1>7. ASSUME NEW s \in SUBSET S PROVE fine(s)
    <2>1. IsFiniteSet(s) /\ Cardinality(s) \in Nat
        BY FS_Subset, FS_CardinalityType
    <2>2. Cardinality(s) \in G /\ Cardinality(s) <= Cardinality(s)
        <3> HIDE DEF G
        <3> QED
            BY <1>6, <2>1
    <2> HIDE DEF fine
    <2> QED
        BY <2>2
<1> QED
    BY <1>3, <1>7 DEF IsSum

\* A sum over fewer members with smaller values is not larger, when no value is negative.
LEMMA SumGrows ==
    ASSUME NEW T, IsFiniteSet(T), NEW S \in SUBSET T,
           NEW f, \A x \in S : f[x] \in Int, NEW g, \A x \in T : g[x] \in Nat,
           \A x \in S : f[x] <= g[x],
           NEW a, SumsUp(a, f, S), NEW b, SumsUp(b, g, T)
    PROVE  a[S] \in Int /\ b[T] \in Int /\ a[S] <= b[T]
<1>1. IsFiniteSet(S)
    BY FS_Subset
<1>2. /\ a[{}] = 0 /\ \A s \in SUBSET S : a[s] \in Int
      /\ \A s \in SUBSET S : \A x \in s : a[s] = f[x] + a[s \ {x}]
    <2>1. IsSum(a, f, S)
        BY <1>1, SumOfOneMore
    <2> QED
        BY <2>1 DEF IsSum
<1>3. /\ b[{}] = 0 /\ \A s \in SUBSET T : b[s] \in Int
      /\ \A s \in SUBSET T : \A x \in s : b[s] = g[x] + b[s \ {x}]
    <2>1. \A x \in T : g[x] \in Int
        OBVIOUS
    <2>2. IsSum(b, g, T)
        BY <2>1, SumOfOneMore
    <2> QED
        BY <2>2 DEF IsSum
<1> DEFINE fine(t) == a[t \cap S] <= b[t]
           G       == {n \in Nat : \A t \in SUBSET T : Cardinality(t) <= n => fine(t)}
<1>4. fine({})
    BY <1>2, <1>3
<1>5. 0 \in G
    <2>1. \A t \in SUBSET T : Cardinality(t) <= 0 => t = {}
        BY FS_Subset, FS_CardinalityType, FS_EmptySet
    <2> HIDE DEF fine
    <2> QED
        BY <1>4, <2>1
<1>6. ASSUME NEW n \in G PROVE n + 1 \in G
    <2>1. ASSUME NEW t \in SUBSET T, Cardinality(t) <= n + 1, t # {} PROVE fine(t)
        <3>1. PICK x \in t : TRUE
            BY <2>1
        <3> DEFINE u == t \ {x}
        <3>2. u \in SUBSET T /\ Cardinality(u) <= n
            BY <2>1, OneLess
        <3>3. fine(u)
            <4> HIDE DEF fine, u
            <4> QED
                BY <3>2
        <3>4. b[t] = g[x] + b[u] /\ b[u] \in Int /\ g[x] \in Nat
            BY <1>3, <3>2
        <3>5. CASE x \in S
            <4>1. (t \cap S) \ {x} = u \cap S
                OBVIOUS
            <4>2. a[t \cap S] = f[x] + a[(t \cap S) \ {x}]
                BY <1>2, <3>5
            <4>3. a[t \cap S] = f[x] + a[u \cap S]
                BY <4>1, <4>2, Zenon
            <4>4. a[u \cap S] \in Int /\ f[x] \in Int /\ f[x] <= g[x]
                BY <1>2, <3>5
            <4> HIDE DEF u
            <4> QED
                BY <3>3, <3>4, <4>3, <4>4
        <3>6. CASE x \notin S
            <4>1. t \cap S = u \cap S
                BY <3>6
            <4>2. a[u \cap S] \in Int
                BY <1>2
            <4> HIDE DEF u
            <4> QED
                BY <3>3, <3>4, <4>1, <4>2
        <3> QED
            BY <3>5, <3>6
    <2> HIDE DEF fine
    <2> QED
        BY <1>4, <2>1
<1>7. Cardinality(T) \in G
    <2>1. Cardinality(T) \in Nat
        BY FS_CardinalityType
    <2>2. G \in SUBSET Nat
        OBVIOUS
    <2> HIDE DEF G
    <2> QED
        BY <1>5, <1>6, <2>1, <2>2, AllNaturals
<1>8. fine(T)
    <2>1. Cardinality(T) <= Cardinality(T)
        BY FS_CardinalityType
    <2> HIDE DEF fine
    <2> QED
        BY <1>7, <2>1
<1>9. T \cap S = S
    OBVIOUS
<1> QED
    BY <1>2, <1>3, <1>8, <1>9

\* Nor is a sum of values that are not negative.
LEMMA SumNotNegative ==
    ASSUME NEW S, IsFiniteSet(S), NEW f, \A x \in S : f[x] \in Nat,
           NEW sum, SumsUp(sum, f, S)
    PROVE  0 <= sum[S]
<1> DEFINE a == [s \in SUBSET {} |-> 0]
<1>1. SumsUp(a, f, {})
    BY DEF SumsUp
<1>2. a[{}] = 0
    OBVIOUS
<1> HIDE DEF a
<1>3. a[{}] <= sum[S]
    <2>1. {} \in SUBSET S
        OBVIOUS
    <2>2. \A x \in {} : f[x] \in Int /\ f[x] <= f[x]
        OBVIOUS
    <2> QED
        BY <1>1, <2>1, <2>2, SumGrows
<1> QED
    BY <1>2, <1>3

\* The sum of the weights of some rules is such a sum.
LEMMA WeightSum ==
    ASSUME NEW S, IsFiniteSet(S)
    PROVE  \E sum : /\ SumsUp(sum, [i \in S |-> WeightOf(i)], S)
                    /\ MapThenSumSet(WeightOf, S) = sum[S]
<1> DEFINE f      == [i \in S |-> WeightOf(i)]
           E(sum) == sum = [s \in SUBSET S |->
                               IF s = {} THEN 0
                               ELSE LET x == CHOOSE i \in s : TRUE IN WeightOf(x) + sum[s \ {x}]]
<1>1. MapThenSumSet(WeightOf, S) = (CHOOSE sum : E(sum))[S]
    BY Zenon DEF MapThenSumSet, MapThenFoldSet
<1>2. ASSUME NEW sum PROVE SumsUp(sum, f, S) <=> E(sum)
    <2>1. ASSUME NEW s \in SUBSET S, s # {}
          PROVE  LET x == CHOOSE i \in s : TRUE
                 IN  f[x] + sum[s \ {x}] = WeightOf(x) + sum[s \ {x}]
        <3> DEFINE y == CHOOSE i \in s : TRUE
        <3>1. y \in S
            BY <2>1
        <3> HIDE DEF y
        <3>2. f[y] = WeightOf(y)
            BY <3>1
        <3> HIDE DEF f
        <3> QED
            BY <3>2 DEF y
    <2> HIDE DEF f
    <2> QED
        BY <2>1, Zenon DEF SumsUp
<1>3. \E sum : SumsUp(sum, f, S)
    BY SumExists
<1> HIDE DEF f, E
<1>4. E(CHOOSE sum : E(sum))
    BY <1>2, <1>3, Zenon
<1> QED
    BY <1>1, <1>2, <1>4, Zenon DEF f

\* So is that of their penalties.
LEMMA PenaltySum ==
    ASSUME NEW S, IsFiniteSet(S)
    PROVE  \E sum : /\ SumsUp(sum, [i \in S |-> PenaltyOf(i)], S)
                    /\ MapThenSumSet(PenaltyOf, S) = sum[S]
<1> DEFINE f      == [i \in S |-> PenaltyOf(i)]
           E(sum) == sum = [s \in SUBSET S |->
                               IF s = {} THEN 0
                               ELSE LET x == CHOOSE i \in s : TRUE IN PenaltyOf(x) + sum[s \ {x}]]
<1>1. MapThenSumSet(PenaltyOf, S) = (CHOOSE sum : E(sum))[S]
    BY Zenon DEF MapThenSumSet, MapThenFoldSet
<1>2. ASSUME NEW sum PROVE SumsUp(sum, f, S) <=> E(sum)
    <2>1. ASSUME NEW s \in SUBSET S, s # {}
          PROVE  LET x == CHOOSE i \in s : TRUE
                 IN  f[x] + sum[s \ {x}] = PenaltyOf(x) + sum[s \ {x}]
        <3> DEFINE y == CHOOSE i \in s : TRUE
        <3>1. y \in S
            BY <2>1
        <3> HIDE DEF y
        <3>2. f[y] = PenaltyOf(y)
            BY <3>1
        <3> HIDE DEF f
        <3> QED
            BY <3>2 DEF y
    <2> HIDE DEF f
    <2> QED
        BY <2>1, Zenon DEF SumsUp
<1>3. \E sum : SumsUp(sum, f, S)
    BY SumExists
<1> HIDE DEF f, E
<1>4. E(CHOOSE sum : E(sum))
    BY <1>2, <1>3, Zenon
<1> QED
    BY <1>1, <1>2, <1>4, Zenon DEF f

\* And so is that of the dimensions.
SumOfDimensions(D, hits) == MapThenSumSet(LAMBDA d : Dimension(d, hits), D)

\* The order in which they are added does not matter.
LEMMA DimensionSum ==
    ASSUME NEW S, IsFiniteSet(S), NEW hits
    PROVE  \E sum : /\ SumsUp(sum, [d \in S |-> Dimension(d, hits)], S)
                    /\ SumOfDimensions(S, hits) = sum[S]
<1> DEFINE f      == [d \in S |-> Dimension(d, hits)]
           E(sum) == sum = [s \in SUBSET S |->
                               IF s = {} THEN 0
                               ELSE LET x == CHOOSE i \in s : TRUE IN Dimension(x, hits) + sum[s \ {x}]]
<1>1. SumOfDimensions(S, hits) = (CHOOSE sum : E(sum))[S]
    BY Zenon DEF SumOfDimensions, MapThenSumSet, MapThenFoldSet
<1>2. ASSUME NEW sum PROVE SumsUp(sum, f, S) <=> E(sum)
    <2>1. ASSUME NEW s \in SUBSET S, s # {}
          PROVE  LET x == CHOOSE i \in s : TRUE
                 IN  f[x] + sum[s \ {x}] = Dimension(x, hits) + sum[s \ {x}]
        <3> DEFINE y == CHOOSE i \in s : TRUE
        <3>1. y \in S
            BY <2>1
        <3> HIDE DEF y
        <3>2. f[y] = Dimension(y, hits)
            BY <3>1
        <3> HIDE DEF f
        <3> QED
            BY <3>2 DEF y
    <2> HIDE DEF f
    <2> QED
        BY <2>1, Zenon DEF SumsUp
<1>3. \E sum : SumsUp(sum, f, S)
    BY SumExists
<1> HIDE DEF f, E
<1>4. E(CHOOSE sum : E(sum))
    BY <1>2, <1>3, Zenon
<1> QED
    BY <1>1, <1>2, <1>4, Zenon DEF f

-------------------------------------------------------------------------------
(* What the rules that have answered add up to *)

\* The greatest and the least of two numbers.
LEMMA TwoNumbers ==
    ASSUME NEW a \in Int, NEW b \in Int
    PROVE  /\ Max({a, b}) = IF a >= b THEN a ELSE b
           /\ Min({a, b}) = IF a <= b THEN a ELSE b
<1>1. \E x \in {a, b} : \A y \in {a, b} : x >= y
    BY SMT
<1>2. \E x \in {a, b} : \A y \in {a, b} : x <= y
    BY SMT
<1>3. Max({a, b}) \in {a, b} /\ \A y \in {a, b} : Max({a, b}) >= y
    BY <1>1 DEF Max
<1>4. Min({a, b}) \in {a, b} /\ \A y \in {a, b} : Min({a, b}) <= y
    BY <1>2 DEF Min
<1> HIDE DEF Max, Min
<1> QED
    BY <1>3, <1>4

\* What a rule may add to a dimension is not negative, and its penalty is a number.
LEMMA RuleValues ==
    ASSUME NEW i \in Rules
    PROVE  WeightOf(i) \in Nat /\ PenaltyOf(i) \in Int
<1>1. Rule[i].weight \in Int
    BY LeadScoreAssumption
<1>2. /\ Max({0, Rule[i].weight}) \in Nat
      /\ Max({Rule[i].weight, -Rule[i].weight}) \in Int
    BY <1>1, TwoNumbers
<1> QED
    BY <1>2 DEF WeightOf, PenaltyOf

\* More rules never lower a dimension.
LEMMA DimensionGrows ==
    ASSUME NEW all \in SUBSET Rules, NEW hits \in SUBSET all, NEW d \in DOMAIN Cap
    PROVE  /\ Dimension(d, hits) \in Nat /\ Dimension(d, all) \in Nat
           /\ Dimension(d, hits) <= Dimension(d, all)
<1> DEFINE S == {i \in hits : Rule[i].dimension = d}
           T == {i \in all : Rule[i].dimension = d}
           f == [i \in S |-> WeightOf(i)]
           g == [i \in T |-> WeightOf(i)]
<1>1. S \in SUBSET T /\ S \subseteq Rules /\ T \subseteq Rules
    OBVIOUS
<1>2. IsFiniteSet(S) /\ IsFiniteSet(T)
    BY <1>1, FS_Subset, LeadScoreAssumption
<1>3. /\ Dimension(d, hits) = Min({Cap[d], MapThenSumSet(WeightOf, S)})
      /\ Dimension(d, all) = Min({Cap[d], MapThenSumSet(WeightOf, T)})
    BY DEF Dimension
<1> HIDE DEF S, T
<1>4. PICK a : SumsUp(a, f, S) /\ MapThenSumSet(WeightOf, S) = a[S]
    BY <1>2, WeightSum
<1>5. PICK b : SumsUp(b, g, T) /\ MapThenSumSet(WeightOf, T) = b[T]
    BY <1>2, WeightSum
<1>6. /\ \A x \in S : f[x] \in Nat /\ f[x] \in Int /\ f[x] <= g[x]
      /\ \A x \in T : g[x] \in Nat
    <2>1. \A x \in T : g[x] = WeightOf(x) /\ WeightOf(x) \in Nat
        BY <1>1, RuleValues
    <2>2. \A x \in S : f[x] = WeightOf(x) /\ x \in T
        BY <1>1
    <2> HIDE DEF f, g
    <2> QED
        BY <2>1, <2>2
<1> HIDE DEF f, g
<1>7. a[S] \in Int /\ b[T] \in Int /\ a[S] <= b[T]
    BY <1>1, <1>2, <1>4, <1>5, <1>6, SumGrows
<1>8. 0 <= a[S]
    BY <1>2, <1>4, <1>6, SumNotNegative
<1>9. Cap[d] \in Nat
    BY LeadScoreAssumption
<1> DEFINE u == a[S]
           v == b[T]
           c == Cap[d]
<1>10. Dimension(d, hits) = Min({c, u}) /\ Dimension(d, all) = Min({c, v})
    BY <1>3, <1>4, <1>5
<1>11. u \in Int /\ v \in Int /\ u <= v /\ 0 <= u /\ c \in Nat
    BY <1>7, <1>8, <1>9
<1> HIDE DEF u, v, c
<1>12. /\ Dimension(d, hits) = IF c <= u THEN c ELSE u
       /\ Dimension(d, all) = IF c <= v THEN c ELSE v
    BY <1>10, <1>11, TwoNumbers
<1> QED
    BY <1>11, <1>12

\* Nor what speaks for a lead altogether.
LEMMA PositiveGrows ==
    ASSUME NEW all \in SUBSET Rules, NEW hits \in SUBSET all, NEW age \in Int, NEW quality \in Int
    PROVE  /\ Positive(hits, age, quality) \in Int /\ Positive(all, age, quality) \in Int
           /\ Positive(hits, age, quality) <= Positive(all, age, quality)
<1> DEFINE D == DOMAIN Cap
           f == [d \in D |-> Dimension(d, hits)]
           g == [d \in D |-> Dimension(d, all)]
<1>1. IsFiniteSet(D)
    BY LeadScoreAssumption
<1> HIDE DEF D
<1>2. PICK a : SumsUp(a, f, D) /\ SumOfDimensions(D, hits) = a[D]
    BY <1>1, DimensionSum
<1>3. PICK b : SumsUp(b, g, D) /\ SumOfDimensions(D, all) = b[D]
    BY <1>1, DimensionSum
<1>4. /\ \A d \in D : f[d] \in Int /\ f[d] <= g[d]
      /\ \A d \in D : g[d] \in Nat
    <2>1. \A d \in D : f[d] = Dimension(d, hits) /\ g[d] = Dimension(d, all)
        OBVIOUS
    <2>2. \A d \in D : /\ Dimension(d, hits) \in Nat /\ Dimension(d, all) \in Nat
                       /\ Dimension(d, hits) <= Dimension(d, all)
        BY DimensionGrows DEF D
    <2> HIDE DEF f, g
    <2> QED
        BY <2>1, <2>2
<1> HIDE DEF f, g
<1>5. a[D] \in Int /\ b[D] \in Int /\ a[D] <= b[D]
    BY <1>1, <1>2, <1>3, <1>4, SumGrows
<1>6. Freshness(age) \in Int
    <2> DEFINE limits == {1, 6, 24, 72, 14 * 24}
               older   == {limit \in limits : age > limit}
    <2>1. IsFiniteSet(limits)
        <3> DEFINE top == 336
        <3>1. limits \subseteq 1 .. top /\ top \in Int
            OBVIOUS
        <3> HIDE DEF top
        <3>2. IsFiniteSet(1 .. top)
            BY <3>1, FS_Interval
        <3> HIDE DEF limits
        <3> QED
            BY <3>1, <3>2, FS_Subset
    <2>2. older \in SUBSET limits
        OBVIOUS
    <2>3. Freshness(age) = 5 - Cardinality(older)
        BY DEF Freshness
    <2> HIDE DEF limits, older
    <2>4. Cardinality(older) \in Nat
        BY <2>1, <2>2, FS_Subset, FS_CardinalityType
    <2> QED
        BY <2>3, <2>4
<1>7. /\ Positive(hits, age, quality) = a[D] + Freshness(age) + Max({0, Min({5, quality})})
      /\ Positive(all, age, quality) = b[D] + Freshness(age) + Max({0, Min({5, quality})})
    BY <1>2, <1>3, Zenon DEF Positive, SumOfDimensions, D
<1>8. Max({0, Min({5, quality})}) \in Int
    <2>1. Min({5, quality}) \in Int
        BY TwoNumbers
    <2> QED
        BY <2>1, TwoNumbers
<1> DEFINE m == Max({0, Min({5, quality})})
           fresh == Freshness(age)
<1> HIDE DEF m, fresh
<1> QED
    BY <1>5, <1>6, <1>7, <1>8 DEF m, fresh

\* The penalty of a message is a number, whatever its rules.
LEMMA PenaltyIsNumber ==
    ASSUME NEW hits \in SUBSET Rules
    PROVE  SoftPenalty(hits) \in Int
<1> DEFINE S == {i \in hits : Rule[i].dimension = "soft_penalty"}
           f == [i \in S |-> PenaltyOf(i)]
<1>1. S \subseteq Rules /\ IsFiniteSet(S)
    BY FS_Subset, LeadScoreAssumption
<1>2. SoftPenalty(hits) = Max({-PenaltyCap, MapThenSumSet(PenaltyOf, S)})
    BY DEF SoftPenalty
<1> HIDE DEF S
<1>3. PICK a : SumsUp(a, f, S) /\ MapThenSumSet(PenaltyOf, S) = a[S]
    BY <1>1, PenaltySum
<1>4. \A x \in S : f[x] \in Int
    BY <1>1, RuleValues
<1> HIDE DEF f
<1>5. IsSum(a, f, S)
    BY <1>1, <1>3, <1>4, SumOfOneMore
<1>6. a[S] \in Int /\ -PenaltyCap \in Int
    BY <1>5, LeadScoreAssumption DEF IsSum
<1> QED
    BY <1>2, <1>3, <1>6, TwoNumbers

\* A total stays between 0 and 100, and clamping keeps the order.
LEMMA ClampedRange ==
    ASSUME NEW m \in Int, NEW n \in Int, m <= n
    PROVE  Clamped(m) \in 0 .. 100 /\ Clamped(n) \in 0 .. 100 /\ Clamped(m) <= Clamped(n)
<1>1. /\ Min({100, m}) = IF 100 <= m THEN 100 ELSE m
      /\ Min({100, n}) = IF 100 <= n THEN 100 ELSE n
    BY TwoNumbers
<1> DEFINE u == Min({100, m})
           v == Min({100, n})
<1>2. Clamped(m) = Max({0, u}) /\ Clamped(n) = Max({0, v})
    BY DEF Clamped
<1>3. u \in Int /\ v \in Int /\ u <= 100 /\ v <= 100 /\ u <= v
    BY <1>1
<1> HIDE DEF u, v
<1>4. /\ Clamped(m) = IF 0 >= u THEN 0 ELSE u
      /\ Clamped(n) = IF 0 >= v THEN 0 ELSE v
    BY <1>2, <1>3, TwoNumbers
<1> QED
    BY <1>3, <1>4

-------------------------------------------------------------------------------
(* What the rules that have answered make of a message *)

\* A non-empty set of positions has a first one.
LEMMA MinIsLeast ==
    ASSUME NEW S \in SUBSET Nat, S # {}
    PROVE  /\ Min(S) \in S
           /\ \A y \in S : Min(S) <= y
<1>1. PICK x \in S : \A y \in S : ~(<<y, x>> \in OpToRel(<, Nat))
    BY WFMin, NatLessThanWellFounded
<1>2. \A y \in S : ~(y < x)
    <2> SUFFICES ASSUME NEW y \in S, y < x PROVE FALSE
        OBVIOUS
    <2>1. <<y, x>> \in {p \in Nat \X Nat : p[1] < p[2]}
        OBVIOUS
    <2> QED
        BY <1>1, <2>1, Zenon DEF OpToRel
<1>3. \A y \in S : x <= y
    BY <1>2
<1> QED
    BY <1>3 DEF Min

\* The first of a precedence is the default, or a target none before which is one.
LEMMA FirstFound ==
    ASSUME NEW V, NEW precedence \in Seq(V), NEW targets, NEW default
    PROVE  \/ /\ FirstIn(precedence, targets, default) = default
              /\ \A n \in DOMAIN precedence : precedence[n] \notin targets
           \/ \E n \in DOMAIN precedence :
                 /\ precedence[n] \in targets
                 /\ FirstIn(precedence, targets, default) = precedence[n]
                 /\ \A k \in DOMAIN precedence : precedence[k] \in targets => n <= k
<1> DEFINE found == {n \in DOMAIN precedence : precedence[n] \in targets}
<1>1. FirstIn(precedence, targets, default) =
          IF found = {} THEN default ELSE precedence[Min(found)]
    BY DEF FirstIn
<1>2. found \in SUBSET Nat
    OBVIOUS
<1>3. CASE found = {}
    BY <1>1, <1>3
<1>4. CASE found # {}
    <2> DEFINE m == Min(found)
    <2>1. m \in found /\ \A k \in found : m <= k
        <3> HIDE DEF found
        <3> QED
            BY <1>2, <1>4, MinIsLeast
    <2>2. FirstIn(precedence, targets, default) = precedence[m]
        BY <1>1, <1>4
    <2> HIDE DEF m
    <2> QED
        BY <2>1, <2>2
<1> QED
    BY <1>3, <1>4

\* What the three precedences list, and where.
LEMMA Precedences ==
    /\ HARD_EXCLUSION_PRECEDENCE \in Seq({"spam", "advertising"})
    /\ ROLE_PRECEDENCE \in Seq(Roles) /\ DOMAIN ROLE_PRECEDENCE = 1 .. 4
    /\ ROLE_PRECEDENCE[1] = "provider_offer" /\ ROLE_PRECEDENCE[2] = "job_seeker"
    /\ ROLE_PRECEDENCE[3] = "vacancy" /\ ROLE_PRECEDENCE[4] = "client_request"
    /\ POSITIVE_PRECEDENCE \in Seq({"direct_order", "contractor_search",
                                    "recommendation_request", "vacancy", "potential_need"})
    /\ DOMAIN POSITIVE_PRECEDENCE = 1 .. 5 /\ POSITIVE_PRECEDENCE[4] = "vacancy"
    /\ \A n \in 1 .. 5 : POSITIVE_PRECEDENCE[n] = "vacancy" => n = 4
BY DEF HARD_EXCLUSION_PRECEDENCE, ROLE_PRECEDENCE, POSITIVE_PRECEDENCE, Roles

\* An author has a role that a rule gives, or none.
LEMMA RoleOfTargets ==
    ASSUME NEW hits
    PROVE  /\ AuthorRole(hits) \in Roles \cup {"neutral"}
           /\ AuthorRole(hits) # "neutral" => AuthorRole(hits) \in TargetsOf("author_role", hits)
<1> DEFINE targets == TargetsOf("author_role", hits)
<1>1. AuthorRole(hits) = FirstIn(ROLE_PRECEDENCE, targets, "neutral")
    BY DEF AuthorRole
<1> HIDE DEF targets
<1>2. \/ FirstIn(ROLE_PRECEDENCE, targets, "neutral") = "neutral"
      \/ \E n \in DOMAIN ROLE_PRECEDENCE :
            /\ ROLE_PRECEDENCE[n] \in targets
            /\ FirstIn(ROLE_PRECEDENCE, targets, "neutral") = ROLE_PRECEDENCE[n]
    BY Precedences, FirstFound
<1>3. \A n \in DOMAIN ROLE_PRECEDENCE : ROLE_PRECEDENCE[n] \in Roles
    <2>1. ROLE_PRECEDENCE \in Seq(Roles)
        BY Precedences
    <2> QED
        BY <2>1
<1> QED
    BY <1>1, <1>2, <1>3 DEF targets

\* The role of an author is that of a client, or none, only if no rule that gives
\* another one has answered.
LEMMA ClientHasNoOtherRole ==
    ASSUME NEW hits, hits \subseteq Rules,
           AuthorRole(hits) \in {"client_request", "neutral"}
    PROVE  \A i \in hits : Rule[i].kind = "author_role" => Rule[i].target = "client_request"
<1> DEFINE targets == TargetsOf("author_role", hits)
<1> SUFFICES ASSUME NEW i \in hits, Rule[i].kind = "author_role",
                    Rule[i].target # "client_request"
             PROVE  FALSE
    OBVIOUS
<1>1. Rule[i].target \in targets /\ Rule[i].target \in Roles
    BY LeadScoreAssumption DEF TargetsOf, HitsOf
<1>2. PICK n \in 1 .. 3 : ROLE_PRECEDENCE[n] \in targets
    <2>1. \E n \in 1 .. 3 : ROLE_PRECEDENCE[n] = Rule[i].target
        BY <1>1, Precedences DEF Roles
    <2> QED
        BY <1>1, <2>1
<1>3. AuthorRole(hits) = FirstIn(ROLE_PRECEDENCE, targets, "neutral")
    BY DEF AuthorRole
<1> HIDE DEF targets
<1>4. PICK m \in 1 .. 4 : AuthorRole(hits) = ROLE_PRECEDENCE[m] /\ m <= n
    <2>1. n \in DOMAIN ROLE_PRECEDENCE /\ DOMAIN ROLE_PRECEDENCE = 1 .. 4
        BY Precedences
    <2>2. \/ \A k \in DOMAIN ROLE_PRECEDENCE : ROLE_PRECEDENCE[k] \notin targets
          \/ \E k \in DOMAIN ROLE_PRECEDENCE :
                /\ FirstIn(ROLE_PRECEDENCE, targets, "neutral") = ROLE_PRECEDENCE[k]
                /\ \A l \in DOMAIN ROLE_PRECEDENCE : ROLE_PRECEDENCE[l] \in targets => k <= l
        BY Precedences, FirstFound
    <2> QED
        BY <1>2, <1>3, <2>1, <2>2
<1> QED
    <2>1. m \in 1 .. 3
        BY <1>4
    <2>2. ROLE_PRECEDENCE[m] \in {"provider_offer", "job_seeker", "vacancy"}
        BY <2>1, Precedences
    <2> QED
        BY <1>4, <2>2

\* The cases of detection, with nothing in them to look into.
LEMMA DetectedCases ==
    ASSUME NEW hits
    PROVE  LET exclusions == TargetsOf("hard_exclusion", hits)
               intents    == TargetsOf("positive_intent", hits)
               services   == TargetsOf("service", hits)
               role       == AuthorRole(hits)
           IN  \/ /\ exclusions # {}
                  /\ Detected(hits) =
                         Detection(FirstIn(HARD_EXCLUSION_PRECEDENCE, exclusions, "irrelevant"),
                                   TRUE, FALSE)
               \/ /\ exclusions = {} /\ role \in {"provider_offer", "job_seeker"}
                  /\ Detected(hits) = Detection("advertising", TRUE, FALSE)
               \/ /\ exclusions = {} /\ role = "vacancy" /\ intents # {}
                  /\ Detected(hits) = Detection("vacancy", FALSE, services # {})
               \/ /\ exclusions = {} /\ role \in {"client_request", "neutral"}
                  /\ intents # {} /\ services # {}
                  /\ Detected(hits) =
                         Detection(FirstIn(POSITIVE_PRECEDENCE, intents, "irrelevant"),
                                   FALSE, TRUE)
               \/ /\ exclusions = {} /\ role \notin {"provider_offer", "job_seeker"}
                  /\ ~(role = "vacancy" /\ intents # {})
                  /\ ~(role \in {"client_request", "neutral"} /\ intents # {} /\ services # {})
                  /\ Detected(hits) = Detection("irrelevant", FALSE, FALSE)
<1> DEFINE exclusions == TargetsOf("hard_exclusion", hits)
           intents    == TargetsOf("positive_intent", hits)
           services   == TargetsOf("service", hits)
           excluded   == FirstIn(HARD_EXCLUSION_PRECEDENCE, exclusions, "irrelevant")
           wanted     == FirstIn(POSITIVE_PRECEDENCE, intents, "irrelevant")
           role       == AuthorRole(hits)
<1>1. Detected(hits) =
        CASE exclusions # {} -> Detection(excluded, TRUE, FALSE)
          [] exclusions = {} /\ role \in {"provider_offer", "job_seeker"} ->
                 Detection("advertising", TRUE, FALSE)
          [] exclusions = {} /\ role = "vacancy" /\ intents # {} ->
                 Detection("vacancy", FALSE, services # {})
          [] /\ exclusions = {} /\ role \in {"client_request", "neutral"}
             /\ intents # {} /\ services # {} -> Detection(wanted, FALSE, TRUE)
          [] OTHER -> Detection("irrelevant", FALSE, FALSE)
    BY DEF Detected
<1> HIDE DEF exclusions, intents, services, excluded, wanted, role
<1>2. \/ exclusions # {} /\ Detected(hits) = Detection(excluded, TRUE, FALSE)
      \/ /\ exclusions = {} /\ role \in {"provider_offer", "job_seeker"}
         /\ Detected(hits) = Detection("advertising", TRUE, FALSE)
      \/ /\ exclusions = {} /\ role = "vacancy" /\ intents # {}
         /\ Detected(hits) = Detection("vacancy", FALSE, services # {})
      \/ /\ exclusions = {} /\ role \in {"client_request", "neutral"}
         /\ intents # {} /\ services # {}
         /\ Detected(hits) = Detection(wanted, FALSE, TRUE)
      \/ /\ exclusions = {} /\ role \notin {"provider_offer", "job_seeker"}
         /\ ~(role = "vacancy" /\ intents # {})
         /\ ~(role \in {"client_request", "neutral"} /\ intents # {} /\ services # {})
         /\ Detected(hits) = Detection("irrelevant", FALSE, FALSE)
    BY <1>1
<1> QED
    BY <1>2, Zenon DEF exclusions, intents, services, excluded, wanted, role

\* What is a lead and not excluded from scoring asks for a service, and nothing that has
\* answered speaks of a provider, an employer or a spammer.
LEMMA LeadAsks ==
    ASSUME NEW hits, hits \subseteq Rules,
           Detected(hits).is_lead, ~Excluded(Detected(hits))
    PROVE  /\ HitsOf("positive_intent", hits) # {} /\ HitsOf("service", hits) # {}
           /\ \A i \in hits : ~Excluding(i)
<1>1. /\ TargetsOf("hard_exclusion", hits) = {}
      /\ TargetsOf("positive_intent", hits) # {} /\ TargetsOf("service", hits) # {}
      /\ AuthorRole(hits) \in {"client_request", "neutral"}
    BY DetectedCases DEF Detection, Excluded
<1>2. HitsOf("positive_intent", hits) # {} /\ HitsOf("service", hits) # {}
    BY <1>1 DEF TargetsOf
<1>3. ASSUME NEW i \in hits PROVE ~Excluding(i)
    <2>1. Rule[i].kind # "hard_exclusion"
        BY <1>1 DEF TargetsOf, HitsOf
    <2>2. Rule[i].kind = "author_role" => Rule[i].target = "client_request"
        BY <1>1, ClientHasNoOtherRole
    <2> QED
        BY <2>1, <2>2 DEF Excluding
<1> QED
    BY <1>2, <1>3

\* And what asks for a service, with nothing that speaks against it, is a lead.
LEMMA RequestIsLead ==
    ASSUME NEW hits, \A i \in hits : ~Excluding(i),
           HitsOf("positive_intent", hits) # {}, HitsOf("service", hits) # {}
    PROVE  Detected(hits) =
               Detection(FirstIn(POSITIVE_PRECEDENCE, TargetsOf("positive_intent", hits),
                                 "irrelevant"), FALSE, TRUE)
<1>1. TargetsOf("hard_exclusion", hits) = {}
    BY DEF TargetsOf, HitsOf, Excluding
<1>2. TargetsOf("positive_intent", hits) # {} /\ TargetsOf("service", hits) # {}
    BY DEF TargetsOf
<1>3. TargetsOf("author_role", hits) \subseteq {"client_request"}
    BY DEF TargetsOf, HitsOf, Excluding
<1>4. AuthorRole(hits) \in {"client_request", "neutral"}
    BY <1>3, RoleOfTargets
<1> QED
    BY <1>1, <1>2, <1>4, DetectedCases

\* A rule that is late and does not speak against the message takes no lead away from it.
LEMMA LateKeepsLead ==
    ASSUME NEW all \in SUBSET Rules, NEW hits \in SUBSET all,
           \A i \in all \ hits : ~SpeaksAgainst(i),
           Detected(hits).is_lead, ~Excluded(Detected(hits))
    PROVE  Detected(all).is_lead /\ ~Excluded(Detected(all))
<1> DEFINE found     == TargetsOf("positive_intent", hits)
           known     == TargetsOf("positive_intent", all)
           choice(t) == FirstIn(POSITIVE_PRECEDENCE, t, "irrelevant")
<1>1. /\ HitsOf("positive_intent", hits) # {} /\ HitsOf("service", hits) # {}
      /\ \A i \in hits : ~Excluding(i)
    BY LeadAsks
<1>2. /\ HitsOf("positive_intent", all) # {} /\ HitsOf("service", all) # {}
      /\ \A i \in all : ~Excluding(i)
    BY <1>1 DEF HitsOf, SpeaksAgainst
<1>3. Detected(hits) = Detection(choice(found), FALSE, TRUE)
    BY <1>1, RequestIsLead
<1>4. Detected(all) = Detection(choice(known), FALSE, TRUE)
    BY <1>2, RequestIsLead
<1>5. choice(found) # "vacancy"
    BY <1>3 DEF Detection, Excluded
<1>6. found \subseteq known /\ ("vacancy" \in known => "vacancy" \in found)
    BY DEF TargetsOf, HitsOf, SpeaksAgainst
<1> HIDE DEF found, known
<1>7. \A t : \/ /\ choice(t) = "irrelevant"
                /\ \A n \in 1 .. 5 : POSITIVE_PRECEDENCE[n] \notin t
             \/ \E n \in 1 .. 5 : /\ POSITIVE_PRECEDENCE[n] \in t
                                  /\ choice(t) = POSITIVE_PRECEDENCE[n]
                                  /\ \A k \in 1 .. 5 : POSITIVE_PRECEDENCE[k] \in t => n <= k
    <2> SUFFICES ASSUME NEW t
                 PROVE  \/ /\ choice(t) = "irrelevant"
                           /\ \A n \in 1 .. 5 : POSITIVE_PRECEDENCE[n] \notin t
                        \/ \E n \in 1 .. 5 :
                              /\ POSITIVE_PRECEDENCE[n] \in t
                              /\ choice(t) = POSITIVE_PRECEDENCE[n]
                              /\ \A k \in 1 .. 5 : POSITIVE_PRECEDENCE[k] \in t => n <= k
        OBVIOUS
    <2> DEFINE intents == {"direct_order", "contractor_search", "recommendation_request",
                           "vacancy", "potential_need"}
    <2>1. DOMAIN POSITIVE_PRECEDENCE = 1 .. 5 /\ POSITIVE_PRECEDENCE \in Seq(intents)
        BY Precedences
    <2> HIDE DEF intents
    <2> QED
        BY <2>1, FirstFound
<1> HIDE DEF choice
<1>8. choice(known) # "vacancy"
    <2> SUFFICES ASSUME choice(known) = "vacancy" PROVE FALSE
        OBVIOUS
    <2>1. PICK n \in 1 .. 5 : /\ POSITIVE_PRECEDENCE[n] \in known
                              /\ choice(known) = POSITIVE_PRECEDENCE[n]
                              /\ \A k \in 1 .. 5 : POSITIVE_PRECEDENCE[k] \in known => n <= k
        BY <1>7
    <2>2. POSITIVE_PRECEDENCE[n] = "vacancy" /\ POSITIVE_PRECEDENCE[n] \in found
        BY <1>6, <2>1
    <2>3. PICK m \in 1 .. 5 : /\ POSITIVE_PRECEDENCE[m] \in found
                              /\ choice(found) = POSITIVE_PRECEDENCE[m]
                              /\ \A k \in 1 .. 5 : POSITIVE_PRECEDENCE[k] \in found => m <= k
        BY <1>7, <2>2
    <2>4. n <= m /\ m <= n
        BY <1>6, <2>1, <2>2, <2>3
    <2>5. n = m
        BY <2>4
    <2> QED
        BY <1>5, <2>2, <2>3, <2>5
<1>9. choice(known) \notin {"spam", "advertising"}
    <2>1. \A n \in 1 .. 5 : POSITIVE_PRECEDENCE[n] \notin {"spam", "advertising"}
        BY DEF POSITIVE_PRECEDENCE
    <2> QED
        BY <1>7, <2>1
<1> QED
    BY <1>4, <1>8, <1>9 DEF Detection, Excluded

\* Detection gives one of the categories, whatever the rules name as their target.
LEMMA DetectedTypes ==
    ASSUME NEW hits
    PROVE  Detected(hits) \in [category : Categories, hard_exclusion : BOOLEAN, is_lead : BOOLEAN]
<1>1. \A t : FirstIn(HARD_EXCLUSION_PRECEDENCE, t, "irrelevant") \in Categories
    <2> SUFFICES ASSUME NEW t
                 PROVE  FirstIn(HARD_EXCLUSION_PRECEDENCE, t, "irrelevant") \in Categories
        OBVIOUS
    <2>1. HARD_EXCLUSION_PRECEDENCE \in Seq({"spam", "advertising"})
        BY Precedences
    <2>2. \/ FirstIn(HARD_EXCLUSION_PRECEDENCE, t, "irrelevant") = "irrelevant"
          \/ \E n \in DOMAIN HARD_EXCLUSION_PRECEDENCE :
                FirstIn(HARD_EXCLUSION_PRECEDENCE, t, "irrelevant") = HARD_EXCLUSION_PRECEDENCE[n]
        BY <2>1, FirstFound
    <2>3. \A n \in DOMAIN HARD_EXCLUSION_PRECEDENCE :
              HARD_EXCLUSION_PRECEDENCE[n] \in {"spam", "advertising"}
        BY <2>1
    <2> QED
        BY <2>2, <2>3 DEF Categories
<1>2. \A t : FirstIn(POSITIVE_PRECEDENCE, t, "irrelevant") \in Categories
    <2> SUFFICES ASSUME NEW t PROVE FirstIn(POSITIVE_PRECEDENCE, t, "irrelevant") \in Categories
        OBVIOUS
    <2> DEFINE intents == {"direct_order", "contractor_search", "recommendation_request",
                           "vacancy", "potential_need"}
    <2>1. POSITIVE_PRECEDENCE \in Seq(intents)
        BY Precedences
    <2>2. intents \subseteq Categories /\ "irrelevant" \in Categories
        BY DEF Categories
    <2> HIDE DEF intents
    <2>3. \/ FirstIn(POSITIVE_PRECEDENCE, t, "irrelevant") = "irrelevant"
          \/ \E n \in DOMAIN POSITIVE_PRECEDENCE :
                FirstIn(POSITIVE_PRECEDENCE, t, "irrelevant") = POSITIVE_PRECEDENCE[n]
        BY <2>1, FirstFound
    <2>4. \A n \in DOMAIN POSITIVE_PRECEDENCE : POSITIVE_PRECEDENCE[n] \in intents
        BY <2>1
    <2> QED
        BY <2>2, <2>3, <2>4
<1>3. /\ \A c \in Categories, b \in BOOLEAN, l \in BOOLEAN :
             Detection(c, b, l) \in [category : Categories, hard_exclusion : BOOLEAN, is_lead : BOOLEAN]
      /\ {"advertising", "vacancy", "irrelevant"} \subseteq Categories
    BY DEF Detection, Categories
<1> DEFINE services == TargetsOf("service", hits) # {}
<1>4. services \in BOOLEAN
    OBVIOUS
<1> DEFINE Result == [category : Categories, hard_exclusion : BOOLEAN, is_lead : BOOLEAN]
<1>5. /\ \A t : Detection(FirstIn(HARD_EXCLUSION_PRECEDENCE, t, "irrelevant"), TRUE, FALSE) \in Result
      /\ \A t : Detection(FirstIn(POSITIVE_PRECEDENCE, t, "irrelevant"), FALSE, TRUE) \in Result
      /\ Detection("advertising", TRUE, FALSE) \in Result
      /\ Detection("vacancy", FALSE, services) \in Result
      /\ Detection("irrelevant", FALSE, FALSE) \in Result
    <2> HIDE DEF services
    <2> QED
        BY <1>1, <1>2, <1>3, <1>4
<1> HIDE DEF Result
<1>6. Detected(hits) \in Result
    BY <1>5, DetectedCases, Zenon
<1> QED
    BY <1>6 DEF Result

-------------------------------------------------------------------------------
\* Nothing is shown at first.
LEMMA InitIInv == Init => IInv
    BY DEF Init, IInv

\* A revision that is detected and scored shows its outcome; an edit shows nothing.
LEMMA NextIInv == IInv /\ [Next]_vars => IInv'
<1> SUFFICES ASSUME IInv, [Next]_vars PROVE IInv'
    OBVIOUS
<1>1. ASSUME NEW n \in 0 .. MaxLate, NEW slow \in kSubset(n, Rules), Detect(slow) PROVE IInv'
    <2>1. score = None
        BY <1>1 DEF Detect, IInv
    <2>2. slow \subseteq Rules
        BY DEF kSubset
    <2> QED
        BY <1>1, <2>1, <2>2 DEF Detect, IInv
<1>2. ASSUME NEW age \in Hours, NEW quality \in Quality, Score(age, quality) PROVE IInv'
    BY <1>2 DEF Score, IInv
<1>3. ASSUME NEW i \in Rules, Edit(i) PROVE IInv'
    BY <1>3 DEF Edit, IInv
<1>4. CASE UNCHANGED vars
    BY <1>4 DEF vars, IInv
<1> QED
    BY <1>1, <1>2, <1>3, <1>4 DEF Next

\* The outcome that is shown is that of the current revision, after any edits.
THEOREM LeadScoreInvariant == Spec => []IInv
BY InitIInv, NextIInv, PTL DEF Spec

\* What is shown as a lead asks for a service.
LEMMA IInvLead == IInv => LeadIsRequest
<1> SUFFICES ASSUME IInv, CreatesLead
             PROVE  /\ HitsOf("positive_intent", text \ late) # {}
                    /\ HitsOf("service", text \ late) # {}
                    /\ \A i \in text : Excluding(i) => i \in late
    BY DEF LeadIsRequest
<1> DEFINE hits == text \ late
           d    == Detected(hits)
<1>1. PICK age \in Hours, quality \in Quality : score = Scored(d, hits, age, quality)
    BY DEF IInv, CreatesLead
<1>2. d.is_lead /\ ~Excluded(d)
    <2> HIDE DEF d, hits
    <2>1. CASE ~(d.is_lead /\ ~Excluded(d))
        <3>1. score.band = "irrelevant"
            BY <1>1, <2>1 DEF Scored
        <3> QED
            BY <3>1 DEF CreatesLead
    <2> QED
        BY <2>1
<1>3. hits \subseteq Rules
    BY DEF IInv
<1> QED
    BY <1>2, <1>3, LeadAsks

\* Whatever the catalogue and whichever rules time out, only a message that asks for a
\* service becomes a lead, and only with what speaks against it unread.
THEOREM LeadsAreRequests == Spec => []LeadIsRequest
BY LeadScoreInvariant, IInvLead, PTL

\* The bands leave no gap.
LEMMA BandIsOne ==
    ASSUME NEW total \in Int
    PROVE  Band(total) \in Bands
<1>1. {HotMin, WarmMin, ColdMin} \subseteq Nat /\ ColdMin <= WarmMin /\ WarmMin <= HotMin
    BY LeadScoreAssumption
<1>2. \/ total >= HotMin
      \/ WarmMin <= total /\ total < HotMin
      \/ ColdMin <= total /\ total < WarmMin
      \/ total < ColdMin
    BY <1>1
<1> QED
    BY <1>1, <1>2 DEF Band, Bands

\* The score of any rules has its type.
LEMMA ScoredTypes ==
    ASSUME NEW hits \in SUBSET Rules, NEW age \in Hours, NEW quality \in Quality
    PROVE  Scored(Detected(hits), hits, age, quality) \in
               [total : 0 .. 100, band : Bands, hard_exclusion : BOOLEAN,
                age : Hours, quality : Quality]
<1> DEFINE d      == Detected(hits)
           counts == d.is_lead /\ ~Excluded(d)
           sum    == Positive(hits, age, quality) + SoftPenalty(hits)
           total  == Clamped(sum)
<1>1. sum \in Int
    <2>1. age \in Int /\ quality \in Int
        BY LeadScoreAssumption
    <2>2. Positive(hits, age, quality) \in Int /\ SoftPenalty(hits) \in Int
        BY <2>1, PositiveGrows, PenaltyIsNumber
    <2> QED
        BY <2>2
<1>2. total \in 0 .. 100
    <2> HIDE DEF sum
    <2> QED
        BY <1>1, ClampedRange
<1>3. Band(total) \in Bands /\ "irrelevant" \in Bands
    BY <1>2, BandIsOne DEF Bands
<1>4. Excluded(d) \in BOOLEAN
    BY DetectedTypes DEF Excluded
<1>5. Scored(d, hits, age, quality) =
        [total |-> IF counts THEN total ELSE 0,
         band |-> IF counts THEN Band(total) ELSE "irrelevant",
         hard_exclusion |-> Excluded(d), age |-> age, quality |-> quality]
    BY DEF Scored
<1> HIDE DEF d, counts, total
<1> QED
    BY <1>2, <1>3, <1>4, <1>5 DEF d

\* Every outcome has its type: a total between 0 and 100, and a band a lead may have, for
\* any weights, caps and penalties.
THEOREM LeadScoreTypeOK == Spec => []TypeOK
<1>1. IInv => TypeOK
    <2> SUFFICES ASSUME IInv PROVE TypeOK
        OBVIOUS
    <2>1. text \subseteq Rules /\ late \subseteq Rules /\ text \ late \in SUBSET Rules
        BY DEF IInv
    <2>2. detection # None => detection = Detected(text \ late)
        BY DEF IInv
    <2>3. detection \in [category : Categories, hard_exclusion : BOOLEAN, is_lead : BOOLEAN]
                           \cup {None}
        BY <2>2, DetectedTypes
    <2>4. score \in [total : 0 .. 100, band : Bands, hard_exclusion : BOOLEAN,
                     age : Hours, quality : Quality] \cup {None}
        <3>1. CASE score # None
            <4>1. PICK age \in Hours, quality \in Quality :
                      score = Scored(Detected(text \ late), text \ late, age, quality)
                BY <3>1 DEF IInv
            <4> QED
                BY <2>1, <4>1, ScoredTypes
        <3> QED
            BY <3>1
    <2> QED
        BY <2>1, <2>3, <2>4 DEF TypeOK
<1> QED
    BY <1>1, LeadScoreInvariant, PTL

\* The score of fewer rules is not higher, when none that is missing speaks against.
LEMMA LateLowersScore ==
    ASSUME NEW all \in SUBSET Rules, NEW hits \in SUBSET all,
           \A i \in all \ hits : ~SpeaksAgainst(i),
           NEW age \in Hours, NEW quality \in Quality
    PROVE  Scored(Detected(hits), hits, age, quality).total
               <= Scored(Detected(all), all, age, quality).total
<1> DEFINE total(h) == Clamped(Positive(h, age, quality) + SoftPenalty(h))
           counts(h) == Detected(h).is_lead /\ ~Excluded(Detected(h))
<1>1. \A h : Scored(Detected(h), h, age, quality).total = IF counts(h) THEN total(h) ELSE 0
    BY DEF Scored
<1>2. SoftPenalty(hits) = SoftPenalty(all) /\ SoftPenalty(all) \in Int
    <2>1. {i \in hits : Rule[i].dimension = "soft_penalty"}
              = {i \in all : Rule[i].dimension = "soft_penalty"}
        BY DEF SpeaksAgainst
    <2>2. SoftPenalty(hits) = SoftPenalty(all)
        BY <2>1, Zenon DEF SoftPenalty
    <2> QED
        BY <2>2, PenaltyIsNumber
<1>3. /\ Positive(hits, age, quality) \in Int /\ Positive(all, age, quality) \in Int
      /\ Positive(hits, age, quality) <= Positive(all, age, quality)
    <2>1. age \in Int /\ quality \in Int
        BY LeadScoreAssumption
    <2> QED
        BY <2>1, PositiveGrows
<1>4. total(hits) \in 0 .. 100 /\ total(all) \in 0 .. 100 /\ total(hits) <= total(all)
    <2> DEFINE m == Positive(hits, age, quality) + SoftPenalty(hits)
               n == Positive(all, age, quality) + SoftPenalty(all)
    <2>1. m \in Int /\ n \in Int /\ m <= n
        BY <1>2, <1>3
    <2> HIDE DEF m, n
    <2>2. Clamped(m) \in 0 .. 100 /\ Clamped(n) \in 0 .. 100 /\ Clamped(m) <= Clamped(n)
        BY <2>1, ClampedRange
    <2> QED
        BY <2>2 DEF m, n
<1>5. counts(hits) => counts(all)
    BY LateKeepsLead
<1> HIDE DEF total, counts
<1>6. /\ Scored(Detected(hits), hits, age, quality).total = IF counts(hits) THEN total(hits) ELSE 0
      /\ Scored(Detected(all), all, age, quality).total = IF counts(all) THEN total(all) ELSE 0
    BY <1>1
<1> QED
    BY <1>4, <1>5, <1>6

\* What a slow pattern costs: unless it is one that speaks against the message, the message
\* scores no more than on an idle machine, however many time out.
THEOREM LateNeverRaises == Spec => []LateOnlyLowers
<1>1. IInv => LateOnlyLowers
    <2> SUFFICES ASSUME IInv, score # None, \A i \in late : ~SpeaksAgainst(i)
                 PROVE  score.total
                            <= Scored(Detected(text), text, score.age, score.quality).total
        BY DEF LateOnlyLowers
    <2> DEFINE hits == text \ late
    <2>1. PICK age \in Hours, quality \in Quality :
              score = Scored(Detected(hits), hits, age, quality)
        BY DEF IInv
    <2>2. score.age = age /\ score.quality = quality
        BY <2>1 DEF Scored
    <2>3. text \in SUBSET Rules /\ hits \in SUBSET text /\ \A i \in text \ hits : ~SpeaksAgainst(i)
        BY DEF IInv
    <2> HIDE DEF hits
    <2>4. Scored(Detected(hits), hits, age, quality).total
              <= Scored(Detected(text), text, age, quality).total
        BY <2>3, LateLowersScore
    <2> QED
        BY <2>1, <2>2, <2>4
<1> QED
    BY <1>1, LeadScoreInvariant, PTL

-------------------------------------------------------------------------------
(* The outbox *)

Unsettled == {"absent", "queued", "retry_wait"}

\* The row that a transaction has claimed may still be sent, and nobody else claims it.
ClaimHolds ==
    /\ pc \in {"send", "skip", "result"} => item \in Alert /\ state[item] \in Unsettled
    /\ pc = "result" => answer \in Answer
    /\ pc = "result" /\ answer = "ok" => received[item] > 0

\* The reply to the request in flight may have been preceded by a delivery.
InFlight(a) == pc = "result" /\ item = a /\ answer # "error"

\* An alert that is not settled and is not in flight either has arrived only in
\* transactions that were lost.
ArrivalsLost ==
    \A a \in Alert : state[a] \in Unsettled =>
        received[a] <= rollbacks + (IF InFlight(a) THEN 1 ELSE 0)

\* A row that may be sent has an attempt left.
AttemptLeft == \A a \in Alert : state[a] \in Unsettled => attempts[a] < MaxAttempts

OutboxInv ==
    /\ OutboxTypeOK /\ ClaimHolds
    /\ ArrivalsLost /\ DuplicatesNeedRollback
    /\ AttemptLeft /\ LogMatchesRow

-------------------------------------------------------------------------------
\* What a log counts as attempts
Attempts(log) == {i \in DOMAIN log : log[i] # "skipped_shadow"}

(* A record more is one attempt more, unless nothing was sent. *)
LEMMA AppendCounts ==
  ASSUME NEW log \in Seq(Status), NEW s \in Status
  PROVE  /\ Append(log, s) \in Seq(Status) /\ Append(log, s) # <<>>
         /\ Append(log, s)[Len(Append(log, s))] = s
         /\ Cardinality(Attempts(log)) \in Nat
         /\ Cardinality(Attempts(Append(log, s)))
                = Cardinality(Attempts(log)) + (IF s = "skipped_shadow" THEN 0 ELSE 1)
<1> DEFINE n == Len(log) + 1
<1>1. /\ DOMAIN log = 1 .. Len(log) /\ Len(log) \in Nat
      /\ Append(log, s) \in Seq(Status) /\ Append(log, s) # <<>>
      /\ DOMAIN Append(log, s) = 1 .. n /\ Len(Append(log, s)) = n
      /\ Append(log, s)[n] = s
      /\ \A i \in 1 .. Len(log) : Append(log, s)[i] = log[i]
  OBVIOUS
<1>2. IsFiniteSet(Attempts(log)) /\ n \notin Attempts(log)
  <2>1. IsFiniteSet(1 .. Len(log))
    BY <1>1, FS_Interval
  <2>2. Attempts(log) \subseteq 1 .. Len(log)
    BY <1>1 DEF Attempts
  <2> QED
    BY <1>1, <2>1, <2>2, FS_Subset
<1>3. Attempts(Append(log, s))
          = IF s = "skipped_shadow" THEN Attempts(log) ELSE Attempts(log) \cup {n}
  BY <1>1 DEF Attempts
<1>4. /\ Cardinality(Attempts(log)) \in Nat
      /\ Cardinality(Attempts(log) \cup {n}) = Cardinality(Attempts(log)) + 1
  BY <1>2, FS_CardinalityType, FS_AddElement
<1> QED
  BY <1>1, <1>3, <1>4

(* The initial state satisfies the invariant. *)
LEMMA OutboxInitInv == OutboxInit => OutboxInv
<1> SUFFICES ASSUME OutboxInit PROVE OutboxInv
  OBVIOUS
<1>1. OutboxTypeOK
  BY OutboxAssumption DEF OutboxInit, OutboxTypeOK, RowState
<1>2. ClaimHolds /\ ArrivalsLost /\ DuplicatesNeedRollback /\ AttemptLeft
  BY OutboxAssumption
  DEF OutboxInit, ClaimHolds, ArrivalsLost, InFlight, DuplicatesNeedRollback, AttemptLeft
<1>3. LogMatchesRow
  <2>1. Cardinality({}) = 0
    BY FS_EmptySet
  <2>2. {i \in DOMAIN <<>> : <<>>[i] # "skipped_shadow"} = {}
    OBVIOUS
  <2> QED
    BY <2>1, <2>2, OutboxAssumption DEF OutboxInit, LogMatchesRow
<1> QED
  BY <1>1, <1>2, <1>3 DEF OutboxInv

-------------------------------------------------------------------------------
(* The steps that write no result *)

\* LogMatchesRow, one row at a time
RowLogged(a) ==
    /\ state[a] = "sent" <=> deliveries[a] # <<>> /\ deliveries[a][Len(deliveries[a])] = "sent"
    /\ state[a] = "sent" => received[a] > 0
    /\ attempts[a] = Cardinality(Attempts(deliveries[a]))
    /\ attempts[a] <= MaxAttempts

LEMMA LoggedByRow == LogMatchesRow <=> \A a \in Alert : RowLogged(a)
BY DEF LogMatchesRow, RowLogged, Attempts

(* Enqueueing, the mode, timers, claims and lost transactions keep the invariant. *)
LEMMA QuietStepInv ==
  ASSUME OutboxInv,
         \/ \E a \in Alert : Enqueue(a) \/ RetryDue(a)
         \/ SwitchMode \/ CheckMode \/ ClaimNothing \/ Claim \/ Rollback \/ Idle
         \/ UNCHANGED outboxVars
  PROVE  OutboxInv'
<1> USE OutboxAssumption DEF OutboxInv
<1>1. UNCHANGED <<attempts, deliveries, received>>
  BY DEF Enqueue, RetryDue, SwitchMode, CheckMode, ClaimNothing, Claim, Rollback, Idle,
         outboxVars, table
<1>2. OutboxTypeOK'
  <2>1. CASE \E a \in Alert : Enqueue(a) \/ RetryDue(a)
    BY <2>1 DEF OutboxTypeOK, RowState, Enqueue, RetryDue, bounds
  <2>2. CASE SwitchMode
    BY <2>2 DEF OutboxTypeOK, SwitchMode, table
  <2>3. CASE CheckMode \/ ClaimNothing \/ Claim
    BY <2>3 DEF OutboxTypeOK, CheckMode, ClaimNothing, Claim, Claimable, table, bounds
  <2>4. CASE Rollback
    BY <2>4 DEF OutboxTypeOK, Rollback, EndTransaction, table
  <2>5. CASE Idle \/ UNCHANGED outboxVars
    BY <2>5 DEF OutboxTypeOK, Idle, outboxVars
  <2> QED
    BY <2>1, <2>2, <2>3, <2>4, <2>5
<1>3. \A a \in Alert : /\ state'[a] \in Unsettled <=> state[a] \in Unsettled
                       /\ state'[a] = "sent" <=> state[a] = "sent"
  BY DEF OutboxTypeOK, Unsettled, Enqueue, RetryDue, SwitchMode, CheckMode, ClaimNothing, Claim,
         Rollback, Idle, outboxVars, table
<1>4. ClaimHolds'
  BY <1>1, <1>3 DEF OutboxTypeOK, ClaimHolds, Unsettled, Enqueue, RetryDue, SwitchMode, CheckMode,
     ClaimNothing, Claim, Claimable, Rollback, EndTransaction, Idle, outboxVars, table, bounds
<1>5. ArrivalsLost' /\ DuplicatesNeedRollback'
  <2>1. CASE Rollback
    BY <1>1, <1>3, <2>1
    DEF OutboxTypeOK, ArrivalsLost, InFlight, DuplicatesNeedRollback, Rollback, EndTransaction
  <2>2. CASE ~Rollback
    <3>1. rollbacks' = rollbacks /\ \A a \in Alert : InFlight(a) => InFlight(a)'
      BY <2>2 DEF InFlight, Enqueue, RetryDue, SwitchMode, CheckMode, ClaimNothing, Claim,
         Idle, outboxVars, table, bounds
    <3> QED
      BY <1>1, <1>3, <3>1 DEF OutboxTypeOK, ArrivalsLost, DuplicatesNeedRollback
  <2> QED
    BY <2>1, <2>2
<1>6. AttemptLeft'
  BY <1>1, <1>3 DEF AttemptLeft
<1>7. LogMatchesRow'
  <2>1. \A a \in Alert : RowLogged(a)'
    BY <1>1, <1>3, LoggedByRow DEF RowLogged
  <2> QED
    BY <2>1 DEF LogMatchesRow, RowLogged, Attempts
<1> QED
  BY <1>2, <1>4, <1>5, <1>6, <1>7

(* The request is answered, or it is not. *)
LEMMA PostInv ==
  ASSUME OutboxInv, NEW reply \in Answer, NEW arrives \in BOOLEAN, Post(reply, arrives)
  PROVE  OutboxInv'
<1> USE OutboxAssumption DEF OutboxInv
<1>1. /\ UNCHANGED <<mode, table, item, bounds>>
      /\ pc = "send" /\ pc' = "result" /\ answer' = reply
      /\ item \in Alert /\ state[item] \in Unsettled
  BY DEF Post, ClaimHolds
<1>2. /\ received' \in [Alert -> Nat]
      /\ \A a \in Alert \ {item} : received'[a] = received[a]
      /\ received[item] \in Nat
      /\ received'[item] = received[item] + (IF arrives THEN 1 ELSE 0)
  BY <1>1 DEF Post, OutboxTypeOK
<1>3. OutboxTypeOK'
  BY <1>1, <1>2 DEF OutboxTypeOK, table, bounds
<1>4. (reply = "ok" => arrives) /\ (reply = "error" => ~arrives)
  BY DEF Post
<1>5. ClaimHolds'
  BY <1>1, <1>2, <1>4 DEF ClaimHolds, table, Answer
<1>6. \A a \in Alert : ~InFlight(a)
  BY <1>1 DEF InFlight
<1>7. /\ InFlight(item)' <=> reply # "error"
      /\ rollbacks' = rollbacks /\ rollbacks \in Nat /\ state' = state
  BY <1>1 DEF InFlight, table, bounds, OutboxTypeOK
<1>8. ArrivalsLost' /\ DuplicatesNeedRollback'
  <2> SUFFICES ASSUME NEW a \in Alert
               PROVE  /\ state[a] \in Unsettled =>
                             received'[a] <= rollbacks + (IF InFlight(a)' THEN 1 ELSE 0)
                      /\ received'[a] <= 1 + rollbacks
    BY <1>7 DEF ArrivalsLost, DuplicatesNeedRollback
  <2>1. CASE a = item
    BY <1>1, <1>2, <1>4, <1>6, <1>7, <2>1 DEF ArrivalsLost
  <2>2. CASE a # item
    BY <1>1, <1>2, <1>6, <1>7, <2>2 DEF ArrivalsLost, DuplicatesNeedRollback, OutboxTypeOK
  <2> QED
    BY <2>1, <2>2
<1>9. AttemptLeft'
  BY <1>1 DEF AttemptLeft, table
<1>10. LogMatchesRow'
  <2>1. \A a \in Alert : RowLogged(a)'
    <3> SUFFICES ASSUME NEW a \in Alert PROVE RowLogged(a)'
      OBVIOUS
    <3>1. RowLogged(a)
      BY LoggedByRow
    <3>2. state[a] = "sent" => received'[a] > 0
      BY <1>1, <1>2, <3>1 DEF RowLogged, Unsettled
    <3> QED
      BY <1>1, <3>1, <3>2 DEF RowLogged, table
  <2> QED
    BY <2>1 DEF LogMatchesRow, RowLogged, Attempts
<1> QED
  BY <1>3, <1>5, <1>8, <1>9, <1>10

-------------------------------------------------------------------------------
(* What an answer makes of a row: it is settled, or it waits and has an attempt left. *)
LEMMA OutcomeType ==
  ASSUME NEW reply \in Answer, NEW no \in Nat
  PROVE  /\ Outcome(reply, no) \in {"sent", "dead", "retry_wait"}
         /\ Outcome(reply, no) = "sent" <=> reply = "ok"
         /\ Outcome(reply, no) = "retry_wait" => reply = "error" /\ no < MaxAttempts
         /\ DeliveryStatus(reply) \in Status
         /\ DeliveryStatus(reply) = "sent" <=> reply = "ok"
         /\ DeliveryStatus(reply) # "skipped_shadow"
<1> USE OutboxAssumption DEF Outcome, DeliveryStatus, Answer, Status
<1>1. CASE reply = "ok"
  BY <1>1
<1>2. CASE reply = "error"
  <2>1. CASE no >= MaxAttempts
    BY <1>2, <2>1
  <2>2. CASE ~(no >= MaxAttempts)
    BY <1>2, <2>2
  <2> QED
    BY <2>1, <2>2
<1>3. CASE reply = "uncertain"
  BY <1>3
<1> QED
  BY <1>1, <1>2, <1>3

(* The row of a result, its counter and its log change together. *)
LEMMA CommitResultInv == ASSUME OutboxInv, CommitResult PROVE OutboxInv'
<1> USE OutboxAssumption DEF OutboxInv
<1> DEFINE no == attempts[item] + 1
           new == Outcome(answer, no)
<1>1. /\ item \in Alert /\ state[item] \in Unsettled /\ answer \in Answer
      /\ attempts[item] \in Nat /\ attempts[item] < MaxAttempts /\ no \in 1 .. MaxAttempts
      /\ deliveries[item] \in Seq(Status)
      /\ (answer = "ok" => received[item] > 0)
  BY DEF CommitResult, ClaimHolds, AttemptLeft, OutboxTypeOK
<1>2. /\ new \in {"sent", "dead", "retry_wait"}
      /\ new = "sent" <=> answer = "ok"
      /\ new = "retry_wait" => answer = "error" /\ no < MaxAttempts
      /\ DeliveryStatus(answer) \in Status
      /\ DeliveryStatus(answer) = "sent" <=> answer = "ok"
      /\ DeliveryStatus(answer) # "skipped_shadow"
  BY <1>1, OutcomeType
<1>3. /\ state' = [state EXCEPT ![item] = new]
      /\ attempts' = [attempts EXCEPT ![item] = no]
      /\ due' = [due EXCEPT ![item] = new # "retry_wait"]
      /\ deliveries' = [deliveries EXCEPT ![item] = Append(@, DeliveryStatus(answer))]
      /\ pc' = "idle" /\ item' = NoAlert /\ answer' = "none"
      /\ UNCHANGED <<mode, received, bounds>>
  BY DEF CommitResult, Counted, EndTransaction
<1> HIDE DEF new
<1>4. OutboxTypeOK'
  <2>1. state' \in [Alert -> RowState] /\ attempts' \in [Alert -> 0 .. MaxAttempts]
    BY <1>1, <1>2, <1>3 DEF OutboxTypeOK, RowState
  <2>2. due' \in [Alert -> BOOLEAN]
    BY <1>3 DEF OutboxTypeOK
  <2>3. Append(deliveries[item], DeliveryStatus(answer)) \in Seq(Status)
    BY <1>1, <1>2
  <2>4. deliveries' \in [Alert -> Seq(Status)]
    BY <1>1, <1>3, <2>3 DEF OutboxTypeOK
  <2> QED
    BY <1>3, <2>1, <2>2, <2>4 DEF OutboxTypeOK, bounds
<1>5. ClaimHolds'
  BY <1>3 DEF ClaimHolds
<1>6. /\ \A a \in Alert \ {item} : state'[a] = state[a] /\ attempts'[a] = attempts[a]
                                   /\ deliveries'[a] = deliveries[a]
      /\ state'[item] = new /\ attempts'[item] = no
      /\ deliveries'[item] = Append(deliveries[item], DeliveryStatus(answer))
  BY <1>1, <1>3 DEF OutboxTypeOK
<1>7. ArrivalsLost' /\ DuplicatesNeedRollback'
  <2>1. \A a \in Alert : ~InFlight(a)'
    BY <1>3 DEF InFlight
  <2>2. \A a \in Alert \ {item} : ~InFlight(a)
    BY DEF InFlight
  <2>3. new = "retry_wait" => ~InFlight(item)
    BY <1>2 DEF InFlight
  <2>4. rollbacks' = rollbacks /\ received' = received
    BY <1>3 DEF bounds
  <2>5. ArrivalsLost'
    BY <1>1, <1>2, <1>6, <2>1, <2>2, <2>3, <2>4 DEF ArrivalsLost, Unsettled
  <2> QED
    BY <2>4, <2>5 DEF DuplicatesNeedRollback
<1>8. AttemptLeft'
  BY <1>1, <1>2, <1>6 DEF AttemptLeft, Unsettled
<1>9. LogMatchesRow'
  <2>1. \A a \in Alert : RowLogged(a)'
    <3> SUFFICES ASSUME NEW a \in Alert PROVE RowLogged(a)'
      OBVIOUS
    <3>1. RowLogged(a) /\ received' = received
      BY <1>3, LoggedByRow
    <3>2. CASE a # item
      BY <1>6, <3>1, <3>2 DEF RowLogged
    <3>3. CASE a = item
      <4> DEFINE log == Append(deliveries[item], DeliveryStatus(answer))
      <4>1. /\ log # <<>> /\ log[Len(log)] = DeliveryStatus(answer)
            /\ Cardinality(Attempts(log)) = Cardinality(Attempts(deliveries[item])) + 1
        BY <1>1, <1>2, AppendCounts
      <4> HIDE DEF log
      <4>2. deliveries'[a] = log
        BY <1>6, <3>3 DEF log
      <4> QED
        BY <1>1, <1>2, <1>6, <3>1, <3>3, <4>1, <4>2 DEF RowLogged
    <3> QED
      BY <3>2, <3>3
  <2> QED
    BY <2>1 DEF LogMatchesRow, RowLogged, Attempts
<1> QED
  BY <1>4, <1>5, <1>7, <1>8, <1>9

(* A row that is closed because delivery is off has no attempt more. *)
LEMMA CommitSkippedInv == ASSUME OutboxInv, CommitSkipped PROVE OutboxInv'
<1> USE OutboxAssumption DEF OutboxInv
<1>1. item \in Alert /\ state[item] \in Unsettled /\ deliveries[item] \in Seq(Status)
  BY DEF CommitSkipped, ClaimHolds, OutboxTypeOK
<1>2. /\ state' = [state EXCEPT ![item] = "dead"]
      /\ deliveries' = [deliveries EXCEPT ![item] = Append(@, "skipped_shadow")]
      /\ pc' = "idle" /\ item' = NoAlert /\ answer' = "none"
      /\ UNCHANGED <<mode, attempts, due, received, bounds>>
  BY DEF CommitSkipped, EndTransaction
<1>3. OutboxTypeOK'
  <2>1. Append(deliveries[item], "skipped_shadow") \in Seq(Status)
    BY <1>1 DEF Status
  <2>2. deliveries' \in [Alert -> Seq(Status)]
    BY <1>1, <1>2, <2>1 DEF OutboxTypeOK
  <2> QED
    BY <1>1, <1>2, <2>2 DEF OutboxTypeOK, RowState, bounds
<1>4. ClaimHolds'
  BY <1>2 DEF ClaimHolds
<1>5. /\ \A a \in Alert \ {item} : state'[a] = state[a] /\ deliveries'[a] = deliveries[a]
      /\ state'[item] = "dead"
      /\ deliveries'[item] = Append(deliveries[item], "skipped_shadow")
  BY <1>1, <1>2 DEF OutboxTypeOK
<1>6. ArrivalsLost' /\ DuplicatesNeedRollback'
  <2>1. \A a \in Alert : ~InFlight(a)' /\ ~InFlight(a)
    BY <1>2 DEF InFlight, CommitSkipped
  <2> QED
    BY <1>1, <1>2, <1>5, <2>1 DEF ArrivalsLost, DuplicatesNeedRollback, Unsettled, bounds
<1>7. AttemptLeft'
  BY <1>1, <1>2, <1>5 DEF AttemptLeft, Unsettled
<1>8. LogMatchesRow'
  <2>1. \A a \in Alert : RowLogged(a)'
    <3> SUFFICES ASSUME NEW a \in Alert PROVE RowLogged(a)'
      OBVIOUS
    <3>1. RowLogged(a) /\ received' = received /\ attempts' = attempts
      BY <1>2, LoggedByRow
    <3>2. CASE a # item
      BY <1>5, <3>1, <3>2 DEF RowLogged
    <3>3. CASE a = item
      <4> DEFINE log == Append(deliveries[item], "skipped_shadow")
      <4>1. /\ log[Len(log)] = "skipped_shadow"
            /\ Cardinality(Attempts(log)) = Cardinality(Attempts(deliveries[item]))
        BY <1>1, AppendCounts DEF Status
      <4> HIDE DEF log
      <4>2. deliveries'[a] = log
        BY <1>5, <3>3 DEF log
      <4> QED
        BY <1>5, <3>1, <3>3, <4>1, <4>2 DEF RowLogged
    <3> QED
      BY <3>2, <3>3
  <2> QED
    BY <2>1 DEF LogMatchesRow, RowLogged, Attempts
<1> QED
  BY <1>3, <1>4, <1>6, <1>7, <1>8

-------------------------------------------------------------------------------
(* Every step keeps the invariant. *)
LEMMA OutboxNextInv == ASSUME OutboxInv, [OutboxNext]_outboxVars PROVE OutboxInv'
<1>1. CASE \E reply \in Answer, arrives \in BOOLEAN : Post(reply, arrives)
  BY <1>1, PostInv
<1>2. CASE CommitResult
  BY <1>2, CommitResultInv
<1>3. CASE CommitSkipped
  BY <1>3, CommitSkippedInv
<1>4. CASE \/ \E a \in Alert : Enqueue(a) \/ RetryDue(a)
           \/ SwitchMode \/ CheckMode \/ ClaimNothing \/ Claim \/ Rollback \/ Idle
           \/ UNCHANGED outboxVars
  BY <1>4, QuietStepInv
<1> QED
  BY <1>1, <1>2, <1>3, <1>4 DEF OutboxNext

(* The strengthened invariant holds in every reachable state. *)
THEOREM OutboxInvariant == OutboxSpec => []OutboxInv
BY OutboxInitInv, OutboxNextInv, PTL DEF OutboxSpec

\* Every variable of the outbox keeps its type (storage/outbox.py, notifications/worker.py).
THEOREM OutboxTypes == OutboxSpec => []OutboxTypeOK
<1>1. OutboxInv => OutboxTypeOK
  BY DEF OutboxInv
<1> QED
  BY <1>1, OutboxInvariant, PTL

\* deliver_outbox_item and claim_outbox: a duplicate takes a transaction that is lost.
THEOREM OutboxDuplicates == OutboxSpec => []DuplicatesNeedRollback
<1>1. OutboxInv => DuplicatesNeedRollback
  BY DEF OutboxInv
<1> QED
  BY <1>1, OutboxInvariant, PTL

\* deliver_outbox_item: the row, its counter and its log change together.
THEOREM OutboxLog == OutboxSpec => []LogMatchesRow
<1>1. OutboxInv => LogMatchesRow
  BY DEF OutboxInv
<1> QED
  BY <1>1, OutboxInvariant, PTL
===============================================================================
