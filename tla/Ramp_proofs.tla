----------------------------- MODULE Ramp_proofs -----------------------------
(***************************************************************************)
(* Proofs about Ramp, for every hash, every set of entities, flags and     *)
(* layers, and every number of buckets, and about Rollup, for every shard: *)
(* both rest on what a loop that adds up computes.  That is an induction   *)
(* over the turns of the loop, from the fact that Nat is well-founded.     *)
(***************************************************************************)
EXTENDS Ramp, Rollup, WellFoundedInduction, FiniteSetTheorems, TLAPS

-----------------------------------------------------------------------------
(* Running totals.                                                          *)

\* A set with 0 that is closed under + 1 holds every natural number.
LEMMA SetInduction ==
    ASSUME NEW S, 0 \in S, \A n \in Nat : n \in S => n + 1 \in S
    PROVE  Nat \subseteq S
<1> SUFFICES ASSUME Nat \ S # {} PROVE FALSE
    OBVIOUS
<1>1. IsWellFoundedOn(OpToRel(<, Nat), Nat)
    BY NatLessThanWellFounded
<1>2. PICK m \in Nat \ S : \A y \in Nat \ S : <<y, m>> \notin OpToRel(<, Nat)
    BY <1>1, WFMin, Nat \ S \subseteq Nat
<1>3. \A y \in Nat \ S : ~ (y < m)
    BY <1>2 DEF OpToRel
<1>4. m # 0 /\ m - 1 \in Nat
    OBVIOUS
<1>5. m - 1 \in S
    BY <1>3, <1>4
<1> QED BY <1>4, <1>5, (m - 1) + 1 = m

\* g is the running total of f up to n.
TotalsUpTo(f, g, n) == g = [i \in 0..n |-> IF i = 0 THEN 0 ELSE g[i - 1] + f[i]]

LEMMA TotalsExist ==
    ASSUME NEW f, NEW n \in Nat
    PROVE  \E g : TotalsUpTo(f, g, n)
<1> DEFINE S == {k \in Nat : \E g : TotalsUpTo(f, g, k)}
<1>1. 0 \in S
    <2> DEFINE g == [i \in 0..0 |-> 0]
    <2>1. TotalsUpTo(f, g, 0)
        BY DEF TotalsUpTo
    <2> QED
        BY <2>1
<1>2. ASSUME NEW k \in Nat, k \in S PROVE k + 1 \in S
    <2>1. PICK g : TotalsUpTo(f, g, k)
        BY <1>2
    <2> DEFINE h == [i \in 0..(k + 1) |-> IF i <= k THEN g[i] ELSE g[k] + f[k + 1]]
    <2>2. ASSUME NEW i \in 0..(k + 1)
          PROVE  h[i] = IF i = 0 THEN 0 ELSE h[i - 1] + f[i]
        <3>1. CASE i = k + 1
            BY <3>1
        <3>2. CASE i \in 0..k
            <4>1. g[i] = IF i = 0 THEN 0 ELSE g[i - 1] + f[i]
                BY <2>1, <3>2 DEF TotalsUpTo
            <4>2. h[i] = g[i]
                BY <3>2
            <4>3. i # 0 => h[i - 1] = g[i - 1]
                BY <3>2
            <4> QED
                BY <4>1, <4>2, <4>3
        <3> QED
            BY <3>1, <3>2
    <2>3. TotalsUpTo(f, h, k + 1)
        <3> SUFFICES h = [i \in 0..(k + 1) |-> IF i = 0 THEN 0 ELSE h[i - 1] + f[i]]
            BY Zenon DEF TotalsUpTo
        <3> HIDE DEF h
        <3>1. DOMAIN h = 0..(k + 1) /\ h = [i \in 0..(k + 1) |-> h[i]]
            BY DEF h
        <3> QED
            BY <2>2, <3>1
    <2> QED
        BY <2>3
<1> HIDE DEF S
<1>3. Nat \subseteq S
    BY <1>1, <1>2, SetInduction
<1> QED
    BY <1>3 DEF S

LEMMA TotalsAgree ==
    ASSUME NEW f, NEW m \in Nat, NEW n \in Nat, NEW g, NEW h,
           TotalsUpTo(f, g, m), TotalsUpTo(f, h, n), m <= n
    PROVE  \A i \in 0..m : g[i] = h[i]
<1> DEFINE S == {k \in Nat : k <= m => g[k] = h[k]}
<1>1. 0 \in S
    BY DEF TotalsUpTo
<1>2. ASSUME NEW k \in Nat, k \in S PROVE k + 1 \in S
    <2> SUFFICES ASSUME k + 1 <= m PROVE g[k + 1] = h[k + 1]
        OBVIOUS
    <2>1. g[k + 1] = g[(k + 1) - 1] + f[k + 1]
        BY DEF TotalsUpTo
    <2>2. h[k + 1] = h[(k + 1) - 1] + f[k + 1]
        BY DEF TotalsUpTo
    <2>3. g[k] = h[k] /\ (k + 1) - 1 = k
        BY <1>2
    <2> QED
        BY <2>1, <2>2, <2>3
<1> HIDE DEF S
<1>3. Nat \subseteq S
    BY <1>1, <1>2, SetInduction
<1> QED
    BY <1>3 DEF S

LEMMA RunningTotalStep ==
    ASSUME NEW f
    PROVE  /\ RunningTotal(f)[0] = 0
           /\ \A n \in Nat : RunningTotal(f)[n + 1] = RunningTotal(f)[n] + f[n + 1]
<1> DEFINE upTo(n) == CHOOSE g : TotalsUpTo(f, g, n)
           total == [n \in Nat |-> upTo(n)[n]]
           Def(t) == t = [n \in Nat |-> IF n = 0 THEN 0 ELSE t[n - 1] + f[n]]
<1>1. \A n \in Nat : TotalsUpTo(f, upTo(n), n)
    BY TotalsExist
<1> HIDE DEF upTo
<1>2. ASSUME NEW n \in Nat
      PROVE  total[n] = IF n = 0 THEN 0 ELSE total[n - 1] + f[n]
    <2>1. CASE n = 0
        BY <1>1, <2>1 DEF TotalsUpTo
    <2>2. CASE n # 0
        <3>1. upTo(n)[n] = upTo(n)[n - 1] + f[n]
            BY <1>1, <2>2 DEF TotalsUpTo
        <3>2. upTo(n - 1)[n - 1] = upTo(n)[n - 1]
            <4>1. n - 1 \in Nat /\ n - 1 <= n /\ n - 1 \in 0..(n - 1)
                BY <2>2
            <4> QED
                BY <1>1, <4>1, TotalsAgree
        <3> QED
            BY <2>2, <3>1, <3>2
    <2> QED
        BY <2>1, <2>2
<1>3. Def(total)
    <2> HIDE DEF total
    <2>1. total = [n \in Nat |-> total[n]]
        BY DEF total
    <2> QED
        BY <1>2, <2>1
<1>4. Def(RunningTotal(f))
    <2> HIDE DEF total
    <2>1. RunningTotal(f) = CHOOSE t : Def(t)
        BY DEF RunningTotal
    <2> HIDE DEF Def
    <2> QED
        BY <1>3, <2>1
<1>5. RunningTotal(f)[0] = 0
    BY <1>4
<1>6. ASSUME NEW n \in Nat PROVE RunningTotal(f)[n + 1] = RunningTotal(f)[n] + f[n + 1]
    <2>1. n + 1 \in Nat /\ n + 1 # 0 /\ (n + 1) - 1 = n
        OBVIOUS
    <2>2. RunningTotal(f)[n + 1] = RunningTotal(f)[(n + 1) - 1] + f[n + 1]
        BY <1>4, <2>1
    <2> QED
        BY <2>1, <2>2
<1> QED
    BY <1>5, <1>6


\* Totals of integers are integers; of naturals, naturals that only grow.
LEMMA TotalsOfIntegers ==
    ASSUME NEW f, NEW N \in Nat, \A i \in 1..N : f[i] \in Int
    PROVE  \A n \in 0..N : RunningTotal(f)[n] \in Int
<1> DEFINE S == {k \in Nat : k <= N => RunningTotal(f)[k] \in Int}
<1>1. 0 \in S
    BY RunningTotalStep
<1>2. ASSUME NEW k \in Nat, k \in S PROVE k + 1 \in S
    <2> SUFFICES ASSUME k + 1 <= N PROVE RunningTotal(f)[k + 1] \in Int
        OBVIOUS
    <2>1. RunningTotal(f)[k] \in Int /\ f[k + 1] \in Int
        BY <1>2
    <2> QED
        BY <2>1, RunningTotalStep
<1> HIDE DEF S
<1>3. Nat \subseteq S
    BY <1>1, <1>2, SetInduction
<1> QED
    BY <1>3 DEF S

LEMMA TotalsGrow ==
    ASSUME NEW f, NEW N \in Nat, \A i \in 1..N : f[i] \in Nat
    PROVE  /\ \A n \in 0..N : RunningTotal(f)[n] \in Nat
           /\ \A m, n \in 0..N : m <= n => RunningTotal(f)[m] <= RunningTotal(f)[n]
<1> DEFINE T == RunningTotal(f)
           S == {k \in Nat : k <= N => T[k] \in Nat /\ \A m \in 0..k : T[m] <= T[k]}
<1>1. T[0] = 0 /\ \A n \in Nat : T[n + 1] = T[n] + f[n + 1]
    BY RunningTotalStep
<1> HIDE DEF T
<1>2. 0 \in S
    BY <1>1
<1>3. ASSUME NEW k \in Nat, k \in S PROVE k + 1 \in S
    <2> SUFFICES ASSUME k + 1 <= N
                 PROVE  T[k + 1] \in Nat /\ \A m \in 0..(k + 1) : T[m] <= T[k + 1]
        OBVIOUS
    <2>1. T[k] \in Nat /\ f[k + 1] \in Nat /\ \A m \in 0..k : T[m] <= T[k]
        BY <1>3
    <2>2. T[k + 1] \in Nat /\ T[k] <= T[k + 1]
        BY <1>1, <2>1
    <2>3. ASSUME NEW m \in 0..(k + 1) PROVE T[m] <= T[k + 1]
        <3>1. CASE m = k + 1
            BY <2>2, <3>1
        <3>2. CASE m \in 0..k
            <4>1. T[0] = 0 /\ T[m] <= T[k]
                BY <1>1, <2>1, <3>2
            <4>2. T[m] \in Int
                BY TotalsOfIntegers DEF T
            <4> QED
                BY <2>1, <2>2, <4>1, <4>2
        <3> QED
            BY <3>1, <3>2
    <2> QED
        BY <2>2, <2>3
<1> HIDE DEF S
<1>4. Nat \subseteq S
    BY <1>2, <1>3, SetInduction
<1> QED
    BY <1>4 DEF S, T

\* The total up to N depends on the first N terms only.
LEMMA TotalsOfEqualTerms ==
    ASSUME NEW f, NEW g, NEW N \in Nat, \A i \in 1..N : f[i] = g[i]
    PROVE  RunningTotal(f)[N] = RunningTotal(g)[N]
<1> DEFINE S == {k \in Nat : k <= N => RunningTotal(f)[k] = RunningTotal(g)[k]}
<1>1. 0 \in S
    BY RunningTotalStep
<1>2. ASSUME NEW k \in Nat, k \in S PROVE k + 1 \in S
    <2> SUFFICES ASSUME k + 1 <= N PROVE RunningTotal(f)[k + 1] = RunningTotal(g)[k + 1]
        OBVIOUS
    <2>1. f[k + 1] = g[k + 1] /\ RunningTotal(f)[k] = RunningTotal(g)[k]
        BY <1>2
    <2> QED
        BY <2>1, RunningTotalStep
<1> HIDE DEF S
<1>3. Nat \subseteq S
    BY <1>1, <1>2, SetInduction
<1> QED
    BY <1>3 DEF S

\* A set of naturals has a least element.
LEMMA LeastElement ==
    ASSUME NEW S, S \subseteq Nat, S # {}
    PROVE  \E m \in S : \A k \in S : m <= k
<1>1. IsWellFoundedOn(OpToRel(<, Nat), Nat)
    BY NatLessThanWellFounded
<1>2. PICK m \in S : \A k \in S : <<k, m>> \notin OpToRel(<, Nat)
    BY <1>1, WFMin
<1>3. \A k \in S : ~ (k < m)
    BY <1>2 DEF OpToRel
<1>4. \A k \in S : m <= k
    BY <1>3, S \subseteq Nat
<1> QED
    BY <1>4

-----------------------------------------------------------------------------
(* The ramp.                                                                *)

\* What the comparison of a bucket with a percentage needs to know.
Ranges ==
    /\ bucket \in [Entity -> [Flag \cup Layer -> 0..(Buckets - 1)]]
    /\ rollout_pct \in [Flag -> 0..Buckets]

LEMMA SaltType ==
    ASSUME NEW f \in Flag
    PROVE  SaltOf(f) \in Flag \cup Layer
BY ConstantsAssumption DEF SaltOf

LEMMA RangesInvariant == Spec => []Ranges
<1>1. Init => Ranges
    <2>1. 0 \in 0..Buckets
        BY ConstantsAssumption
    <2> QED
        BY <2>1 DEF Init, Ranges
<1>2. Ranges /\ [Next]_vars => Ranges'
    BY ConstantsAssumption DEF Ranges, Next, SetRollout, SetWeights, SetSegment, vars
<1> QED
    BY <1>1, <1>2, PTL DEF Spec

\* A smaller percentage of the same bucketing is a smaller cohort.
LEMMA SmallerIsInside ==
    ASSUME NEW f \in Flag, NEW g \in Flag, Ranges,
           SaltOf(f) = SaltOf(g), rollout_pct[f] <= rollout_pct[g]
    PROVE  On(f) \subseteq On(g)
<1> SUFFICES ASSUME NEW e \in Entity, bucket[e][SaltOf(f)] < rollout_pct[f]
             PROVE  bucket[e][SaltOf(g)] < rollout_pct[g]
    BY DEF On
<1>1. bucket[e][SaltOf(f)] \in Nat /\ rollout_pct[f] \in Nat /\ rollout_pct[g] \in Nat
    BY ConstantsAssumption, SaltType DEF Ranges
<1> QED
    BY <1>1

\* Flags that share a layer are nested by their percentages, whatever the
\* hash is.
THEOREM LayerTogether == Spec => []LayerRandomizesTogether
<1>1. Ranges => LayerRandomizesTogether
    BY SmallerIsInside DEF LayerRandomizesTogether, SaltOf
<1> QED
    BY <1>1, RangesInvariant, PTL

\* Widening takes nobody out and narrowing lets nobody in, whatever the
\* hash is, however the operator ramps, reverts and ramps again.
THEOREM RampsAreNested == Spec => RampsNest
<1> DEFINE Nested(f) ==
        /\ rollout_pct[f] <= rollout_pct'[f] => On(f) \subseteq On(f)'
        /\ rollout_pct'[f] <= rollout_pct[f] => On(f)' \subseteq On(f)
<1>1. Ranges /\ Ranges' /\ [Next]_vars => [\A f \in Flag : Nested(f)]_vars
    <2> SUFFICES ASSUME Ranges, Ranges', [Next]_vars, NEW f \in Flag PROVE Nested(f)
        OBVIOUS
    <2>1. bucket' = bucket
        BY DEF Next, SetRollout, SetWeights, SetSegment, vars
    <2>2. rollout_pct[f] \in Nat /\ rollout_pct'[f] \in Nat
        BY ConstantsAssumption DEF Ranges
    <2>3. ASSUME NEW e \in Entity PROVE bucket[e][SaltOf(f)] \in Nat
        BY ConstantsAssumption, SaltType DEF Ranges
    <2>4. On(f)' = {e \in Entity : bucket[e][SaltOf(f)] < rollout_pct'[f]}
        BY <2>1 DEF On, SaltOf
    <2> QED
        BY <2>2, <2>3, <2>4 DEF On
<1> QED
    BY <1>1, RangesInvariant, PTL DEF Spec, RampsNest

\* Every flag has weights.
Typed == TypeOK /\ DOMAIN weights = Flag

LEMMA TypedInvariant == Spec => []Typed
<1>1. Init => Typed
    <2> SUFFICES ASSUME Init PROVE Typed
        OBVIOUS
    <2>1. rollout_pct \in [Flag -> 0..Buckets]
        BY ConstantsAssumption DEF Init
    <2>2. segments \in [Flag -> SUBSET Dag]
        BY DEF Init
    <2>3. DOMAIN weights = Flag /\ \A f \in Flag : weights[f] = [i \in 1..Arms |-> 0]
        BY DEF Init
    <2> QED
        BY <2>1, <2>2, <2>3 DEF Init, TypeOK, Typed
<1>2. Typed /\ [Next]_vars => Typed'
    <2> SUFFICES ASSUME Typed, [Next]_vars PROVE Typed'
        OBVIOUS
    <2>1. ASSUME NEW f \in Flag, NEW p \in Rollouts[f], SetRollout(f, p) PROVE Typed'
        BY <2>1, ConstantsAssumption DEF Typed, TypeOK, SetRollout
    <2>2. ASSUME NEW f \in Flag, NEW ws \in WeightLists[f], SetWeights(f, ws) PROVE Typed'
        BY <2>2 DEF Typed, TypeOK, SetWeights
    <2>3. ASSUME NEW f \in Flag, NEW dags \in SegmentLists[f], SetSegment(f, dags) PROVE Typed'
        BY <2>3, ConstantsAssumption DEF Typed, TypeOK, SetSegment
    <2>4. CASE UNCHANGED vars
        BY <2>4 DEF Typed, TypeOK, vars
    <2> QED
        BY <2>1, <2>2, <2>3, <2>4 DEF Next
<1> QED
    BY <1>1, <1>2, PTL DEF Spec

\* The hash, the percentages, the weights and the segments keep their types,
\* whatever an operator sets.
THEOREM TypeCorrect == Spec => []TypeOK
BY TypedInvariant, PTL DEF Typed

-----------------------------------------------------------------------------
(* The arms of a string flag.                                              *)

\* What the weights of a flag satisfy, those of Init included.
GoodWeights(ws) == ws \in [1..Arms -> 0..Buckets] /\ Cumulative(ws)[Arms] <= Buckets

LEMMA NoWeightsAreGood == GoodWeights([i \in 1..Arms |-> 0])
<1> DEFINE ws == [i \in 1..Arms |-> 0]
           S == {k \in Nat : k <= Arms => RunningTotal(ws)[k] = 0}
<1>1. 0 \in S
    BY RunningTotalStep
<1>2. ASSUME NEW k \in Nat, k \in S PROVE k + 1 \in S
    <2> SUFFICES ASSUME k + 1 <= Arms PROVE RunningTotal(ws)[k + 1] = 0
        OBVIOUS
    <2>1. ws[k + 1] = 0 /\ RunningTotal(ws)[k] = 0
        BY <1>2, ConstantsAssumption
    <2> HIDE DEF ws
    <2> QED
        BY <2>1, RunningTotalStep
<1> HIDE DEF S
<1>3. Nat \subseteq S
    BY <1>1, <1>2, SetInduction
<1>4. RunningTotal(ws)[Arms] = 0
    BY <1>3, ConstantsAssumption DEF S
<1>5. ws \in [1..Arms -> 0..Buckets]
    BY ConstantsAssumption
<1> QED
    BY <1>4, <1>5, ConstantsAssumption DEF GoodWeights, Cumulative

\* The loop of resolve_string_details ends on arm i exactly for the buckets
\* from the share before it up to its own.
LEMMA PickIsInterval ==
    ASSUME NEW ws, GoodWeights(ws), NEW b \in Nat, NEW i \in 1..Arms
    PROVE  Pick(ws, b) = i <=> Cumulative(ws)[i - 1] <= b /\ b < Cumulative(ws)[i]
<1> DEFINE C == Cumulative(ws)
           hit == {j \in 1..Arms : b < C[j]}
<1>1. /\ \A n \in 0..Arms : C[n] \in Nat
      /\ \A m, n \in 0..Arms : m <= n => C[m] <= C[n]
    <2>1. Arms \in Nat /\ Buckets \in Nat /\ \A n \in 1..Arms : ws[n] \in Nat
        BY ConstantsAssumption DEF GoodWeights
    <2> QED
        BY <2>1, TotalsGrow DEF Cumulative
<1>2. C[0] = 0
    BY RunningTotalStep DEF Cumulative
<1>3. Pick(ws, b) = IF hit = {} THEN Default ELSE CHOOSE n \in hit : \A j \in hit : n <= j
    BY DEF Pick
<1>4. i \in Nat /\ Arms \in Nat /\ i - 1 \in 0..Arms
    BY ConstantsAssumption
<1> HIDE DEF C
<1>5. ASSUME C[i - 1] <= b, b < C[i] PROVE Pick(ws, b) = i
    <2>1. i \in hit
        BY <1>5
    <2>2. ASSUME NEW j \in hit PROVE i <= j
        <3> SUFFICES ASSUME j < i PROVE FALSE
            BY <1>4
        <3>1. j \in 0..Arms /\ j <= i - 1 /\ b < C[j]
            BY <1>4
        <3>2. C[j] <= C[i - 1] /\ C[j] \in Nat /\ C[i - 1] \in Nat
            BY <1>1, <1>4, <3>1
        <3> QED
            BY <1>5, <3>1, <3>2
    <2>3. \A n \in hit : (\A j \in hit : n <= j) => n = i
        BY <1>4, <2>1, <2>2
    <2> HIDE DEF hit
    <2>4. (CHOOSE n \in hit : \A j \in hit : n <= j) = i
        BY <2>1, <2>2, <2>3
    <2> QED
        BY <1>3, <2>1, <2>4
<1>6. ASSUME Pick(ws, b) = i PROVE C[i - 1] <= b /\ b < C[i]
    <2>1. hit # {}
        BY <1>3, <1>4, <1>6 DEF Default
    <2>2. hit \subseteq Nat
        BY <1>4
    <2> HIDE DEF hit
    <2>3. \E n \in hit : \A j \in hit : n <= j
        BY <2>1, <2>2, LeastElement
    <2>4. i \in hit /\ \A j \in hit : i <= j
        BY <1>3, <1>6, <2>1, <2>3
    <2>5. b < C[i]
        BY <2>4 DEF hit
    <2>6. i - 1 \notin hit
        BY <1>4, <2>4
    <2>7. CASE i = 1
        BY <1>2, <2>5, <2>7
    <2>8. CASE i # 1
        <3>1. i - 1 \in 1..Arms /\ C[i - 1] \in Nat
            BY <1>1, <1>4, <2>8
        <3> QED
            BY <2>5, <2>6, <3>1 DEF hit
    <2> QED
        BY <2>7, <2>8
<1> QED
    BY <1>5, <1>6 DEF C

WeightsGood == \A f \in Flag : GoodWeights(weights[f])

LEMMA WeightsInvariant == Spec => []WeightsGood
<1>1. Typed => WeightsGood
    BY NoWeightsAreGood, WeightsAssumption DEF Typed, TypeOK, WeightsGood, GoodWeights
<1> QED
    BY <1>1, TypedInvariant, PTL

\* However an operator weights the arms, each gets as many of the buckets as
\* its weight says: none is lost or counted twice at a boundary.
THEOREM ArmsAreExact == Spec => []EveryArmGetsItsWeight
<1>1. WeightsGood => EveryArmGetsItsWeight
    <2> SUFFICES ASSUME NEW ws, GoodWeights(ws), NEW i \in 1..Arms
                 PROVE  Cardinality({b \in 0..(Buckets - 1) : Pick(ws, b) = i}) = ws[i]
        BY DEF WeightsGood, EveryArmGetsItsWeight
    <2> DEFINE C == Cumulative(ws)
    <2>1. Arms \in Nat /\ Buckets \in Nat /\ i - 1 \in Nat /\ \A n \in 1..Arms : ws[n] \in Nat
        BY ConstantsAssumption DEF GoodWeights
    <2>2. /\ \A n \in 0..Arms : C[n] \in Nat
          /\ \A m, n \in 0..Arms : m <= n => C[m] <= C[n]
        BY <2>1, TotalsGrow DEF Cumulative
    <2>3. C[i] = C[i - 1] + ws[i]
        <3>1. (i - 1) + 1 = i
            OBVIOUS
        <3> QED
            BY <2>1, <3>1, RunningTotalStep DEF Cumulative
    <2>4. C[i] <= Buckets /\ C[i] \in Nat /\ C[i - 1] \in Nat /\ ws[i] \in Nat
        <3>1. C[i] <= C[Arms] /\ C[Arms] \in Nat /\ C[i] \in Nat /\ C[i - 1] \in Nat
            BY <2>1, <2>2
        <3> QED
            BY <2>1, <3>1 DEF GoodWeights
    <2>5. {b \in 0..(Buckets - 1) : Pick(ws, b) = i} = C[i - 1]..(C[i] - 1)
        <3>1. \A b \in Nat : Pick(ws, b) = i <=> C[i - 1] <= b /\ b < C[i]
            BY PickIsInterval
        <3> HIDE DEF C
        <3> QED
            BY <2>1, <2>4, <3>1
    <2> HIDE DEF C
    <2>6. Cardinality(C[i - 1]..(C[i] - 1)) = ws[i]
        <3>1. Cardinality(C[i - 1]..(C[i] - 1)) =
                IF C[i - 1] > C[i] - 1 THEN 0 ELSE (C[i] - 1) - C[i - 1] + 1
            <4>1. C[i - 1] \in Int /\ C[i] - 1 \in Int
                BY <2>4
            <4> QED
                BY <4>1, FS_Interval
        <3> QED
            BY <2>3, <2>4, <3>1
    <2> QED
        BY <2>5, <2>6
<1> QED
    BY <1>1, WeightsInvariant, PTL

\* Widening the first arm keeps everybody who was in it, and a segment's DAG
\* stays in, whatever the hash is and however the rest is edited.
THEOREM FirstArmSticks == Spec => FirstArmIsSticky
<1> DEFINE Keeps(f) ==
        weights[f][1] <= weights'[f][1] /\ segments[f] \subseteq segments'[f] =>
            \A e \in Entity : InHouseVariant(f, e) = 1 => InHouseVariant(f, e)' = 1
<1>1. WeightsGood /\ WeightsGood' /\ Ranges /\ [Next]_vars => [\A f \in Flag : Keeps(f)]_vars
    <2> SUFFICES ASSUME WeightsGood, WeightsGood', Ranges, [Next]_vars, NEW f \in Flag,
                        weights[f][1] <= weights'[f][1], segments[f] \subseteq segments'[f],
                        NEW e \in Entity, InHouseVariant(f, e) = 1
                 PROVE  InHouseVariant(f, e)' = 1
        OBVIOUS
    <2>1. bucket' = bucket
        BY DEF Next, SetRollout, SetWeights, SetSegment, vars
    <2>2. InHouseVariant(f, e)' = IF DagOf[e] \in segments'[f] THEN 1
                                  ELSE Pick(weights'[f], bucket[e][f])
        BY <2>1 DEF InHouseVariant, Pick, Cumulative, RunningTotal
    <2>3. CASE DagOf[e] \in segments[f]
        BY <2>2, <2>3
    <2>4. CASE DagOf[e] \notin segments[f]
        <3>1. Pick(weights[f], bucket[e][f]) = 1
            BY <2>4 DEF InHouseVariant
        <3>2. bucket[e][f] \in Nat
            BY ConstantsAssumption DEF Ranges
        <3>3. ASSUME NEW ws, GoodWeights(ws)
              PROVE  Pick(ws, bucket[e][f]) = 1 <=> bucket[e][f] < ws[1]
            <4>1. 1 \in 1..Arms /\ ws[1] \in Nat
                BY <3>3, ConstantsAssumption DEF GoodWeights
            <4>2. Cumulative(ws)[1 - 1] = 0 /\ Cumulative(ws)[1] = ws[1]
                <5>1. Cumulative(ws)[0] = 0 /\ Cumulative(ws)[0 + 1] = Cumulative(ws)[0] + ws[0 + 1]
                    BY RunningTotalStep DEF Cumulative
                <5> QED
                    BY <4>1, <5>1
            <4>3. Pick(ws, bucket[e][f]) = 1 <=>
                    Cumulative(ws)[1 - 1] <= bucket[e][f] /\ bucket[e][f] < Cumulative(ws)[1]
                BY <3>2, <3>3, <4>1, PickIsInterval
            <4> QED
                BY <3>2, <4>1, <4>2, <4>3
        <3>4. GoodWeights(weights[f]) /\ GoodWeights(weights'[f])
            BY DEF WeightsGood, GoodWeights, Cumulative, RunningTotal
        <3>5. weights[f][1] \in Nat /\ weights'[f][1] \in Nat
            BY <3>4, ConstantsAssumption DEF GoodWeights
        <3> HIDE DEF Keeps
        <3>6. Pick(weights'[f], bucket[e][f]) = 1
            BY <3>1, <3>2, <3>3, <3>4, <3>5
        <3> QED
            BY <2>2, <3>6
    <2> QED
        BY <2>3, <2>4
<1> QED
    BY <1>1, WeightsInvariant, RangesInvariant, PTL DEF Spec, FirstArmIsSticky

-----------------------------------------------------------------------------
(* The revenue rollups.                                                    *)

\* What an order adds to day d, and the revenue of d after n orders.
Terms(shard, d) ==
    [i \in DOMAIN shard |-> IF shard[i].day = d THEN Signed(source, shard[i]) ELSE 0]
RevenueAfter(d, n) == RunningTotal(Terms(orders, d))[n]

DaysBefore(n) == {orders[i].day : i \in {j \in 1..(n - 1) : Counts(source, orders[j])}}

RollupTypeOK ==
    /\ source \in {"pipeline", "example"}
    /\ orders \in Seq(Order)
    /\ next_order \in 1..(Len(orders) + 1)
    /\ out = [d \in DOMAIN out |-> out[d]]
    /\ outcome \in {"running", "tracked", "failed", "flagged"}

\* After each turn of v2's loop its keys are the days of the orders that
\* counted, its values the revenue of v1 so far; a day without a key has none.
LoopInvariant ==
    /\ DOMAIN out = DaysBefore(next_order)
    /\ \A d \in Day : RevenueAfter(d, next_order - 1) = IF d \in DOMAIN out THEN out[d] ELSE 0

GuardrailCompared ==
    /\ outcome # "running" => next_order = Len(orders) + 1
    /\ outcome \in {"failed", "flagged"} <=>
          outcome # "running" /\ use_v2 /\ out # RollupV1(source, orders)

RollupInv == RollupTypeOK /\ LoopInvariant /\ GuardrailCompared

LEMMA SignedType ==
    ASSUME NEW o \in Order
    PROVE  /\ Signed(source, o) \in Int
           /\ ~ Counts(source, o) => Signed(source, o) = 0
BY RollupAssumption DEF Signed, Counts, Order

LEMMA RollupInvInit == RollupInit => RollupInv
<1> SUFFICES ASSUME RollupInit PROVE RollupInv
    OBVIOUS
<1>1. orders \in Seq(Order)
    <2>1. PICK m \in 0..MaxOrders : orders \in [1..m -> Order]
        BY DEF RollupInit, BoundedSeq, SeqOf
    <2> QED
        BY <2>1, RollupAssumption
<1>2. next_order = 1 /\ out = <<>> /\ outcome = "running" /\ source \in {"pipeline", "example"}
    BY DEF RollupInit
<1>3. DOMAIN out = {} /\ out = [d \in DOMAIN out |-> out[d]]
    BY <1>2
<1>4. RollupTypeOK
    BY <1>1, <1>2, <1>3 DEF RollupTypeOK
<1>5. LoopInvariant
    <2>1. DaysBefore(next_order) = {}
        BY <1>2 DEF DaysBefore
    <2>2. ASSUME NEW d \in Day PROVE RevenueAfter(d, next_order - 1) = 0
        BY <1>2, RunningTotalStep DEF RevenueAfter
    <2> QED
        BY <1>3, <2>1, <2>2 DEF LoopInvariant
<1> QED
    BY <1>2, <1>4, <1>5 DEF RollupInv, GuardrailCompared

LEMMA AddOrderKeepsLoop ==
    ASSUME RollupInv, AddOrder
    PROVE  RollupInv'
<1> DEFINE o == orders[next_order]
<1>1. o \in Order /\ next_order \in DOMAIN orders /\ next_order \in 1..Len(orders)
    BY DEF RollupInv, RollupTypeOK, AddOrder
<1>2. o.day \in Day /\ Signed(source, o) \in Int
    BY <1>1, SignedType DEF Order
<1>3. UNCHANGED <<source, orders, use_v2, outcome>> /\ next_order' = next_order + 1
    BY DEF AddOrder
<1>4. outcome = "running"
    BY <1>1 DEF RollupInv, RollupTypeOK, GuardrailCompared
<1>5. /\ DOMAIN out' = DOMAIN out \cup (IF Counts(source, o) THEN {o.day} ELSE {})
      /\ out' = [d \in DOMAIN out' |-> out'[d]]
      /\ \A d \in DOMAIN out' : out'[d] =
            IF d = o.day /\ Counts(source, o)
            THEN (IF d \in DOMAIN out THEN out[d] ELSE 0) + Signed(source, o)
            ELSE out[d]
    <2>1. CASE Counts(source, o)
        <3> DEFINE v == (IF o.day \in DOMAIN out THEN out[o.day] ELSE 0) + Signed(source, o)
        <3>1. out' = AddTo(out, o.day, Signed(source, o))
            BY <2>1 DEF AddOrder, Accumulate
        <3>2. out' = [d \in DOMAIN out \cup {o.day} |-> IF d = o.day THEN v ELSE out[d]]
            BY <3>1 DEF AddTo
        <3> HIDE DEF v
        <3>3. /\ DOMAIN out' = {o.day} \cup DOMAIN out
              /\ \A d \in DOMAIN out' : out'[d] = IF d = o.day THEN v ELSE out[d]
              /\ out' = [d \in DOMAIN out' |-> out'[d]]
            BY <3>2
        <3> QED
            BY <2>1, <3>3 DEF v
    <2>2. CASE ~ Counts(source, o)
        <3>1. out' = out
            BY <2>2 DEF AddOrder, Accumulate
        <3> QED
            BY <2>2, <3>1 DEF RollupInv, RollupTypeOK
    <2> QED
        BY <2>1, <2>2
<1>6. DaysBefore(next_order)' = DaysBefore(next_order) \cup (IF Counts(source, o) THEN {o.day} ELSE {})
    <2>1. next_order' - 1 = next_order /\ 1..next_order = (1..(next_order - 1)) \cup {next_order}
        BY <1>1, <1>3
    <2>2. DaysBefore(next_order)' =
            {orders[i].day : i \in {j \in 1..next_order : Counts(source, orders[j])}}
        BY <1>3, <2>1 DEF DaysBefore, Counts
    <2> QED
        BY <2>1, <2>2 DEF DaysBefore
<1>7. ASSUME NEW d \in Day
      PROVE  RevenueAfter(d, next_order - 1)' =
                RevenueAfter(d, next_order - 1) + (IF o.day = d THEN Signed(source, o) ELSE 0)
    <2>1. next_order - 1 \in Nat /\ (next_order - 1) + 1 = next_order
        BY <1>1
    <2>2. RevenueAfter(d, next_order - 1)' = RunningTotal(Terms(orders, d))[next_order]
        BY <1>1, <1>3 DEF RevenueAfter, RunningTotal, Terms, Signed
    <2>3. RunningTotal(Terms(orders, d))[(next_order - 1) + 1] =
            RunningTotal(Terms(orders, d))[next_order - 1] + Terms(orders, d)[(next_order - 1) + 1]
        BY <2>1, RunningTotalStep
    <2>4. Terms(orders, d)[next_order] = IF o.day = d THEN Signed(source, o) ELSE 0
        BY <1>1 DEF Terms
    <2> QED
        BY <2>1, <2>2, <2>3, <2>4 DEF RevenueAfter
<1>8. LoopInvariant'
    <2>1. DOMAIN out' = DaysBefore(next_order)'
        BY <1>5, <1>6 DEF RollupInv, LoopInvariant
    <2>2. ASSUME NEW d \in Day
          PROVE  RevenueAfter(d, next_order - 1)' = IF d \in DOMAIN out' THEN out'[d] ELSE 0
        <3> DEFINE before == IF d \in DOMAIN out THEN out[d] ELSE 0
        <3>1. RevenueAfter(d, next_order - 1) = before
            BY DEF RollupInv, LoopInvariant
        <3>2. before \in Int
            <4>1. \A i \in 1..Len(orders) : Terms(orders, d)[i] \in Int
                BY SignedType DEF Terms, RollupInv, RollupTypeOK
            <4>2. next_order - 1 \in 0..Len(orders) /\ Len(orders) \in Nat
                BY <1>1
            <4> QED
                BY <3>1, <4>1, <4>2, TotalsOfIntegers DEF RevenueAfter
        <3>3. CASE o.day = d /\ Counts(source, o)
            <4>1. d \in DOMAIN out' /\ out'[d] = before + Signed(source, o)
                BY <1>5, <3>3
            <4> QED
                BY <1>7, <3>1, <3>3, <4>1
        <3>4. CASE ~ (o.day = d /\ Counts(source, o))
            <4>1. (IF o.day = d THEN Signed(source, o) ELSE 0) = 0
                BY <1>1, <3>4, SignedType
            <4>2. (d \in DOMAIN out' <=> d \in DOMAIN out) /\ (d \in DOMAIN out' => out'[d] = out[d])
                BY <1>5, <3>4
            <4>3. RevenueAfter(d, next_order - 1)' = before
                BY <1>7, <3>1, <3>2, <4>1
            <4> QED
                BY <4>2, <4>3
        <3> QED
            BY <3>3, <3>4
    <2> QED
        BY <2>1, <2>2 DEF LoopInvariant
<1>9. RollupTypeOK'
    BY <1>1, <1>3, <1>5 DEF RollupInv, RollupTypeOK
<1>10. GuardrailCompared'
    BY <1>3, <1>4 DEF GuardrailCompared
<1> QED
    BY <1>8, <1>9, <1>10 DEF RollupInv

LEMMA RollupInvStep == RollupInv /\ [RollupNext]_rollupVars => RollupInv'
<1> SUFFICES ASSUME RollupInv, [RollupNext]_rollupVars PROVE RollupInv'
    OBVIOUS
<1>1. CASE AddOrder
    BY <1>1, AddOrderKeepsLoop
<1>2. ASSUME UNCHANGED <<source, orders, use_v2, next_order, out>>
      PROVE  /\ RollupTypeOK' <=> RollupTypeOK /\ outcome' \in {"running", "tracked", "failed", "flagged"}
             /\ LoopInvariant' <=> LoopInvariant
             /\ RollupV1(source, orders)' = RollupV1(source, orders)
    <2>1. RollupV1(source, orders)' = RollupV1(source, orders)
        BY <1>2 DEF RollupV1, Revenue, RunningTotal, Signed
    <2>2. LoopInvariant' <=> LoopInvariant
        BY <1>2 DEF LoopInvariant, DaysBefore, Counts, RevenueAfter, RunningTotal, Terms, Signed
    <2>3. RollupTypeOK' => RollupTypeOK /\ outcome' \in {"running", "tracked", "failed", "flagged"}
        BY <1>2 DEF RollupInv, RollupTypeOK
    <2>4. RollupTypeOK /\ outcome' \in {"running", "tracked", "failed", "flagged"} => RollupTypeOK'
        BY <1>2 DEF RollupTypeOK
    <2> QED
        BY <2>1, <2>2, <2>3, <2>4
<1>3. CASE EndRollup
    <2>1. UNCHANGED <<source, orders, use_v2, next_order, out>>
        BY <1>3 DEF EndRollup
    <2>2. outcome' = IF ~use_v2 \/ out = RollupV1(source, orders) THEN "tracked"
                     ELSE IF source = "example" THEN "failed" ELSE "flagged"
        BY <1>3 DEF EndRollup
    <2>3. next_order = Len(orders) + 1
        BY <1>3 DEF EndRollup, RollupInv, RollupTypeOK
    <2> QED
        BY <1>2, <2>1, <2>2, <2>3 DEF RollupInv, GuardrailCompared
<1>4. CASE UNCHANGED rollupVars
    <2>1. UNCHANGED <<source, orders, use_v2, next_order, out>> /\ outcome' = outcome
        BY <1>4 DEF rollupVars
    <2> QED
        BY <1>2, <2>1 DEF RollupInv, RollupTypeOK, GuardrailCompared
<1> QED
    BY <1>1, <1>3, <1>4 DEF RollupNext

\* Whatever the orders: at every turn v2 has the numbers of v1, and the
\* guardrail that compares the dictionaries fails a region exactly when it has
\* a day none of whose orders counts.
THEOREM RollupsCompared == RollupSpec => []RollupsAgree
<1>1. RollupInv => RollupsAgree
    <2> SUFFICES ASSUME RollupInv PROVE RollupsAgree
        OBVIOUS
    <2> DEFINE n == next_order - 1
               soFar == SubSeq(orders, 1, n)
               v1 == RollupV1(source, soFar)
    <2>1. /\ n \in Nat /\ n \in 0..Len(orders) /\ Len(orders) \in Nat /\ next_order = n + 1
          /\ orders \in Seq(Order)
        BY DEF RollupInv, RollupTypeOK
    <2>2. soFar \in Seq(Order) /\ Len(soFar) = n /\ \A i \in 1..n : soFar[i] = orders[i]
        BY <2>1
    <2>3. \A i \in 1..Len(orders) : orders[i] \in Order /\ orders[i].day \in Day
        <3>1. \A i \in 1..Len(orders) : orders[i] \in Order
            BY <2>1
        <3>2. \A x \in Order : x.day \in Day
            BY DEF Order
        <3> QED
            BY <3>1, <3>2
    <2> HIDE DEF n, soFar
    <2>4. DOMAIN v1 = {orders[i].day : i \in 1..n}
        BY <2>2 DEF RollupV1
    <2>5. ASSUME NEW d \in DOMAIN v1 PROVE v1[d] = IF d \in DOMAIN out THEN out[d] ELSE 0
        <3>1. d \in Day
            BY <2>1, <2>3, <2>4
        <3>2. v1[d] = RunningTotal(Terms(soFar, d))[n]
            BY <2>2 DEF RollupV1, Revenue, Terms
        <3>3. \A i \in 1..n : Terms(soFar, d)[i] = Terms(orders, d)[i]
            BY <2>1, <2>2 DEF Terms
        <3>4. v1[d] = RevenueAfter(d, n)
            BY <2>1, <3>2, <3>3, TotalsOfEqualTerms DEF RevenueAfter
        <3> QED
            BY <3>1, <3>4 DEF RollupInv, LoopInvariant, n
    <2>6. DOMAIN out = {orders[i].day : i \in {j \in 1..n : Counts(source, orders[j])}}
        BY DEF RollupInv, LoopInvariant, DaysBefore, n
    <2>7. DOMAIN out \subseteq DOMAIN v1
        BY <2>4, <2>6
    <2>8. ASSUME outcome # "running"
          PROVE  out # RollupV1(source, orders) <=>
                    \E d \in DOMAIN v1 :
                        \A i \in DOMAIN orders : orders[i].day = d => ~ Counts(source, orders[i])
        <3>1. n = Len(orders)
            BY <2>1, <2>8 DEF RollupInv, GuardrailCompared
        <3>2. DOMAIN orders = 1..n
            BY <2>1, <3>1
        <3>3. RollupV1(source, orders) = v1
            <4>1. DOMAIN soFar = DOMAIN orders /\ soFar = orders
                BY <2>1, <2>2, <3>1, <3>2
            <4> QED
                BY <4>1
        <3>4. out = v1 <=> DOMAIN out = DOMAIN v1
            <4>1. v1 = [d \in DOMAIN v1 |-> v1[d]]
                BY DEF RollupV1
            <4>2. out = [d \in DOMAIN out |-> out[d]]
                BY DEF RollupInv, RollupTypeOK
            <4> HIDE DEF v1
            <4>3. DOMAIN out = DOMAIN v1 => \A d \in DOMAIN v1 : out[d] = v1[d]
                BY <2>5
            <4> QED
                BY <4>1, <4>2, <4>3
        <3>5. DOMAIN out # DOMAIN v1 <=>
                \E d \in DOMAIN v1 : \A i \in 1..n : orders[i].day = d => ~ Counts(source, orders[i])
            <4> HIDE DEF v1
            <4> QED
                BY <2>4, <2>6, <2>7
        <3> QED
            BY <3>2, <3>3, <3>4, <3>5
    <2>9. outcome \in {"failed", "flagged"} <=>
            /\ outcome # "running" /\ use_v2
            /\ \E d \in DOMAIN v1 :
                  \A i \in DOMAIN orders : orders[i].day = d => ~ Counts(source, orders[i])
        BY <2>8 DEF RollupInv, GuardrailCompared
    <2> QED
        BY <2>5, <2>7, <2>9 DEF RollupsAgree, n, soFar
<1> QED
    BY <1>1, RollupInvInit, RollupInvStep, PTL DEF RollupSpec
=============================================================================
