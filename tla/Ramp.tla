-------------------------------- MODULE Ramp --------------------------------
(***************************************************************************)
(* Percentage rollouts of the in-process providers (providers/fractional   *)
(* and providers/inhouse) while an operator ramps them.  _bucket hashes    *)
(* (entity, salt) into 0..99; the hash is not known, so `bucket' is any    *)
(* function into 0..Buckets-1, fixed once.  An entity of the policy is     *)
(* dag_id:task_id.                                                         *)
(***************************************************************************)
EXTENDS Sums, Sequences, FiniteSets

CONSTANTS
    Entity,
    Dag, DagOf,    \* [Entity -> Dag], the dag_id attribute of the context
    Flag,          \* flag keys, which salt the hash
    Layer, LayerOf,  \* [Flag -> Layer \cup {None}]: flag.layer, a salt too
    None,
    Buckets,       \* 100 in the code; shares are parts of it
    Arms,          \* number of variants of a string flag
    Rollouts, WeightLists, SegmentLists  \* bounds, per flag: what an operator sets

ASSUME ConstantsAssumption ==
    /\ Buckets \in Nat \ {0}
    /\ Arms \in Nat \ {0}
    /\ DagOf \in [Entity -> Dag]
    /\ LayerOf \in [Flag -> Layer \cup {None}]
    /\ Rollouts \in [Flag -> SUBSET (0..Buckets)]
    /\ SegmentLists \in [Flag -> SUBSET SUBSET Dag]

VARIABLES
    bucket,       \* the hash
    rollout_pct,  \* per flag: BoolFlag.rollout_pct
    weights,      \* per flag: the weights of VariantFlag.variants, of "rollout"
    segments      \* per flag: the DAGs of the in-house segment for variant 1

vars == <<bucket, rollout_pct, weights, segments>>

\* The share of the first n arms, as the loop accumulates it.
Cumulative(ws) == RunningTotal(ws)

\* "weights summing to 100"; a sum below leaves a rest on the default.
ASSUME WeightsAssumption ==
    \A f \in Flag : \A ws \in WeightLists[f] :
        ws \in [1..Arms -> 0..Buckets] /\ Cumulative(ws)[Arms] <= Buckets

Default == 0

\* Mutant: `<=' for `<'.
PickInclusive(ws, b) ==
    LET hit == {i \in 1..Arms : b <= Cumulative(ws)[i]}
    IN  IF hit = {} THEN Default ELSE CHOOSE i \in hit : \A j \in hit : i <= j

\* resolve_string_details: the first variant whose cumulative weight exceeds
\* the bucket.
Pick(ws, b) ==
    LET hit == {i \in 1..Arms : b < Cumulative(ws)[i]}
    IN  IF hit = {} THEN Default ELSE CHOOSE i \in hit : \A j \in hit : i <= j

\* Mutant: the layer is ignored.
SaltIsKey(f) == f

\* flag.layer or flag_key.
SaltOf(f) == IF LayerOf[f] = None THEN f ELSE LayerOf[f]

\* Mutant: the percentage is part of what is hashed.
OnRehashed(f) ==
    {e \in Entity : (bucket[e][SaltOf(f)] + 2 * rollout_pct[f]) % Buckets < rollout_pct[f]}

\* resolve_boolean_details of the fractional provider.
On(f) == {e \in Entity : bucket[e][SaltOf(f)] < rollout_pct[f]}

\* resolve_string_details of the fractional provider.
Variant(f, e) == Pick(weights[f], bucket[e][SaltOf(f)])

\* Mutant: the rollout is asked before the segments.
RolloutFirst(f, e) ==
    LET v == Pick(weights[f], bucket[e][f])
    IN  IF v # Default THEN v ELSE IF DagOf[e] \in segments[f] THEN 1 ELSE Default

\* resolve_string_details of the in-house provider: a segment on dag_id, then
\* the rollout (in no layer), then the default.
InHouseVariant(f, e) ==
    IF DagOf[e] \in segments[f] THEN 1 ELSE Pick(weights[f], bucket[e][f])

Init ==
    /\ bucket \in [Entity -> [Flag \cup Layer -> 0..(Buckets - 1)]]
    /\ rollout_pct = [f \in Flag |-> 0]
    /\ weights = [f \in Flag |-> [i \in 1..Arms |-> 0]]
    /\ segments = [f \in Flag |-> {}]

\* Mutant: a ramp step is added to the percentage.
SetRolloutAdds(f, p) ==
    /\ rollout_pct' = [rollout_pct EXCEPT ![f] = @ + p]
    /\ rollout_pct[f] <= Buckets
    /\ UNCHANGED <<bucket, weights, segments>>

SetRollout(f, p) ==
    /\ rollout_pct' = [rollout_pct EXCEPT ![f] = p]
    /\ UNCHANGED <<bucket, weights, segments>>

SetWeights(f, ws) ==
    /\ weights' = [weights EXCEPT ![f] = ws]
    /\ UNCHANGED <<bucket, rollout_pct, segments>>

SetSegment(f, dags) ==
    /\ segments' = [segments EXCEPT ![f] = dags]
    /\ UNCHANGED <<bucket, rollout_pct, weights>>

Next == \E f \in Flag :
    \/ \E p \in Rollouts[f] : SetRollout(f, p)
    \/ \E ws \in WeightLists[f] : SetWeights(f, ws)
    \/ \E dags \in SegmentLists[f] : SetSegment(f, dags)

Spec == Init /\ [][Next]_vars

-----------------------------------------------------------------------------
(* Properties.                                                             *)

\* Types; the hash never changes its range, nor a percentage its bounds.
TypeOK ==
    /\ bucket \in [Entity -> [Flag \cup Layer -> 0..(Buckets - 1)]]
    /\ rollout_pct \in [Flag -> 0..Buckets]
    /\ \A f \in Flag : weights[f] \in WeightLists[f] \cup {[i \in 1..Arms |-> 0]}
    /\ segments \in [Flag -> SUBSET Dag]

\* "The 25% group is a subset of the 50% group, not a fresh draw, and
\* reverting then re-ramping puts the same DAGs back"
\* (running-a-rollout.md:44-45): raising a percentage takes nobody out, and
\* lowering it adds nobody.
RampsNest ==
    [][\A f \in Flag :
        /\ rollout_pct[f] <= rollout_pct'[f] => On(f) \subseteq On(f)'
        /\ rollout_pct'[f] <= rollout_pct[f] => On(f)' \subseteq On(f)]_vars

\* "flags sharing a layer randomize together": the smaller of two rollouts in
\* one layer is inside the larger.
LayerRandomizesTogether ==
    \A f, g \in Flag :
        /\ LayerOf[f] # None /\ LayerOf[f] = LayerOf[g]
        /\ rollout_pct[f] <= rollout_pct[g]
        => On(f) \subseteq On(g)

\* Every arm gets exactly its weight in buckets, the rest the default: no
\* bucket is lost or counted twice at a boundary.
EveryArmGetsItsWeight ==
    \A f \in Flag : \A i \in 1..Arms :
        Cardinality({b \in 0..(Buckets - 1) : Pick(weights[f], b) = i}) = weights[f][i]

\* Widening the first arm keeps everybody who was in it, and a segment's DAG
\* stays in however the rollout behind it is edited.
FirstArmIsSticky ==
    [][\A f \in Flag :
        weights[f][1] <= weights'[f][1] /\ segments[f] \subseteq segments'[f] =>
            \A e \in Entity : InHouseVariant(f, e) = 1 => InHouseVariant(f, e)' = 1]_vars

\* "Place by DAG, so a DAG is wholly in or wholly out"
\* (running-a-rollout.md:41), "true of the provider as it ships".
DagIsWhole ==
    \A f \in Flag, e, d \in Entity : DagOf[e] = DagOf[d] => Variant(f, e) = Variant(f, d)
=============================================================================
