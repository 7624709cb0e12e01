------------------------------- MODULE Rollup -------------------------------
(***************************************************************************)
(* The revenue rollups that the case study and the example DAG switch by   *)
(* flag: v1 rescans a region's orders for every day, v2 goes through them  *)
(* once.  Here is v2's loop, and the task around it (rollup_region of      *)
(* example_dags/revenue_rollup_dag.py), whose guardrail compares it with   *)
(* v1.  system_tests/case_study/pipeline.py has the same two, with refunds.*)
(* Whole amounts stand for those rounded to cents: how floats are rounded  *)
(* on the way is left out.                                                 *)
(***************************************************************************)
EXTENDS Sums, Sequences, SequencesExt

CONSTANTS Day, Amount, MaxOrders

ASSUME RollupAssumption == Amount \subseteq Int /\ MaxOrders \in Nat

VARIABLES
    source,    \* whose rollups: "pipeline", or "example", which has no refunds
    orders,    \* the region's shard
    use_v2,    \* the flag's answer
    next_order,
    out,       \* v2's dictionary
    outcome    \* running, tracked, and of a tripped guardrail failed, or flagged

rollupVars == <<source, orders, use_v2, next_order, out, outcome>>

Order == [day : Day, status : {"completed", "refunded", "cancelled"}, amount : Amount]

\* What an order adds to its day, in v1.
Signed(src, o) ==
    CASE o.status = "completed" -> o.amount
      [] o.status = "refunded" /\ src = "pipeline" -> 0 - o.amount
      [] OTHER -> 0

\* The orders that reach v2's dictionary at all.
Counts(src, o) == o.status = "completed" \/ (o.status = "refunded" /\ src = "pipeline")

\* One day's pass over the shard.
Revenue(src, shard, d) ==
    RunningTotal([i \in DOMAIN shard |->
                     IF shard[i].day = d THEN Signed(src, shard[i]) ELSE 0])[Len(shard)]

\* Every day of the shard is a key.
RollupV1(src, shard) ==
    [d \in {shard[i].day : i \in DOMAIN shard} |-> Revenue(src, shard, d)]

\* dict[key] += amount, of a defaultdict.
AddTo(dict, key, amount) ==
    [k \in DOMAIN dict \cup {key} |->
        IF k = key THEN (IF key \in DOMAIN dict THEN dict[key] ELSE 0) + amount ELSE dict[k]]

\* Mutant: refunds are added.
AccumulateAll(src, dict, o) ==
    IF Counts(src, o) THEN AddTo(dict, o.day, o.amount) ELSE dict

\* A day becomes a key when an order of it counts.
Accumulate(src, dict, o) ==
    IF Counts(src, o) THEN AddTo(dict, o.day, Signed(src, o)) ELSE dict

RollupV2(src, shard) ==
    FoldLeft(LAMBDA dict, o : Accumulate(src, dict, o), <<>>, shard)

RollupInit ==
    /\ source \in {"pipeline", "example"}
    /\ orders \in BoundedSeq(Order, MaxOrders)
    /\ use_v2 \in BOOLEAN
    /\ next_order = 1
    /\ out = <<>>
    /\ outcome = "running"

AddOrder ==
    /\ next_order <= Len(orders)
    /\ out' = Accumulate(source, out, orders[next_order])
    /\ next_order' = next_order + 1
    /\ UNCHANGED <<source, orders, use_v2, outcome>>

\* The example's guardrail is an assertion before its track_outcome(): a region
\* that fails it has no outcome.  The case study's clears parity_ok and tracks
\* all the same.  A region on v1 is not compared.
EndRollup ==
    /\ next_order > Len(orders) /\ outcome = "running"
    /\ outcome' = IF ~use_v2 \/ out = RollupV1(source, orders) THEN "tracked"
                  ELSE IF source = "example" THEN "failed" ELSE "flagged"
    /\ UNCHANGED <<source, orders, use_v2, next_order, out>>

RollupNext == AddOrder \/ EndRollup
RollupSpec == RollupInit /\ [][RollupNext]_rollupVars

\* At every turn of its loop v2 has v1's revenue of the orders so far, where
\* it has a key; a day it has none for is 0 in v1.  "Same numbers"
\* (pipeline.py:67) so holds of the numbers, while the guardrail, which
\* compares the dictionaries, trips exactly for a shard with such a day.
RollupsAgree ==
    LET soFar == SubSeq(orders, 1, next_order - 1)
        v1 == RollupV1(source, soFar)
    IN  /\ DOMAIN out \subseteq DOMAIN v1
        /\ \A d \in DOMAIN v1 : v1[d] = IF d \in DOMAIN out THEN out[d] ELSE 0
        /\ outcome \in {"failed", "flagged"} <=>
              /\ outcome # "running" /\ use_v2
              /\ \E d \in DOMAIN v1 :
                    \A i \in DOMAIN orders : orders[i].day = d => ~Counts(source, orders[i])
=============================================================================
