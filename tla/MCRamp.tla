------------------------------- MODULE MCRamp -------------------------------
(* A small instance of Ramp: two tasks of one DAG and one of another; two    *)
(* flags of one layer, of which the first also has variants and a segment.   *)
EXTENDS Ramp, TLC

CONSTANTS d1, d2, e1, e2, e3, f1, f2, layer1

MCDagOf == [e \in Entity |-> IF e = e3 THEN d2 ELSE d1]
MCLayerOf == [f \in Flag |-> IF layer1 \in Layer THEN layer1 ELSE None]

\* Every percentage for f1, on both sides of the ones of f2.
MCRollouts == [f \in Flag |-> IF f = f1 THEN 0..Buckets ELSE {0, 2}]

\* For f1, every list of weights that sums to Buckets or less.
MCWeightLists == [f \in Flag |->
    IF f = f1
    THEN {ws \in [1..Arms -> 0..Buckets] : Cumulative(ws)[Arms] <= Buckets}
    ELSE {}]

MCSegmentLists == [f \in Flag |-> IF f = f1 THEN {{}, {d1}} ELSE {}]
=============================================================================
