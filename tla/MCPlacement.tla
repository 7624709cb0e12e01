---------------------------- MODULE MCPlacement ----------------------------
(* A small instance of Placement: a string and a number dimension, and a     *)
(* custom one that overrides the second; a plain task and a mapped one,      *)
(* whose pool cannot be assigned and for which the custom setter raises.     *)
EXTENDS Placement, TLC

CONSTANTS plain, mapped, pool, weight, fpool, fweight, fcustom, default, one

MCAuthored == [t \in Task |-> pool :> default @@ weight :> one]
MCWritable == [t \in Task |-> IF t = mapped THEN {weight} ELSE {pool, weight}]

Dimension(f, k, a, raising) == [flag |-> f, kind |-> k, attr |-> a, raises |-> raising]

MCDimensions ==
    << Dimension(fpool, "string", pool, {}),
       Dimension(fweight, "number", weight, {}),
       Dimension(fcustom, "number", weight, {mapped}) >>
=============================================================================
