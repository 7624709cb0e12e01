----------------------------- MODULE MCExposure -----------------------------
(* Small instances of Exposure: one string and one number dimension.        *)
EXTENDS Exposure, TLC

CONSTANTS plain, pool, queue, weight, fpool, fqueue, fweight, default, one

MCAuthored == [t \in Task |-> pool :> default @@ queue :> default @@ weight :> one]
MCWritable == [t \in Task |-> Attr]

Dimension(f, k, a) == [flag |-> f, kind |-> k, attr |-> a, raises |-> {}]

MCDimensions ==
    << Dimension(fpool, "string", pool),
       Dimension(fqueue, "string", queue),
       Dimension(fweight, "number", weight) >>

MCExposureFlags == <<fpool, fqueue, fweight>>
=============================================================================
