----------------------------- MODULE MCForkSafe -----------------------------
(* A small instance of ForkSafe: a parent with two threads and a child with *)
(* one.                                                                     *)
EXTENDS ForkSafe, TLC

CONSTANTS p0, p1, t1, t2, t3

MCThread == {t1, t2, t3}
MCHome == t1 :> p0 @@ t2 :> p0 @@ t3 :> p1
=============================================================================
