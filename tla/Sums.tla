-------------------------------- MODULE Sums --------------------------------
(* Loops that add up, as the running total of a function on 1..n.           *)
EXTENDS Integers

\* After its n-th turn a loop over f[1], f[2], ... has added up this much.
RunningTotal(f) ==
    LET total[n \in Nat] == IF n = 0 THEN 0 ELSE total[n - 1] + f[n]
    IN  total
=============================================================================
