---------------------------- MODULE MCFlagSensor ----------------------------
(* Small instances of FlagSensor: two sensors on one connection, one on     *)
(* another that waits for the flag to be off.                               *)
EXTENDS FlagSensor, TLC

CONSTANTS c1, c2, s1, s2, s3

MCConnOf == [t \in Caller |-> IF t = s3 THEN c2 ELSE c1]
MCExpected == [t \in Caller |-> t # s3]
=============================================================================
