---------------------------- MODULE SystemTests ----------------------------
(***************************************************************************)
(* The system tests, one at a time: a developer starts one of them, and it *)
(* has the machine for itself.  Each component's next-state relation is as *)
(* it is alone: the tests share no file or database.  What a killed one    *)
(* may leave to another is a container on the port it wants (matrix.py:36, *)
(* measure_loop.py:49), which is a container that does not come up.        *)
(***************************************************************************)
EXTENDS Drivers, Canary, Outcome, CaseStudy

CONSTANT Test  \* of drivers, canary, outcome, rollup, case_study

VARIABLE test

testVars == <<test, driverVars, canaryVars, outcomeVars, rollupVars, setupVars, caseVars>>

\* The choices of a test that is not run are left to the other tests.
Unless(t, choice) == test = t \/ choice

Init ==
    /\ test \in Test
    /\ DriverInit   /\ Unless("drivers", driver = CHOOSE d \in Driver : TRUE)
    /\ CanaryInit   /\ Unless("canary", leftover = {})
    /\ OutcomeInit  /\ Unless("outcome", kind = "inhouse" /\ ~countOnly /\ fast = [e \in Entity |-> TRUE])
    /\ RollupInit   /\ Unless("rollup", source = "pipeline" /\ orders = <<>> /\ use_v2)
    /\ CaseStudyInit /\ Unless("case_study", shards = [r \in Region |-> CHOOSE s \in Shard : TRUE])

Drive ==
    /\ test = "drivers" /\ DriverNext
    /\ UNCHANGED <<test, canaryVars, outcomeVars, rollupVars, setupVars, caseVars>>

Route ==
    /\ test = "canary" /\ CanaryNext
    /\ UNCHANGED <<test, driverVars, outcomeVars, rollupVars, setupVars, caseVars>>

Measure ==
    /\ test = "outcome" /\ OutcomeNext
    /\ UNCHANGED <<test, driverVars, canaryVars, rollupVars, setupVars, caseVars>>

RollUp ==
    /\ test = "rollup" /\ RollupNext
    /\ UNCHANGED <<test, driverVars, canaryVars, outcomeVars, setupVars, caseVars>>

Study ==
    /\ test = "case_study" /\ CaseStudyNext
    /\ UNCHANGED <<test, driverVars, canaryVars, outcomeVars, rollupVars>>

Next == Drive \/ Route \/ Measure \/ RollUp \/ Study

Spec == Init /\ [][Next]_testVars
=============================================================================
