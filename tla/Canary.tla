------------------------------- MODULE Canary -------------------------------
(***************************************************************************)
(* The Kubernetes canary (system_tests/k8s_canary_e2e.py).  A flag file    *)
(* routes a percentage of the dags; the driver asks flagd for every dag,   *)
(* launches a pod for each routed one, waits for them and counts, at 25    *)
(* and at 50 percent.  flagd may reload late or be out of reach between    *)
(* two questions, kubectl's errors are ignored, pods fail, and pods of an  *)
(* attempt that was killed before its teardown may still be there.         *)
(***************************************************************************)
EXTENDS Naturals, FiniteSets

CONSTANTS
    Dag,
    Bucket,     \* [Dag -> 0..99]: flagd's hash of dag_id
    MaxPolls,   \* how often show() looks for the pods (30 in the code)
    MaxFlagdOutages

ASSUME CanaryAssumption ==
    /\ IsFiniteSet(Dag)
    /\ Bucket \in [Dag -> 0..99]
    /\ MaxPolls \in Nat
    /\ MaxFlagdOutages \in Nat

VARIABLES
    phase,      \* what main() does: route, launch, poll, over
    unasked,    \* the dags routed_subset() has not asked about
    subset,     \* those the flag routes, at the present ramp
    unlaunched, \* those show() has yet to launch
    polls,
    ramp,       \* the flag file
    rampServed, \* the ramp flagd serves
    flagdUp,
    flagdOutages,
    pods,       \* the cluster
    leftover,   \* the dags whose pods were there before (history)
    c25, c50,   \* the two subsets
    p50,        \* the pods counted at 50 percent
    canaryVerdict

flagd == <<ramp, rampServed, flagdUp, flagdOutages>>
results == <<c25, c50, p50, canaryVerdict>>
canaryVars == <<phase, unasked, subset, unlaunched, polls, flagd, pods, leftover, results>>

PodState == {"none", "Pending", "Running", "Succeeded", "Failed"}
Up == {"Running", "Succeeded"}

\* After set_ramp(25) and flagd_up(); only a 50 percent cohort of an earlier
\* attempt can have left pods.
CanaryInit ==
    /\ phase = "route" /\ unasked = Dag /\ subset = {} /\ unlaunched = {} /\ polls = 0
    /\ ramp = 25 /\ rampServed = 25 /\ flagdUp = TRUE /\ flagdOutages = 0
    /\ leftover \in SUBSET {d \in Dag : Bucket[d] < 50}
    /\ pods = [d \in Dag |-> IF d \in leftover THEN "Succeeded" ELSE "none"]
    /\ c25 = {} /\ c50 = {} /\ p50 = {} /\ canaryVerdict = "running"

-----------------------------------------------------------------------------
\* One question of routed_subset(); an evaluation that fails answers "local".
RouteDag(d) ==
    /\ phase = "route" /\ d \in unasked
    /\ unasked' = unasked \ {d}
    /\ subset' = IF flagdUp /\ Bucket[d] < rampServed THEN subset \cup {d} ELSE subset
    /\ UNCHANGED <<phase, unlaunched, polls, flagd, pods, leftover, results>>

StartLaunching ==
    /\ phase = "route" /\ unasked = {}
    /\ phase' = "launch"
    /\ unlaunched' = subset
    /\ UNCHANGED <<unasked, subset, polls, flagd, pods, leftover, results>>

\* launch_pod(): `kubectl apply' leaves a pod that exists alone, and its
\* failure goes unnoticed.
LaunchPod(d) ==
    /\ phase = "launch" /\ d \in unlaunched
    /\ unlaunched' = unlaunched \ {d}
    /\ pods' \in {pods, [pods EXCEPT ![d] = IF @ = "none" THEN "Pending" ELSE @]}
    /\ UNCHANGED <<phase, unasked, subset, polls, flagd, leftover, results>>

StartPolling ==
    /\ phase = "launch" /\ unlaunched = {}
    /\ phase' = "poll"
    /\ polls' = 0
    /\ UNCHANGED <<unasked, subset, unlaunched, flagd, pods, leftover, results>>

AllUp == subset # {} /\ \A d \in subset : pods[d] \in Up

\* A `kubectl get' that fails lists no pod, so that pods that are up may be
\* waited for.
PollAgain ==
    /\ phase = "poll" /\ polls < MaxPolls
    /\ polls' = polls + 1
    /\ UNCHANGED <<phase, unasked, subset, unlaunched, flagd, pods, leftover, results>>

\* Mutant: a larger second subset is enough.
GrewBySize(counted) == Cardinality(subset) > Cardinality(c25) /\ Cardinality(counted) = Cardinality(subset)

\* The verdict of main(): the subset grew, and as many pods run.
Grew(counted) ==
    /\ c25 \subseteq subset
    /\ Cardinality(subset) > Cardinality(c25)
    /\ Cardinality(counted) = Cardinality(subset)

\* The end of show(): every pod of the namespace is counted, not only the
\* launched ones, or none when `kubectl get' fails.  Then the ramp, or the
\* verdict and the restored flag file.
EndShow ==
    /\ phase = "poll" /\ (AllUp \/ polls = MaxPolls)
    /\ IF canaryVerdict = "running" /\ ramp = 25
       THEN /\ c25' = subset
            /\ ramp' = 50
            /\ phase' = "route" /\ unasked' = Dag /\ subset' = {}
            /\ UNCHANGED <<c50, p50, canaryVerdict>>
       ELSE \E counted \in {{d \in Dag : pods[d] \in Up}, {}} :
                /\ c50' = subset
                /\ p50' = counted
                /\ canaryVerdict' = IF Grew(counted) THEN "ok" ELSE "failed"
                /\ ramp' = 25
                /\ phase' = "over"
                /\ UNCHANGED <<c25, unasked, subset>>
    /\ UNCHANGED <<unlaunched, polls, rampServed, flagdUp, flagdOutages, pods, leftover>>

-----------------------------------------------------------------------------
(* The cluster and flagd.                                                  *)

PodMoves(d) ==
    /\ phase # "over"
    /\ \E to \in Up \cup {"Failed"} :
        /\ pods[d] = "Pending" \/ (pods[d] = "Running" /\ to # "Running")
        /\ pods' = [pods EXCEPT ![d] = to]
    /\ UNCHANGED <<phase, unasked, subset, unlaunched, polls, flagd, leftover, results>>

ReloadRamp ==
    /\ phase # "over" /\ rampServed # ramp
    /\ rampServed' = ramp
    /\ UNCHANGED <<phase, unasked, subset, unlaunched, polls, ramp, flagdUp, flagdOutages,
                   pods, leftover, results>>

FlagdOutage ==
    /\ phase = "route" /\ flagdOutages < MaxFlagdOutages
    /\ flagdUp' = ~flagdUp
    /\ flagdOutages' = flagdOutages + 1
    /\ UNCHANGED <<phase, unasked, subset, unlaunched, polls, ramp, rampServed,
                   pods, leftover, results>>

CanaryNext ==
    \/ StartLaunching \/ StartPolling \/ PollAgain \/ EndShow
    \/ ReloadRamp \/ FlagdOutage
    \/ \E d \in Dag : RouteDag(d) \/ LaunchPod(d) \/ PodMoves(d)

CanarySpec == CanaryInit /\ [][CanaryNext]_canaryVars

-----------------------------------------------------------------------------
(* Properties.                                                             *)

CanaryTypeOK ==
    /\ phase \in {"route", "launch", "poll", "over"}
    /\ unasked \in SUBSET Dag /\ subset \in SUBSET Dag /\ unlaunched \in SUBSET Dag
    /\ pods \in [Dag -> PodState]
    /\ leftover \in SUBSET Dag
    /\ c25 \in SUBSET Dag /\ c50 \in SUBSET Dag /\ p50 \in SUBSET Dag

\* "every routed task ran as a real pod" (k8s_canary_e2e.py:136).  The driver
\* only compares two numbers, of which one counts every pod there is; the sets
\* are equal all the same, if no pod was left over from outside the subset.
RoutedTasksRan ==
    canaryVerdict = "ok" /\ leftover \subseteq c50 => p50 = c50
=============================================================================
