# airflow-provider-openfeature in TLA+

This directory holds a TLA+ model of `src/openfeature_airflow`, the package that lets an
[OpenFeature](https://openfeature.dev) flag decide where Airflow runs a task, and of the system tests
that try it on real backends: modules, TLC configurations that check them on small instances, and
TLAPS proofs for every instance. Every definition is translated from the Python source;
`PROJECT.json` maps each to its lines.

## The system

An operator edits a flag in a backend. A DAG parser loads a task, the *placement policy* asks a
handful of flags about it and overwrites `pool`, `queue`, `executor` and `priority_weight`; Airflow
stores the task. When a run starts, the *exposure listener* asks the same flags again and logs the
answers. Inside a task, the *gate*, the *hook* and the *sensor* ask flags for the task's own purposes,
and *outcome tracking* tells the backend and the metrics what came of it.
All of them go through the OpenFeature SDK, which holds one provider per process: an in-process one
(*fractional*, *in-house*), an adapter to a backend (*GrowthBook*, *Unleash*, *Statsig*), or any of
these behind the *fork-safe wrapper*. The *system tests* are programs beside the package: drivers that
place tasks through each backend and judge what they read back, a Kubernetes canary, a measure loop and
a case study with its setup scripts.

### Inventory

| Component (source) | State it keeps | Operations | What is hard | What makes it correct |
|---|---|---|---|---|
| fork-safe wrapper (`providers/forksafe.py`) | `_real`, `_lock`, `_init_ctx` per process | lazy double-checked build, `initialize`, `shutdown`, `get_provider_hooks`, `resolve_*` | threads racing for the first evaluation, a fork at any moment, a factory or `initialize()` that raises, `shutdown()` without the lock | one live build per process, only initialized objects handed out, the registered context reaches the build, every evaluation ends, no process on its parent's client |
| placement policy (`policy.py`, `gate.py`) | the list of dimensions | `register_placement`, `apply_placement`, `task_policy` | an edit or an outage between two questions of a pass, overlapping parsers, a setter that raises, a read-only attribute | each attribute explained by some answer during the pass, a quiet pass exact, placement converges to the flags |
| exposure listener (`listener.py`) | none of its own; a log | the gate, `emit_exposure`, direct calls from tasks | the answers are asked again, later, in another process, always as strings | the record is the group the run is in |
| fractional provider (`providers/fractional.py`), in-house provider (`providers/inhouse.py`) | percentages, weights, segments | boolean and string resolution by hash | boundaries, ramps up and down, flags that share a layer | cohorts nested, arms of the right size, sticky |
| hook (`hooks/openfeature.py`) | `_REGISTERED_CONNECTIONS`, the SDK's provider | `_register_provider`, `is_enabled`, `get_variant` | two callers in the unguarded registration, several connections, a lookup or constructor that raises | the connection's own provider answers; no client left running |
| sensor (`sensors/feature_flag.py`) | its hook | `poke` | pokes that fail or run in new processes, an outage that answers the default | passes when, and for `True` only when, the flag says so |
| GrowthBook, Unleash, Statsig providers | a client, GrowthBook's shared attributes | resolution per type, `track` | two-step evaluation on a shared object; defaults ignored | the answer of one context; the default when the backend has none |
| outcome tracking (`measure.py`) with the measure loop (`system_tests/measure_loop.py`) | none; three sinks | `track_outcome`, each provider's `track`, the readouts | a sink that fails, a task killed and tried again, an edit between the work and the record | the right group on every record, the metric lands, an honest readout |
| placement drivers (`system_tests/matrix.py`, `real_data_flow.py`, `kill_switch.py`, `gates_listener.py`, `ab_experiment.py`, `run_all_backends.py`, `run_use_cases.py`) | a metadata database or files, a flag file, a container, the process's provider | subprocess runs, reading back, factories, assertions | an attempt killed half-way, a late reload, an outage, a factory that raises | a verdict about this attempt and this backend |
| Kubernetes canary (`system_tests/k8s_canary_e2e.py`) | the cluster's pods, a flag file | `routed_subset`, `launch_pod`, `show` | pods that fail or were left over, a late reload | the routed tasks are those that ran |
| case study (`system_tests/case_study/`) | an Unleash and a GrowthBook server, a polling client | two setup scripts, a ramp in stages | requests lost or refused, reruns, late polls | setups idempotent, no region leaves v2 |
| revenue rollup (`example_dags/revenue_rollup_dag.py`, `case_study/pipeline.py`) | none | two rollups and a guardrail | days without revenue, refunds | both give the same numbers |
| switchback (`switchback.py`) | none | `time_bucket` | window boundaries, a zero window | one window per moment, all of equal length |
| analysis (`analysis.py`) | none | `srm_check`, `lift` | zero weights, missing arms; numerics | flags a wrong split, and only that |
| plugin, metadata, quickstart, other example DAGs, example verification and media scripts | none | declarations, demonstrations | | |

How they interact: the policy, the listener, the hook and the sensor call the SDK's client; the client
calls the provider the process holds, which the hook may exchange under all of them; the wrapper's real
provider is built by whichever of them evaluates first; a fork copies all of this. The system tests use
the package through the SDK or through Airflow in subprocesses, one test at a time.

## Modules

| Module | Models | Composes |
|---|---|---|
| `LazyCell` | what a lazy per-process object promises: filled once, lent as it stands, copied by a fork | abstract specification of `ForkSafe` |
| `ForkSafe` | the wrapper; one action per source line of `_ensure`, plus registration, replacement, forks | refines `LazyCell` |
| `Placement` | the policy, its parsers, the backend and the operator | |
| `Exposure` | task runs and the listener | extends `Placement`: a step of either |
| `Sums` | what a loop that adds up computes | used by `Ramp` and `Rollup` |
| `Ramp` | the hash, layers, variants, segments, an operator who ramps | extends `Sums` |
| `Hook` | registration from a connection, in one process with several callers | |
| `FlagSensor` | sensors poking through `Hook` | extends `Hook` |
| `Adapters` | the GrowthBook, Unleash and Statsig providers, asked by several threads | |
| `Outcome` | `track_outcome`, the providers' `track`, retries, the measure loop's readout | |
| `Drivers` | the seven placement drivers, each a list of steps of one machine | |
| `Canary` | the Kubernetes canary | |
| `Rollup` | the two rollups and the example's task | extends `Sums` |
| `FlagSetup` | the setup scripts and their servers | |
| `CaseStudy` | the ramp over regions | extends `FlagSetup` and `Rollup` |
| `SystemTests` | one test at a time | extends `Drivers`, `Canary`, `Outcome`, `CaseStudy` |
| `MC*` | instances for TLC | |
| `*_proofs` | theorems about the module of that name; `Placement_proofs` also about `Exposure`, `Hook_proofs` about `FlagSensor`, `Ramp_proofs` about `Rollup`, `CaseStudy_proofs` about `FlagSetup`, `SystemTests_proofs` about `Drivers` and `Canary` | |

### How state and actions correspond to the code

**ForkSafe.** `real`, `lock`, `init_ctx` are the fields `_real`, `_lock`, `_init_ctx` of the wrapper in
each process. `pc[t]` is a thread's place in `_ensure`: `Check` is the test without the lock, `Acquire`
the `with`, `Recheck` the test under it, `Construct` the factory, `Initialize...` the call with the
context, the `TypeError` fallback and a failure, `Publish` the assignment, `Release` and `Return` the
way out. `Begin` is the SDK's `get_provider_hooks()`, which comes before any `resolve_*`. `Fork` copies
the fields, the lock as it stands included, and no thread but one. Objects the factory returns have an
`owner` and a `stage`; they are history of the SDK object, not fields of the wrapper. `Allowed` says
what the surrounding program does: forks after evaluating, registers again.

**Placement.** One pass is `BeginPass` (parse the file, test the gate), `ApplyDimension` once per
registered dimension, `CommitPass`. The backend is a function from flag and task to a value: a task
stands for its entity `dag_id:task_id`, so a percentage is a value per task. The client's behaviour on
an unknown flag, a wrong type or an outage is one: it answers the sentinel, here `Unset`. `seen` is
history: every state of the backend during the pass, which the properties quantify over.

**Exposure.** `StartTask` takes the stored attributes; `EmitExposure`, `ResolveFlag`, `LogTreatments`
are the three parts of `emit_exposure`, with edits between any two.

**Ramp.** SHA-256 is any function `bucket[entity][salt]`. `Pick` is the cumulative loop, `SaltOf` is
`layer or flag_key`, `On` and `Variant` the boolean and string resolution, `InHouseVariant` the
in-house one (segment, then rollout, then default).

**Hook.** `Call` is the test of `_REGISTERED_CONNECTIONS`; `Lookup`, `Construct`, `Install`, `Mark` the
rest of `_register_provider`; `Raise` leaves it with nothing remembered; `Ask` evaluates with the
provider the SDK holds then. `Restart` is a new process, at any moment.

**FlagSensor.** `Poke` calls the hook, `PokeReturns` compares its answer with the expected value.

**Adapters.** What a backend says of a flag for an entity is one word: unknown, off, on, or a (truthy)
value. Each adapter turns words into answers: `SetAttributes` and `EvalFeature` are the two calls of
GrowthBook's `_eval`, `FromFeature` its five `resolve_*_details`; `GetVariant` and `FallBack` are
Unleash's two questions for a string, asked of a flag that may have variants and an enabled value,
`UnleashBoolean` and `StatsigGate` the one of a boolean and a gate; `NotServed` is a type answered with
the default. Text and numbers made from a word by `str()`, `int()`, `float()` keep its name; which
values are numbers is the constant `Numeric`, and float and integer are one kind. The client's own type
check after the provider is not part of it. `seen` and `met` are history: the configurations an
evaluation lived through, the entities of those it overlapped. `EvalFeature`, a pure computation of the
SDK, is one step. A context attribute with the name of the hash attribute, which would override the
entity, is not modelled: the policy, the hook and the sensor send none.

**Outcome.** `DoWork` is the flag, asked once, and the work it picks; `Track`, `Count` and `Gauge` are
the calls of `track_outcome` in their order, each with its failure: a provider swallows its SDK's
exception, a counter that raises takes the gauge with it, a metric without a value (`countOnly`) has no
gauge. A record is the try it was made in and its group; the value is left out. `Retry` is Airflow's, at
any point. `ReadBackOutcomes` is the condition of `run_statsig` and `run_inhouse`; that the fast path is
also faster is left to the clock. `broken` and `ran` are history.

**Drivers.** A driver is the sequence of the calls its `main()` makes (`Script`); the head of `todo` is
the call in hand. `Run...` is a subprocess that asks its flags one at a time (`AskFlag`) and ends
(`RunEnds`) or fails (`RunFails`); `ReadBack` is the latest row, or the file. `FactoryRaises`,
`FactorySets`, `AssertPlacement`, `Expose` are the two in-process drivers: any factory but the in-house
one may raise, which `run_all_backends` catches and `run_use_cases` does not. `HotReload`, `Outage` and
`Rerun` are the world: flagd reads its file when it likes, a container goes away, the driver is killed
and started again on the disk and the containers it left. The thirty or so dags of a population are one
inside and one outside the subset.

**Canary.** `RouteDag` asks about one dag, `LaunchPod` is one `kubectl run` whose errors are ignored,
`AllUp`, `PollAgain` and `EndShow` the polling of `show()`, in which a `kubectl get` that fails counts no
pod, `Grew` the verdict of `main()`. Pods move by
themselves; `leftover` are those of an attempt that was killed before its teardown.

**FlagSetup, CaseStudy, Rollup.** One action per request, through `Send`: done and answered, done with
the answer lost, or refused; `GetFeature` and `GetUser` are the questions, of which a refusal reads as
nothing there; `StartSetup` is a first start or a rerun. `blind` and `overlooked` count, as history, the
questions that so hid something. `SetRollout`, `RunRegion`, `EndStage` and `JudgeCase` are `run_stage`
and `main` of the case study, `Poll` its client's thread. The client's answer for a region (`IsOn`) is
on when any strategy lets it in. `AddOrder` is a turn of v2's loop, `EndRollup` the guardrail, after
which the example fails and the case study goes on with `parity_ok` cleared. Amounts are whole numbers:
both rollups add a day's amounts in the same order and round to cents. (Since Python 3.12 the example's
`sum()` compensates and v2's `+=` does not, so that the two could differ in a float's last bit before
they are rounded; that is left out.) `SystemTests` lets a behaviour be one test.

Definitions commented *Mutant* are plausible bugs of the code (a dropped re-check, a wrong order, an
off-by-one). None is part of a specification; each shows that a property would notice.

## What is checked

| Run | Question | Instance |
|---|---|---|
| `forksafe_anyfork` | What holds however threads, forks, failures and registrations interleave? One live build, nothing lost, initialized, stable, `shutdown()` misses only a race it overtakes, the wrapper refines the cell. | parent with two threads, child with one, three objects, one failure |
| `forksafe_discipline` | What more holds when the parent forks before it evaluates and registers once? Own client, own context, every evaluation ends. | the same, one context |
| `forksafe_orphanedlock` | *Violated*: a child forked in the middle of a build waits forever for a lock nobody holds. | parent and child |
| `placement_converges` | What can a pass make of a task while the flags are edited under it, and does placement follow the flags in the end, past read-only attributes, raising setters and stale parses? | two parsers, a plain and a mapped task, three dimensions of which two share an attribute, two edits |
| `exposure_steady` | While the flags rest, is the record of a string flag the run's group? | three dimensions, one run, two edits |
| `exposure_unrecorded` | *Violated*: a task placed by a number flag is not recorded. | one edit |
| `ramp_layer` | Are cohorts nested, arms exact, the first arm sticky? | every hash of two entities into three buckets, two flags of one layer |
| `ramp_splitdag` | *Violated*: a percentage splits the tasks of a DAG. | two tasks of one DAG |
| `sensor_poke` | Does the own provider answer, is none left running, do sensors pass when and only when they should? | three sensors on two connections, each missing, plain or declaring; a failure or crash, restarts, one edit |
| `adapters_edits` | Is an adapter's answer the backend's at one moment, or Unleash's one mixture, of the entity asked about (on GrowthBook, or one asked about at the same time), and does an unknown flag leave a task alone? | each backend, two threads, two entities, one flag, every type, one edit |
| `system_tests` | Is what each system test prints of this attempt, this backend and this group, past outages, late reloads and polls, failures, kills and reruns? Do outcomes carry their group, do the setups stay idempotent, do the rollups agree? | every driver, four dags, two entities on each backend, three orders, two regions |
| `outcome_wrapped` | *Violated*: a backend that implements `track()` receives no outcome behind the fork-safe wrapper. | one entity, one try |

### Bounds

Three threads are enough for every pair of lines of `_ensure` to meet, in one process and across a fork;
a third object lets a failed build be retried while another process builds (objects are named in the
order they are built, `NextObject`). Three dimensions are enough for an attribute with one and with two
of them; two views of the backend within a pass need one edit, and a stale commit two. Percentages are
parts of three or four buckets instead of 100: the code compares, adds and takes minima, and every order
of bucket and boundary occurs. In `sensor_poke` one edit suffices for the flag of any backend to become
what a sensor waits for or unknown. In `adapters_edits` the two questions of an evaluation are one
apart, so one edit and one other thread reach everything in between; the words of a flag are all five,
alike for both entities or split. In `system_tests` a driver may be started twice and see two changes of
reachability, which covers an outage that ends; the canary's four dags are one within 25 percent, two
more within 50 and one outside, and one poll beyond the first tells a late pod from a missing one; two
tries of two entities with one edit are enough for a try to run as the other group and for both groups
to meet; three orders on two days with two amounts give a day with revenue, one without and one
refunded; the setups start twice with either percentage; the regions' hashes lie on both sides of the
middle stage. All bounds are constants: `MaxFailures`, `MaxEdits`, `MaxOutages`, `MaxAttempts`,
`MaxPolls`, `MaxFlagdOutages`, `MaxTries`, `MaxFlagEdits`, `MaxOrders`, `MaxStarts`, and the sets
`Rollouts`, `WeightLists`, `SegmentLists`, `Views`. Symmetry is used in `adapters_edits` alone, where
there is no liveness, for its interchangeable threads and entities. Deadlock checking is off in all of
them but Ramp's and Adapters': a process in which nobody evaluates, parses or edits any more is a legal
end, and so is a system test that printed its verdict.

### Fairness

`ForkSafe`: a thread that is inside an evaluation goes on (weak fairness of its steps); nobody need
start one, and nobody need release a lock that no thread holds. `Placement`: a pass that began
continues, each process runs its bootstrap (weak); the parse loop returns to each task whatever its
parsers do in between (strong, for Airflow's loop parses every file again and again). `FlagSensor`:
Airflow pokes a sensor that has not passed, and a poke goes on (weak); Airflow's sensor timeout is left
out. No edit, failure, fork or restart is ever forced to happen. The system tests state no fairness:
their properties are about what was printed or recorded, not that it will be.

## What is proved

TLAPS proves the following for every number of processes, threads, tasks, flags, callers and
so on, from the constants' assumptions alone.

**ForkSafe_proofs.** `EnsureProtocol` is the inductive invariant: who holds the lock, that `_real` is
unset between the re-check and the publication, the stage of the object in hand, that every object is
accounted for. The safety properties by themselves are not inductive: one live build, say, needs to
know that a thread past the re-check excludes others. From it follow `OneLiveBuild`, `NothingIsLost`,
`HandedInitialized`, `RealStable`, `ShutdownMissesOnlyRaces` and `Refinement` (every step is a step or
a stutter of `LazyCell`). `OwnInstance` adds that a process that has not evaluated has no `_real`, and
assumes that no process forks after evaluating; `ContextReaches` that the context given to
`initialize()` is the stored one.

**Placement_proofs.** `AttributesExplained` for any dimensions, edits and parsers: the set of views a
pass has lived through only grows (`MoreViews`), so an explanation once found stays one, and each turn
of the loop extends it (`LoopExplains`). `QuietPassExact` is the same argument when that set is a
singleton. `TypeCorrect` says that no sentinel is ever assigned.

`SteadyRecord` is about the listener: its invariant says of every run that it holds the present view
among those it lived through, that a run with a single view was placed as that view says (from
`EveryAttributeExplained` when the pass commits, `PassPlacesRight`), and that the answers so far are what
that view says. It assumes that the exposed flags are those of built-in dimensions, which they are
(`listener.py:18`, `policy.py:77-80`): a pass may not have heard of a dimension registered later.
`ListenerOnlyLooks` says that the listener changes nothing for the policy.

**Ramp_proofs.** `LayerTogether`, `RampsAreNested` and `TypeCorrect`, for every hash. The rest is about
loops that add up, and by induction over their turns: `SetInduction` gets it from the library's theorem
that the naturals are well-founded, so that no operator is a parameter. `TotalsExist` says that
`RunningTotal` satisfies its equation, `TotalsAgree` that nothing else does up to n, `TotalsGrow` that
totals of naturals never shrink. Hence `PickIsInterval`: an arm is picked on exactly the buckets from
one total to the next, from which `ArmsAreExact`
counts them and `FirstArmSticks` compares the first arm's before and after an edit. They assume of the
constants that the weights are no more than all buckets together: the source asks for a sum of 100
(`fractional.py:47`), and `WeightsAssumption` allows less.
`RollupsCompared`: after each turn v2's dictionary holds v1's revenue of the
orders so far, and its keys are the days of those that count (`LoopInvariant`); a shard has any length.

**Hook_proofs.** `RegistrationProtocol` is the inductive invariant: the object in hand belongs to the
caller's connection, and once a declaring connection is remembered the SDK's provider is no longer the
one it started with. From it `OwnProvider` (with a single declaring connection the provider can then
only be its own), `NoneAbandoned`, and, through `SensorsAreCallers`, `PassOnlyOn`.

**Adapters_proofs.** `AnswersExplained` and `UnknownIsDefault`, for any number of threads, entities and
edits. The inductive invariant adds `Overlaps` to the types: of two running evaluations each has met the
other's entity, whichever began first, so that GrowthBook's attributes between its two calls are the
caller's or those of one it met. Every reply is then explained by the present view (`StepCases`), but
for that of Unleash's second question, whose mixture `TwoMoments` describes (`Mixed`).

**Outcome_proofs.** `OutcomesTagged`: the number of groups a task ran as is its try, the group in hand
is the last of them while it works, and a record once tagged stays right because `ran` only grows.
`MetricLands`: `LandsOf` states for one entity's values which sinks the current try has come to; a gauge
is written only behind its counter.
`ReadoutHonest`: the readout passes on two numbers that agree, the records and the entities, and on both
groups occurring. By `CapturedOf` a try past its `track()` has left a record of its own group as the
last of its entity, so no entity is without one, and as many records as entities are then one each
(`OneEach`); a backend that `track()` does not reach captures nothing, and the readout fails.

**CaseStudy_proofs.** `SetupsAreIdempotent`: what a script has learnt when it comes to a request
(`UnleashProtocol`, `GrowthBookProtocol`) stays true until it acts on it, as nobody else writes to the
server; a death between the two leaves no more than the next start finds. `SetupTypeCorrect`.
`NobodyLeaves` is about the ramp, for any regions, hash, shards and polls. It needs a reason why a
region is on v2 (`WhyOnV2`): it was asked before the client had fetched any stage, which the
property sets aside, or the client's present answer is v2; that reason survives a poll because what the
client holds is one of the stages begun and the stages grow (`ClientState`). `OnlyWidens` compares two
stages with the regions yet to be asked set aside, `ParityKept` and `Verdict` say what an ok is based on.
A second strategy, which a setup with an overlooked question may have left, lets in the same regions
throughout (`OthersStay`). `SetupOutlivesTheStudy`: the ramp overwrites the first strategy the setup left
and adds none.

**SystemTests_proofs.** Of the drivers, for any number of outages and attempts. A driver's place is
what its list of steps has left (`OnScript`), and lemmas say which step each place of each script is.
`CellsAreTheirRuns`: `CellInv` counts, by the place, how many subprocesses ran and how many
results were read (`Counted`), and says that a row about to be read is of this attempt
(`RowsAreFresh`); the property alone does not know that the row came from the last run.
`ExposuresAreOfTheLive`: past the in-house backend, whose factory alone cannot raise, whatever provider
is set when a backend begins has been checked (`Exposable`). `FailuresAreReal`: while nothing broke in
this attempt, each answer in hand, read back or on disk is the one its place calls for (`AllIsGood`),
which rests on the flag file and the container being as the place tells (`Machine`), not as the attempt
before left them; a verdict computed from such cells is ok.
The assumptions on the constants are that the drivers are those of the scripts, the two dags
are different, and that a missing row is not a row.

Of the canary, `RoutedRan`: every pod is of a routed dag or left over, so that equal numbers of pods
and routed dags are equal sets. It is about finite sets of dags of any size.
`TestsRunAlone`: a behaviour of the tests one at a time is, seen from each test, a behaviour of its own
specification, so that all of the above carries over (`TestsJudgeWell`). Two tests want the same port
(`matrix.py:36`, `measure_loop.py:49`): the container of a killed one is then, to the other, a container
that does not come up.

Only model-checked: the liveness properties `EvaluationsFinish`, `PlacementConverges` and `SensorPasses`,
for the prover has no rules for fairness and ENABLED; and the four runs that end in a counterexample.
Every other property of a run is also a theorem.

## Where the code and its documents differ

Four runs end in a counterexample to a sentence of the documentation; `PROJECT.json` quotes them.
More differences came up that no run is spent on: with two connections that declare a provider, the
last to register evaluates for both, because the SDK holds one provider (`OwnProviderAnswers` is about
one declaring connection); two threads on one GrowthBook client can be answered for each other's entity
(`About` of `Adapters` allows just that); an Unleash flag with variants and an enabled value whose variant
appears between the provider's two questions answers the enabled value, which it gives neither before
nor after (`TwoMoments`); a wrapper that is registered again shuts its provider down and keeps using it;
a `FeatureFlagSensor` with `expected=False`
passes on an outage or an unknown flag, because the default is `False`; and `emit_exposure` called by
a task does not test the listener's option. A missing connection is remembered by the hook, so that one
created later is not seen until the process ends. A context without targeting key, entity or id shares
the bucket of `__anonymous__`. The sensor buckets on `dag_id` and the policy on `dag_id:task_id`, so that
a percentage splits the two differently.

Of the system tests: the kill switch passes as well when flagd is out of reach at its second run, for an
outage and a flag that is off place alike. `run_all_backends` ends with "ALL BACKENDS" when some were
skipped. The canary counts every labelled pod, so that one left over can stand in for a missing one
(`RoutedTasksRan` sets those aside that lie outside the subset). A day with cancelled orders only is a
key of v1's rollup and none of v2's: the example's guardrail then trips though no number differs.
GrowthBook's setup, run again with another percentage, prints the new one and leaves the old one; and a
failed question for the organizations reads as none, so that a second one may be created, as does one
for the Unleash feature that is answered 400 or 409, after which a second strategy is added
(`SetupIsIdempotent` counts both); the case study then ramps the first of them alone. Statsig's readout
counts the calls of its log method, those that failed included. When the client has not polled before
the first stage and every region is on v2 by the setup's percentage, the case study's report divides by
zero.

## What is not modelled, and the plan

In this order:

1. The sensor over `Ramp`, with its own entity; switchback windows as another salt of the same hash.
2. The listener's metrics apart from its log line, and an option that does not parse, as failures of a
   pass and a record.
3. A refinement of `Placement` to an atomic placement per pass, for quiet passes.
4. `srm_check`'s integer cases.

Not planned: chi-square and the incomplete gamma function (floating point), the plugin and the
metadata (declarations), the quickstart and the other example DAGs (declarations and a demonstration on
top of what is modelled), `verify_examples_e2e.py` (calls the examples one by one), the scripts that draw
pictures and take screenshots, and the value syntax of Airflow's options. Of the system tests, timing,
wording and the contents of containers are left out.
