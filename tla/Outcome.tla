------------------------------ MODULE Outcome ------------------------------
(***************************************************************************)
(* Outcome tracking (measure.py): a task asks its flag, does the work of   *)
(* its group, and tells the outcome to the backend, a counter and a gauge. *)
(* Any of the three may fail; a task may be killed at any point and be     *)
(* tried again, when the flag may answer otherwise.  The measure loop      *)
(* (system_tests/measure_loop.py) reads the outcomes back.                 *)
(*                                                                         *)
(* A record is the try it was made in and the group it is tagged with; its *)
(* value is abstracted, except that there may be none, which only counts,  *)
(* or one that a gauge cannot hold.                                        *)
(***************************************************************************)
EXTENDS Naturals, Sequences, FiniteSets

CONSTANTS
    Entity,
    OutcomeBackend,  \* of flagd, statsig, growthbook (with on_track), inhouse
    Wrapped,         \* whether a ForkSafeProvider wraps the provider
    MaxTries,
    MaxFlagEdits

ASSUME OutcomeAssumption ==
    /\ IsFiniteSet(Entity)
    /\ Wrapped \in BOOLEAN
    /\ MaxTries \in Nat \ {0}
    /\ MaxFlagEdits \in Nat

Group == {"fastpath", "control"}
Idle == "idle"

VARIABLES
    kind,      \* the backend
    countOnly, \* whether the metric has no value
    fast,      \* per entity: what the flag answers
    flagEdits,
    step,      \* per entity: where do_work() and track_outcome() are
    try,       \* per entity: the try of its task
    group,     \* per entity: the local variable of do_work()
    events, counters, gauges,  \* per entity: the records of the three sinks
    calls,     \* per entity: the calls of the backend's log method, which the
               \* measure loop wraps to capture them
    broken,    \* per entity: the sinks that failed in this try (history)
    ran,       \* per entity: the groups its tries ran as, in order (history)
    readout

sinks == <<events, counters, gauges, calls>>
outcomeVars == <<kind, countOnly, fast, flagEdits, step, try, group, sinks, broken, ran, readout>>

Record == [try : 1..MaxTries, variant : Group]

OutcomeInit ==
    /\ kind \in OutcomeBackend
    /\ countOnly \in BOOLEAN
    /\ fast \in [Entity -> BOOLEAN]
    /\ flagEdits = 0
    /\ step = [e \in Entity |-> "work"]
    /\ try = [e \in Entity |-> 1]
    /\ group = [e \in Entity |-> Idle]
    /\ events = [e \in Entity |-> <<>>]
    /\ counters = [e \in Entity |-> <<>>]
    /\ gauges = [e \in Entity |-> <<>>]
    /\ calls = [e \in Entity |-> <<>>]
    /\ broken = [e \in Entity |-> {}]
    /\ ran = [e \in Entity |-> <<>>]
    /\ readout = "pending"

\* The providers that override track(); GrowthBook's needs on_track.
ImplementsTrack == kind \in {"statsig", "growthbook", "inhouse"}

\* ForkSafeProvider forwards the resolve methods and inherits a track() that
\* does nothing.
Reached == ImplementsTrack /\ ~Wrapped

Tagged(e, g) == [try |-> try[e], variant |-> g]
Log(sink, e, g) == [sink EXCEPT ![e] = Append(@, Tagged(e, g))]
Goto(e, s) == step' = [step EXCEPT ![e] = s]

-----------------------------------------------------------------------------
\* do_work(): the flag is asked once; its answer picks the work and the tag.
DoWork(e) ==
    /\ step[e] = "work"
    /\ LET g == IF fast[e] THEN "fastpath" ELSE "control"
       IN  /\ group' = [group EXCEPT ![e] = g]
           /\ ran' = [ran EXCEPT ![e] = Append(@, g)]
    /\ Goto(e, "track")
    /\ UNCHANGED <<kind, countOnly, fast, flagEdits, try, sinks, broken, readout>>

\* Mutant: the group is looked up again, as the exposure listener does.
TrackAsksAgain(e) ==
    /\ step[e] = "track"
    /\ events' = IF Reached THEN Log(events, e, IF fast[e] THEN "fastpath" ELSE "control")
                 ELSE events
    /\ Goto(e, "count")
    /\ UNCHANGED <<kind, countOnly, fast, flagEdits, try, group, counters, gauges, calls, broken, ran, readout>>

\* The provider's own track(), and what it does with an SDK that raises: it
\* swallows the exception.  The in-house list cannot fail.
ProviderTrack(e) ==
    \/ /\ events' = Log(events, e, group[e])
       /\ UNCHANGED broken
    \/ /\ kind # "inhouse"
       /\ broken' = [broken EXCEPT ![e] = @ \cup {"backend"}]
       /\ UNCHANGED events

\* Mutant: the metric is emitted inside the try block of the backend's call.
TrackInOneTry(e) ==
    /\ step[e] = "track"
    /\ IF Reached
       THEN /\ ProviderTrack(e)
            /\ Goto(e, IF "backend" \in broken'[e] THEN "done" ELSE "count")
       ELSE Goto(e, "count") /\ UNCHANGED <<events, broken>>
    /\ UNCHANGED <<kind, countOnly, fast, flagEdits, try, group, counters, gauges, calls, ran, readout>>

\* api.get_client().track(); the base class does nothing.
Track(e) ==
    /\ step[e] = "track"
    /\ IF Reached
       THEN ProviderTrack(e) /\ calls' = Log(calls, e, group[e])
       ELSE UNCHANGED <<events, broken, calls>>
    /\ Goto(e, "count")
    /\ UNCHANGED <<kind, countOnly, fast, flagEdits, try, group, counters, gauges, ran, readout>>

\* Stats.incr(); when it raises, the gauge is left out too.
Count(e) ==
    /\ step[e] = "count"
    /\ \/ /\ counters' = Log(counters, e, group[e])
          /\ Goto(e, "gauge")
          /\ UNCHANGED broken
       \/ /\ broken' = [broken EXCEPT ![e] = @ \cup {"counter"}]
          /\ Goto(e, "done")
          /\ UNCHANGED counters
    /\ UNCHANGED <<kind, countOnly, fast, flagEdits, try, group, events, gauges, calls, ran, readout>>

\* Stats.gauge(), of a metric that has a value; float(value) raises when that
\* is no number.
Gauge(e) ==
    /\ step[e] = "gauge"
    /\ \/ countOnly /\ UNCHANGED <<gauges, broken>>
       \/ ~countOnly /\ gauges' = Log(gauges, e, group[e]) /\ UNCHANGED broken
       \/ ~countOnly /\ broken' = [broken EXCEPT ![e] = @ \cup {"gauge"}] /\ UNCHANGED gauges
    /\ Goto(e, "done")
    /\ UNCHANGED <<kind, countOnly, fast, flagEdits, try, group, events, counters, calls,
                   ran, readout>>

-----------------------------------------------------------------------------
\* The task is killed, or fails later, and Airflow tries it again.
Retry(e) ==
    /\ step[e] # "work" /\ readout = "pending"
    /\ try[e] < MaxTries
    /\ try' = [try EXCEPT ![e] = @ + 1]
    /\ group' = [group EXCEPT ![e] = Idle]
    /\ broken' = [broken EXCEPT ![e] = {}]
    /\ Goto(e, "work")
    /\ UNCHANGED <<kind, countOnly, fast, flagEdits, sinks, ran, readout>>

EditOutcomeFlag(e) ==
    /\ flagEdits < MaxFlagEdits
    /\ flagEdits' = flagEdits + 1
    /\ fast' = [fast EXCEPT ![e] = ~@]
    /\ UNCHANGED <<kind, countOnly, step, try, group, sinks, broken, ran, readout>>

\* What the loop captured: Statsig's log calls, the in-house export list.
Captured == IF kind = "statsig" THEN calls ELSE events

\* Both groups are there; whether the fast one was faster is the clock's say.
HasLift == \A g \in Group : \E e \in Entity : \E i \in DOMAIN Captured[e] : Captured[e][i].variant = g

\* Mutant: the samples are not counted.
ReadUncounted ==
    /\ readout = "pending"
    /\ kind \in {"statsig", "inhouse"} /\ ~countOnly
    /\ \A e \in Entity : step[e] = "done"
    /\ readout' \in {"failed", IF HasLift THEN "ok" ELSE "failed"}
    /\ UNCHANGED <<kind, countOnly, fast, flagEdits, step, try, group, sinks, broken, ran>>

\* run_statsig(), run_inhouse(): a lift, from as many samples as entities.
\* The loop's metric has a value.
ReadBackOutcomes ==
    /\ readout = "pending"
    /\ kind \in {"statsig", "inhouse"} /\ ~countOnly
    /\ \A e \in Entity : step[e] = "done"
    /\ readout' \in {"failed",
                     IF HasLift /\ Cardinality(UNION {{<<e, i>> : i \in DOMAIN Captured[e]} : e \in Entity})
                                   = Cardinality(Entity)
                     THEN "ok" ELSE "failed"}
    /\ UNCHANGED <<kind, countOnly, fast, flagEdits, step, try, group, sinks, broken, ran>>

OutcomeNext ==
    \/ \E e \in Entity : DoWork(e) \/ Track(e) \/ Count(e) \/ Gauge(e)
                         \/ Retry(e) \/ EditOutcomeFlag(e)
    \/ ReadBackOutcomes

OutcomeSpec == OutcomeInit /\ [][OutcomeNext]_outcomeVars

-----------------------------------------------------------------------------
(* Properties.                                                             *)

OutcomeTypeOK ==
    /\ step \in [Entity -> {"work", "track", "count", "gauge", "done"}]
    /\ try \in [Entity -> 1..MaxTries]
    /\ group \in [Entity -> Group \cup {Idle}]
    /\ events \in [Entity -> Seq(Record)]
    /\ counters \in [Entity -> Seq(Record)]
    /\ gauges \in [Entity -> Seq(Record)]
    /\ calls \in [Entity -> Seq(Record)]
    /\ ran \in [Entity -> Seq(Group)]
    /\ broken \in [Entity -> SUBSET {"backend", "counter", "gauge"}]
    /\ fast \in [Entity -> BOOLEAN] /\ countOnly \in BOOLEAN

RightlyTagged(e, records) ==
    \A i \in DOMAIN records :
        records[i].try \in DOMAIN ran[e] /\ records[i].variant = ran[e][records[i].try]

\* Every outcome, in every sink, carries the group its own try ran as,
\* whatever is edited between the work and the record, and whatever the task's
\* other tries ran as (measure.py:3, "tagged with its group").
OutcomesCarryTheirGroup ==
    \A e \in Entity : \A records \in {events[e], counters[e], gauges[e]} : RightlyTagged(e, records)

CurrentTryIn(e, records) ==
    records # <<>> /\ records[Len(records)].try = try[e]

\* A try leaves at most one record in a sink; one that finished left its
\* counter and, of a value, its gauge whenever these work, whatever became of
\* the backend's call; and no gauge is set without its counter, nor for a metric
\* without a value (measure.py:24, "the metric below still lands").
MetricStillLands ==
    \A e \in Entity :
        /\ \A records \in {events[e], counters[e], gauges[e]} :
            \A i, j \in DOMAIN records : i < j => records[i].try < records[j].try
        /\ step[e] = "done" =>
            /\ "counter" \in broken[e] \/ CurrentTryIn(e, counters[e])
            /\ countOnly \/ broken[e] \cap {"counter", "gauge"} # {} \/ CurrentTryIn(e, gauges[e])
        /\ \A i \in DOMAIN gauges[e] :
            ~countOnly /\ \E j \in DOMAIN counters[e] : counters[e][j] = gauges[e][i]

\* A measure loop that passes read exactly one outcome per entity, of the group
\* the entity ran as last, and of both groups.
ReadoutIsHonest ==
    readout = "ok" =>
        /\ \A e \in Entity : Len(Captured[e]) = 1 /\ Captured[e][1].variant = group[e]
        /\ {group[e] : e \in Entity} = Group

\* measure.py:5 and docs/measurement.md:14: "any backend that implements
\* track() receives the outcome", unless its SDK fails.
TrackingBackendReceives ==
    \A e \in Entity :
        step[e] = "done" /\ ImplementsTrack /\ "backend" \notin broken[e]
            => CurrentTryIn(e, events[e])
=============================================================================
