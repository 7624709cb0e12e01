--------------------------- MODULE Outcome_proofs ---------------------------
(***************************************************************************)
(* Theorems about Outcome, for any entities, tries and flag edits.         *)
(***************************************************************************)
EXTENDS Outcome, FunctionTheorems, FiniteSetTheorems, TLAPS

\* What an appended record adds to a sequence.
LEMMA Appended ==
    ASSUME NEW S, NEW s \in Seq(S), NEW x \in S
    PROVE  /\ Append(s, x) \in Seq(S)
           /\ Len(Append(s, x)) = Len(s) + 1
           /\ DOMAIN Append(s, x) = 1..(Len(s) + 1)
           /\ \A i \in 1..Len(s) : Append(s, x)[i] = s[i]
           /\ Append(s, x)[Len(s) + 1] = x
    OBVIOUS

\* Every action leaves the types; the length of ran follows the tries, and a
\* local variable that is yet to be used holds what this try ran as.
Working(e) == step[e] \in {"track", "count", "gauge"}

TryProtocol ==
    \A e \in Entity :
        /\ Len(ran[e]) = IF step[e] = "work" THEN try[e] - 1 ELSE try[e]
        /\ Working(e) => group[e] = ran[e][try[e]]

TypeInv == OutcomeTypeOK

LEMMA TypeInit == OutcomeInit => TypeInv
BY OutcomeAssumption DEF OutcomeInit, TypeInv, OutcomeTypeOK, Group, Record

LEMMA TaggedIsRecord ==
    ASSUME TypeInv, NEW e \in Entity, NEW g \in Group
    PROVE  Tagged(e, g) \in Record
BY DEF TypeInv, OutcomeTypeOK, Tagged, Record

LEMMA LogKeepsType ==
    ASSUME NEW sink \in [Entity -> Seq(Record)], TypeInv, NEW e \in Entity, NEW g \in Group
    PROVE  Log(sink, e, g) \in [Entity -> Seq(Record)]
<1>1. Append(sink[e], Tagged(e, g)) \in Seq(Record)
    BY TaggedIsRecord
<1> QED BY <1>1 DEF Log

\* The group in hand is one of the two while a try is at work.
LEMMA WorkingGroup ==
    ASSUME TypeInv, TryProtocol, NEW e \in Entity, Working(e)
    PROVE  group[e] \in Group
<1>1. Len(ran[e]) = try[e] /\ group[e] = ran[e][try[e]]
    BY DEF TryProtocol, Working
<1>2. ran[e] \in Seq(Group) /\ try[e] \in 1..MaxTries
    BY DEF TypeInv, OutcomeTypeOK
<1> QED BY <1>1, <1>2

\* A sink that broke is added to those that broke in this try.
Broke(e, what) == [broken EXCEPT ![e] = @ \cup {what}]

LEMMA BrokeKeepsType ==
    ASSUME TypeInv, NEW e \in Entity, NEW what \in {"backend", "counter", "gauge"}
    PROVE  Broke(e, what) \in [Entity -> SUBSET {"backend", "counter", "gauge"}]
<1>1. broken \in [Entity -> SUBSET {"backend", "counter", "gauge"}]
    BY DEF TypeInv, OutcomeTypeOK
<1>2. broken[e] \cup {what} \in SUBSET {"backend", "counter", "gauge"}
    BY <1>1
<1> QED BY <1>1, <1>2 DEF Broke

LEMMA GotoKeepsType ==
    ASSUME TypeInv, NEW e \in Entity,
           NEW s \in {"work", "track", "count", "gauge", "done"}, Goto(e, s)
    PROVE  step' \in [Entity -> {"work", "track", "count", "gauge", "done"}]
BY DEF TypeInv, OutcomeTypeOK, Goto

LEMMA TypeStep ==
    ASSUME TypeInv, TryProtocol, [OutcomeNext]_outcomeVars
    PROVE  TypeInv'
<1>1. ASSUME NEW e \in Entity, DoWork(e) PROVE TypeInv'
    <2>1. PICK g \in Group : /\ group' = [group EXCEPT ![e] = g]
                             /\ ran' = [ran EXCEPT ![e] = Append(@, g)]
        BY <1>1 DEF DoWork, Group
    <2>2. ran' \in [Entity -> Seq(Group)] /\ group' \in [Entity -> Group \cup {Idle}]
        BY <2>1 DEF TypeInv, OutcomeTypeOK
    <2>3. step' \in [Entity -> {"work", "track", "count", "gauge", "done"}]
        BY <1>1, GotoKeepsType DEF DoWork
    <2>4. UNCHANGED <<countOnly, fast, try, events, counters, gauges, calls, broken>>
        BY <1>1 DEF DoWork, sinks
    <2> QED BY <2>2, <2>3, <2>4 DEF TypeInv, OutcomeTypeOK
<1>2. ASSUME NEW e \in Entity, Track(e) PROVE TypeInv'
    <2>1. group[e] \in Group
        BY <1>2, WorkingGroup DEF Track, Working
    <2>2. /\ events' = events \/ events' = Log(events, e, group[e])
          /\ calls' = calls \/ calls' = Log(calls, e, group[e])
          /\ broken' = broken \/ broken' = Broke(e, "backend")
          /\ Goto(e, "count")
          /\ UNCHANGED <<countOnly, fast, try, group, counters, gauges, ran>>
        BY <1>2 DEF Track, ProviderTrack, Broke
    <2>3. events \in [Entity -> Seq(Record)] /\ calls \in [Entity -> Seq(Record)]
        BY DEF TypeInv, OutcomeTypeOK
    <2>4. /\ Log(events, e, group[e]) \in [Entity -> Seq(Record)]
          /\ Log(calls, e, group[e]) \in [Entity -> Seq(Record)]
        BY <2>1, <2>3, LogKeepsType
    <2>5. Broke(e, "backend") \in [Entity -> SUBSET {"backend", "counter", "gauge"}]
        BY BrokeKeepsType
    <2>6. step' \in [Entity -> {"work", "track", "count", "gauge", "done"}]
        BY <2>2, GotoKeepsType
    <2> QED BY <2>2, <2>4, <2>5, <2>6 DEF TypeInv, OutcomeTypeOK
<1>3. ASSUME NEW e \in Entity, Count(e) PROVE TypeInv'
    <2>1. group[e] \in Group
        BY <1>3, WorkingGroup DEF Count, Working
    <2>2. /\ counters' = counters \/ counters' = Log(counters, e, group[e])
          /\ broken' = broken \/ broken' = Broke(e, "counter")
          /\ Goto(e, "gauge") \/ Goto(e, "done")
          /\ UNCHANGED <<countOnly, fast, try, group, events, gauges, calls, ran>>
        BY <1>3 DEF Count, Broke
    <2>3. counters \in [Entity -> Seq(Record)]
        BY DEF TypeInv, OutcomeTypeOK
    <2>4. Log(counters, e, group[e]) \in [Entity -> Seq(Record)]
        BY <2>1, <2>3, LogKeepsType
    <2>5. Broke(e, "counter") \in [Entity -> SUBSET {"backend", "counter", "gauge"}]
        BY BrokeKeepsType
    <2>6. step' \in [Entity -> {"work", "track", "count", "gauge", "done"}]
        BY <2>2, GotoKeepsType
    <2> QED BY <2>2, <2>4, <2>5, <2>6 DEF TypeInv, OutcomeTypeOK
<1>4. ASSUME NEW e \in Entity, Gauge(e) PROVE TypeInv'
    <2>1. group[e] \in Group
        BY <1>4, WorkingGroup DEF Gauge, Working
    <2>2. /\ gauges' = gauges \/ gauges' = Log(gauges, e, group[e])
          /\ broken' = broken \/ broken' = Broke(e, "gauge")
          /\ Goto(e, "done")
          /\ UNCHANGED <<countOnly, fast, try, group, events, counters, calls, ran>>
        BY <1>4 DEF Gauge, Broke
    <2>3. gauges \in [Entity -> Seq(Record)]
        BY DEF TypeInv, OutcomeTypeOK
    <2>4. Log(gauges, e, group[e]) \in [Entity -> Seq(Record)]
        BY <2>1, <2>3, LogKeepsType
    <2>5. Broke(e, "gauge") \in [Entity -> SUBSET {"backend", "counter", "gauge"}]
        BY BrokeKeepsType
    <2>6. step' \in [Entity -> {"work", "track", "count", "gauge", "done"}]
        BY <2>2, GotoKeepsType
    <2> QED BY <2>2, <2>4, <2>5, <2>6 DEF TypeInv, OutcomeTypeOK
<1>5. ASSUME NEW e \in Entity, Retry(e) PROVE TypeInv'
    <2>1. step' \in [Entity -> {"work", "track", "count", "gauge", "done"}]
        BY <1>5, GotoKeepsType DEF Retry
    <2>2. /\ try' \in [Entity -> 1..MaxTries]
          /\ group' \in [Entity -> Group \cup {Idle}]
        BY <1>5, OutcomeAssumption DEF Retry, TypeInv, OutcomeTypeOK
    <2>3. broken' \in [Entity -> SUBSET {"backend", "counter", "gauge"}]
        BY <1>5 DEF Retry, TypeInv, OutcomeTypeOK
    <2>4. UNCHANGED <<countOnly, fast, events, counters, gauges, calls, ran>>
        BY <1>5 DEF Retry, sinks
    <2> QED BY <2>1, <2>2, <2>3, <2>4 DEF TypeInv, OutcomeTypeOK
<1>6. ASSUME NEW e \in Entity, EditOutcomeFlag(e) PROVE TypeInv'
    BY <1>6 DEF EditOutcomeFlag, sinks, TypeInv, OutcomeTypeOK
<1>7. CASE UNCHANGED <<countOnly, fast, step, try, group, sinks, broken, ran>>
    BY <1>7 DEF sinks, TypeInv, OutcomeTypeOK
<1> QED BY <1>1, <1>2, <1>3, <1>4, <1>5, <1>6, <1>7
        DEF OutcomeNext, ReadBackOutcomes, outcomeVars

LEMMA ProtocolStep ==
    ASSUME TypeInv, TryProtocol, [OutcomeNext]_outcomeVars
    PROVE  TryProtocol'
<1> USE DEF TypeInv, OutcomeTypeOK, TryProtocol, Working
<1>1. ASSUME NEW e \in Entity, DoWork(e) PROVE TryProtocol'
    <2>1. PICK g \in Group : /\ group' = [group EXCEPT ![e] = g]
                             /\ ran' = [ran EXCEPT ![e] = Append(@, g)]
        BY <1>1 DEF DoWork, Group
    <2>2. /\ Len(ran'[e]) = Len(ran[e]) + 1
          /\ ran'[e][Len(ran[e]) + 1] = g
        BY <2>1, Appended
    <2>3. Len(ran[e]) + 1 = try[e] /\ step' = [step EXCEPT ![e] = "track"] /\ try' = try
        BY <1>1 DEF DoWork, Goto
    <2> QED BY <2>1, <2>2, <2>3
<1>2. ASSUME NEW e \in Entity, Track(e) \/ Count(e) \/ Gauge(e) PROVE TryProtocol'
    <2>1. step[e] \in {"track", "count", "gauge"} /\ UNCHANGED <<ran, try, group>>
        BY <1>2 DEF Track, Count, Gauge
    <2>2. \E to \in {"count", "gauge", "done"} : step' = [step EXCEPT ![e] = to]
        BY <1>2 DEF Track, Count, Gauge, Goto
    <2> QED BY <2>1, <2>2
<1>3. ASSUME NEW e \in Entity, Retry(e) PROVE TryProtocol'
    BY <1>3 DEF Retry, Goto
<1>4. CASE UNCHANGED <<step, try, group, ran>>
    BY <1>4
<1> QED BY <1>1, <1>2, <1>3, <1>4
        DEF OutcomeNext, EditOutcomeFlag, ReadBackOutcomes, outcomeVars

\* What becomes of the three sinks in a step: one of them may gain a record of
\* the try and group in hand.
Gains(sink, sinkNext) ==
    \/ sinkNext = sink
    \/ \E e \in Entity : Working(e) /\ sinkNext = Log(sink, e, group[e])

LEMMA SinksGain ==
    ASSUME [OutcomeNext]_outcomeVars
    PROVE  Gains(events, events') /\ Gains(counters, counters') /\ Gains(gauges, gauges')
BY DEF Gains, Working, OutcomeNext, DoWork, Track, ProviderTrack, Count, Gauge, Retry,
       EditOutcomeFlag, ReadBackOutcomes, outcomeVars, sinks

\* What a try ran as is never rewritten.
LEMMA RanGrows ==
    ASSUME TypeInv, [OutcomeNext]_outcomeVars, NEW e \in Entity, NEW k \in DOMAIN ran[e]
    PROVE  k \in DOMAIN ran'[e] /\ ran'[e][k] = ran[e][k]
<1>1. ran' = ran \/ \E f \in Entity, g \in Group : ran' = [ran EXCEPT ![f] = Append(@, g)]
    BY DEF OutcomeNext, DoWork, Track, Count, Gauge, Retry, EditOutcomeFlag,
           ReadBackOutcomes, outcomeVars, Group
<1>2. ran \in [Entity -> Seq(Group)]
    BY DEF TypeInv, OutcomeTypeOK
<1>3. ASSUME NEW f \in Entity, NEW g \in Group, ran' = [ran EXCEPT ![f] = Append(@, g)]
      PROVE  k \in DOMAIN ran'[e] /\ ran'[e][k] = ran[e][k]
    <2>1. CASE f = e
        <3>1. ran'[e] = Append(ran[e], g) /\ ran[e] \in Seq(Group)
            BY <1>2, <1>3, <2>1
        <3>2. DOMAIN ran[e] = 1..Len(ran[e])
            BY <3>1
        <3> QED BY <3>1, <3>2, Appended
    <2>2. CASE f # e
        BY <1>2, <1>3, <2>2
    <2> QED BY <2>1, <2>2
<1> QED BY <1>1, <1>3

\* The invariant of one sink, over a step.
TaggedNext(e, records) ==
    \A i \in DOMAIN records :
        records[i].try \in DOMAIN ran'[e] /\ records[i].variant = ran'[e][records[i].try]

LEMMA SinkStep ==
    ASSUME TypeInv, TryProtocol, [OutcomeNext]_outcomeVars,
           NEW sink \in [Entity -> Seq(Record)], NEW sinkNext, Gains(sink, sinkNext),
           NEW e \in Entity, RightlyTagged(e, sink[e])
    PROVE  TaggedNext(e, sinkNext[e])
<1> SUFFICES ASSUME NEW i \in DOMAIN sinkNext[e]
             PROVE  /\ sinkNext[e][i].try \in DOMAIN ran'[e]
                    /\ sinkNext[e][i].variant = ran'[e][sinkNext[e][i].try]
    BY DEF TaggedNext
<1>1. CASE i \in DOMAIN sink[e] /\ sinkNext[e][i] = sink[e][i]
    BY <1>1, RanGrows DEF RightlyTagged
<1>2. CASE Working(e) /\ sinkNext = Log(sink, e, group[e]) /\ i = Len(sink[e]) + 1
    <2>1. group[e] \in Group /\ Tagged(e, group[e]) \in Record
        BY <1>2, WorkingGroup, TaggedIsRecord
    <2>2. sinkNext[e][i] = Tagged(e, group[e])
        BY <1>2, <2>1, Appended DEF Log
    <2>3. try[e] \in DOMAIN ran[e] /\ group[e] = ran[e][try[e]]
        BY <1>2 DEF TryProtocol, Working, TypeInv, OutcomeTypeOK
    <2> QED BY <2>2, <2>3, RanGrows DEF Tagged
<1>3. \/ i \in DOMAIN sink[e] /\ sinkNext[e][i] = sink[e][i]
      \/ Working(e) /\ sinkNext = Log(sink, e, group[e]) /\ i = Len(sink[e]) + 1
    <2>1. CASE sinkNext = sink
        BY <2>1
    <2>2. ASSUME NEW f \in Entity, Working(f), sinkNext = Log(sink, f, group[f])
          PROVE  \/ i \in DOMAIN sink[e] /\ sinkNext[e][i] = sink[e][i]
                 \/ Working(e) /\ sinkNext = Log(sink, e, group[e]) /\ i = Len(sink[e]) + 1
        <3>1. Tagged(f, group[f]) \in Record
            BY <2>2, WorkingGroup, TaggedIsRecord
        <3>2. CASE f # e
            BY <2>2, <3>2 DEF Log
        <3>3. CASE f = e
            <4>1. sinkNext[e] = Append(sink[e], Tagged(e, group[e]))
                BY <2>2, <3>3 DEF Log
            <4> QED BY <2>2, <3>1, <3>3, <4>1, Appended
        <3> QED BY <3>2, <3>3
    <2> QED BY <2>1, <2>2 DEF Gains
<1> QED BY <1>1, <1>2, <1>3

TagInv == TypeInv /\ TryProtocol /\ OutcomesCarryTheirGroup

\* Every outcome carries the group its own try ran as, for any interleaving of
\* tasks, retries, flag edits and failing sinks.
THEOREM OutcomesTagged == OutcomeSpec => []OutcomesCarryTheirGroup
<1>1. OutcomeInit => TagInv
    BY TypeInit, OutcomeAssumption
       DEF TagInv, OutcomeInit, TryProtocol, Working, OutcomesCarryTheirGroup, RightlyTagged
<1>2. TagInv /\ [OutcomeNext]_outcomeVars => TagInv'
    <2> SUFFICES ASSUME TagInv, [OutcomeNext]_outcomeVars PROVE TagInv'
        OBVIOUS
    <2> USE DEF TagInv
    <2>0. Gains(events, events') /\ Gains(counters, counters') /\ Gains(gauges, gauges')
        BY SinksGain
    <2>1. TypeInv' /\ TryProtocol'
        BY TypeStep, ProtocolStep
    <2>2. ASSUME NEW e \in Entity
          PROVE  RightlyTagged(e, events[e])' /\ RightlyTagged(e, counters[e])'
                 /\ RightlyTagged(e, gauges[e])'
        <3>1. /\ events \in [Entity -> Seq(Record)] /\ RightlyTagged(e, events[e])
              /\ counters \in [Entity -> Seq(Record)] /\ RightlyTagged(e, counters[e])
              /\ gauges \in [Entity -> Seq(Record)] /\ RightlyTagged(e, gauges[e])
            BY DEF OutcomesCarryTheirGroup, TypeInv, OutcomeTypeOK
        <3>2. TaggedNext(e, events'[e])
            BY <3>1, <2>0, SinkStep
        <3>3. TaggedNext(e, counters'[e])
            BY <3>1, <2>0, SinkStep
        <3>4. TaggedNext(e, gauges'[e])
            BY <3>1, <2>0, SinkStep
        <3> QED BY <3>2, <3>3, <3>4 DEF RightlyTagged, TaggedNext
    <2> QED BY <2>1, <2>2 DEF OutcomesCarryTheirGroup
<1>3. TagInv => OutcomesCarryTheirGroup
    BY DEF TagInv
<1> QED BY <1>1, <1>2, <1>3, PTL DEF OutcomeSpec

-----------------------------------------------------------------------------
(* The metric lands.  What holds of an entity is stated of its values, so  *)
(* that a step of another entity leaves it by equality alone.              *)

\* The tries of a sink's records grow, and are below n.
Below(records, n) ==
    /\ \A i, j \in DOMAIN records : i < j => records[i].try < records[j].try
    /\ \A i \in DOMAIN records : records[i].try < n

Ends(records, r) == records # <<>> /\ records[Len(records)] = r
EndsTry(records, t) == records # <<>> /\ records[Len(records)].try = t
Covered(gs, cs) == \A i \in DOMAIN gs : \E j \in DOMAIN cs : cs[j] = gs[i]

\* A try's record is not yet in a sink that its step has not come to; a gauge
\* comes after its counter, and only of a value.
LandsOf(ev, co, ga, st, t, r, b, only) ==
    /\ st \in {"work", "track"} => Below(ev, t)
    /\ st \notin {"work", "track"} => Below(ev, t + 1)
    /\ st \in {"work", "track", "count"} => Below(co, t)
    /\ st \notin {"work", "track", "count"} => Below(co, t + 1)
    /\ st # "done" => Below(ga, t)
    /\ st = "done" => Below(ga, t + 1)
    /\ st = "gauge" => Ends(co, r)
    /\ st = "done" =>
        /\ "counter" \in b \/ EndsTry(co, t)
        /\ only \/ "counter" \in b \/ "gauge" \in b \/ EndsTry(ga, t)
    /\ Covered(ga, co)
    /\ only => ga = <<>>

Lands(e) ==
    LandsOf(events[e], counters[e], gauges[e], step[e], try[e], Tagged(e, group[e]), broken[e],
            countOnly)

\* The try of a record is a number.
LEMMA TriesAreNumbers ==
    ASSUME NEW s \in Seq(Record), NEW i \in DOMAIN s
    PROVE  s[i].try \in Nat
<1>1. s[i] \in Record
    OBVIOUS
<1>2. \A r \in Record : r.try \in 1..MaxTries
    BY DEF Record
<1> QED BY <1>1, <1>2

LEMMA BelowMore ==
    ASSUME NEW s \in Seq(Record), NEW n \in Nat, Below(s, n)
    PROVE  Below(s, n + 1)
<1>1. \A i \in DOMAIN s : s[i].try \in Nat
    BY TriesAreNumbers
<1> QED BY <1>1 DEF Below

LEMMA BelowAppend ==
    ASSUME NEW s \in Seq(Record), NEW n \in Nat, Below(s, n), NEW r \in Record, r.try = n
    PROVE  Below(Append(s, r), n + 1) /\ Ends(Append(s, r), r)
<1> DEFINE t == Append(s, r)
<1>1. /\ t \in Seq(Record) /\ Len(t) = Len(s) + 1 /\ DOMAIN t = 1..(Len(s) + 1)
      /\ \A i \in 1..Len(s) : t[i] = s[i]
      /\ t[Len(s) + 1] = r
    BY Appended
<1>2. Len(s) \in Nat /\ DOMAIN s = 1..Len(s)
    OBVIOUS
<1>3. \A i \in DOMAIN s : s[i].try \in Nat
    BY TriesAreNumbers
<1> HIDE DEF t
<1>4. ASSUME NEW i \in DOMAIN t PROVE t[i].try < n + 1 /\ (i # Len(s) + 1 => t[i].try < n)
    BY <1>1, <1>2, <1>3 DEF Below
<1>5. ASSUME NEW i \in DOMAIN t, NEW j \in DOMAIN t, i < j PROVE t[i].try < t[j].try
    <2>1. CASE j = Len(s) + 1
        BY <1>1, <1>2, <1>4, <1>5, <2>1
    <2>2. CASE j # Len(s) + 1
        BY <1>1, <1>2, <1>5, <2>2 DEF Below
    <2> QED BY <2>1, <2>2
<1>6. Ends(t, r)
    BY <1>1, <1>2 DEF Ends
<1>7. Below(t, n + 1)
    BY <1>4, <1>5 DEF Below
<1> QED BY <1>6, <1>7 DEF t

LEMMA CoveredAppend ==
    ASSUME NEW ga \in Seq(Record), NEW co \in Seq(Record), Covered(ga, co), NEW r \in Record
    PROVE  /\ Covered(ga, Append(co, r))
           /\ Ends(co, r) => Covered(Append(ga, r), co)
<1>1. Covered(ga, Append(co, r))
    BY Appended DEF Covered
<1>2. ASSUME Ends(co, r) PROVE Covered(Append(ga, r), co)
    <2>1. Len(co) \in DOMAIN co /\ co[Len(co)] = r
        BY <1>2 DEF Ends
    <2>2. ASSUME NEW i \in DOMAIN Append(ga, r)
          PROVE  \E j \in DOMAIN co : co[j] = Append(ga, r)[i]
        <3>1. CASE i = Len(ga) + 1
            BY <2>1, <3>1, Appended
        <3>2. CASE i # Len(ga) + 1
            <4>1. i \in DOMAIN ga /\ Append(ga, r)[i] = ga[i]
                BY <2>2, <3>2, Appended
            <4> QED BY <4>1 DEF Covered
        <3> QED BY <3>1, <3>2
    <2> QED BY <2>2 DEF Covered
<1> QED BY <1>1, <1>2

LEMMA LandsStep ==
    ASSUME TypeInv, TryProtocol, [OutcomeNext]_outcomeVars, NEW e \in Entity, Lands(e)
    PROVE  Lands(e)'
<1> DEFINE r == Tagged(e, group[e])
           same == UNCHANGED <<events, counters, gauges, step, try, group, broken, countOnly>>
<1>t. /\ events[e] \in Seq(Record) /\ counters[e] \in Seq(Record) /\ gauges[e] \in Seq(Record)
      /\ try[e] \in Nat
    BY OutcomeAssumption DEF TypeInv, OutcomeTypeOK
<1>1. ASSUME NEW f \in Entity, DoWork(f) PROVE Lands(e)'
    <2>1. UNCHANGED <<events, counters, gauges, try, broken, countOnly>>
        BY <1>1 DEF DoWork, sinks
    <2>2. CASE f = e
        <3>1. step[e] = "work" /\ step'[e] = "track"
            BY <1>1, <2>2 DEF DoWork, Goto, TypeInv, OutcomeTypeOK
        <3> QED BY <2>1, <3>1 DEF Lands, LandsOf
    <2>3. CASE f # e
        <3>1. step'[e] = step[e] /\ group'[e] = group[e]
            BY <1>1, <2>3 DEF DoWork, Goto, TypeInv, OutcomeTypeOK
        <3> QED BY <2>1, <3>1 DEF Lands, Tagged
    <2> QED BY <2>2, <2>3
<1>2. ASSUME NEW f \in Entity, Track(f) PROVE Lands(e)'
    <2>1. UNCHANGED <<counters, gauges, try, group, countOnly>>
        BY <1>2 DEF Track
    <2>2. CASE f = e
        <3>1. step[e] = "track" /\ step'[e] = "count"
            BY <1>2, <2>2 DEF Track, Goto, TypeInv, OutcomeTypeOK
        <3>2. r \in Record /\ r.try = try[e]
            BY <3>1, WorkingGroup, TaggedIsRecord DEF Working, Tagged
        <3>3. events'[e] = events[e] \/ events'[e] = Append(events[e], r)
            BY <1>2, <2>2 DEF Track, ProviderTrack, Log, TypeInv, OutcomeTypeOK
        <3>4. Below(events[e], try[e])
            BY <3>1 DEF Lands, LandsOf
        <3>5. Below(events[e], try[e] + 1) /\ Below(Append(events[e], r), try[e] + 1)
            BY <1>t, <3>2, <3>4, BelowMore, BelowAppend
        <3>6. Below(events'[e], try[e] + 1)
            BY <3>3, <3>5
        <3> QED BY <2>1, <3>1, <3>6 DEF Lands, LandsOf
    <2>3. CASE f # e
        <3>1. step'[e] = step[e] /\ events'[e] = events[e] /\ broken'[e] = broken[e]
            BY <1>2, <2>3 DEF Track, ProviderTrack, Log, Goto, TypeInv, OutcomeTypeOK
        <3> QED BY <2>1, <3>1 DEF Lands, Tagged
    <2> QED BY <2>2, <2>3
<1>3. ASSUME NEW f \in Entity, Count(f) PROVE Lands(e)'
    <2>1. UNCHANGED <<events, gauges, try, group, countOnly>>
        BY <1>3 DEF Count
    <2>2. CASE f = e
        <3>1. step[e] = "count"
            BY <1>3, <2>2 DEF Count
        <3>2. r \in Record /\ r.try = try[e]
            BY <3>1, WorkingGroup, TaggedIsRecord DEF Working, Tagged
        <3>3. /\ Below(counters[e], try[e]) /\ Below(gauges[e], try[e])
              /\ Below(events[e], try[e] + 1) /\ Covered(gauges[e], counters[e])
            BY <3>1 DEF Lands, LandsOf
        <3>4. /\ Below(counters[e], try[e] + 1) /\ Below(gauges[e], try[e] + 1)
              /\ Below(Append(counters[e], r), try[e] + 1) /\ Ends(Append(counters[e], r), r)
              /\ Covered(gauges[e], Append(counters[e], r))
            BY <1>t, <3>2, <3>3, BelowMore, BelowAppend, CoveredAppend
        <3>5. CASE counters' = Log(counters, e, group[e]) /\ Goto(e, "gauge")
            <4>1. counters'[e] = Append(counters[e], r) /\ step'[e] = "gauge"
                BY <3>5 DEF Log, Goto, TypeInv, OutcomeTypeOK
            <4>2. Tagged(e, group[e])' = r
                BY <2>1 DEF Tagged
            <4> QED BY <2>1, <3>3, <3>4, <4>1, <4>2 DEF Lands, LandsOf
        <3>6. CASE counters' = counters /\ Goto(e, "done") /\ broken' = Broke(e, "counter")
            <4>1. "counter" \in broken'[e] /\ step'[e] = "done"
                BY <3>6 DEF Broke, Goto, TypeInv, OutcomeTypeOK
            <4> QED BY <2>1, <3>3, <3>4, <3>6, <4>1 DEF Lands, LandsOf
        <3> QED BY <1>3, <2>2, <3>5, <3>6 DEF Count, Broke
    <2>3. CASE f # e
        <3>1. step'[e] = step[e] /\ counters'[e] = counters[e] /\ broken'[e] = broken[e]
            BY <1>3, <2>3 DEF Count, Log, Goto, TypeInv, OutcomeTypeOK
        <3> QED BY <2>1, <3>1 DEF Lands, Tagged
    <2> QED BY <2>2, <2>3
<1>4. ASSUME NEW f \in Entity, Gauge(f) PROVE Lands(e)'
    <2>1. UNCHANGED <<events, counters, try, group, countOnly>>
        BY <1>4 DEF Gauge
    <2>2. CASE f = e
        <3>1. step[e] = "gauge" /\ step'[e] = "done"
            BY <1>4, <2>2 DEF Gauge, Goto, TypeInv, OutcomeTypeOK
        <3>2. r \in Record /\ r.try = try[e]
            BY <3>1, WorkingGroup, TaggedIsRecord DEF Working, Tagged
        <3>3. /\ Below(gauges[e], try[e]) /\ Ends(counters[e], r)
              /\ Below(events[e], try[e] + 1) /\ Below(counters[e], try[e] + 1)
              /\ Covered(gauges[e], counters[e]) /\ (countOnly => gauges[e] = <<>>)
            BY <3>1 DEF Lands, LandsOf
        <3>4. /\ Below(gauges[e], try[e] + 1) /\ Below(Append(gauges[e], r), try[e] + 1)
              /\ Ends(Append(gauges[e], r), r) /\ Covered(Append(gauges[e], r), counters[e])
            BY <1>t, <3>2, <3>3, BelowMore, BelowAppend, CoveredAppend
        <3>5. EndsTry(counters[e], try[e]) /\ EndsTry(Append(gauges[e], r), try[e])
            BY <3>2, <3>3, <3>4 DEF Ends, EndsTry
        <3>6. CASE ~countOnly /\ gauges' = Log(gauges, e, group[e])
            <4>1. gauges'[e] = Append(gauges[e], r)
                BY <3>6 DEF Log, TypeInv, OutcomeTypeOK
            <4> QED BY <2>1, <3>1, <3>3, <3>4, <3>5, <3>6, <4>1 DEF Lands, LandsOf
        <3>8. CASE countOnly /\ UNCHANGED <<gauges, broken>>
            BY <2>1, <3>1, <3>3, <3>4, <3>5, <3>8 DEF Lands, LandsOf
        <3>7. CASE gauges' = gauges /\ broken' = Broke(e, "gauge")
            <4>1. "gauge" \in broken'[e]
                BY <3>7 DEF Broke, TypeInv, OutcomeTypeOK
            <4> QED BY <2>1, <3>1, <3>3, <3>4, <3>5, <3>7, <4>1 DEF Lands, LandsOf
        <3> QED BY <1>4, <2>2, <3>6, <3>7, <3>8 DEF Gauge, Broke
    <2>3. CASE f # e
        <3>1. step'[e] = step[e] /\ gauges'[e] = gauges[e] /\ broken'[e] = broken[e]
            BY <1>4, <2>3 DEF Gauge, Log, Goto, TypeInv, OutcomeTypeOK
        <3> QED BY <2>1, <3>1 DEF Lands, Tagged
    <2> QED BY <2>2, <2>3
<1>5. ASSUME NEW f \in Entity, Retry(f) PROVE Lands(e)'
    <2>1. UNCHANGED <<events, counters, gauges, countOnly>>
        BY <1>5 DEF Retry, sinks
    <2>2. CASE f = e
        <3>1. step[e] # "work" /\ step'[e] = "work" /\ try'[e] = try[e] + 1
            BY <1>5, <2>2 DEF Retry, Goto, TypeInv, OutcomeTypeOK
        <3>2. /\ Below(events[e], try[e]) \/ Below(events[e], try[e] + 1)
              /\ Below(counters[e], try[e]) \/ Below(counters[e], try[e] + 1)
              /\ Below(gauges[e], try[e]) \/ Below(gauges[e], try[e] + 1)
              /\ Covered(gauges[e], counters[e])
            BY DEF Lands, LandsOf
        <3>3. /\ Below(events[e], try[e] + 1) /\ Below(counters[e], try[e] + 1)
              /\ Below(gauges[e], try[e] + 1)
            BY <1>t, <3>2, BelowMore
        <3> QED BY <2>1, <3>1, <3>2, <3>3 DEF Lands, LandsOf
    <2>3. CASE f # e
        <3>1. /\ step'[e] = step[e] /\ try'[e] = try[e] /\ group'[e] = group[e]
              /\ broken'[e] = broken[e]
            BY <1>5, <2>3 DEF Retry, Goto, TypeInv, OutcomeTypeOK
        <3> QED BY <2>1, <3>1 DEF Lands, Tagged
    <2> QED BY <2>2, <2>3
<1>6. CASE same
    BY <1>6 DEF Lands, Tagged
<1> HIDE DEF same
<1>7. (\E f \in Entity : EditOutcomeFlag(f)) \/ ReadBackOutcomes \/ UNCHANGED outcomeVars => same
    BY DEF EditOutcomeFlag, ReadBackOutcomes, outcomeVars, sinks, same
<1> QED BY <1>1, <1>2, <1>3, <1>4, <1>5, <1>6, <1>7 DEF OutcomeNext

LandsInv == TypeInv /\ TryProtocol /\ \A e \in Entity : Lands(e)

\* A finished try left its counter and, of a value, its gauge unless these
\* failed, each sink holds at most one record of a try, and no gauge is without
\* its counter or its value.
THEOREM MetricLands == OutcomeSpec => []MetricStillLands
<1>1. OutcomeInit => LandsInv
    <2> SUFFICES ASSUME OutcomeInit PROVE LandsInv
        OBVIOUS
    <2>1. TypeInv /\ TryProtocol
        BY TypeInit, OutcomeAssumption DEF OutcomeInit, TryProtocol, Working
    <2>2. ASSUME NEW e \in Entity PROVE Lands(e)
        <3>1. events[e] = <<>> /\ counters[e] = <<>> /\ gauges[e] = <<>> /\ step[e] = "work"
            BY DEF OutcomeInit
        <3> QED BY <3>1 DEF Lands, LandsOf, Below, Covered
    <2> QED BY <2>1, <2>2 DEF LandsInv
<1>2. LandsInv /\ [OutcomeNext]_outcomeVars => LandsInv'
    BY TypeStep, ProtocolStep, LandsStep DEF LandsInv
<1>3. LandsInv => MetricStillLands
    <2> SUFFICES ASSUME TypeInv, NEW e \in Entity, Lands(e)
                 PROVE  /\ \A records \in {events[e], counters[e], gauges[e]} :
                            \A i, j \in DOMAIN records : i < j => records[i].try < records[j].try
                        /\ step[e] = "done" =>
                            /\ "counter" \in broken[e] \/ CurrentTryIn(e, counters[e])
                            /\ \/ countOnly \/ broken[e] \cap {"counter", "gauge"} # {}
                               \/ CurrentTryIn(e, gauges[e])
                        /\ \A i \in DOMAIN gauges[e] :
                            ~countOnly /\ \E j \in DOMAIN counters[e] : counters[e][j] = gauges[e][i]
        BY DEF LandsInv, MetricStillLands
    <2>1. ASSUME NEW records \in {events[e], counters[e], gauges[e]}
          PROVE  \A i, j \in DOMAIN records : i < j => records[i].try < records[j].try
        <3>1. \E n : Below(records, n)
            BY DEF Lands, LandsOf
        <3> QED BY <3>1 DEF Below
    <2>2. ASSUME step[e] = "done"
          PROVE  /\ "counter" \in broken[e] \/ CurrentTryIn(e, counters[e])
                 /\ \/ countOnly \/ broken[e] \cap {"counter", "gauge"} # {}
                    \/ CurrentTryIn(e, gauges[e])
        BY <2>2 DEF Lands, LandsOf, EndsTry, CurrentTryIn
    <2>3. Covered(gauges[e], counters[e]) /\ (countOnly => DOMAIN gauges[e] = {})
        BY DEF Lands, LandsOf
    <2> QED BY <2>1, <2>2, <2>3 DEF Covered
<1> QED BY <1>1, <1>2, <1>3, PTL DEF OutcomeSpec

-----------------------------------------------------------------------------
(* The measure loop's verdict.                                             *)

\* As many records as owners, and no owner without one: one record each.
LEMMA OneEach ==
    ASSUME NEW E, IsFiniteSet(E), NEW R, NEW s \in [E -> Seq(R)],
           \A e \in E : s[e] # <<>>,
           Cardinality(UNION {{<<e, i>> : i \in DOMAIN s[e]} : e \in E}) = Cardinality(E)
    PROVE  \A e \in E : Len(s[e]) = 1
<1> DEFINE of(e) == {<<e, i>> : i \in DOMAIN s[e]}
           all == {of(e) : e \in E}
           U == UNION all
<1>1. ASSUME NEW e \in E
      PROVE  Len(s[e]) \in Nat /\ DOMAIN s[e] = 1..Len(s[e]) /\ 1 \in DOMAIN s[e]
    BY <1>1
<1>2. IsFiniteSet(U)
    <2>1. ASSUME NEW e \in E PROVE IsFiniteSet(of(e))
        <3> DEFINE f == [i \in DOMAIN s[e] |-> <<e, i>>]
        <3>1. IsFiniteSet(DOMAIN s[e])
            BY <1>1, FS_Interval
        <3>2. f \in Surjection(DOMAIN s[e], of(e))
            BY Fun_IsSurj
        <3> QED
            BY <3>1, <3>2, FS_Surjection
    <2>2. IsFiniteSet(all)
        <3> DEFINE f == [e \in E |-> of(e)]
        <3> HIDE DEF of
        <3>1. f \in Surjection(E, all)
            BY Fun_IsSurj
        <3> QED
            BY <3>1, FS_Surjection
    <2> QED
        BY <2>1, <2>2, FS_UNION
<1>3. \A e \in E : \A i \in DOMAIN s[e] : <<e, i>> \in U
    OBVIOUS
<1>4. ASSUME NEW p \in U PROVE p[1] \in E
    BY <1>4
<1>5. Cardinality(U) = Cardinality(E) /\ Cardinality(U) \in Nat
    BY <1>2, FS_CardinalityType
<1> HIDE DEF U
<1> SUFFICES ASSUME NEW e0 \in E, Len(s[e0]) # 1 PROVE FALSE
    OBVIOUS
<1>6. 2 \in DOMAIN s[e0]
    <2>1. Len(s[e0]) \in Nat /\ DOMAIN s[e0] = 1..Len(s[e0]) /\ 1 \in 1..Len(s[e0])
        BY <1>1
    <2> QED
        BY <2>1
<1> DEFINE rest == U \ {<<e0, 2>>}
           f == [p \in rest |-> p[1]]
<1>7. IsFiniteSet(rest) /\ Cardinality(rest) = Cardinality(U) - 1
    BY <1>2, <1>3, <1>6, FS_RemoveElement
<1>8. f \in Surjection(rest, E)
    <2>1. f \in [rest -> E]
        BY <1>4
    <2>2. ASSUME NEW e \in E PROVE \E p \in rest : f[p] = e
        <3>1. <<e, 1>> \in rest
            BY <1>1, <1>3
        <3> QED
            BY <3>1
    <2> HIDE DEF f, rest
    <2> QED
        BY <2>1, <2>2, Fun_IsSurj
<1> HIDE DEF f
<1>9. Cardinality(E) <= Cardinality(rest)
    BY <1>7, <1>8, FS_Surjection
<1> QED
    BY <1>5, <1>7, <1>9

\* Past its track() a try has left its record, of its own group, in what the
\* loop captures, if the backend is reached; otherwise nothing is captured.
CapturedOf(e) ==
    /\ step[e] \in {"count", "gauge", "done"} /\ Reached =>
        Captured[e] # <<>> /\ Captured[e][Len(Captured[e])].variant = group[e]
    /\ ~ Reached => Captured[e] = <<>>

ReadFinished ==
    readout = "ok" =>
        /\ kind \in {"statsig", "inhouse"}
        /\ \A e \in Entity : step[e] = "done"
        /\ HasLift
        /\ Cardinality(UNION {{<<e, i>> : i \in DOMAIN Captured[e]} : e \in Entity})
                = Cardinality(Entity)

ReadoutInv ==
    /\ TypeInv /\ TryProtocol
    /\ kind \in {"statsig", "inhouse"} => \A e \in Entity : CapturedOf(e)
    /\ ReadFinished

\* What a step of one entity's task may do to the captured records.
LEMMA CapturedStep ==
    ASSUME ReadoutInv, kind \in {"statsig", "inhouse"}, [OutcomeNext]_outcomeVars,
           NEW e \in Entity
    PROVE  CapturedOf(e)'
<1> DEFINE r == Tagged(e, group[e])
<1>t. /\ events \in [Entity -> Seq(Record)] /\ calls \in [Entity -> Seq(Record)]
      /\ step \in [Entity -> {"work", "track", "count", "gauge", "done"}]
      /\ group \in [Entity -> Group \cup {Idle}]
    BY DEF ReadoutInv, TypeInv, OutcomeTypeOK
<1>k. CapturedOf(e)
    BY DEF ReadoutInv
<1>1. ASSUME NEW f \in Entity, Track(f) PROVE CapturedOf(e)'
    <2>0. kind' = kind /\ group' = group /\ (Reached' <=> Reached)
        BY <1>1 DEF Track, Reached, ImplementsTrack
    <2>1. CASE f # e
        <3>1. step'[e] = step[e] /\ events'[e] = events[e] /\ calls'[e] = calls[e]
            BY <1>1, <1>t, <2>1 DEF Track, ProviderTrack, Log, Goto
        <3> QED
            BY <1>k, <2>0, <3>1 DEF CapturedOf, Captured
    <2>2. CASE f = e /\ ~ Reached
        <3>1. events' = events /\ calls' = calls
            BY <1>1, <2>2 DEF Track
        <3> QED
            BY <1>k, <2>0, <2>2, <3>1 DEF CapturedOf, Captured
    <2>3. CASE f = e /\ Reached
        <3>1. group[e] \in Group /\ r \in Record /\ r.variant = group[e]
            <4>1. Working(e)
                BY <1>1, <2>3 DEF Track, Working
            <4>2. group[e] \in Group
                BY <4>1, WorkingGroup DEF ReadoutInv
            <4> QED
                BY <4>2, TaggedIsRecord DEF ReadoutInv, Tagged
        <3>2. Captured'[e] = Append(Captured[e], r)
            <4>1. calls'[e] = Append(calls[e], r)
                BY <1>1, <1>t, <2>3 DEF Track, Log
            <4>2. kind = "inhouse" => events'[e] = Append(events[e], r)
                BY <1>1, <1>t, <2>3 DEF Track, ProviderTrack, Log
            <4> QED
                BY <2>0, <4>1, <4>2 DEF Captured
        <3>3. Captured[e] \in Seq(Record)
            BY <1>t DEF Captured
        <3> HIDE DEF r
        <3>4. /\ Captured'[e] # <<>>
              /\ Captured'[e][Len(Captured'[e])] = r
            BY <3>1, <3>2, <3>3
        <3> QED
            BY <2>0, <2>3, <3>1, <3>4 DEF CapturedOf
    <2> QED
        BY <2>1, <2>2, <2>3
<1>2. ASSUME UNCHANGED <<kind, events, calls>>,
             /\ group'[e] = group[e] \/ step'[e] \in {"work", "track"}
             /\ step'[e] \in {"count", "gauge", "done"} => step[e] \in {"count", "gauge", "done"}
      PROVE  CapturedOf(e)'
    BY <1>k, <1>2 DEF CapturedOf, Captured, Reached, ImplementsTrack
<1>3. ASSUME NEW f \in Entity, DoWork(f) \/ Count(f) \/ Gauge(f) \/ Retry(f) PROVE CapturedOf(e)'
    <2>1. UNCHANGED <<kind, events, calls>>
        BY <1>3 DEF DoWork, Count, Gauge, Retry, sinks
    <2>2. /\ group'[e] = group[e] \/ step'[e] \in {"work", "track"}
          /\ step'[e] \in {"count", "gauge", "done"} => step[e] \in {"count", "gauge", "done"}
        BY <1>3, <1>t DEF DoWork, Count, Gauge, Retry, Goto
    <2> QED
        BY <1>2, <2>1, <2>2
<1>4. ASSUME (\E f \in Entity : EditOutcomeFlag(f)) \/ ReadBackOutcomes \/ UNCHANGED outcomeVars
      PROVE  CapturedOf(e)'
    <2>1. UNCHANGED <<kind, events, calls, group, step>>
        BY <1>4 DEF EditOutcomeFlag, ReadBackOutcomes, outcomeVars, sinks
    <2> QED
        BY <1>2, <2>1
<1> QED
    BY <1>1, <1>3, <1>4 DEF OutcomeNext

LEMMA ReadFinishedStep ==
    ASSUME ReadoutInv, [OutcomeNext]_outcomeVars
    PROVE  ReadFinished'
<1> DEFINE same == UNCHANGED <<kind, step, events, calls>>
<1>1. ASSUME same, readout' = readout PROVE ReadFinished'
    BY <1>1 DEF ReadoutInv, ReadFinished, HasLift, Captured
<1>2. CASE ReadBackOutcomes
    <2>1. same /\ HasLift' = HasLift /\ Captured' = Captured
        BY <1>2 DEF ReadBackOutcomes, sinks, HasLift, Captured
    <2> QED
        BY <1>2, <2>1 DEF ReadBackOutcomes, ReadFinished
<1>3. ASSUME NEW f \in Entity, DoWork(f) \/ Track(f) \/ Count(f) \/ Gauge(f) PROVE ReadFinished'
    <2>1. step[f] # "done" /\ readout' = readout
        BY <1>3 DEF DoWork, Track, Count, Gauge
    <2> QED
        BY <2>1 DEF ReadoutInv, ReadFinished
<1>4. ASSUME NEW f \in Entity, Retry(f) PROVE ReadFinished'
    BY <1>4 DEF Retry, ReadFinished
<1>5. ASSUME NEW f \in Entity, EditOutcomeFlag(f) PROVE ReadFinished'
    <2>1. same /\ readout' = readout
        BY <1>5 DEF EditOutcomeFlag, sinks
    <2> QED
        BY <1>1, <2>1
<1>6. CASE UNCHANGED outcomeVars
    <2>1. same /\ readout' = readout
        BY <1>6 DEF outcomeVars, sinks
    <2> QED
        BY <1>1, <2>1
<1> QED
    BY <1>2, <1>3, <1>4, <1>5, <1>6 DEF OutcomeNext

\* A measure loop that passes read one outcome of every entity, of the group
\* it ran as last, however its tries were killed and its flag was edited.
THEOREM ReadoutHonest == OutcomeSpec => []ReadoutIsHonest
<1>1. OutcomeInit => ReadoutInv
    <2> SUFFICES ASSUME OutcomeInit PROVE ReadoutInv
        OBVIOUS
    <2>1. TypeInv /\ TryProtocol
        BY TypeInit, OutcomeAssumption DEF OutcomeInit, TryProtocol, Working
    <2>2. ASSUME NEW e \in Entity PROVE CapturedOf(e)
        BY DEF OutcomeInit, CapturedOf, Captured
    <2> QED
        BY <2>1, <2>2 DEF OutcomeInit, ReadoutInv, ReadFinished
<1>2. ReadoutInv /\ [OutcomeNext]_outcomeVars => ReadoutInv'
    <2> SUFFICES ASSUME ReadoutInv, [OutcomeNext]_outcomeVars PROVE ReadoutInv'
        OBVIOUS
    <2>1. TypeInv' /\ TryProtocol'
        BY TypeStep, ProtocolStep DEF ReadoutInv
    <2>2. kind' = kind
        BY DEF OutcomeNext, DoWork, Track, Count, Gauge, Retry, EditOutcomeFlag,
               ReadBackOutcomes, outcomeVars
    <2> QED
        BY <2>1, <2>2, CapturedStep, ReadFinishedStep DEF ReadoutInv
<1>3. ReadoutInv => ReadoutIsHonest
    <2> SUFFICES ASSUME ReadoutInv, readout = "ok"
                 PROVE  /\ \A e \in Entity : Len(Captured[e]) = 1
                                             /\ Captured[e][1].variant = group[e]
                        /\ {group[e] : e \in Entity} = Group
        BY DEF ReadoutIsHonest
    <2>1. /\ kind \in {"statsig", "inhouse"} /\ \A e \in Entity : step[e] = "done"
          /\ HasLift
        BY DEF ReadoutInv, ReadFinished
    <2>2. Captured \in [Entity -> Seq(Record)]
        BY DEF ReadoutInv, TypeInv, OutcomeTypeOK, Captured
    <2>3. \A e \in Entity : CapturedOf(e)
        BY <2>1 DEF ReadoutInv
    <2>4. Reached
        BY <2>1, <2>3 DEF HasLift, CapturedOf, Group
    <2>5. \A e \in Entity : Captured[e] # <<>> /\ Captured[e][Len(Captured[e])].variant = group[e]
        BY <2>1, <2>3, <2>4 DEF CapturedOf
    <2>6. Cardinality(UNION {{<<e, i>> : i \in DOMAIN Captured[e]} : e \in Entity})
             = Cardinality(Entity)
        BY DEF ReadoutInv, ReadFinished
    <2>7. \A e \in Entity : Len(Captured[e]) = 1
        BY <2>2, <2>5, <2>6, OneEach, OutcomeAssumption
    <2>8. \A e \in Entity : Captured[e][1].variant = group[e]
        BY <2>5, <2>7
    <2>9. \A g \in Group : \E e \in Entity : group[e] = g
        <3> SUFFICES ASSUME NEW g \in Group PROVE \E e \in Entity : group[e] = g
            OBVIOUS
        <3>1. PICK e \in Entity : \E i \in DOMAIN Captured[e] : Captured[e][i].variant = g
            BY <2>1 DEF HasLift
        <3>2. DOMAIN Captured[e] = 1..1
            BY <2>2, <2>7
        <3> QED
            BY <2>8, <3>1, <3>2
    <2>10. \A e \in Entity : group[e] \in Group
        <3> SUFFICES ASSUME NEW e \in Entity PROVE group[e] \in Group
            OBVIOUS
        <3>1. Captured[e][1] \in Record
            BY <2>2, <2>7
        <3>2. \A x \in Record : x.variant \in Group
            BY DEF Record
        <3> QED
            BY <2>8, <3>1, <3>2
    <2> QED
        BY <2>7, <2>8, <2>9, <2>10
<1> QED BY <1>1, <1>2, <1>3, PTL DEF OutcomeSpec
=============================================================================
