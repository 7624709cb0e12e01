--------------------------- MODULE Adapters_proofs ---------------------------
(***************************************************************************)
(* Proofs about Adapters, for any number of threads, entities, flags and   *)
(* edits.                                                                  *)
(***************************************************************************)
EXTENDS Adapters, TLAPS

USE ConstantsAssumption

\* An evaluation has met whoever runs beside it, so that the attributes it
\* finds in GrowthBook's client are its own or of one it met; and one that asks
\* the toggle saw a moment without a variant.
Overlaps ==
    /\ \A t, u \in Thread :
        Running(t) /\ Running(u) => call[u].entity \in {call[t].entity} \cup met[t]
    /\ \A t \in Thread : pc[t] = "evaluating" =>
        backend = "growthbook" /\ attributes \in {call[t].entity} \cup met[t]
    /\ \A t \in Thread : pc[t] = "toggle" =>
        /\ backend = "unleash" /\ call[t].kind = "string"
        /\ \E view \in seen[t] : view[call[t].entity] \notin Value

IInv == TypeOK /\ Overlaps

\* What a call holds.
LEMMA CallFields ==
    ASSUME NEW c \in Call
    PROVE  /\ c.flag \in Flag /\ c.entity \in Entity /\ c.kind \in Kind
           /\ c.default \in BOOLEAN \cup {Default}
           /\ c.kind # "boolean" => c.default = Default
BY DEF Call, Kind, DefaultsOf

\* Nobody runs at first.
LEMMA InitHolds == Init => IInv
BY DEF Init, IInv, TypeOK, Overlaps, Running

\* A running evaluation's view is one of those it lived through.
LEMMA SaysSeen ==
    ASSUME TypeOK, NEW t \in Thread, Running(t)
    PROVE  /\ call[t] \in Call
           /\ serve[call[t].flag] \in seen[t]
           /\ serve[call[t].flag] \in Views
           /\ \A e \in Entity : Says(t, e) \in Cells
BY CallFields DEF TypeOK, Says

\* Starting an evaluation lets it meet the running ones, and them meet it.
LEMMA ResolvePreserves ==
    ASSUME IInv, NEW t \in Thread, NEW c \in Call, Resolve(t, c)
    PROVE  IInv'
<1> USE DEF IInv, Resolve, Running
<1>1. c.flag \in Flag /\ c.entity \in Entity
    BY CallFields
<1>2. met' \in [Thread -> SUBSET Entity]
    <2>1. \A v \in Thread : Running(v) => call[v].entity \in Entity
        BY CallFields DEF TypeOK
    <2> QED
        BY <1>1, <2>1 DEF TypeOK
<1>3. TypeOK'
    BY <1>1, <1>2 DEF TypeOK, Cells
<1>4. Overlaps'
    <2>1. ASSUME NEW u \in Thread, NEW v \in Thread, Running(u)', Running(v)'
          PROVE  call'[v].entity \in {call'[u].entity} \cup met'[u]
        BY <2>1 DEF TypeOK, Overlaps
    <2>2. ASSUME NEW u \in Thread, pc'[u] = "evaluating"
          PROVE  backend' = "growthbook" /\ attributes' \in {call'[u].entity} \cup met'[u]
        BY <2>2 DEF TypeOK, Overlaps
    <2>3. ASSUME NEW u \in Thread, pc'[u] = "toggle"
          PROVE  /\ backend' = "unleash" /\ call'[u].kind = "string"
                 /\ \E view \in seen'[u] : view[call'[u].entity] \notin Value
        BY <2>3 DEF TypeOK, Overlaps
    <2> QED
        BY <2>1, <2>2, <2>3 DEF Overlaps
<1> QED
    BY <1>3, <1>4

\* An edit adds the new view to the evaluations of its flag.
LEMMA EditPreserves ==
    ASSUME IInv, NEW f \in Flag, NEW view \in Views, EditFlag(f, view)
    PROVE  IInv'
<1> USE DEF IInv, EditFlag, Running, code
<1>1. TypeOK'
    BY DEF TypeOK, Cells
<1>2. Overlaps'
    BY DEF Overlaps
<1> QED
    BY <1>1, <1>2

\* Answering leaves the thread idle and the others as they were.
LEMMA ReplyPreserves ==
    ASSUME IInv, NEW t \in Thread, Running(t),
           NEW a \in BOOLEAN \cup Value \cup {On, Off, Default, None}, Reply(t, a)
    PROVE  IInv'
<1> USE DEF IInv, Reply, Running
<1>1. TypeOK'
    BY DEF TypeOK, Cells
<1>2. Overlaps'
    BY DEF Overlaps, TypeOK
<1> QED
    BY <1>1, <1>2

\* Setting the attributes is seen by every evaluation now in between, all of
\* which have met this one.
LEMMA SetPreserves ==
    ASSUME IInv, NEW t \in Thread, SetAttributes(t)
    PROVE  IInv'
<1> USE DEF IInv, SetAttributes, Running
<1>1. call[t].entity \in Entity
    BY CallFields DEF TypeOK
<1>2. TypeOK'
    BY <1>1 DEF TypeOK, Cells
<1>3. Overlaps'
    BY DEF Overlaps, TypeOK
<1> QED
    BY <1>2, <1>3

\* Only a flag with an enabled value is asked again.
LEMMA VariantPreserves ==
    ASSUME IInv, NEW t \in Thread, pc[t] = "asked", GetVariant(t), pc'[t] = "toggle"
    PROVE  IInv'
<1> USE DEF IInv, Running
<1>1. /\ backend = "unleash" /\ call[t].kind = "string"
      /\ enabled_values[call[t].flag] # None
      /\ pc' = [pc EXCEPT ![t] = "toggle"]
      /\ UNCHANGED <<backend, enabled_values, serve, attributes, call, answer, seen, met, edits>>
    BY DEF GetVariant, Reply, TypeOK
<1>2. TypeOK'
    BY <1>1 DEF TypeOK, Cells
<1>3. \E view \in seen[t] : view[call[t].entity] \notin Value
    <2>1. Says(t, call[t].entity) \notin Value
        BY <1>1 DEF GetVariant, Reply, TypeOK
    <2> QED
        BY <2>1, SaysSeen DEF Says
<1>4. Overlaps'
    BY <1>1, <1>3 DEF Overlaps, TypeOK
<1> QED
    BY <1>2, <1>4

\* An answer a would be Unleash's mixture of two moments.
Mixed(t, a) ==
    /\ backend = "unleash" /\ call[t].kind = "string"
    /\ \E view \in seen[t] : view[call[t].entity] \notin Value
    /\ Says(t, call[t].entity) \in Value
    /\ a = enabled_values[call[t].flag]
    /\ a # None

\* Every reply is the reference answer for a view the evaluation lived
\* through and an entity it may be about, or that mixture.
Explained(t, a) ==
    \/ Mixed(t, a)
    \/ \E view \in seen[t], e \in About(t) : a = Reference(call[t], view[e])

\* It suffices to find the entity whose present view explains the reply.
LEMMA PresentExplains ==
    ASSUME IInv, NEW t \in Thread, Running(t), NEW e \in About(t), NEW a,
           a = Reference(call[t], Says(t, e))
    PROVE  Explained(t, a)
BY SaysSeen DEF IInv, Explained, Says

\* GrowthBook: the attributes are the caller's or those of one it met.
LEMMA FeatureExplained ==
    ASSUME IInv, NEW t \in Thread, EvalFeature(t)
    PROVE  \E a : Reply(t, a) /\ Explained(t, a)
<1> DEFINE r == Says(t, attributes)
<1>1. Running(t) /\ attributes \in About(t) /\ attributes \in Entity
    BY DEF IInv, Overlaps, EvalFeature, Running, About, TypeOK
<1>2. r \in {Unknown, Off, On} \cup Value /\ call[t] \in Call
    BY <1>1, SaysSeen DEF IInv, Cells
<1>3. FromFeature(call[t], r) = Reference(call[t], r)
    <2> HIDE DEF r
    <2>1. CASE call[t].kind = "boolean"
        BY <1>2, <2>1 DEF FromFeature, Reference, EvalFeature
    <2>2. CASE call[t].kind = "number"
        BY <1>2, <2>2 DEF FromFeature, Reference, Worth, EvalFeature
    <2>3. CASE call[t].kind \in {"string", "object"}
        BY <1>2, <2>3 DEF FromFeature, Reference, Worth, EvalFeature
    <2> QED
        BY <1>2, <2>1, <2>2, <2>3, CallFields DEF Kind
<1> QED
    BY <1>1, <1>3, PresentExplains DEF EvalFeature

\* Unleash: a flag that still has no variant when its toggle is asked answers
\* as that toggle decides; one that has got a variant answers the mixture.
LEMMA UnleashExplained ==
    ASSUME IInv, NEW t \in Thread,
           UnleashBoolean(t) \/ (GetVariant(t) /\ pc'[t] = "idle") \/ FallBack(t)
    PROVE  \E a : Reply(t, a) /\ Explained(t, a)
<1> DEFINE e == call[t].entity
           r == Says(t, e)
<1>1. Running(t) /\ backend = "unleash" /\ e \in About(t) /\ e \in Entity /\ call[t] \in Call
    BY CallFields DEF IInv, TypeOK, UnleashBoolean, GetVariant, FallBack, Running, About
<1>2. r \in Cells
    BY <1>1, SaysSeen DEF IInv
<1>3. ASSUME NEW a, Reply(t, a), a = Reference(call[t], r)
      PROVE  \E b : Reply(t, b) /\ Explained(t, b)
    BY <1>1, <1>3, PresentExplains
<1> HIDE DEF r
<1>4. CASE UnleashBoolean(t)
    <2>1. IsEnabled(r, call[t].default) = Reference(call[t], r)
        BY <1>1, <1>2, <1>4, CallFields
        DEF UnleashBoolean, IsEnabled, Reference, Cells
    <2> QED
        BY <1>3, <1>4, <2>1 DEF UnleashBoolean, r
<1>5. CASE GetVariant(t) /\ pc'[t] = "idle"
    <2>1. CASE r \in Value
        <3>1. Reply(t, r)
            BY <1>5, <2>1 DEF GetVariant, r, IInv, TypeOK
        <3>2. Reference(call[t], r) = r
            BY <1>1, <1>5, <2>1 DEF GetVariant, Reference, Worth
        <3> QED
            BY <1>3, <3>1, <3>2
    <2>2. CASE r \notin Value
        <3>1. Reply(t, call[t].default) /\ enabled_values[call[t].flag] = None
            BY <1>5, <2>2 DEF GetVariant, r, IInv, TypeOK
        <3>2. Reference(call[t], r) = call[t].default
            BY <1>1, <1>2, <1>5, <2>2, <3>1 DEF GetVariant, Reference, Worth, Cells
        <3> QED
            BY <1>3, <3>1, <3>2
    <2> QED
        BY <2>1, <2>2
<1>6. CASE FallBack(t)
    <2>1. call[t].kind = "string" /\ enabled_values[call[t].flag] # None
        BY <1>6 DEF FallBack, IInv, TypeOK, Overlaps
    <2>2. CASE r \in Value
        <3>1. IsEnabled(r, FALSE)
            BY <2>2 DEF IsEnabled
        <3>2. Reply(t, enabled_values[call[t].flag])
            BY <1>6, <3>1 DEF FallBack, r
        <3>3. \E view \in seen[t] : view[e] \notin Value
            BY <1>6 DEF FallBack, IInv, Overlaps
        <3>4. Mixed(t, enabled_values[call[t].flag])
            BY <1>1, <2>1, <2>2, <3>3 DEF Mixed, r
        <3> QED
            BY <3>2, <3>4 DEF Explained
    <2>3. CASE r \notin Value
        <3>1. r \in {Unknown, Off, On}
            BY <1>1, <1>2, <2>3 DEF Cells
        <3>2. (IF IsEnabled(r, FALSE) THEN enabled_values[call[t].flag] ELSE call[t].default)
                = Reference(call[t], r)
            BY <1>1, <2>1, <3>1 DEF IsEnabled, Reference, Worth
        <3> QED
            BY <1>3, <1>6, <3>2 DEF FallBack, r
    <2> QED
        BY <2>2, <2>3
<1> QED
    BY <1>4, <1>5, <1>6

\* Statsig's gate, and the types that Unleash and Statsig do not serve.
LEMMA RestExplained ==
    ASSUME IInv, NEW t \in Thread, StatsigGate(t) \/ NotServed(t)
    PROVE  \E a : Reply(t, a) /\ Explained(t, a)
<1> DEFINE e == call[t].entity
           r == Says(t, e)
           mapped == enabled_values[call[t].flag]
<1>1. /\ Running(t) /\ backend # "growthbook" /\ backend \in Backend
      /\ e \in About(t) /\ e \in Entity /\ call[t] \in Call
    BY CallFields DEF IInv, TypeOK, StatsigGate, NotServed, Running, About
<1>2. r \in Cells
    BY <1>1, SaysSeen DEF IInv
<1>3. ASSUME NEW a, Reply(t, a), a = Reference(call[t], r)
      PROVE  \E b : Reply(t, b) /\ Explained(t, b)
    BY <1>1, <1>3, PresentExplains
<1>4. CASE StatsigGate(t)
    <2>1. r \in {Unknown, Off, On} /\ backend = "statsig"
        BY <1>2, <1>4 DEF Cells, StatsigGate
    <2>2. CASE call[t].kind = "boolean"
        <3>1. Reply(t, r = On)
            BY <1>4, <2>2 DEF StatsigGate
        <3> HIDE DEF r
        <3>2. (r = On) = Reference(call[t], r)
            BY <2>1, <2>2 DEF Reference
        <3> QED
            BY <1>3, <3>1, <3>2
    <2>3. CASE call[t].kind = "string"
        <3>1. Reply(t, IF r = On /\ mapped # None THEN mapped ELSE call[t].default)
            BY <1>4, <2>3 DEF StatsigGate
        <3> HIDE DEF r
        <3>2. (IF r = On /\ mapped # None THEN mapped ELSE call[t].default)
                = Reference(call[t], r)
            BY <2>1, <2>3 DEF Reference, Worth
        <3> QED
            BY <1>3, <3>1, <3>2
    <2> QED
        BY <1>4, <2>2, <2>3 DEF StatsigGate
<1>5. CASE NotServed(t)
    <2>1. Reply(t, call[t].default) /\ call[t].kind \in {"number", "object"}
        BY <1>5 DEF NotServed
    <2>2. call[t].default = Reference(call[t], r)
        BY <1>1, <2>1 DEF Reference, Backend
    <2> QED
        BY <1>3, <2>1, <2>2
<1> QED
    BY <1>4, <1>5

\* A step sets the attributes, turns to the toggle or replies.
LEMMA StepCases ==
    ASSUME IInv, NEW t \in Thread, Step(t)
    PROVE  \/ SetAttributes(t)
           \/ pc[t] = "asked" /\ GetVariant(t) /\ pc'[t] = "toggle"
           \/ Running(t) /\ \E a : Reply(t, a) /\ Explained(t, a)
<1>1. CASE EvalFeature(t)
    BY <1>1, FeatureExplained DEF EvalFeature, Running
<1>2. CASE UnleashBoolean(t) \/ (GetVariant(t) /\ pc'[t] = "idle") \/ FallBack(t)
    BY <1>2, UnleashExplained DEF UnleashBoolean, GetVariant, FallBack, Running
<1>3. CASE GetVariant(t) /\ pc'[t] # "idle"
    BY <1>3 DEF GetVariant, Reply, IInv, TypeOK
<1>4. CASE StatsigGate(t) \/ NotServed(t)
    BY <1>4, RestExplained DEF StatsigGate, NotServed, Running
<1> QED
    BY <1>1, <1>2, <1>3, <1>4 DEF Step

\* Replies are of the types that TypeOK names.
LEMMA ReplyTyped ==
    ASSUME IInv, NEW t \in Thread, Running(t), NEW a, Explained(t, a)
    PROVE  a \in BOOLEAN \cup Value \cup {On, Off, Default, None}
<1>0. CASE Mixed(t, a)
    BY <1>0, SaysSeen, CallFields DEF Mixed, IInv, TypeOK
<1> SUFFICES ASSUME ~Mixed(t, a) PROVE a \in BOOLEAN \cup Value \cup {On, Off, Default, None}
    BY <1>0
<1>1. PICK view \in seen[t], e \in About(t) : a = Reference(call[t], view[e])
    BY DEF Explained
<1>2. call[t] \in Call /\ e \in Entity /\ view \in Views
    BY SaysSeen, CallFields DEF IInv, TypeOK, About
<1>3. view[e] \in {Unknown, Off, On} \cup Value
    BY <1>2
<1>4. enabled_values[call[t].flag] \in Value \cup {None}
    BY <1>2, CallFields DEF IInv, TypeOK
<1>5. CASE call[t].kind = "boolean"
    <2>1. Reference(call[t], view[e]) \in BOOLEAN \cup {Default}
        BY <1>2, <1>5, CallFields DEF Reference
    <2> QED
        BY <1>1, <2>1
<1>6. CASE call[t].kind # "boolean"
    <2>1. Worth(call[t].flag, view[e]) \in Value \cup {On, Off, None}
        BY <1>3, <1>4 DEF Worth
    <2>2. Reference(call[t], view[e]) \in {Worth(call[t].flag, view[e]), Default}
        BY <1>2, <1>6, CallFields DEF Reference
    <2> QED
        BY <1>1, <2>1, <2>2
<1> QED
    BY <1>5, <1>6

\* The inductive invariant, under any interleaving.
THEOREM InvariantHolds == Spec => []IInv
<1>1. ASSUME IInv, [Next]_vars
      PROVE  IInv'
    <2>1. ASSUME NEW t \in Thread, Step(t)
          PROVE  IInv'
        BY <1>1, <2>1, StepCases, ReplyTyped, ReplyPreserves, SetPreserves, VariantPreserves
    <2>2. ASSUME NEW t \in Thread, NEW c \in Call, Resolve(t, c)
          PROVE  IInv'
        BY <1>1, <2>2, ResolvePreserves
    <2>3. ASSUME NEW f \in Flag, NEW view \in Views, EditFlag(f, view)
          PROVE  IInv'
        BY <1>1, <2>3, EditPreserves
    <2>4. CASE UNCHANGED vars
        BY <1>1, <2>4 DEF vars, IInv, TypeOK, Overlaps, Running, Cells
    <2> QED
        BY <1>1, <2>1, <2>2, <2>3, <2>4 DEF Next
<1> QED
    BY <1>1, InitHolds, PTL DEF Spec

\* The adapters' state keeps its types.
THEOREM TypeCorrect == Spec => []TypeOK
BY InvariantHolds, PTL DEF IInv

\* A thread becomes idle by replying only.
LEMMA IdleByReply ==
    ASSUME IInv, [Next]_vars, NEW t \in Thread, Running(t), ~Running(t)'
    PROVE  Explained(t, answer'[t])
<1>1. ASSUME NEW u \in Thread, Step(u)
      PROVE  Explained(t, answer'[t])
    <2>1. CASE \E a : Reply(u, a) /\ Explained(u, a)
        BY <2>1 DEF Reply, Running, IInv, TypeOK
    <2>2. CASE SetAttributes(u)
        BY <2>2 DEF SetAttributes, Running, IInv, TypeOK
    <2>3. CASE GetVariant(u) /\ pc'[u] = "toggle"
        <3>1. pc' = [pc EXCEPT ![u] = "toggle"]
            BY <2>3 DEF GetVariant, Reply, IInv, TypeOK
        <3> QED
            BY <3>1 DEF Running, IInv, TypeOK
    <2> QED
        BY <1>1, <2>1, <2>2, <2>3, StepCases
<1>2. ASSUME NEW u \in Thread, NEW c \in Call, Resolve(u, c)
      PROVE  FALSE
    BY <1>2 DEF Resolve, Running, IInv, TypeOK
<1>3. ASSUME NEW f, NEW view, EditFlag(f, view)
      PROVE  FALSE
    BY <1>3 DEF EditFlag, Running, code
<1>4. CASE UNCHANGED vars
    BY <1>4 DEF vars, Running
<1> QED
    BY <1>1, <1>2, <1>3, <1>4 DEF Next

\* No answer mixes two moments but Unleash's mapped value, and none is about an
\* entity whose evaluation was over, for any number of threads and edits.
THEOREM AnswersExplained == Spec => AnswerIsExplained
<1>1. IInv /\ [Next]_vars =>
        [\A t \in Thread : Running(t) /\ ~Running(t)' =>
            \/ TwoMoments(t)
            \/ \E view \in seen[t], e \in About(t) :
                  answer'[t] = Reference(call[t], view[e])]_vars
    BY IdleByReply DEF Explained, Mixed, TwoMoments
<1> QED
    BY <1>1, InvariantHolds, PTL DEF Spec, AnswerIsExplained

\* A flag the backend does not serve changes no placement.
THEOREM UnknownIsDefault == Spec => UnknownLeavesTheTask
<1>1. ASSUME IInv, [Next]_vars, NEW t \in Thread, Running(t), ~Running(t)',
             call[t].kind # "boolean", \A view \in seen[t], e \in Entity : view[e] = Unknown
      PROVE  answer'[t] = call[t].default
    <2>0. ~Mixed(t, answer'[t])
        <3>1. /\ call[t].entity \in Entity /\ serve[call[t].flag] \in seen[t]
              /\ Unknown \notin Value
            BY <1>1, SaysSeen, CallFields DEF IInv
        <3> QED
            BY <1>1, <3>1 DEF Mixed, Says
    <2>1. PICK view \in seen[t], e \in About(t) : answer'[t] = Reference(call[t], view[e])
        BY <1>1, <2>0, IdleByReply DEF Explained
    <2>2. e \in Entity
        BY <1>1, SaysSeen, CallFields DEF IInv, TypeOK, About
    <2> QED
        BY <1>1, <2>1, <2>2 DEF Reference, Worth
<1>2. IInv /\ [Next]_vars =>
        [\A t \in Thread :
            /\ Running(t) /\ ~Running(t)' /\ call[t].kind # "boolean"
            /\ \A view \in seen[t], e \in Entity : view[e] = Unknown
            => answer'[t] = call[t].default]_vars
    BY <1>1
<1> QED
    BY <1>2, InvariantHolds, PTL DEF Spec, UnknownLeavesTheTask
=============================================================================
