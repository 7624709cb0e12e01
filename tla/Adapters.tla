------------------------------ MODULE Adapters ------------------------------
(***************************************************************************)
(* The providers that adapt a backend's client (providers/growthbook,      *)
(* providers/unleash, providers/statsig), asked by several threads while   *)
(* flags are edited.  GrowthBook keeps the caller's attributes in its one  *)
(* client between two calls; Unleash may ask its client twice.             *)
(***************************************************************************)
EXTENDS Naturals

CONSTANTS
    Thread, Entity, Flag,
    Value,    \* the values a flag may carry, which stand for their text too
    Numeric,  \* those of them that int() and float() read
    On, Off,  \* a flag that is on or off and carries no value
    Unknown,  \* a flag the backend does not serve
    Default,  \* the caller's default for anything but a boolean
    None,
    Views,    \* bound: what an operator makes of a flag, [Entity -> ...]
    MaxEdits  \* bound

ASSUME ConstantsAssumption ==
    /\ Numeric \subseteq Value
    /\ Views \subseteq [Entity -> {Unknown, Off, On} \cup Value]
    /\ MaxEdits \in Nat
    /\ Value \cap {On, Off, Unknown, Default, None} = {}
    /\ On # Off /\ Unknown \notin {On, Off} /\ None \notin {On, Off}

VARIABLES
    backend,         \* which of the three the process has
    enabled_values,  \* per flag: _enabled_values, None where there is none
    serve,           \* per flag and entity: what the backend says of it
    attributes,      \* the entity in GrowthBook's attributes
    pc, call,        \* per thread: the evaluation it is in
    answer,          \* per thread: what its last evaluation returned
    seen,            \* history: what the flag was during the evaluation
    met,             \* history: other entities it overlapped with
    edits

code == <<pc, call, answer, attributes>>
vars == <<backend, enabled_values, serve, attributes, pc, call, answer, seen, met, edits>>

Backend == {"growthbook", "unleash", "statsig"}
Kind == {"boolean", "string", "number", "object"}
DefaultsOf(k) == IF k = "boolean" THEN BOOLEAN ELSE {Default}
NoCall == [flag |-> None, entity |-> None, kind |-> None, default |-> None]
Call == UNION {[flag : Flag, entity : Entity, kind : {k}, default : DefaultsOf(k)] : k \in Kind}

\* What a backend can say of a flag: Statsig has gates only.  An Unleash flag
\* may have variants and an enabled value as well.
Cells ==
    IF backend = "statsig" THEN {Unknown, Off, On} ELSE {Unknown, Off, On} \cup Value

Running(t) == pc[t] # "idle"

Init ==
    /\ backend \in Backend
    /\ enabled_values \in [Flag -> Value \cup {None}]
    /\ backend = "growthbook" => enabled_values = [f \in Flag |-> None]
    /\ serve \in [Flag -> Views]
    /\ \A f \in Flag, e \in Entity : serve[f][e] \in Cells
    /\ attributes = None
    /\ pc = [t \in Thread |-> "idle"]
    /\ call = [t \in Thread |-> NoCall]
    /\ answer = [t \in Thread |-> None]
    /\ seen = [t \in Thread |-> {}]
    /\ met = [t \in Thread |-> {}]
    /\ edits = 0

\* The SDK's client calls resolve_<kind>_details.
Resolve(t, c) ==
    /\ ~Running(t)
    /\ pc' = [pc EXCEPT ![t] = "asked"]
    /\ call' = [call EXCEPT ![t] = c]
    /\ seen' = [seen EXCEPT ![t] = {serve[c.flag]}]
    /\ met' = [u \in Thread |->
                 IF u = t
                 THEN {call[v].entity : v \in {w \in Thread \ {t} : Running(w)}} \ {c.entity}
                 ELSE IF Running(u)
                      THEN met[u] \cup ({c.entity} \ {call[u].entity})
                      ELSE met[u]]
    /\ UNCHANGED <<backend, enabled_values, serve, attributes, answer, edits>>

\* The flag changes, for some entities.
EditFlag(f, view) ==
    /\ edits < MaxEdits
    /\ \A e \in Entity : view[e] \in Cells
    /\ edits' = edits + 1
    /\ serve' = [serve EXCEPT ![f] = view]
    /\ seen' = [t \in Thread |->
                  IF Running(t) /\ call[t].flag = f THEN seen[t] \cup {view} ELSE seen[t]]
    /\ UNCHANGED <<backend, enabled_values, met, code>>

Says(t, e) == serve[call[t].flag][e]

Reply(t, a) ==
    /\ pc' = [pc EXCEPT ![t] = "idle"]
    /\ answer' = [answer EXCEPT ![t] = a]
    /\ call' = [call EXCEPT ![t] = NoCall]
    /\ seen' = [seen EXCEPT ![t] = {}]
    /\ met' = [met EXCEPT ![t] = {}]
    /\ UNCHANGED <<backend, enabled_values, serve, attributes, edits>>

\* Mutant: the attributes are set only on a client that has none.
SetAttributesOnce(t) ==
    /\ backend = "growthbook" /\ pc[t] = "asked"
    /\ attributes' = IF attributes = None THEN call[t].entity ELSE attributes
    /\ pc' = [pc EXCEPT ![t] = "evaluating"]
    /\ UNCHANGED <<backend, enabled_values, serve, call, answer, seen, met, edits>>

\* _eval's first call to the client.
SetAttributes(t) ==
    /\ backend = "growthbook" /\ pc[t] = "asked"
    /\ attributes' = call[t].entity
    /\ pc' = [pc EXCEPT ![t] = "evaluating"]
    /\ UNCHANGED <<backend, enabled_values, serve, call, answer, seen, met, edits>>

\* What resolve_*_details makes of eval_feature()'s result: booleans ignore
\* the default, numbers fall back to it when int() or float() raises.
FromFeature(c, r) ==
    IF c.kind = "boolean" THEN r \in {On} \cup Value
    ELSE IF r \in {On, Off} \cup (IF c.kind = "number" THEN Numeric ELSE Value)
         THEN r ELSE c.default

EvalFeature(t) ==
    /\ backend = "growthbook" /\ pc[t] = "evaluating"
    /\ Reply(t, FromFeature(call[t], Says(t, attributes)))

\* is_enabled(flag, context, default) of a flag the client knows or does not.
IsEnabled(r, default) == IF r = Unknown THEN default ELSE r # Off

UnleashBoolean(t) ==
    /\ backend = "unleash" /\ pc[t] = "asked" /\ call[t].kind = "boolean"
    /\ Reply(t, IsEnabled(Says(t, call[t].entity), call[t].default))

\* Mutant: a flag without an enabled value is asked again too.
GetVariantUnmapped(t) ==
    /\ backend = "unleash" /\ pc[t] = "asked" /\ call[t].kind = "string"
    /\ IF Says(t, call[t].entity) \in Value
       THEN Reply(t, Says(t, call[t].entity))
       ELSE /\ pc' = [pc EXCEPT ![t] = "toggle"]
            /\ UNCHANGED <<backend, enabled_values, serve, attributes, call, answer,
                           seen, met, edits>>

\* get_variant(): a usable variant answers; without one a flag that has an
\* enabled value is asked again, as a toggle.
GetVariant(t) ==
    /\ backend = "unleash" /\ pc[t] = "asked" /\ call[t].kind = "string"
    /\ LET r == Says(t, call[t].entity)
       IN  \/ r \in Value /\ Reply(t, r)
           \/ /\ r \notin Value /\ enabled_values[call[t].flag] = None
              /\ Reply(t, call[t].default)
           \/ /\ r \notin Value /\ enabled_values[call[t].flag] # None
              /\ pc' = [pc EXCEPT ![t] = "toggle"]
              /\ UNCHANGED <<backend, enabled_values, serve, attributes, call, answer,
                             seen, met, edits>>

\* Mutant: the mapped value without asking the toggle.
MappedUnasked(t) ==
    /\ backend = "unleash" /\ pc[t] = "toggle"
    /\ Reply(t, enabled_values[call[t].flag])

\* The fallback from variants to the toggle.
FallBack(t) ==
    /\ backend = "unleash" /\ pc[t] = "toggle"
    /\ Reply(t, IF IsEnabled(Says(t, call[t].entity), FALSE)
                THEN enabled_values[call[t].flag] ELSE call[t].default)

\* check_gate() is FALSE of a gate Statsig does not know; a string asks the
\* gate too.
StatsigGate(t) ==
    /\ backend = "statsig" /\ pc[t] = "asked" /\ call[t].kind \in {"boolean", "string"}
    /\ LET on == Says(t, call[t].entity) = On
           mapped == enabled_values[call[t].flag]
       IN  Reply(t, IF call[t].kind = "boolean" THEN on
                    ELSE IF on /\ mapped # None THEN mapped ELSE call[t].default)

\* Unleash and Statsig answer numbers and objects with the default.
NotServed(t) ==
    /\ backend # "growthbook" /\ pc[t] = "asked" /\ call[t].kind \in {"number", "object"}
    /\ Reply(t, call[t].default)

Step(t) ==
    \/ SetAttributes(t) \/ EvalFeature(t)
    \/ UnleashBoolean(t) \/ GetVariant(t) \/ FallBack(t)
    \/ StatsigGate(t)
    \/ NotServed(t)

Next ==
    \/ \E f \in Flag, view \in Views : EditFlag(f, view)
    \/ \E t \in Thread : Step(t) \/ \E c \in Call : Resolve(t, c)

Spec == Init /\ [][Next]_vars

-----------------------------------------------------------------------------
(* Properties.                                                             *)

\* Types; a running thread has a call and knows the present view of its flag,
\* and only a flag with an enabled value is asked again as a toggle.
TypeOK ==
    /\ backend \in Backend
    /\ enabled_values \in [Flag -> Value \cup {None}]
    /\ serve \in [Flag -> Views]
    /\ \A f \in Flag, e \in Entity : serve[f][e] \in Cells
    /\ attributes \in Entity \cup {None}
    /\ pc \in [Thread -> {"idle", "asked", "evaluating", "toggle"}]
    /\ call \in [Thread -> Call \cup {NoCall}]
    /\ answer \in [Thread -> BOOLEAN \cup Value \cup {On, Off, Default, None}]
    /\ seen \in [Thread -> SUBSET Views]
    /\ met \in [Thread -> SUBSET Entity]
    /\ \A t \in Thread :
        /\ Running(t) => call[t] \in Call /\ serve[call[t].flag] \in seen[t]
        /\ pc[t] = "evaluating" => attributes \in Entity
        /\ pc[t] = "toggle" => enabled_values[call[t].flag] # None

\* The value that a word of the backend carries for placement, or None.
Worth(f, r) ==
    IF r \in Value \/ (backend = "growthbook" /\ r # Unknown) THEN r
    ELSE IF r = On THEN enabled_values[f] ELSE None

\* What an evaluation should answer where the backend says r.
Reference(c, r) ==
    IF c.kind = "boolean"
    THEN IF backend = "unleash" /\ r = Unknown THEN c.default ELSE r \notin {Off, Unknown}
    ELSE LET w == Worth(c.flag, r)
             served == \/ backend = "growthbook" /\ (c.kind = "number" => w \notin Value \ Numeric)
                       \/ c.kind = "string"
         IN  IF w # None /\ served THEN w ELSE c.default

\* Whom an answer may be about: the caller's entity, and on GrowthBook's one
\* client also that of an evaluation that overlapped.
About(t) == {call[t].entity} \cup (IF backend = "growthbook" THEN met[t] ELSE {})

\* Unleash's two questions across an edit: there was no variant when the first
\* was asked, there is one at the second, and the answer is neither of these
\* but the value mapped to a toggle.
TwoMoments(t) ==
    /\ backend = "unleash" /\ call[t].kind = "string"
    /\ \E view \in seen[t] : view[call[t].entity] \notin Value
    /\ Says(t, call[t].entity) \in Value
    /\ answer'[t] = enabled_values[call[t].flag]
    /\ answer'[t] # None

\* An answer is what the backend said at one moment of the evaluation, or
\* Unleash's one mixture, of a variant that came between its two questions;
\* and it is not about an entity whose evaluation was over before this began.
AnswerIsExplained ==
    [][\A t \in Thread : Running(t) /\ ~Running(t)' =>
        \/ TwoMoments(t)
        \/ \E view \in seen[t], e \in About(t) :
              answer'[t] = Reference(call[t], view[e])]_vars

\* A flag that the backend does not serve during the evaluation changes no
\* placement: strings, numbers and objects answer the default the policy
\* passed, whoever else is asking.
UnknownLeavesTheTask ==
    [][\A t \in Thread :
        /\ Running(t) /\ ~Running(t)' /\ call[t].kind # "boolean"
        /\ \A view \in seen[t], e \in Entity : view[e] = Unknown
        => answer'[t] = call[t].default]_vars
=============================================================================
