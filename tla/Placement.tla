----------------------------- MODULE Placement -----------------------------
(***************************************************************************)
(* The placement policy (policy.py).  A DAG parser loads a task with the   *)
(* attributes its author gave it, runs task_policy on it, which asks the   *)
(* backend one flag after the other, and stores the outcome for the        *)
(* scheduler.  Nothing keeps the backend still meanwhile: a flag may be    *)
(* edited, or the backend go away, between two questions of one pass; and  *)
(* several parsers may work on the same task.                              *)
(*                                                                         *)
(* Outside the code are the backend, the SDK's client (a failing or        *)
(* mistyped evaluation answers the default, here Unset) and Airflow's      *)
(* parse loop.  A task stands for its entity dag_id:task_id.               *)
(***************************************************************************)
EXTENDS Naturals, Sequences, FiniteSets

CONSTANTS
    Task, Flag, Attr, Parser,
    StringValue, NumberValue,  \* what a flag may be set to
    Unset,       \* the sentinels _UNSET and _UNSET_INT
    None,
    Authored,    \* [Task -> [Attr -> values]]: what the DAG's author wrote
    Writable,    \* [Task -> SUBSET Attr]: assigning another one raises
    Dimensions,  \* every PlacementDimension, in the order of registration
    BuiltIns,    \* how many of them policy.py registers itself
    MaxEdits     \* bound: changes of the backend and of the configuration

Value == StringValue \cup NumberValue
AttrValue == Value \cup {Authored[t][a] : t \in Task, a \in Attr}
DimensionRecord ==
    [flag : Flag, kind : {"string", "number"}, attr : Attr, raises : SUBSET Task]

ASSUME ConstantsAssumption ==
    /\ Dimensions \in Seq(DimensionRecord)
    /\ BuiltIns \in 0..Len(Dimensions)
    /\ MaxEdits \in Nat
    /\ None \notin Task
    /\ Unset \notin AttrValue
    /\ Authored \in [Task -> [Attr -> AttrValue]]

VARIABLES
    config,         \* the backend: per flag and task, the value it serves
    up,             \* whether the backend can be reached
    enable_policy,  \* [openfeature] enable_policy
    edits,
    registered,     \* per parser: how many dimensions _DIMENSIONS holds
    parsing,        \* per parser: the task in hand, or None
    next,           \* per parser: the dimension to apply next, 0 when off
    attrs,          \* per parser: the attributes of the task in hand
    seen,           \* per parser: the views in force since it loaded the task (history)
    placed          \* per task: the attributes the scheduler uses

backend == <<config, up, enable_policy, edits>>
passes == <<parsing, next, attrs>>
vars == <<backend, registered, passes, seen, placed>>

View == [config |-> config, up |-> up]

\* What the client answers to the question of dimension d for task t.
Answer(view, d, t) ==
    LET v == view.config[d.flag][t]
    IN  IF view.up /\ v \in (IF d.kind = "number" THEN NumberValue ELSE StringValue)
        THEN v ELSE Unset

\* Whether dimension d changes task t under a view: the flag resolves, and
\* the setter neither raises nor meets a read-only attribute.
Applies(view, d, t) ==
    /\ Answer(view, d, t) # Unset
    /\ t \notin d.raises
    /\ d.attr \in Writable[t]

\* The tasks were parsed before the package was installed.
Init ==
    /\ config = [f \in Flag |-> [t \in Task |-> Unset]]
    /\ up = TRUE
    /\ enable_policy = TRUE
    /\ edits = 0
    /\ registered = [w \in Parser |-> BuiltIns]
    /\ parsing = [w \in Parser |-> None]
    /\ next = [w \in Parser |-> 0]
    /\ attrs = [w \in Parser |-> [a \in Attr |-> None]]
    /\ seen = [w \in Parser |-> {}]
    /\ placed = Authored

-----------------------------------------------------------------------------
(* The backend and the configuration.                                      *)

\* Every pass under way sees the new view from now on.
Edited ==
    /\ edits < MaxEdits
    /\ edits' = edits + 1
    /\ seen' = [w \in Parser |-> IF parsing[w] = None THEN {} ELSE seen[w] \cup {View'}]
    /\ UNCHANGED <<registered, passes, placed>>

\* A ramp step or a revert: the value a flag serves to one task.
EditFlag(f, t, v) ==
    /\ config[f][t] # v
    /\ config' = [config EXCEPT ![f][t] = v]
    /\ UNCHANGED <<up, enable_policy>>
    /\ Edited

Outage ==
    /\ up' = ~up
    /\ UNCHANGED <<config, enable_policy>>
    /\ Edited

SetGate ==
    /\ enable_policy' = ~enable_policy
    /\ UNCHANGED <<config, up>>
    /\ Edited

-----------------------------------------------------------------------------
(* A parser.                                                               *)

\* register_placement(), from a bootstrap each process runs, appends to the
\* list; a pass under way reads the list as it grows.
RegisterPlacement(w) ==
    /\ registered[w] < Len(Dimensions)
    /\ registered' = [registered EXCEPT ![w] = @ + 1]
    /\ UNCHANGED <<backend, passes, seen, placed>>

\* Mutant: the policy works on what the last pass left.
BeginPassOnPlaced(w, t) ==
    /\ parsing[w] = None
    /\ parsing' = [parsing EXCEPT ![w] = t]
    /\ next' = [next EXCEPT ![w] = IF enable_policy THEN 1 ELSE 0]
    /\ attrs' = [attrs EXCEPT ![w] = placed[t]]
    /\ seen' = [seen EXCEPT ![w] = {View}]
    /\ UNCHANGED <<backend, registered, placed>>

\* The file is parsed anew and Airflow calls task_policy on the task, which
\* tests the gate once.
BeginPass(w, t) ==
    /\ parsing[w] = None
    /\ parsing' = [parsing EXCEPT ![w] = t]
    /\ next' = [next EXCEPT ![w] = IF enable_policy THEN 1 ELSE 0]
    /\ attrs' = [attrs EXCEPT ![w] = Authored[t]]
    /\ seen' = [seen EXCEPT ![w] = {View}]
    /\ UNCHANGED <<backend, registered, placed>>

\* Mutant: the sentinel is not tested.
ApplySentinel(w) ==
    /\ parsing[w] # None
    /\ next[w] \in 1..registered[w]
    /\ LET d == Dimensions[next[w]]
       IN  attrs' = [attrs EXCEPT ![w][d.attr] = Answer(View, d, parsing[w])]
    /\ next' = [next EXCEPT ![w] = @ + 1]
    /\ UNCHANGED <<backend, registered, parsing, seen, placed>>

\* Mutant: `break' for `continue' at a flag that does not resolve.
ApplyBreaks(w) ==
    /\ parsing[w] # None
    /\ next[w] \in 1..registered[w]
    /\ LET d == Dimensions[next[w]]
       IN  IF Applies(View, d, parsing[w])
           THEN /\ attrs' = [attrs EXCEPT ![w][d.attr] = Answer(View, d, parsing[w])]
                /\ next' = [next EXCEPT ![w] = @ + 1]
           ELSE /\ next' = [next EXCEPT ![w] = Len(Dimensions) + 1]
                /\ UNCHANGED attrs
    /\ UNCHANGED <<backend, registered, parsing, seen, placed>>

\* Mutant: a setter's exception ends the pass and the parse of the task.
ApplyUncaught(w) ==
    /\ parsing[w] # None
    /\ next[w] \in 1..registered[w]
    /\ LET d == Dimensions[next[w]]
           v == Answer(View, d, parsing[w])
           raises == v # Unset /\ (parsing[w] \in d.raises \/ d.attr \notin Writable[parsing[w]])
       IN  /\ attrs' = IF v # Unset /\ ~raises THEN [attrs EXCEPT ![w][d.attr] = v] ELSE attrs
           /\ next' = [next EXCEPT ![w] = IF raises THEN 0 ELSE @ + 1]
           /\ parsing' = [parsing EXCEPT ![w] = IF raises THEN None ELSE @]
    /\ UNCHANGED <<backend, registered, seen, placed>>

\* One turn of the loop in apply_placement: ask, skip a flag that does not
\* resolve, run the setter, skip a setter that raises.
ApplyDimension(w) ==
    /\ parsing[w] # None
    /\ next[w] \in 1..registered[w]
    /\ LET d == Dimensions[next[w]]
       IN  attrs' = IF Applies(View, d, parsing[w])
                    THEN [attrs EXCEPT ![w][d.attr] = Answer(View, d, parsing[w])]
                    ELSE attrs
    /\ next' = [next EXCEPT ![w] = @ + 1]
    /\ UNCHANGED <<backend, registered, parsing, seen, placed>>

\* The policy returned; Airflow stores the parsed task.
CommitPass(w) ==
    /\ parsing[w] # None
    /\ next[w] \notin 1..registered[w]
    /\ placed' = [placed EXCEPT ![parsing[w]] = attrs[w]]
    /\ parsing' = [parsing EXCEPT ![w] = None]
    /\ next' = [next EXCEPT ![w] = 0]
    /\ attrs' = [attrs EXCEPT ![w] = [a \in Attr |-> None]]
    /\ seen' = [seen EXCEPT ![w] = {}]
    /\ UNCHANGED <<backend, registered>>

-----------------------------------------------------------------------------
Edit ==
    \/ \E f \in Flag, t \in Task, v \in Value \cup {Unset} : EditFlag(f, t, v)
    \/ Outage
    \/ SetGate

Parse(w) == ApplyDimension(w) \/ CommitPass(w)

Next ==
    \/ Edit
    \/ \E w \in Parser : RegisterPlacement(w) \/ Parse(w)
    \/ \E w \in Parser, t \in Task : BeginPass(w, t)

Spec == Init /\ [][Next]_vars

\* The parse loop comes back to every task, finishes the pass it began, and
\* every process runs its bootstrap.  Nobody has to edit a flag.
Fairness ==
    /\ \A w \in Parser : WF_vars(RegisterPlacement(w)) /\ WF_vars(Parse(w))
    /\ \A t \in Task : SF_vars(\E w \in Parser : BeginPass(w, t))

FairSpec == Spec /\ Fairness

-----------------------------------------------------------------------------
(* Properties.                                                             *)

\* Types; a sentinel is never an attribute of a task.
TypeOK ==
    /\ config \in [Flag -> [Task -> Value \cup {Unset}]]
    /\ up \in BOOLEAN
    /\ enable_policy \in BOOLEAN
    /\ edits \in 0..MaxEdits
    /\ registered \in [Parser -> BuiltIns..Len(Dimensions)]
    /\ parsing \in [Parser -> Task \cup {None}]
    /\ next \in [Parser -> 0..(Len(Dimensions) + 1)]
    /\ attrs \in [Parser -> [Attr -> AttrValue \cup {None}]]
    /\ \A w \in Parser : parsing[w] # None => attrs[w] \in [Attr -> AttrValue]
    /\ seen \in [Parser -> SUBSET [config : [Flag -> [Task -> Value \cup {Unset}]], up : BOOLEAN]]
    /\ placed \in [Task -> [Attr -> AttrValue]]

\* The dimensions a pass of w has been through that target attribute a.
Targeting(w, a) == {j \in 1..Len(Dimensions) : j < next[w] /\ Dimensions[j].attr = a}

\* Dimension j could leave t as it was, under some view of the pass.
Skippable(w, j) == \E view \in seen[w] : ~Applies(view, Dimensions[j], parsing[w])

\* Some view of the pass explains the attribute by dimension j.
Gives(w, j, v) ==
    \E view \in seen[w] :
        /\ Applies(view, Dimensions[j], parsing[w])
        /\ Answer(view, Dimensions[j], parsing[w]) = v

\* Whatever is edited during a pass, every attribute is the authored one,
\* every dimension for it having had a moment of not applying, or the answer
\* some dimension had at some moment, every later dimension for it having had
\* a moment of not applying.  With the policy off it is the authored one.
EveryAttributeExplained ==
    \A w \in Parser : parsing[w] # None =>
        \A a \in Attr :
            \/ /\ attrs[w][a] = Authored[parsing[w]][a]
               /\ \A j \in Targeting(w, a) : Skippable(w, j)
            \/ \E j \in Targeting(w, a) :
                /\ Gives(w, j, attrs[w][a])
                /\ \A k \in Targeting(w, a) : k > j => Skippable(w, k)

\* What the first n dimensions make of attribute a of task t under one view:
\* the answer of the last one that applies.
Expected(view, t, n, a) ==
    LET applying == {j \in 1..n :
            Dimensions[j].attr = a /\ Applies(view, Dimensions[j], t)}
    IN  IF applying = {} THEN Authored[t][a]
        ELSE LET last == CHOOSE j \in applying : \A k \in applying : k <= j
             IN  Answer(view, Dimensions[last], t)

\* A pass that nothing was edited under leaves exactly the expected task:
\* one subset, the same at every parse (architecture.md:68).
QuietPassIsExact ==
    \A w \in Parser : parsing[w] # None =>
        \A view \in seen[w] : seen[w] = {view} =>
            \A a \in Attr :
                attrs[w][a] = Expected(view, parsing[w],
                                       IF next[w] = 0 THEN 0 ELSE next[w] - 1, a)

\* The placement the current configuration asks for.
Target(t) ==
    [a \in Attr |-> Expected(View, t, IF enable_policy THEN Len(Dimensions) ELSE 0, a)]

\* "Widen or revert by editing the flag; no redeploy" (architecture.md:69):
\* once the flags rest, every task comes to rest where they ask for, also when
\* a parser that loaded the task before the last edit stores it afterwards.
PlacementConverges == \A t \in Task : <>[](placed[t] = Target(t))
=============================================================================
