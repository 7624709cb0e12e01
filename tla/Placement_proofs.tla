-------------------------- MODULE Placement_proofs --------------------------
(***************************************************************************)
(* Proofs about Placement and Exposure, for every list of dimensions,      *)
(* every set of tasks, flags, parsers and runs, and any number of edits.   *)
(***************************************************************************)
EXTENDS Exposure, TLAPS

\* A dimension that applies gives a value that is not a sentinel.
LEMMA AnswerType ==
    ASSUME TypeOK, NEW t \in Task, NEW d \in DimensionRecord
    PROVE  /\ d.attr \in Attr
           /\ Answer(View, d, t) \in Value \cup {Unset}
           /\ Applies(View, d, t) => Answer(View, d, t) \in Value
BY DEF TypeOK, Answer, Applies, View, DimensionRecord, Value

LEMMA DimensionAt ==
    ASSUME NEW j \in 1..Len(Dimensions)
    PROVE  Dimensions[j] \in DimensionRecord
BY ConstantsAssumption

LEMMA TypeInit == Init => TypeOK
BY ConstantsAssumption DEF Init, TypeOK, AttrValue

LEMMA TypeStep == TypeOK /\ [Next]_vars => TypeOK'
<1> SUFFICES ASSUME TypeOK, [Next]_vars PROVE TypeOK'
    OBVIOUS
<1> USE ConstantsAssumption DEF TypeOK
<1>1. ASSUME Edited, config' \in [Flag -> [Task -> Value \cup {Unset}]],
             up' \in BOOLEAN, enable_policy' \in BOOLEAN
      PROVE  TypeOK'
    BY <1>1 DEF Edited, passes, View
<1>2. ASSUME NEW f \in Flag, NEW t \in Task, NEW v \in Value \cup {Unset}, EditFlag(f, t, v)
      PROVE  TypeOK'
    BY <1>1, <1>2 DEF EditFlag
<1>3. CASE Outage
    BY <1>1, <1>3 DEF Outage
<1>4. CASE SetGate
    BY <1>1, <1>4 DEF SetGate
<1>5. ASSUME NEW w \in Parser, RegisterPlacement(w) PROVE TypeOK'
    BY <1>5 DEF RegisterPlacement, backend, passes
<1>6. ASSUME NEW w \in Parser, NEW t \in Task, BeginPass(w, t) PROVE TypeOK'
    <2>1. Authored[t] \in [Attr -> AttrValue]
        OBVIOUS
    <2>2. attrs' \in [Parser -> [Attr -> AttrValue \cup {None}]]
        BY <1>6, <2>1 DEF BeginPass
    <2>3. \A u \in Parser : parsing'[u] # None => attrs'[u] \in [Attr -> AttrValue]
        BY <1>6, <2>1 DEF BeginPass
    <2>4. seen' \in [Parser -> SUBSET [config : [Flag -> [Task -> Value \cup {Unset}]], up : BOOLEAN]]
        BY <1>6 DEF BeginPass, View
    <2> QED
        BY <1>6, <2>2, <2>3, <2>4 DEF BeginPass, backend
<1>7. ASSUME NEW w \in Parser, ApplyDimension(w) PROVE TypeOK'
    <2> DEFINE d == Dimensions[next[w]]
               v == Answer(View, d, parsing[w])
    <2>1. parsing[w] \in Task /\ next[w] \in 1..Len(Dimensions)
        BY <1>7 DEF ApplyDimension
    <2>2. d.attr \in Attr /\ (Applies(View, d, parsing[w]) => v \in AttrValue)
        BY <2>1, DimensionAt, AnswerType DEF AttrValue
    <2>3. attrs' = IF Applies(View, d, parsing[w])
                   THEN [attrs EXCEPT ![w] = [attrs[w] EXCEPT ![d.attr] = v]] ELSE attrs
        BY <1>7 DEF ApplyDimension
    <2> HIDE DEF d, v
    <2>4. attrs' \in [Parser -> [Attr -> AttrValue \cup {None}]]
        BY <2>2, <2>3
    <2>5. ASSUME NEW u \in Parser, parsing'[u] # None PROVE attrs'[u] \in [Attr -> AttrValue]
        <3>1. parsing' = parsing /\ attrs[u] \in [Attr -> AttrValue]
            BY <1>7, <2>5 DEF ApplyDimension
        <3>2. CASE u = w
            BY <2>2, <2>3, <3>1, <3>2
        <3>3. CASE u # w
            BY <2>3, <3>1, <3>3
        <3> QED
            BY <3>2, <3>3
    <2> QED
        BY <1>7, <2>1, <2>4, <2>5 DEF ApplyDimension, backend
<1>8. ASSUME NEW w \in Parser, CommitPass(w) PROVE TypeOK'
    BY <1>8 DEF CommitPass, backend
<1>9. CASE UNCHANGED vars
    BY <1>9 DEF vars, backend, passes
<1> QED
    BY <1>2, <1>3, <1>4, <1>5, <1>6, <1>7, <1>8, <1>9 DEF Next, Edit, Parse

\* No sentinel ever becomes an attribute of a task.
THEOREM TypeCorrect == Spec => []TypeOK
BY TypeInit, TypeStep, PTL DEF Spec

-----------------------------------------------------------------------------
(* The attributes of a pass.                                               *)

\* The present view is one of those a pass under way saw; without this the
\* answer a pass gets now would need another explanation.
PresentSeen == \A w \in Parser : parsing[w] # None => View \in seen[w]

LEMMA PresentStep == TypeOK /\ PresentSeen /\ [Next]_vars => PresentSeen'
<1> SUFFICES ASSUME TypeOK, PresentSeen, [Next]_vars PROVE PresentSeen'
    OBVIOUS
<1> USE DEF TypeOK, PresentSeen
<1>1. CASE Edit
    <2>1. Edited
        BY <1>1 DEF Edit, EditFlag, Outage, SetGate
    <2> QED
        BY <2>1 DEF Edited, passes
<1>2. ASSUME NEW w \in Parser, RegisterPlacement(w) \/ ApplyDimension(w) PROVE PresentSeen'
    <2>1. parsing' = parsing /\ seen' = seen
        BY <1>2 DEF RegisterPlacement, ApplyDimension, passes
    <2>2. View' = View
        BY <1>2 DEF RegisterPlacement, ApplyDimension, backend, View
    <2> QED
        BY <2>1, <2>2
<1>3. ASSUME NEW w \in Parser, NEW t \in Task, BeginPass(w, t) PROVE PresentSeen'
    BY <1>3 DEF BeginPass, backend, View
<1>4. ASSUME NEW w \in Parser, CommitPass(w) PROVE PresentSeen'
    BY <1>4 DEF CommitPass, backend, View
<1>5. CASE UNCHANGED vars
    BY <1>5 DEF vars, backend, passes, View
<1> QED
    BY <1>1, <1>2, <1>3, <1>4, <1>5 DEF Next, Parse

\* EveryAttributeExplained for one parser and one attribute.
Explained(w, a) ==
    \/ /\ attrs[w][a] = Authored[parsing[w]][a]
       /\ \A j \in Targeting(w, a) : Skippable(w, j)
    \/ \E j \in Targeting(w, a) :
        /\ Gives(w, j, attrs[w][a])
        /\ \A k \in Targeting(w, a) : k > j => Skippable(w, k)

\* What explained an attribute still explains it when more views are seen.
LEMMA MoreViews ==
    ASSUME NEW w \in Parser, NEW a \in Attr, Explained(w, a),
           parsing'[w] = parsing[w], next'[w] = next[w], attrs'[w] = attrs[w],
           seen[w] \subseteq seen'[w]
    PROVE  Explained(w, a)'
<1>1. Targeting(w, a)' = Targeting(w, a)
    BY DEF Targeting
<1>2. ASSUME NEW j, Skippable(w, j) PROVE Skippable(w, j)'
    BY <1>2 DEF Skippable, Applies, Answer
<1>3. ASSUME NEW j, NEW v, Gives(w, j, v) PROVE Gives(w, j, v)'
    BY <1>3 DEF Gives, Applies, Answer
<1> QED
    BY <1>1, <1>2, <1>3 DEF Explained

\* One turn of the loop: the new attribute is explained by the dimension just
\* applied, the others by what explained them before.
LEMMA LoopExplains ==
    ASSUME TypeOK, PresentSeen, NEW w \in Parser, ApplyDimension(w),
           NEW a \in Attr, Explained(w, a)
    PROVE  Explained(w, a)'
<1> DEFINE j == next[w]
           d == Dimensions[j]
           t == parsing[w]
<1>1. /\ t \in Task /\ t # None /\ j \in 1..Len(Dimensions)
      /\ next'[w] = j + 1 /\ parsing' = parsing /\ seen' = seen
      /\ View \in seen[w]
    BY ConstantsAssumption DEF ApplyDimension, TypeOK, PresentSeen
<1>2. attrs'[w] = IF Applies(View, d, t)
                  THEN [attrs[w] EXCEPT ![d.attr] = Answer(View, d, t)] ELSE attrs[w]
    BY DEF ApplyDimension, TypeOK
<1>3. /\ \A k : Skippable(w, k)' <=> Skippable(w, k)
      /\ \A k, v : Gives(w, k, v)' <=> Gives(w, k, v)
    BY <1>1 DEF Skippable, Gives
<1>4. /\ \A k \in Targeting(w, a)' : k \in Targeting(w, a) \/ (k = j /\ d.attr = a)
      /\ Targeting(w, a) \subseteq Targeting(w, a)'
      /\ \A k \in Targeting(w, a)' : k <= j
      /\ d.attr = a => j \in Targeting(w, a)'
    BY <1>1 DEF Targeting
<1>5. CASE d.attr = a /\ Applies(View, d, t)
    <2>1. attrs'[w][a] = Answer(View, d, t)
        <3>1. a \in DOMAIN attrs[w]
            BY <1>1 DEF TypeOK
        <3> QED
            BY <1>2, <1>5, <3>1
    <2>2. Gives(w, j, attrs'[w][a])
        BY <1>1, <1>5, <2>1 DEF Gives
    <2>3. \A k \in Targeting(w, a)' : ~(k > j)
        BY <1>1, <1>4 DEF Targeting
    <2> QED
        BY <1>3, <1>4, <1>5, <2>2, <2>3 DEF Explained
<1>6. CASE ~(d.attr = a /\ Applies(View, d, t))
    <2>1. attrs'[w][a] = attrs[w][a]
        BY <1>1, <1>2, <1>6 DEF TypeOK
    <2>2. d.attr = a => Skippable(w, j)
        BY <1>1, <1>6 DEF Skippable
    <2> HIDE DEF j, d, t
    <2> QED
        BY <1>1, <1>3, <1>4, <2>1, <2>2 DEF Explained
<1> QED
    BY <1>5, <1>6

LEMMA ExplainedStep ==
    TypeOK /\ PresentSeen /\ EveryAttributeExplained /\ [Next]_vars => EveryAttributeExplained'
<1> SUFFICES ASSUME TypeOK, PresentSeen, EveryAttributeExplained, [Next]_vars,
                    NEW w \in Parser, parsing'[w] # None, NEW a \in Attr
             PROVE  Explained(w, a)'
    BY DEF EveryAttributeExplained, Explained
<1>1. parsing[w] # None => Explained(w, a)
    BY DEF EveryAttributeExplained, Explained
<1>2. CASE Edit
    <2>1. Edited
        BY <1>2 DEF Edit, EditFlag, Outage, SetGate
    <2>2. parsing' = parsing /\ next' = next /\ attrs' = attrs /\ seen[w] \subseteq seen'[w]
        BY <2>1 DEF Edited, passes
    <2> QED
        BY <1>1, <2>2, MoreViews
<1>3. ASSUME NEW u \in Parser, ApplyDimension(u) PROVE Explained(w, a)'
    <2>1. parsing' = parsing /\ seen' = seen
        BY <1>3 DEF ApplyDimension
    <2>2. CASE u = w
        BY <1>1, <1>3, <2>1, <2>2, LoopExplains
    <2>3. CASE u # w
        <3>1. next'[w] = next[w] /\ attrs'[w] = attrs[w]
            BY <1>3, <2>3 DEF ApplyDimension, TypeOK
        <3> QED
            BY <1>1, <2>1, <3>1, MoreViews
    <2> QED
        BY <2>2, <2>3
<1>4. ASSUME NEW u \in Parser, NEW t \in Task, BeginPass(u, t) PROVE Explained(w, a)'
    <2>1. CASE u = w
        <3>1. parsing'[w] = t /\ attrs'[w] = Authored[t] /\ next'[w] \in {0, 1}
            BY <1>4, <2>1 DEF BeginPass, TypeOK
        <3>2. Targeting(w, a)' = {}
            BY <3>1 DEF Targeting
        <3> QED
            BY <3>1, <3>2 DEF Explained
    <2>2. CASE u # w
        <3>1. /\ parsing'[w] = parsing[w] /\ next'[w] = next[w]
              /\ attrs'[w] = attrs[w] /\ seen'[w] = seen[w]
            BY <1>4, <2>2 DEF BeginPass, TypeOK
        <3> QED
            BY <1>1, <3>1, MoreViews
    <2> QED
        BY <2>1, <2>2
<1>5. ASSUME NEW u \in Parser, CommitPass(u) PROVE Explained(w, a)'
    <2>1. /\ u # w /\ parsing'[w] = parsing[w] /\ next'[w] = next[w]
          /\ attrs'[w] = attrs[w] /\ seen'[w] = seen[w]
        BY <1>5 DEF CommitPass, TypeOK
    <2> QED
        BY <1>1, <2>1, MoreViews
<1>6. CASE \/ \E u \in Parser : RegisterPlacement(u)
           \/ UNCHANGED vars
    <2>1. parsing' = parsing /\ next' = next /\ attrs' = attrs /\ seen' = seen
        BY <1>6 DEF RegisterPlacement, passes, vars
    <2> QED
        BY <1>1, <2>1, MoreViews
<1> QED
    BY <1>2, <1>3, <1>4, <1>5, <1>6 DEF Next, Parse

\* Whatever is edited while a pass runs, and however passes overlap, every
\* attribute is what the author or one of its flags said during that pass.
THEOREM AttributesExplained == Spec => []EveryAttributeExplained
<1>1. Init => PresentSeen /\ EveryAttributeExplained
    BY DEF Init, PresentSeen, EveryAttributeExplained
<1>2. TypeOK /\ PresentSeen /\ EveryAttributeExplained /\ [Next]_vars
        => (PresentSeen /\ EveryAttributeExplained)'
    BY PresentStep, ExplainedStep
<1> QED
    BY <1>1, <1>2, TypeCorrect, PTL DEF Spec

-----------------------------------------------------------------------------
(* A pass that saw one view only.                                          *)

LEMMA ExplainedByOneView ==
    ASSUME TypeOK, NEW w \in Parser, parsing[w] # None, NEW view, seen[w] = {view},
           NEW a \in Attr, Explained(w, a)
    PROVE  attrs[w][a] = Expected(view, parsing[w], IF next[w] = 0 THEN 0 ELSE next[w] - 1, a)
<1> DEFINE t == parsing[w]
           n == IF next[w] = 0 THEN 0 ELSE next[w] - 1
           applying == {j \in 1..n : Dimensions[j].attr = a /\ Applies(view, Dimensions[j], t)}
           last == CHOOSE j \in applying : \A k \in applying : k <= j
<1>1. \A j : j \in 1..n /\ Dimensions[j].attr = a <=> j \in Targeting(w, a)
    BY ConstantsAssumption DEF TypeOK, Targeting
<1>2. \A j : Skippable(w, j) <=> ~Applies(view, Dimensions[j], t)
    BY DEF Skippable
<1>3. \A j, v : Gives(w, j, v) <=>
            Applies(view, Dimensions[j], t) /\ Answer(view, Dimensions[j], t) = v
    BY DEF Gives
<1>4. Expected(view, t, n, a) = IF applying = {} THEN Authored[t][a]
                                ELSE Answer(view, Dimensions[last], t)
    BY DEF Expected
<1>5. CASE \A j \in Targeting(w, a) : Skippable(w, j)
    <2>1. applying = {}
        BY <1>1, <1>2, <1>5
    <2>2. attrs[w][a] = Authored[t][a]
        BY <1>2, <1>3, <1>5 DEF Explained
    <2> QED
        BY <1>4, <2>1, <2>2
<1>6. CASE ~(\A j \in Targeting(w, a) : Skippable(w, j))
    <2>1. PICK j \in Targeting(w, a) :
            /\ Gives(w, j, attrs[w][a])
            /\ \A k \in Targeting(w, a) : k > j => Skippable(w, k)
        BY <1>6 DEF Explained
    <2>2. j \in applying /\ \A k \in applying : k <= j
        BY <1>1, <1>2, <1>3, <2>1
    <2>3. last \in applying /\ \A k \in applying : k <= last
        BY <2>2
    <2>4. last = j
        BY <2>2, <2>3
    <2> QED
        BY <1>3, <1>4, <2>1, <2>2, <2>4
<1> QED
    BY <1>5, <1>6

\* A pass without an edit gives a task exactly what the flags ask for, the
\* last applying dimension winning, for any list of dimensions.
THEOREM QuietPassExact == Spec => []QuietPassIsExact
<1>1. TypeOK /\ EveryAttributeExplained => QuietPassIsExact
    <2> SUFFICES ASSUME TypeOK, EveryAttributeExplained, NEW w \in Parser, parsing[w] # None,
                        NEW view \in seen[w], seen[w] = {view}, NEW a \in Attr
                 PROVE  attrs[w][a] = Expected(view, parsing[w],
                                               IF next[w] = 0 THEN 0 ELSE next[w] - 1, a)
        BY DEF QuietPassIsExact
    <2>1. Explained(w, a)
        BY DEF EveryAttributeExplained, Explained
    <2> QED
        BY <2>1, ExplainedByOneView
<1> QED
    BY <1>1, TypeCorrect, AttributesExplained, PTL

-----------------------------------------------------------------------------
(* The record of a run.                                                    *)

\* The policy and the backend do not notice the listener.
THEOREM ListenerOnlyLooks == ExposureSpec => Spec
<1>1. ExposureInit => Init
    BY DEF ExposureInit
<1>2. [ExposureNext]_exposureVars => [Next]_vars
    BY DEF ExposureNext, PlacementStep, StartTask, OnTaskInstanceRunning, TaskCallsEmit,
           EmitExposure, ResolveFlag, LogTreatments, exposureVars
<1> QED
    BY <1>1, <1>2, PTL DEF ExposureSpec, Spec

\* EXPOSURE_FLAGS are asked by dimensions that every process has from the
\* start: a pass that began goes through them all.
Exposed == {ExposureFlags[k] : k \in 1..Len(ExposureFlags)}
ExposuresAreBuiltIn ==
    \A j \in 1..Len(Dimensions) : Dimensions[j].flag \in Exposed => j <= BuiltIns

\* What the listener is answered under a view, and the attribute that goes
\* with it.
Said(view, f, t) ==
    IF view.up /\ view.config[f][t] \in StringValue THEN view.config[f][t] ELSE Unset
GroupOf(view, d, t) ==
    IF Said(view, d.flag, t) # Unset THEN Said(view, d.flag, t) ELSE Authored[t][d.attr]

Recordable(t) == {d \in Deciding(t) : d.kind = "string" /\ d.flag \in Exposed}

PlacedRight(t, views, on, as) ==
    on = TRUE => \A view : views = {view} =>
        \A d \in Recordable(t) : as[d.attr] = GroupOf(view, d, t)

\* A pass under a single view places a task as that view says.
LEMMA PassPlacesRight ==
    ASSUME ExposuresAreBuiltIn, TypeOK, EveryAttributeExplained, NEW w \in Parser, CommitPass(w)
    PROVE  PlacedRight(parsing[w], seen[w], next[w] # 0, attrs[w])
<1> DEFINE t == parsing[w]
<1> SUFFICES ASSUME next[w] # 0, NEW view, seen[w] = {view}, NEW d \in Recordable(t)
             PROVE  attrs[w][d.attr] = GroupOf(view, d, t)
    BY DEF PlacedRight
<1>1. t # None /\ t \in Task /\ next[w] \in Nat /\ next[w] > BuiltIns
    <2>1. /\ t # None /\ next[w] \notin 1..registered[w] /\ next[w] \in Nat
          /\ registered[w] \in BuiltIns..Len(Dimensions) /\ BuiltIns \in Nat
        BY ConstantsAssumption DEF CommitPass, TypeOK
    <2>2. t \in Task
        BY <2>1 DEF TypeOK
    <2> QED
        BY <2>1, <2>2
<1>2. PICK j \in 1..Len(Dimensions) : d = Dimensions[j]
    BY DEF Recordable, Deciding
<1>3. j <= BuiltIns /\ d.attr \in Attr
    BY <1>2, DimensionAt DEF ExposuresAreBuiltIn, Recordable, DimensionRecord
<1>4. j \in Targeting(w, d.attr)
    BY <1>1, <1>2, <1>3, ConstantsAssumption DEF Targeting
<1>5. \A k \in Targeting(w, d.attr) : Dimensions[k] = d
    BY DEF Targeting, Recordable, Deciding
<1>6. Answer(view, d, t) = Said(view, d.flag, t)
    BY DEF Recordable, Answer, Said
<1>7. Applies(view, d, t) <=> Said(view, d.flag, t) # Unset
    BY <1>6 DEF Applies, Recordable, Deciding
<1>8. Explained(w, d.attr)
    BY <1>1, <1>3 DEF EveryAttributeExplained, Explained
<1>9. CASE Applies(view, d, t)
    <2>1. ~Skippable(w, j)
        BY <1>2, <1>9 DEF Skippable
    <2>2. PICK k \in Targeting(w, d.attr) : Gives(w, k, attrs[w][d.attr])
        BY <1>4, <1>8, <2>1 DEF Explained
    <2>3. Answer(view, d, t) = attrs[w][d.attr]
        BY <1>5, <2>2 DEF Gives
    <2> QED
        BY <1>6, <1>7, <1>9, <2>3 DEF GroupOf
<1>10. CASE ~Applies(view, d, t)
    <2>1. \A k \in Targeting(w, d.attr) : ~Gives(w, k, attrs[w][d.attr])
        BY <1>5, <1>10 DEF Gives
    <2>2. attrs[w][d.attr] = Authored[t][d.attr]
        BY <1>8, <2>1 DEF Explained
    <2> QED
        BY <1>7, <1>10, <2>2 DEF GroupOf
<1> QED
    BY <1>9, <1>10

\* Of a run: before the log line its views are collected and its answers are
\* what one view says if there is one only; afterwards all rest.
RunOK(vw, ru, ask, ans, lg) ==
    /\ ru = NotStarted => ask = 0 /\ lg = None
    /\ ask # 0 => lg = None
    /\ ru # NotStarted =>
        /\ ru.task \in Task
        /\ lg = None => vw \in ru.views
        /\ PlacedRight(ru.task, ru.views, ru.on, ru.attrs)
        /\ \A view : ru.views = {view} => \A k \in 1..Len(ExposureFlags) :
            /\ lg = None /\ k < ask =>
                    ans[ExposureFlags[k]] = Said(view, ExposureFlags[k], ru.task)
            /\ lg # None => lg[ExposureFlags[k]] = Said(view, ExposureFlags[k], ru.task)

RunsOK == \A r \in Run : RunOK(View, run[r], asking[r], answers[r], log[r])

BasisOK ==
    \A t \in Task : /\ View \in basis[t].views
                    /\ PlacedRight(t, basis[t].views, basis[t].on, placed[t])

IsRun(x) == x = [task |-> x.task, attrs |-> x.attrs, views |-> x.views, on |-> x.on]
IsBasis(x) == x = [views |-> x.views, on |-> x.on]
ExposureTypes ==
    /\ DOMAIN run = Run /\ \A r \in Run : IsRun(run[r])
    /\ DOMAIN basis = Task /\ \A t \in Task : IsBasis(basis[t])
    /\ asking \in [Run -> Nat]
    /\ DOMAIN answers = Run /\ \A r \in Run : DOMAIN answers[r] = Flag
    /\ DOMAIN log = Run

\* Views only grow, and what was placed under one view stays right.
LEMMA GrownViews ==
    ASSUME NEW t, NEW views, NEW more, NEW vw \in views, NEW on, NEW as,
           PlacedRight(t, views, on, as)
    PROVE  PlacedRight(t, views \cup {more}, on, as)
<1>1. ASSUME NEW view, views \cup {more} = {view} PROVE views = {view}
    BY <1>1
<1> QED
    BY <1>1 DEF PlacedRight

\* A run before its log line lives through one more view.
LEMMA RunLivesThrough ==
    ASSUME NEW vw, NEW more, NEW ru, IsRun(ru), NEW ask, NEW ans, NEW lg, lg = None,
           ru # NotStarted, RunOK(vw, ru, ask, ans, lg)
    PROVE  /\ RunOK(more, [ru EXCEPT !.views = @ \cup {more}], ask, ans, lg)
           /\ IsRun([ru EXCEPT !.views = @ \cup {more}])
<1> DEFINE now == [ru EXCEPT !.views = @ \cup {more}]
<1>1. now = [task |-> ru.task, attrs |-> ru.attrs, views |-> ru.views \cup {more}, on |-> ru.on]
    BY DEF IsRun
<1> HIDE DEF now
<1>2. /\ now.task = ru.task /\ now.attrs = ru.attrs /\ now.views = ru.views \cup {more}
      /\ now.on = ru.on
    BY <1>1
<1>3. IsRun(now)
    BY <1>1, <1>2 DEF IsRun
<1>4. ru.task \in Task /\ vw \in ru.views /\ PlacedRight(ru.task, ru.views, ru.on, ru.attrs)
    BY DEF RunOK
<1>5. PlacedRight(now.task, now.views, now.on, now.attrs)
    <2>1. PlacedRight(ru.task, ru.views \cup {more}, ru.on, ru.attrs)
        BY <1>4, GrownViews
    <2> QED
        BY <1>2, <2>1
<1>6. ASSUME NEW view, now.views = {view} PROVE ru.views = {view}
    BY <1>2, <1>4, <1>6
<1>7. now # NotStarted
    BY <1>2, <1>4, ConstantsAssumption DEF NotStarted
<1>8. more \in now.views
    BY <1>2
<1>9. \A view : now.views = {view} => \A k \in 1..Len(ExposureFlags) :
            k < ask => ans[ExposureFlags[k]] = Said(view, ExposureFlags[k], now.task)
    <2> SUFFICES ASSUME NEW view, now.views = {view}, NEW k \in 1..Len(ExposureFlags), k < ask
                 PROVE  ans[ExposureFlags[k]] = Said(view, ExposureFlags[k], now.task)
        OBVIOUS
    <2>1. ru.views = {view}
        BY <1>6
    <2>2. ans[ExposureFlags[k]] = Said(view, ExposureFlags[k], ru.task)
        BY <2>1 DEF RunOK
    <2> QED
        BY <1>2, <2>2
<1>10. RunOK(more, now, ask, ans, lg)
    BY <1>2, <1>4, <1>5, <1>7, <1>8, <1>9 DEF RunOK
<1> QED
    BY <1>3, <1>10 DEF now

LEMMA PlacementStepKeepsRuns ==
    ASSUME ExposureTypes, RunsOK, PlacementStep, NEW r \in Run
    PROVE  RunOK(View, run[r], asking[r], answers[r], log[r])' /\ IsRun(run'[r])
<1>1. UNCHANGED <<asking, answers, log>> /\ IsRun(run[r])
    BY DEF PlacementStep, ExposureTypes
<1>2. RunOK(View, run[r], asking[r], answers[r], log[r])
    BY DEF RunsOK
<1>3. run'[r] = IF run[r].task # None /\ log[r] = None
                THEN [run[r] EXCEPT !.views = @ \cup {View'}] ELSE run[r]
    BY DEF PlacementStep
<1>4. run[r] = NotStarted \/ run[r].task \in Task
    BY <1>2 DEF RunOK
<1>5. CASE run[r].task # None /\ log[r] = None
    <2>1. run[r] # NotStarted
        BY <1>5 DEF NotStarted
    <2>2. /\ RunOK(View', [run[r] EXCEPT !.views = @ \cup {View'}], asking[r], answers[r], log[r])
          /\ IsRun([run[r] EXCEPT !.views = @ \cup {View'}])
        BY <1>1, <1>2, <1>5, <2>1, RunLivesThrough
    <2> QED
        BY <1>1, <1>3, <1>5, <2>2
<1>6. CASE ~(run[r].task # None /\ log[r] = None)
    <2>1. run'[r] = run[r] /\ (run[r] # NotStarted => log[r] # None)
        BY <1>3, <1>4, <1>6, ConstantsAssumption
    <2>2. RunOK(View', run[r], asking[r], answers[r], log[r])
        BY <1>2, <2>1 DEF RunOK
    <2> QED
        BY <1>1, <2>1, <2>2
<1> QED
    BY <1>5, <1>6

LEMMA PlacementStepKeepsBasis ==
    ASSUME ExposuresAreBuiltIn, TypeOK, PresentSeen, EveryAttributeExplained,
           ExposureTypes, BasisOK, PlacementStep, TypeOK', NEW t \in Task
    PROVE  /\ View' \in basis'[t].views
           /\ PlacedRight(t, basis'[t].views, basis'[t].on, placed'[t])
           /\ IsBasis(basis'[t])
<1> DEFINE committing == {w \in Parser : parsing[w] = t /\ parsing'[w] = None}
           grown == [basis[t] EXCEPT !.views = @ \cup {View'}]
<1>1. basis'[t] = IF committing = {} THEN grown
                  ELSE [views |-> seen[CHOOSE w \in committing : TRUE],
                        on |-> next[CHOOSE w \in committing : TRUE] # 0]
    BY DEF PlacementStep
<1>2. View \in basis[t].views /\ PlacedRight(t, basis[t].views, basis[t].on, placed[t])
      /\ IsBasis(basis[t])
    BY DEF BasisOK, ExposureTypes
<1>3. t # None
    BY ConstantsAssumption
<1>4. ASSUME placed'[t] = placed[t], committing = {}
      PROVE  /\ View' \in basis'[t].views
             /\ PlacedRight(t, basis'[t].views, basis'[t].on, placed'[t])
             /\ IsBasis(basis'[t])
    <2>1. basis'[t] = [views |-> basis[t].views \cup {View'}, on |-> basis[t].on]
        BY <1>1, <1>2, <1>4 DEF IsBasis
    <2>2. basis'[t].views = basis[t].views \cup {View'} /\ basis'[t].on = basis[t].on
        BY <2>1
    <2>3. PlacedRight(t, basis[t].views \cup {View'}, basis[t].on, placed[t])
        BY <1>2, GrownViews
    <2> QED
        BY <1>4, <2>1, <2>2, <2>3 DEF IsBasis
<1>5. ASSUME NEW w \in Parser, CommitPass(w), parsing[w] = t
      PROVE  /\ View' \in basis'[t].views
             /\ PlacedRight(t, basis'[t].views, basis'[t].on, placed'[t])
             /\ IsBasis(basis'[t])
    <2>1. committing = {w}
        BY <1>3, <1>5 DEF CommitPass, TypeOK
    <2>2. basis'[t] = [views |-> seen[w], on |-> next[w] # 0]
        BY <1>1, <2>1
    <2>3. basis'[t].views = seen[w] /\ basis'[t].on = (next[w] # 0)
        BY <2>2
    <2>4. View' = View /\ View \in seen[w] /\ placed'[t] = attrs[w]
        BY <1>3, <1>5 DEF CommitPass, backend, View, PresentSeen, TypeOK
    <2>5. PlacedRight(t, seen[w], next[w] # 0, attrs[w])
        BY <1>5, PassPlacesRight
    <2> QED
        BY <2>2, <2>3, <2>4, <2>5 DEF IsBasis
<1>6. ASSUME NEW w \in Parser, CommitPass(w), parsing[w] # t
      PROVE  placed'[t] = placed[t] /\ committing = {}
    BY <1>3, <1>6 DEF CommitPass, TypeOK
<1>7. ASSUME ~\E w \in Parser : CommitPass(w)
      PROVE  placed'[t] = placed[t] /\ committing = {}
    <2>1. CASE Edit
        <3>1. Edited
            BY <2>1 DEF Edit, EditFlag, Outage, SetGate
        <3> QED
            BY <1>3, <3>1 DEF Edited, passes
    <2>2. ASSUME NEW w \in Parser, RegisterPlacement(w) \/ ApplyDimension(w)
          PROVE  placed'[t] = placed[t] /\ committing = {}
        BY <1>3, <2>2 DEF RegisterPlacement, ApplyDimension, passes
    <2>3. ASSUME NEW w \in Parser, NEW u \in Task, BeginPass(w, u)
          PROVE  placed'[t] = placed[t] /\ committing = {}
        BY <1>3, <2>3, ConstantsAssumption DEF BeginPass, TypeOK
    <2> QED
        BY <1>7, <2>1, <2>2, <2>3 DEF PlacementStep, Next, Parse
<1> HIDE DEF committing, grown
<1> QED
    BY <1>4, <1>5, <1>6, <1>7

\* The steps of the scheduler and the listener, for the run they are about.
LEMMA RunSteps ==
    ASSUME TypeOK, ExposureTypes, RunsOK, BasisOK, NEW r \in Run,
           \/ \E t \in Task : StartTask(r, t)
           \/ EmitExposure(r) \/ ResolveFlag(r) \/ LogTreatments(r)
    PROVE  RunOK(View, run'[r], asking'[r], answers'[r], log'[r]) /\ IsRun(run'[r])
<1>1. RunOK(View, run[r], asking[r], answers[r], log[r]) /\ IsRun(run[r])
    BY DEF RunsOK, ExposureTypes
<1>2. ASSUME NEW t \in Task, StartTask(r, t)
      PROVE  RunOK(View, run'[r], asking'[r], answers'[r], log'[r]) /\ IsRun(run'[r])
    <2>1. /\ run'[r] = [task |-> t, attrs |-> placed[t], views |-> basis[t].views,
                        on |-> basis[t].on]
          /\ asking'[r] = asking[r] /\ log'[r] = log[r] /\ run[r] = NotStarted
        BY <1>2 DEF StartTask, ExposureTypes
    <2>2. /\ run'[r].task = t /\ run'[r].attrs = placed[t] /\ run'[r].views = basis[t].views
          /\ run'[r].on = basis[t].on
        BY <2>1
    <2>3. asking'[r] = 0 /\ log'[r] = None
        BY <1>1, <2>1 DEF RunOK
    <2>4. View \in basis[t].views /\ PlacedRight(t, basis[t].views, basis[t].on, placed[t])
        BY DEF BasisOK
    <2>5. IsRun(run'[r])
        BY <2>1, <2>2 DEF IsRun
    <2>6. \A k \in 1..Len(ExposureFlags) : ~(k < 0)
        OBVIOUS
    <2> QED
        BY <2>2, <2>3, <2>4, <2>5, <2>6 DEF RunOK
<1>3. CASE EmitExposure(r)
    <2>1. /\ run'[r] = run[r] /\ run[r] # NotStarted /\ answers' = answers /\ log' = log
          /\ log[r] = None /\ asking'[r] = 1
        BY <1>3 DEF EmitExposure, ExposureTypes
    <2>2. \A k \in 1..Len(ExposureFlags) : ~(k < 1)
        OBVIOUS
    <2> QED
        BY <1>1, <2>1, <2>2 DEF RunOK
<1>4. CASE ResolveFlag(r)
    <2> DEFINE n == asking[r]
               f == ExposureFlags[n]
    <2>1. /\ run'[r] = run[r] /\ log' = log /\ n \in 1..Len(ExposureFlags) /\ asking'[r] = n + 1
          /\ n \in Nat
        BY <1>4 DEF ResolveFlag, ExposureTypes
    <2>2. log[r] = None /\ run[r] # NotStarted /\ run[r].task \in Task /\ View \in run[r].views
        BY <1>1, <2>1 DEF RunOK
    <2>3. f \in Flag
        BY <2>1, ExposureAssumption
    <2>4. answers'[r] = [answers[r] EXCEPT ![f] = Said(View, f, run[r].task)]
        BY <1>4 DEF ResolveFlag, ExposureTypes, Said, View
    <2>5. \A g \in Flag : answers'[r][g] = IF g = f THEN Said(View, f, run[r].task)
                                           ELSE answers[r][g]
        BY <2>3, <2>4 DEF ExposureTypes
    <2>6. ASSUME NEW view, run[r].views = {view}, NEW k \in 1..Len(ExposureFlags), k < n + 1
          PROVE  answers'[r][ExposureFlags[k]] = Said(view, ExposureFlags[k], run[r].task)
        <3>1. view = View /\ ExposureFlags[k] \in Flag
            BY <2>2, <2>6, ExposureAssumption
        <3>2. CASE ExposureFlags[k] = f
            BY <2>5, <3>1, <3>2
        <3>3. CASE ExposureFlags[k] # f
            <4>1. k < n
                BY <2>1, <2>6, <3>3
            <4>2. answers[r][ExposureFlags[k]] = Said(view, ExposureFlags[k], run[r].task)
                BY <1>1, <2>2, <2>6, <4>1 DEF RunOK
            <4> QED
                BY <2>5, <3>1, <3>3, <4>2
        <3> QED
            BY <3>2, <3>3
    <2> HIDE DEF n, f
    <2> QED
        BY <1>1, <2>1, <2>2, <2>6 DEF RunOK
<1>5. CASE LogTreatments(r)
    <2>1. /\ run'[r] = run[r] /\ log'[r] = answers[r] /\ asking'[r] = 0
          /\ asking[r] > Len(ExposureFlags) /\ asking[r] \in Nat
        BY <1>5 DEF LogTreatments, ExposureTypes
    <2>2. asking[r] # 0 /\ Len(ExposureFlags) \in Nat
        BY <2>1, ExposureAssumption
    <2>3. log[r] = None /\ run[r] # NotStarted
        BY <1>1, <2>2 DEF RunOK
    <2>4. \A k \in 1..Len(ExposureFlags) : k < asking[r] /\ ~(k < 0)
        BY <2>1, <2>2
    <2> QED
        BY <1>1, <2>1, <2>3, <2>4 DEF RunOK
<1> QED
    BY <1>2, <1>3, <1>4, <1>5

\* The listener's variables keep their domains.
LEMMA DomainsKept ==
    ASSUME ExposureTypes, ExposureNext
    PROVE  /\ DOMAIN run' = Run /\ DOMAIN basis' = Task /\ asking' \in [Run -> Nat]
           /\ DOMAIN answers' = Run /\ (\A r \in Run : DOMAIN answers'[r] = Flag)
           /\ DOMAIN log' = Run
<1> USE DEF ExposureTypes
<1>1. CASE PlacementStep
    BY <1>1 DEF PlacementStep
<1>2. ASSUME NEW r \in Run, NEW t \in Task, StartTask(r, t)
      PROVE  UNCHANGED <<basis, asking, answers, log>> /\ DOMAIN run' = Run
    BY <1>2 DEF StartTask
<1>3. ASSUME NEW r \in Run, EmitExposure(r)
      PROVE  UNCHANGED <<basis, run, answers, log>> /\ asking' \in [Run -> Nat]
    BY <1>3 DEF EmitExposure
<1>4. ASSUME NEW r \in Run, ResolveFlag(r)
      PROVE  /\ UNCHANGED <<basis, run, log>> /\ asking' \in [Run -> Nat]
             /\ DOMAIN answers' = Run /\ (\A s \in Run : DOMAIN answers'[s] = Flag)
    BY <1>4 DEF ResolveFlag
<1>5. ASSUME NEW r \in Run, LogTreatments(r)
      PROVE  UNCHANGED <<basis, run, answers>> /\ asking' \in [Run -> Nat] /\ DOMAIN log' = Run
    BY <1>5 DEF LogTreatments
<1> QED
    BY <1>1, <1>2, <1>3, <1>4, <1>5 DEF ExposureNext, OnTaskInstanceRunning, TaskCallsEmit

ExposureInv == ExposureTypes /\ RunsOK /\ BasisOK

LEMMA ExposureInvStep ==
    ASSUME ExposuresAreBuiltIn, TypeOK, TypeOK', PresentSeen, EveryAttributeExplained,
           ExposureInv, [ExposureNext]_exposureVars
    PROVE  ExposureInv'
<1> USE DEF ExposureInv
<1>1. CASE PlacementStep
    <2>1. ExposureNext
        BY <1>1 DEF ExposureNext
    <2>2. \A r \in Run : RunOK(View, run[r], asking[r], answers[r], log[r])' /\ IsRun(run'[r])
        BY <1>1, PlacementStepKeepsRuns
    <2>3. \A t \in Task : /\ View' \in basis'[t].views
                          /\ PlacedRight(t, basis'[t].views, basis'[t].on, placed'[t])
                          /\ IsBasis(basis'[t])
        BY <1>1, PlacementStepKeepsBasis
    <2>4. RunsOK'
        BY <2>2 DEF RunsOK
    <2>5. BasisOK'
        BY <2>3 DEF BasisOK, PlacedRight, Recordable, Deciding, GroupOf
    <2>6. ExposureTypes'
        BY <2>1, <2>2, <2>3, DomainsKept DEF ExposureTypes
    <2> QED
        BY <2>4, <2>5, <2>6
<1>2. ASSUME NEW r \in Run,
             \/ \E t \in Task : StartTask(r, t)
             \/ EmitExposure(r) \/ ResolveFlag(r) \/ LogTreatments(r),
             ExposureNext
      PROVE  ExposureInv'
    <2>1. UNCHANGED <<vars, basis>> /\ View' = View
        BY <1>2 DEF StartTask, EmitExposure, ResolveFlag, LogTreatments, vars, backend, View
    <2>2. RunOK(View, run'[r], asking'[r], answers'[r], log'[r]) /\ IsRun(run'[r])
        BY <1>2, RunSteps
    <2>3. ASSUME NEW q \in Run, q # r
          PROVE  run'[q] = run[q] /\ asking'[q] = asking[q] /\ answers'[q] = answers[q]
                 /\ log'[q] = log[q]
        BY <1>2, <2>3 DEF StartTask, EmitExposure, ResolveFlag, LogTreatments, ExposureTypes
    <2>4. RunsOK'
        BY <2>1, <2>2, <2>3 DEF RunsOK
    <2>5. BasisOK'
        BY <2>1 DEF BasisOK, vars
    <2>6. \A q \in Run : IsRun(run'[q])
        BY <2>2, <2>3 DEF ExposureTypes
    <2>7. ExposureTypes'
        BY <1>2, <2>1, <2>6, DomainsKept DEF ExposureTypes
    <2> QED
        BY <2>4, <2>5, <2>7
<1>3. CASE UNCHANGED exposureVars
    BY <1>3 DEF exposureVars, runs, vars, backend, View, ExposureTypes, RunsOK, BasisOK
<1> QED
    BY <1>1, <1>2, <1>3 DEF ExposureNext, OnTaskInstanceRunning, TaskCallsEmit

\* While the flags rest and the policy is on, what the listener records of a
\* run is the group it was placed in, for any dimensions and runs, if the
\* flags asked are those of built-in dimensions.
THEOREM SteadyRecord == ASSUME ExposuresAreBuiltIn PROVE ExposureSpec => []SteadyRecordIsRight
<1>1. ExposureInit => ExposureInv
    <2> SUFFICES ASSUME ExposureInit PROVE ExposureInv
        OBVIOUS
    <2> USE DEF ExposureInit
    <2>1. ASSUME NEW r \in Run PROVE RunOK(View, run[r], asking[r], answers[r], log[r]) /\ IsRun(run[r])
        BY DEF RunOK, IsRun, NotStarted
    <2>2. ASSUME NEW t \in Task PROVE /\ View \in basis[t].views
                                     /\ PlacedRight(t, basis[t].views, basis[t].on, placed[t])
                                     /\ IsBasis(basis[t])
        <3>1. basis[t] = [views |-> {View}, on |-> FALSE]
            OBVIOUS
        <3> QED
            BY <3>1 DEF PlacedRight, IsBasis
    <2>3. ExposureTypes
        BY <2>1, <2>2 DEF ExposureTypes, NoAnswers
    <2> QED
        BY <2>1, <2>2, <2>3 DEF ExposureInv, RunsOK, BasisOK
<1>2. Init => PresentSeen
    BY DEF Init, PresentSeen
<1>3. ExposureSpec => []PresentSeen
    BY <1>2, ListenerOnlyLooks, TypeCorrect, PresentStep, PTL DEF Spec
<1>4. ExposureInv => SteadyRecordIsRight
    <2> SUFFICES ASSUME ExposureInv, NEW r \in Run, log[r] # None, Steady(r),
                        NEW d \in Recordable(run[r].task)
                 PROVE  run[r].attrs[d.attr] =
                            IF Logged(r, d.flag) THEN log[r][d.flag]
                            ELSE Authored[run[r].task][d.attr]
        BY DEF SteadyRecordIsRight, Recordable, Exposed
    <2>1. RunOK(View, run[r], asking[r], answers[r], log[r])
        BY DEF ExposureInv, RunsOK
    <2>2. run[r] # NotStarted
        BY <2>1 DEF RunOK
    <2>3. PICK view : run[r].views = {view}
        BY DEF Steady
    <2>4. run[r].attrs[d.attr] = GroupOf(view, d, run[r].task)
        BY <2>1, <2>2, <2>3 DEF RunOK, PlacedRight, Steady
    <2>5. PICK k \in 1..Len(ExposureFlags) : d.flag = ExposureFlags[k]
        BY DEF Recordable, Exposed
    <2>6. log[r][d.flag] = Said(view, d.flag, run[r].task)
        BY <2>1, <2>2, <2>3, <2>5 DEF RunOK
    <2> QED
        BY <2>4, <2>6 DEF GroupOf, Logged
<1> QED
    BY <1>1, <1>3, <1>4, ExposureInvStep, ListenerOnlyLooks, TypeCorrect, AttributesExplained, PTL
    DEF ExposureSpec
=============================================================================
