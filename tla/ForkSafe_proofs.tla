--------------------------- MODULE ForkSafe_proofs ---------------------------
(***************************************************************************)
(* Proofs about ForkSafe, for every set of processes, threads, instances   *)
(* and contexts, and for every bound on failures.                          *)
(***************************************************************************)
EXTENDS ForkSafe, TLAPS

USE ConstantsAssumption DEF AllowedAssumption

(* The typing of the variables is an invariant of its own.                  *)
LEMMA TypeInit == Init => TypeOK
BY DEF Init, TypeOK, Stages, InEnsure, InLock

LEMMA TypeStep == TypeOK /\ [Next]_vars => TypeOK'
<1> SUFFICES ASSUME TypeOK, [Next]_vars PROVE TypeOK'
    OBVIOUS
<1> USE DEF TypeOK, Stages, InEnsure, InLock, ThreadsOf
<1>1. ASSUME NEW p \in Process, NEW c \in Context, Register(p, c) PROVE TypeOK'
    BY <1>1 DEF Register, ShutDown, threads, objects
<1>2. ASSUME NEW p \in Process, Replace(p) PROVE TypeOK'
    BY <1>2 DEF Replace, ShutDown, threads, objects
<1>3. ASSUME NEW p \in Process, NEW q \in Process, Fork(p, q) PROVE TypeOK'
    BY <1>3 DEF Fork, threads, objects
<1>4. ASSUME NEW t \in Thread, Begin(t) PROVE TypeOK'
    BY <1>4 DEF Begin, wrapper, objects
<1>5. ASSUME NEW t \in Thread, Check(t) PROVE TypeOK'
    BY <1>5 DEF Check, wrapper, objects
<1>6. ASSUME NEW t \in Thread, Acquire(t) PROVE TypeOK'
    BY <1>6 DEF Acquire, objects
<1>7. ASSUME NEW t \in Thread, Recheck(t) PROVE TypeOK'
    BY <1>7 DEF Recheck, wrapper, objects
<1>8. ASSUME NEW t \in Thread, NEW i \in Instance, Construct(t, i) PROVE TypeOK'
    BY <1>8 DEF Construct, wrapper
<1>9. ASSUME NEW t \in Thread, FactoryRaises(t) PROVE TypeOK'
    BY <1>9 DEF FactoryRaises, Raise
<1>10. ASSUME NEW t \in Thread, InitializeWithContext(t) PROVE TypeOK'
    BY <1>10 DEF InitializeWithContext, wrapper
<1>11. ASSUME NEW t \in Thread, InitializeTypeError(t) PROVE TypeOK'
    BY <1>11 DEF InitializeTypeError, wrapper, objects
<1>12. ASSUME NEW t \in Thread, InitializeWithoutContext(t) PROVE TypeOK'
    BY <1>12 DEF InitializeWithoutContext, wrapper
<1>13. ASSUME NEW t \in Thread, InitializeRaises(t) PROVE TypeOK'
    <2>1. stage' \in [Instance -> Stages]
        BY <1>13 DEF InitializeRaises
    <2>2. Raise(t)
        BY <1>13 DEF InitializeRaises
    <2> QED
        BY <2>1, <2>2 DEF Raise
<1>14. ASSUME NEW t \in Thread, Publish(t) PROVE TypeOK'
    BY <1>14 DEF Publish, objects
<1>15. ASSUME NEW t \in Thread, Release(t) PROVE TypeOK'
    BY <1>15 DEF Release, objects
<1>16. ASSUME NEW t \in Thread, Return(t) PROVE TypeOK'
    BY <1>16 DEF Return, wrapper, objects
<1>17. ASSUME NEW t \in Thread, Resolve(t) PROVE TypeOK'
    BY <1>17 DEF Resolve, wrapper, objects
<1>18. CASE UNCHANGED vars
    BY <1>18 DEF vars, wrapper, threads, objects
<1> QED
    BY <1>1, <1>2, <1>3, <1>4, <1>5, <1>6, <1>7, <1>8, <1>9, <1>10, <1>11,
       <1>12, <1>13, <1>14, <1>15, <1>16, <1>17, <1>18 DEF Next, Step

\* The fields of the wrapper and the locals of _ensure keep their types.
THEOREM TypeCorrect == Spec => []TypeOK
BY TypeInit, TypeStep, PTL DEF Spec
-----------------------------------------------------------------------------
LEMMA ProtocolStep == TypeOK /\ EnsureProtocol /\ [Next]_vars => EnsureProtocol'
<1> SUFFICES ASSUME TypeOK, EnsureProtocol, [Next]_vars PROVE EnsureProtocol'
    OBVIOUS
<1> USE DEF TypeOK, EnsureProtocol, Stages, InEnsure, InLock, Building, HasMine, ThreadsOf,
        OnlyTheLivingRun, LockProtects, BuilderOwns, ObjectsAccounted, ReturnsReal,
        NothingLeaks, OneLiveBuildPerProcess
<1>1. ASSUME NEW p \in Process, NEW c \in Context, Register(p, c) PROVE EnsureProtocol'
    BY <1>1 DEF Register, ShutDown, threads, objects
<1>2. ASSUME NEW p \in Process, Replace(p) PROVE EnsureProtocol'
    BY <1>2 DEF Replace, ShutDown, threads, objects
<1>3. ASSUME NEW p \in Process, NEW q \in Process, Fork(p, q) PROVE EnsureProtocol'
    BY <1>3 DEF Fork, threads, objects
<1>4. ASSUME NEW t \in Thread, Begin(t) PROVE EnsureProtocol'
    BY <1>4 DEF Begin, wrapper, objects
<1>5. ASSUME NEW t \in Thread, Check(t) PROVE EnsureProtocol'
    BY <1>5 DEF Check, wrapper, objects
<1>6. ASSUME NEW t \in Thread, Acquire(t) PROVE EnsureProtocol'
    BY <1>6 DEF Acquire, objects
<1>7. ASSUME NEW t \in Thread, Recheck(t) PROVE EnsureProtocol'
    BY <1>7 DEF Recheck, wrapper, objects
<1>8. ASSUME NEW t \in Thread, NEW i \in Instance, Construct(t, i) PROVE EnsureProtocol'
    \* A live object of this process would be in its _real or in the hands of
    \* another holder of its lock; the second test excludes the one, the lock
    \* the other.
    <2>1. ASSUME NEW j \in Instance, owner[j] = Home[t] PROVE stage[j] = "failed"
        <3>1. stage[j] # "unbuilt"
            BY <2>1
        <3>2. ASSUME NEW u \in Thread, mine[u] = j PROVE FALSE
            BY <1>8, <2>1, <3>2 DEF Construct
        <3>3. stage[j] # "constructed"
            BY <3>2
        <3>4. stage[j] # "ready"
            BY <1>8, <2>1, <3>2 DEF Construct
        <3> QED
            BY <3>1, <3>3, <3>4
    <2>2. OnlyTheLivingRun'
        BY <1>8 DEF Construct, wrapper
    <2>3. LockProtects'
        BY <1>8 DEF Construct, wrapper
    <2>4. BuilderOwns'
        BY <1>8 DEF Construct, wrapper
    <2>5. ObjectsAccounted'
        BY <1>8 DEF Construct, wrapper
    <2>6. ReturnsReal'
        BY <1>8 DEF Construct, wrapper
    <2>7. NothingLeaks'
        <3>1. stage[i] = "unbuilt" /\ owner[i] = None
            BY <1>8 DEF Construct
        <3>2. ASSUME NEW j \in Instance, stage'[j] = "ready"
              PROVE  stage[j] = "ready" /\ owner'[j] = owner[j]
            BY <1>8, <3>1, <3>2 DEF Construct
        <3>3. ASSUME NEW u \in Thread, pc[u] = "publish"
              PROVE  pc'[u] = "publish" /\ mine'[u] = mine[u]
            BY <1>8, <3>3 DEF Construct
        <3> QED
            BY <1>8, <3>2, <3>3 DEF Construct, wrapper
    <2>8. OneLiveBuildPerProcess'
        BY <1>8, <2>1 DEF Construct, wrapper
    <2> QED
        BY <2>2, <2>3, <2>4, <2>5, <2>6, <2>7, <2>8
<1>9. ASSUME NEW t \in Thread, FactoryRaises(t) PROVE EnsureProtocol'
    BY <1>9 DEF FactoryRaises, Raise
<1>10. ASSUME NEW t \in Thread, InitializeWithContext(t) PROVE EnsureProtocol'
    BY <1>10 DEF InitializeWithContext, wrapper
<1>11. ASSUME NEW t \in Thread, InitializeTypeError(t) PROVE EnsureProtocol'
    BY <1>11 DEF InitializeTypeError, wrapper, objects
<1>12. ASSUME NEW t \in Thread, InitializeWithoutContext(t) PROVE EnsureProtocol'
    BY <1>12 DEF InitializeWithoutContext, wrapper
<1>13. ASSUME NEW t \in Thread, InitializeRaises(t) PROVE EnsureProtocol'
    BY <1>13 DEF InitializeRaises, Raise
<1>14. ASSUME NEW t \in Thread, Publish(t) PROVE EnsureProtocol'
    BY <1>14 DEF Publish, objects
<1>15. ASSUME NEW t \in Thread, Release(t) PROVE EnsureProtocol'
    BY <1>15 DEF Release, objects
<1>16. ASSUME NEW t \in Thread, Return(t) PROVE EnsureProtocol'
    BY <1>16 DEF Return, wrapper, objects
<1>17. ASSUME NEW t \in Thread, Resolve(t) PROVE EnsureProtocol'
    BY <1>17 DEF Resolve, wrapper, objects
<1>18. CASE UNCHANGED vars
    BY <1>18 DEF vars, wrapper, threads, objects
<1> QED
    BY <1>1, <1>2, <1>3, <1>4, <1>5, <1>6, <1>7, <1>8, <1>9, <1>10, <1>11,
       <1>12, <1>13, <1>14, <1>15, <1>16, <1>17, <1>18 DEF Next, Step

LEMMA ProtocolInit == Init => EnsureProtocol
BY DEF Init, EnsureProtocol, OnlyTheLivingRun, LockProtects, BuilderOwns, ObjectsAccounted,
       ReturnsReal, NothingLeaks, OneLiveBuildPerProcess, Stages, InLock, Building, HasMine

\* Every step of every thread finds what it relies on: the lock held, its
\* object at the stage it should be at, nothing lost.
THEOREM ProtocolHolds == Spec => []EnsureProtocol
<1>1. TypeOK /\ EnsureProtocol /\ [Next]_vars => (TypeOK /\ EnsureProtocol)'
    BY TypeStep, ProtocolStep
<1> QED
    BY TypeInit, ProtocolInit, <1>1, PTL DEF Spec

\* For any number of threads and processes, however they interleave and fork,
\* no process holds two real providers.
THEOREM OneLiveBuild == Spec => []OneLiveBuildPerProcess
BY ProtocolHolds, PTL DEF EnsureProtocol

\* For any number of threads and processes no initialized provider is lost.
THEOREM NothingIsLost == Spec => []NothingLeaks
BY ProtocolHolds, PTL DEF EnsureProtocol

\* Without the lock, the fast path still returns one initialized object.
THEOREM HandedInitialized == Spec => []HandedIsInitialized
<1>1. TypeOK /\ EnsureProtocol => HandedIsInitialized
    BY DEF TypeOK, EnsureProtocol, ReturnsReal, ObjectsAccounted, HandedIsInitialized
<1> QED
    BY <1>1, TypeCorrect, ProtocolHolds, PTL

-----------------------------------------------------------------------------
(* Action properties.                                                      *)

\* _real is assigned once: Publish finds it unset, Fork writes the fields of
\* a process that did not exist.
THEOREM RealStable == Spec => RealIsStable
<1>1. TypeOK /\ EnsureProtocol /\ [Next]_vars
        => [\A p \in alive : real[p] # None => real'[p] = real[p]]_vars
    <2> SUFFICES ASSUME TypeOK, EnsureProtocol, [Next]_vars,
                        NEW p \in alive, real[p] # None
                 PROVE  real'[p] = real[p]
        OBVIOUS
    <2>1. ASSUME NEW r \in Process, NEW q \in Process, Fork(r, q) PROVE real'[p] = real[p]
        BY <2>1 DEF Fork, TypeOK
    <2>2. ASSUME NEW t \in Thread, Publish(t) PROVE real'[p] = real[p]
        <3>1. real[Home[t]] = None
            BY <2>2 DEF Publish, EnsureProtocol, LockProtects, Building
        <3> QED
            BY <2>2, <3>1 DEF Publish, TypeOK
    <2> QED
        BY <2>1, <2>2 DEF Next, Step, vars, wrapper, threads, objects, Register, Replace, Begin,
           Check, Acquire, Recheck, Construct, FactoryRaises, Raise, InitializeWithContext,
           InitializeTypeError, InitializeWithoutContext, InitializeRaises, Release, Return, Resolve
<1> QED
    BY <1>1, TypeCorrect, ProtocolHolds, PTL DEF Spec, RealIsStable

\* A client outlives the wrapper's registration only if its build was
\* overtaken by shutdown().
THEOREM ShutdownMissesOnlyRaces == Spec => ShutdownMissesOnlyARace
<1> DEFINE Missed(p) == Retired(p) /\ ~Retired(p)' =>
                            \E t \in ThreadsOf(p) : pc[t] = "publish" /\ pc'[t] = "release"
<1>1. TypeOK /\ [Next]_vars => [\A p \in alive : Missed(p)]_vars
    <2> SUFFICES ASSUME TypeOK, [Next]_vars, NEW p \in alive PROVE Missed(p)
        OBVIOUS
    <2> USE DEF Retired, TypeOK
    <2>1. ASSUME NEW r \in Process, NEW c \in Context, Register(r, c) PROVE Missed(p)
        BY <2>1 DEF Register, ShutDown
    <2>2. ASSUME NEW r \in Process, Replace(r) PROVE Missed(p)
        BY <2>2 DEF Replace, ShutDown
    <2>3. ASSUME NEW r \in Process, NEW q \in Process, Fork(r, q) PROVE Missed(p)
        BY <2>3 DEF Fork
    <2>4. ASSUME NEW t \in Thread, Publish(t) PROVE Missed(p)
        BY <2>4 DEF Publish, ThreadsOf, InEnsure, InLock
    <2> QED
        BY <2>1, <2>2, <2>3, <2>4 DEF Next, Step, vars, wrapper, threads, objects, Begin,
           Check, Acquire, Recheck, Construct, FactoryRaises, Raise, InitializeWithContext,
           InitializeTypeError, InitializeWithoutContext, InitializeRaises, Release, Return, Resolve
<1> QED
    BY <1>1, TypeCorrect, PTL DEF Spec, ShutdownMissesOnlyARace

-----------------------------------------------------------------------------
(* What holds under a condition on the program around the wrapper.         *)

\* Nothing is built before the first evaluation, and what is built is the
\* process's own.
OwnInv ==
    \A p \in Process :
        /\ p \notin evaluated => real[p] = None
        /\ real[p] # None => owner[real[p]] = p

LEMMA OwnStep ==
    ASSUME "fork_after_eval" \notin Allowed, TypeOK, EnsureProtocol, OwnInv, [Next]_vars
    PROVE  OwnInv'
<1> USE DEF TypeOK, OwnInv
<1>1. ASSUME NEW t \in Thread, Publish(t) PROVE OwnInv'
    \* The publishing thread built the object, and is in an evaluation.
    <2>1. /\ mine[t] \in Instance /\ owner[mine[t]] = Home[t]
          /\ Home[t] \in evaluated
        BY <1>1 DEF Publish, EnsureProtocol, BuilderOwns, HasMine, OnlyTheLivingRun
    <2> QED
        BY <1>1, <2>1 DEF Publish, objects
<1>2. ASSUME NEW t \in Thread, NEW i \in Instance, Construct(t, i) PROVE OwnInv'
    \* A published object is no longer unbuilt: the factory returns another.
    <2>1. \A p \in Process : real[p] # i
        BY <1>2 DEF Construct, EnsureProtocol, ObjectsAccounted
    <2> QED
        BY <1>2, <2>1 DEF Construct, wrapper
<1>3. ASSUME NEW r \in Process, NEW q \in Process, Fork(r, q) PROVE OwnInv'
    BY <1>3 DEF Fork, objects
<1>4. ASSUME NEW t \in Thread, Begin(t) PROVE OwnInv'
    BY <1>4 DEF Begin, wrapper, objects
<1> QED
    BY <1>1, <1>2, <1>3, <1>4 DEF Next, Step, vars, wrapper, threads, objects, Register, Replace,
       Check, Acquire, Recheck, FactoryRaises, Raise, InitializeWithContext,
       InitializeTypeError, InitializeWithoutContext, InitializeRaises, Release, Return, Resolve

\* If a process forks only before its first evaluation, every process uses
\* a client it built itself, however many processes and threads there are.
THEOREM OwnInstance ==
    ASSUME "fork_after_eval" \notin Allowed
    PROVE  Spec => []UsesOwnInstance
<1>1. Init => OwnInv
    BY DEF Init, OwnInv
<1>2. TypeOK /\ EnsureProtocol /\ OwnInv /\ [Next]_vars => OwnInv'
    BY OwnStep
<1>3. OwnInv => UsesOwnInstance
    BY DEF OwnInv, UsesOwnInstance
<1> QED
    BY <1>1, <1>2, <1>3, TypeCorrect, ProtocolHolds, PTL DEF Spec

\* The registered context reaches the object a thread is about to publish,
\* and the published one.
ContextInv ==
    /\ \A p \in Process : real[p] # None => given[real[p]] \in {init_ctx[p], NoArgs}
    /\ \A t \in Thread : pc[t] = "publish" => given[mine[t]] \in {init_ctx[Home[t]], NoArgs}

LEMMA ContextStep ==
    ASSUME "reregister" \notin Allowed, TypeOK, EnsureProtocol, ContextInv, [Next]_vars
    PROVE  ContextInv'
<1> USE DEF TypeOK, ContextInv
<1>1. ASSUME NEW p \in Process, NEW c \in Context, Register(p, c) PROVE ContextInv'
    \* The first registration: nothing is built or being built in p.
    BY <1>1 DEF Register, threads, objects, EnsureProtocol, ObjectsAccounted, OnlyTheLivingRun
<1>2. ASSUME NEW r \in Process, NEW q \in Process, Fork(r, q) PROVE ContextInv'
    BY <1>2 DEF Fork, threads, objects, EnsureProtocol, OnlyTheLivingRun
<1>3. ASSUME NEW t \in Thread, pc[t] \in {"init", "init_noargs"}
      PROVE  /\ mine[t] \in Instance
             /\ \A p \in Process : real[p] # mine[t]
             /\ \A u \in Thread : pc[u] = "publish" => mine[u] # mine[t]
    BY <1>3 DEF EnsureProtocol, BuilderOwns, HasMine
<1>4. ASSUME NEW t \in Thread, InitializeWithContext(t) PROVE ContextInv'
    BY <1>3, <1>4 DEF InitializeWithContext, wrapper
<1>5. ASSUME NEW t \in Thread, InitializeWithoutContext(t) PROVE ContextInv'
    BY <1>3, <1>5 DEF InitializeWithoutContext, wrapper
<1>6. ASSUME NEW t \in Thread, Publish(t) PROVE ContextInv'
    <2>1. mine[t] \in Instance
        BY <1>6 DEF Publish, EnsureProtocol, BuilderOwns, HasMine
    <2> QED
        BY <1>6, <2>1 DEF Publish, objects
<1>7. ASSUME NEW t \in Thread, Raise(t), given' = given PROVE ContextInv'
    BY <1>7 DEF Raise
<1> QED
    BY <1>1, <1>2, <1>4, <1>5, <1>6, <1>7 DEF Next, Step, vars, wrapper, threads, objects, Replace,
       Begin, Check, Acquire, Recheck, Construct, FactoryRaises, Raise, InitializeTypeError,
       InitializeRaises, Release, Return, Resolve

\* The context of the only registration, also one that a fork copied, is
\* what the real provider of every process was initialized with.
THEOREM ContextReaches == Spec => []ContextReachesReal
<1>1. Init => ContextInv
    BY DEF Init, ContextInv
<1>2. CASE "reregister" \notin Allowed
    <2>1. TypeOK /\ EnsureProtocol /\ ContextInv /\ [Next]_vars => ContextInv'
        BY <1>2, ContextStep
    <2>2. ContextInv => ContextReachesReal
        BY DEF ContextInv, ContextReachesReal
    <2> QED
        BY <1>1, <2>1, <2>2, TypeCorrect, ProtocolHolds, PTL DEF Spec
<1>3. CASE "reregister" \in Allowed
    <2>1. ContextReachesReal
        BY <1>3 DEF ContextReachesReal
    <2> QED
        BY <2>1, PTL
<1> QED
    BY <1>2, <1>3

-----------------------------------------------------------------------------
(* Refinement.                                                             *)

LEMMA CellInit == Init => Cell!Init
BY DEF Init, Cell!Init

LEMMA CellStep == TypeOK /\ EnsureProtocol /\ [Next]_vars => [Cell!Next]_(Cell!cellVars)
<1> SUFFICES ASSUME TypeOK, EnsureProtocol, [Next]_vars PROVE [Cell!Next]_(Cell!cellVars)
    OBVIOUS
<1> USE DEF TypeOK, Cell!Next, Cell!cellVars
<1>1. ASSUME NEW t \in Thread, Publish(t) PROVE [Cell!Next]_(Cell!cellVars)
    <2>1. /\ mine[t] \in Instance /\ Home[t] \in Process
          /\ real[Home[t]] = None
          /\ \A p \in Process : real[p] # mine[t]
        BY <1>1 DEF Publish, EnsureProtocol, BuilderOwns, HasMine, LockProtects, Building
    <2>2. Cell!Fill(Home[t], mine[t])
        BY <1>1, <2>1 DEF Publish, Cell!Fill
    <2> QED
        BY <2>1, <2>2
<1>2. ASSUME NEW t \in Thread, Return(t) PROVE [Cell!Next]_(Cell!cellVars)
    <2>1. got[t] = None /\ real[Home[t]] # None
        BY <1>2 DEF Return, EnsureProtocol, ReturnsReal
    <2>2. Cell!Lend(t)
        BY <1>2, <2>1 DEF Return, wrapper, Cell!Lend
    <2> QED
        BY <2>2
<1>3. ASSUME NEW t \in Thread, Resolve(t) PROVE [Cell!Next]_(Cell!cellVars)
    <2>1. Cell!GiveBack(t)
        BY <1>3 DEF Resolve, wrapper, Cell!GiveBack
    <2> QED
        BY <2>1
<1>4. ASSUME NEW p \in Process, NEW q \in Process, Fork(p, q) PROVE [Cell!Next]_(Cell!cellVars)
    <2>1. Cell!Split(p, q)
        BY <1>4 DEF Fork, threads, Cell!Split
    <2> QED
        BY <2>1
<1> QED
    BY <1>1, <1>2, <1>3, <1>4 DEF Next, Step, vars, wrapper, threads, objects, Register, Replace,
       Begin, Check, Acquire, Recheck, Construct, FactoryRaises, Raise, InitializeWithContext,
       InitializeTypeError, InitializeWithoutContext, InitializeRaises, Release

\* ForkSafeProvider implements the lazy per-process cell: filled once, with
\* an object of its own, lent as it stands, copied by a fork.
THEOREM Refinement == Spec => ImplementsCell
BY CellInit, CellStep, TypeCorrect, ProtocolHolds, PTL DEF Spec, ImplementsCell, Cell!Spec
=============================================================================
