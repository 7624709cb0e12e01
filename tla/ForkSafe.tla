------------------------------ MODULE ForkSafe ------------------------------
(***************************************************************************)
(* ForkSafeProvider (providers/forksafe.py): a wrapper that builds the     *)
(* real provider on the first evaluation of a process, behind              *)
(* double-checked locking, so that nothing is built before a fork.         *)
(*                                                                         *)
(* A process copies the wrapper's fields when it forks: its lock is copied *)
(* as it stands, held by a thread the child does not have.  Threads run    *)
(* _ensure() one source line at a time.  Outside the wrapper are the SDK   *)
(* (set_provider, the client's evaluation), fork() and the factory.        *)
(***************************************************************************)
EXTENDS Naturals, FiniteSets

CONSTANTS
    Process,      \* operating-system processes
    Root,         \* the process that starts first
    Thread,       \* threads, each of one process
    Home,         \* [Thread -> Process]
    Instance,     \* the objects the factory may return
    Context,      \* evaluation contexts given to set_provider
    None, NoArgs,
    MaxFailures,  \* bound: how often the factory or initialize() may raise
    Allowed       \* what the surrounding program does, see AllowedAssumption

AllowedAssumption ==
    \* "fork_after_eval": a process may fork once it has evaluated a flag
    \* "reregister": set_provider(wrapper) may be called more than once
    Allowed \subseteq {"fork_after_eval", "reregister"}

ASSUME ConstantsAssumption ==
    /\ Root \in Process
    /\ Home \in [Thread -> Process]
    /\ None \notin Process \cup Thread \cup Instance \cup Context
    /\ NoArgs \notin Context \cup {None}
    /\ MaxFailures \in Nat
    /\ AllowedAssumption

VARIABLES
    alive,       \* processes that exist
    evaluated,   \* processes that began an evaluation (history)
    registered,  \* processes where the wrapper is the SDK's provider
    real,        \* self._real, per process
    lock,        \* self._lock, per process: the thread holding it
    init_ctx,    \* self._init_ctx, per process
    shut,        \* instances shut down, per process (its copy of the memory)
    pc,          \* where a thread is in an evaluation
    mine,        \* _ensure's local `real'
    hooks,       \* the provider whose hooks the evaluation runs
    got,         \* what _ensure returned
    owner,       \* the process that constructed an instance
    stage,       \* how far an instance came
    given,       \* the context its initialize() completed with
    failures

wrapper == <<registered, real, lock, init_ctx, shut>>
threads == <<pc, mine, hooks, got>>
objects == <<owner, stage, given, failures>>
vars == <<alive, evaluated, wrapper, threads, objects>>

Stages == {"unbuilt", "constructed", "ready", "failed"}

InLock == {"recheck", "construct", "init", "init_noargs", "publish", "release"}
InEnsure == {"check", "want", "return"} \cup InLock

ThreadsOf(p) == {t \in Thread : Home[t] = p}

Init ==
    /\ alive = {Root}
    /\ evaluated = {}
    /\ registered = {}
    /\ real = [p \in Process |-> None]
    /\ lock = [p \in Process |-> None]
    /\ init_ctx = [p \in Process |-> None]
    /\ shut = [p \in Process |-> {}]
    /\ pc = [t \in Thread |-> "idle"]
    /\ mine = [t \in Thread |-> None]
    /\ hooks = [t \in Thread |-> None]
    /\ got = [t \in Thread |-> None]
    /\ owner = [i \in Instance |-> None]
    /\ stage = [i \in Instance |-> "unbuilt"]
    /\ given = [i \in Instance |-> None]
    /\ failures = 0

-----------------------------------------------------------------------------
(* The wrapper's lifecycle, driven by the SDK's registry.                  *)

\* Mutant: shutdown() without its test for an unbuilt provider.
ShutDownUntested(p) ==
    shut' = [shut EXCEPT ![p] = @ \cup {real[p]}]

\* Mutant: shutdown() inherited from AbstractProvider, not delegated.
ShutDownNotDelegated(p) == UNCHANGED shut

\* shutdown(): reaches the real provider only if it is already built.
ShutDown(p) ==
    shut' = [shut EXCEPT ![p] = @ \cup ({real[p]} \ {None})]

\* Mutant: initialize() builds the real provider at once.
RegisterEager(p, c) ==
    /\ p \in alive
    /\ init_ctx[p] = None
    /\ \E i \in Instance :
        /\ stage[i] = "unbuilt"
        /\ real' = [real EXCEPT ![p] = i]
        /\ owner' = [owner EXCEPT ![i] = p]
        /\ stage' = [stage EXCEPT ![i] = "ready"]
        /\ given' = [given EXCEPT ![i] = c]
    /\ registered' = registered \cup {p}
    /\ init_ctx' = [init_ctx EXCEPT ![p] = c]
    /\ UNCHANGED <<alive, evaluated, lock, shut, threads, failures>>

\* set_provider(wrapper): the registry shuts down the provider it replaces
\* (this wrapper, when it is registered again), then calls initialize(),
\* which keeps the context and builds nothing.
Register(p, c) ==
    /\ p \in alive
    /\ init_ctx[p] = None \/ "reregister" \in Allowed
    /\ IF p \in registered THEN ShutDown(p) ELSE UNCHANGED shut
    /\ registered' = registered \cup {p}
    /\ init_ctx' = [init_ctx EXCEPT ![p] = c]
    /\ UNCHANGED <<alive, evaluated, real, lock, threads, objects>>

\* set_provider(another one): shutdown() takes no lock, so it may run while
\* a thread is still building.
Replace(p) ==
    /\ p \in registered
    /\ ShutDown(p)
    /\ registered' = registered \ {p}
    /\ UNCHANGED <<alive, evaluated, real, lock, init_ctx, threads, objects>>

\* fork(): the child q starts with the parent's memory and one idle thread.
Fork(p, q) ==
    /\ p \in alive /\ q \notin alive
    /\ \E t \in ThreadsOf(p) : pc[t] = "idle"
    /\ \/ "fork_after_eval" \in Allowed
       \/ p \notin evaluated
    /\ alive' = alive \cup {q}
    /\ registered' = IF p \in registered THEN registered \cup {q} ELSE registered
    /\ real' = [real EXCEPT ![q] = real[p]]
    /\ lock' = [lock EXCEPT ![q] = lock[p]]
    /\ init_ctx' = [init_ctx EXCEPT ![q] = init_ctx[p]]
    /\ shut' = [shut EXCEPT ![q] = shut[p]]
    /\ UNCHANGED <<evaluated, threads, objects>>

-----------------------------------------------------------------------------
(* One evaluation: the client reads the provider's hooks, then resolves.   *)

\* The client asks get_provider_hooks() before it calls resolve_*.
Begin(t) ==
    /\ pc[t] = "idle"
    /\ Home[t] \in registered
    /\ evaluated' = evaluated \cup {Home[t]}
    /\ hooks' = [hooks EXCEPT ![t] = real[Home[t]]]
    /\ pc' = [pc EXCEPT ![t] = "check"]
    /\ UNCHANGED <<alive, wrapper, mine, got, objects>>

Check(t) ==
    /\ pc[t] = "check"
    /\ pc' = [pc EXCEPT ![t] = IF real[Home[t]] = None THEN "want" ELSE "return"]
    /\ UNCHANGED <<alive, evaluated, wrapper, mine, hooks, got, objects>>

Acquire(t) ==
    /\ pc[t] = "want"
    /\ lock[Home[t]] = None
    /\ lock' = [lock EXCEPT ![Home[t]] = t]
    /\ pc' = [pc EXCEPT ![t] = "recheck"]
    /\ UNCHANGED <<alive, evaluated, registered, real, init_ctx, shut, mine, hooks, got, objects>>

\* Mutant: the test is not repeated under the lock.
RecheckForgotten(t) ==
    /\ pc[t] = "recheck"
    /\ pc' = [pc EXCEPT ![t] = "construct"]
    /\ UNCHANGED <<alive, evaluated, wrapper, mine, hooks, got, objects>>

Recheck(t) ==
    /\ pc[t] = "recheck"
    /\ pc' = [pc EXCEPT ![t] = IF real[Home[t]] = None THEN "construct" ELSE "release"]
    /\ UNCHANGED <<alive, evaluated, wrapper, mine, hooks, got, objects>>

\* The object the factory returns next.  Which one is new does not matter:
\* objects are named in the order in which they are built.
NextObject == CHOOSE i \in Instance : stage[i] = "unbuilt"

\* Mutant: self._real = self._factory(), published before initialize().
ConstructPublishes(t, i) ==
    /\ pc[t] = "construct"
    /\ stage[i] = "unbuilt"
    /\ stage' = [stage EXCEPT ![i] = "constructed"]
    /\ owner' = [owner EXCEPT ![i] = Home[t]]
    /\ mine' = [mine EXCEPT ![t] = i]
    /\ real' = [real EXCEPT ![Home[t]] = i]
    /\ pc' = [pc EXCEPT ![t] = "init"]
    /\ UNCHANGED <<alive, evaluated, registered, lock, init_ctx, shut, hooks, got, given, failures>>

\* The factory returns a new object.
Construct(t, i) ==
    /\ pc[t] = "construct"
    /\ stage[i] = "unbuilt"
    /\ i = NextObject
    /\ stage' = [stage EXCEPT ![i] = "constructed"]
    /\ owner' = [owner EXCEPT ![i] = Home[t]]
    /\ mine' = [mine EXCEPT ![t] = i]
    /\ pc' = [pc EXCEPT ![t] = "init"]
    /\ UNCHANGED <<alive, evaluated, wrapper, hooks, got, given, failures>>

\* Mutant: acquire() and release() without try/finally.
RaiseHoldingLock(t) ==
    /\ failures < MaxFailures
    /\ failures' = failures + 1
    /\ pc' = [pc EXCEPT ![t] = "idle"]
    /\ mine' = [mine EXCEPT ![t] = None]
    /\ hooks' = [hooks EXCEPT ![t] = None]
    /\ UNCHANGED <<alive, evaluated, wrapper, got, owner, given>>

\* An exception leaves the with block (which releases the lock) and the
\* evaluation: the client answers with the default.
Raise(t) ==
    /\ failures < MaxFailures
    /\ failures' = failures + 1
    /\ lock' = [lock EXCEPT ![Home[t]] = None]
    /\ pc' = [pc EXCEPT ![t] = "idle"]
    /\ mine' = [mine EXCEPT ![t] = None]
    /\ hooks' = [hooks EXCEPT ![t] = None]
    /\ UNCHANGED <<alive, evaluated, registered, real, init_ctx, shut, got, owner, given>>

FactoryRaises(t) ==
    /\ pc[t] = "construct"
    /\ Raise(t)
    /\ UNCHANGED stage

\* Mutant: an empty EvaluationContext instead of the kept one.
InitializeEmptyContext(t) ==
    /\ pc[t] = "init"
    /\ stage' = [stage EXCEPT ![mine[t]] = "ready"]
    /\ pc' = [pc EXCEPT ![t] = "publish"]
    /\ UNCHANGED <<alive, evaluated, wrapper, mine, hooks, got, owner, given, failures>>

\* initialize(ctx) returns.
InitializeWithContext(t) ==
    /\ pc[t] = "init"
    /\ stage' = [stage EXCEPT ![mine[t]] = "ready"]
    /\ given' = [given EXCEPT ![mine[t]] = init_ctx[Home[t]]]
    /\ pc' = [pc EXCEPT ![t] = "publish"]
    /\ UNCHANGED <<alive, evaluated, wrapper, mine, hooks, got, owner, failures>>

\* initialize(ctx) raises TypeError: it takes no argument, or failed inside.
InitializeTypeError(t) ==
    /\ pc[t] = "init"
    /\ pc' = [pc EXCEPT ![t] = "init_noargs"]
    /\ UNCHANGED <<alive, evaluated, wrapper, mine, hooks, got, objects>>

\* initialize() without the context returns, or there is no initialize.
InitializeWithoutContext(t) ==
    /\ pc[t] \in {"init", "init_noargs"}
    /\ stage' = [stage EXCEPT ![mine[t]] = "ready"]
    /\ given' = [given EXCEPT ![mine[t]] = NoArgs]
    /\ pc' = [pc EXCEPT ![t] = "publish"]
    /\ UNCHANGED <<alive, evaluated, wrapper, mine, hooks, got, owner, failures>>

InitializeRaises(t) ==
    /\ pc[t] \in {"init", "init_noargs"}
    /\ Raise(t)
    /\ stage' = [stage EXCEPT ![mine[t]] = "failed"]

\* Mutant: `self._real = real' forgotten.
PublishNothing(t) ==
    /\ pc[t] = "publish"
    /\ mine' = [mine EXCEPT ![t] = None]
    /\ pc' = [pc EXCEPT ![t] = "release"]
    /\ UNCHANGED <<alive, evaluated, wrapper, hooks, got, objects>>

Publish(t) ==
    /\ pc[t] = "publish"
    /\ real' = [real EXCEPT ![Home[t]] = mine[t]]
    /\ mine' = [mine EXCEPT ![t] = None]
    /\ pc' = [pc EXCEPT ![t] = "release"]
    /\ UNCHANGED <<alive, evaluated, registered, lock, init_ctx, shut, hooks, got, objects>>

Release(t) ==
    /\ pc[t] = "release"
    /\ lock' = [lock EXCEPT ![Home[t]] = None]
    /\ pc' = [pc EXCEPT ![t] = "return"]
    /\ UNCHANGED <<alive, evaluated, registered, real, init_ctx, shut, mine, hooks, got, objects>>

\* `return self._real' reads the field again.
Return(t) ==
    /\ pc[t] = "return"
    /\ got' = [got EXCEPT ![t] = real[Home[t]]]
    /\ pc' = [pc EXCEPT ![t] = "resolving"]
    /\ UNCHANGED <<alive, evaluated, wrapper, mine, hooks, objects>>

\* The real provider answers or raises; the client ends the evaluation.
Resolve(t) ==
    /\ pc[t] = "resolving"
    /\ pc' = [pc EXCEPT ![t] = "idle"]
    /\ got' = [got EXCEPT ![t] = None]
    /\ hooks' = [hooks EXCEPT ![t] = None]
    /\ UNCHANGED <<alive, evaluated, wrapper, mine, objects>>

-----------------------------------------------------------------------------
Step(t) ==
    \/ Check(t) \/ Acquire(t) \/ Recheck(t)
    \/ \E i \in Instance : Construct(t, i)
    \/ FactoryRaises(t)
    \/ InitializeWithContext(t) \/ InitializeTypeError(t)
    \/ InitializeWithoutContext(t) \/ InitializeRaises(t)
    \/ Publish(t) \/ Release(t) \/ Return(t) \/ Resolve(t)

Next ==
    \/ \E p \in Process : \E c \in Context : Register(p, c)
    \/ \E p \in Process : Replace(p)
    \/ \E p, q \in Process : Fork(p, q)
    \/ \E t \in Thread : Begin(t) \/ Step(t)

Spec == Init /\ [][Next]_vars

\* A thread inside an evaluation keeps running; nobody has to start one.
FairSpec == Spec /\ \A t \in Thread : WF_vars(Step(t))
-----------------------------------------------------------------------------
(* Properties.                                                             *)

\* Types of the fields of ForkSafeProvider and of the locals of _ensure.
TypeOK ==
    /\ alive \subseteq Process
    /\ evaluated \subseteq Process
    /\ registered \subseteq Process
    /\ real \in [Process -> Instance \cup {None}]
    /\ lock \in [Process -> Thread \cup {None}]
    /\ init_ctx \in [Process -> Context \cup {None}]
    /\ shut \in [Process -> SUBSET Instance]
    /\ pc \in [Thread -> {"idle", "resolving"} \cup InEnsure]
    /\ mine \in [Thread -> Instance \cup {None}]
    /\ hooks \in [Thread -> Instance \cup {None}]
    /\ got \in [Thread -> Instance \cup {None}]
    /\ owner \in [Instance -> Process \cup {None}]
    /\ stage \in [Instance -> Stages]
    /\ given \in [Instance -> Context \cup {None, NoArgs}]
    /\ failures \in Nat

\* However evaluations interleave in _ensure, a process constructs one real
\* provider that does not fail: a second one would open a second connection
\* pool that nobody uses or closes.
OneLiveBuildPerProcess ==
    \A i, j \in Instance :
        /\ owner[i] # None /\ owner[i] = owner[j]
        /\ stage[i] # "failed" /\ stage[j] # "failed"
        => i = j

\* A provider whose initialize() completed is the one its process uses, or
\* the thread that built it is about to publish it: none is lost.
NothingLeaks ==
    \A i \in Instance : stage[i] = "ready" =>
        \/ real[owner[i]] = i
        \/ \E t \in ThreadsOf(owner[i]) : pc[t] = "publish" /\ mine[t] = i

\* The fast path reads _real without the lock: what _ensure returns is all
\* the same fully initialized, and it is the object whose hooks the client
\* took before the call, unless there was none yet.
HandedIsInitialized ==
    \A t \in Thread : pc[t] = "resolving" =>
        /\ got[t] \in Instance
        /\ stage[got[t]] = "ready"
        /\ hooks[t] \in {None, got[t]}

\* The context of the one registration, kept by initialize() and possibly
\* copied through a fork, is the one the real provider was initialized with.
ContextReachesReal ==
    "reregister" \notin Allowed =>
        \A p \in Process : real[p] # None =>
            given[real[p]] \in {init_ctx[p], NoArgs}

\* A process uses a client that it built itself: the client object of the
\* parent, with its sockets and threads, is not the child's to use
\* (forksafe.py:15, "built once per process").
UsesOwnInstance ==
    \A p \in Process : real[p] # None => owner[real[p]] = p

\* Once _real is set it never changes: no evaluation sees the provider of
\* its process exchanged or taken away.
RealIsStable ==
    [][\A p \in alive : real[p] # None => real'[p] = real[p]]_vars

\* In a process the SDK no longer serves through the wrapper, the real
\* provider is shut down.
Retired(p) == p \notin registered => real[p] \in shut[p] \cup {None}

\* shutdown() misses the real provider only when a build that it overtook
\* publishes later: nothing else leaves a running client behind.
ShutdownMissesOnlyARace ==
    [][\A p \in alive : Retired(p) /\ ~Retired(p)' =>
          \E t \in ThreadsOf(p) : pc[t] = "publish" /\ pc'[t] = "release"]_vars

\* Every evaluation ends: no thread waits forever for _lock, also after a
\* build that raised.
EvaluationsFinish ==
    \A t \in Thread : pc[t] # "idle" ~> pc[t] = "idle"

-----------------------------------------------------------------------------
(* The protocol of _ensure: what each point of it relies on.               *)

Building == {"construct", "init", "init_noargs", "publish"}
HasMine == {"init", "init_noargs", "publish"}

\* Only threads of existing processes that registered the wrapper evaluate.
OnlyTheLivingRun ==
    /\ registered \subseteq alive
    /\ \A p \in registered : init_ctx[p] # None
    /\ \A t \in Thread : pc[t] # "idle" =>
        Home[t] \in alive \cap evaluated /\ init_ctx[Home[t]] # None
    /\ \A i \in Instance : owner[i] # None => owner[i] \in alive

\* Inside the with block a thread holds its process's lock, and between the
\* second test and the publication _real is still unset.
LockProtects ==
    \A t \in Thread :
        /\ pc[t] \in InLock => lock[Home[t]] = t
        /\ pc[t] \in Building => real[Home[t]] = None

\* The object a thread is building is its process's, unpublished, and at
\* the stage the thread is at.
BuilderOwns ==
    \A t \in Thread :
        /\ pc[t] \in HasMine <=> mine[t] # None
        /\ pc[t] \in HasMine =>
            /\ owner[mine[t]] = Home[t]
            /\ stage[mine[t]] = IF pc[t] = "publish" THEN "ready" ELSE "constructed"
            /\ \A p \in Process : real[p] # mine[t]

\* Every object is accounted for.
ObjectsAccounted ==
    /\ \A i \in Instance : stage[i] = "unbuilt" <=> owner[i] = None
    /\ \A i \in Instance : stage[i] = "constructed" => \E t \in Thread : mine[t] = i
    /\ \A p \in Process : real[p] # None =>
        stage[real[p]] = "ready" /\ init_ctx[p] # None

\* A thread past the build returns what its process publishes.
ReturnsReal ==
    \A t \in Thread :
        /\ pc[t] \in {"release", "return", "resolving"} => real[Home[t]] # None
        /\ got[t] = IF pc[t] = "resolving" THEN real[Home[t]] ELSE None
        /\ hooks[t] \in {None, real[Home[t]]}
        /\ pc[t] = "idle" => hooks[t] = None

\* At every point of _ensure, by every thread, what the code there relies on
\* holds: the lock is held where it must be, the object in hand is at its
\* stage, nothing built is lost.
EnsureProtocol ==
    /\ OnlyTheLivingRun
    /\ LockProtects
    /\ BuilderOwns
    /\ ObjectsAccounted
    /\ ReturnsReal
    /\ NothingLeaks
    /\ OneLiveBuildPerProcess

-----------------------------------------------------------------------------
\* The wrapper as a lazy per-process cell.
Cell == INSTANCE LazyCell WITH
    Borrower <- Thread, HomeOf <- Home, Object <- Instance, Empty <- None,
    existing <- alive, cell <- real, lent <- got

\* _real and what _ensure hands out behave as the cell of LazyCell: filled
\* once, lent as it stands, copied by a fork.
ImplementsCell == Cell!Spec
=============================================================================
