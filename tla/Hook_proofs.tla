----------------------------- MODULE Hook_proofs -----------------------------
(***************************************************************************)
(* Proofs about Hook and FlagSensor, for any number of callers,            *)
(* connections, failures and restarts.                                     *)
(***************************************************************************)
EXTENDS FlagSensor, TLAPS

USE ConstantsAssumption DEF InRegister

IInv == TypeOK /\ RegistrationProtocol

\* A new process satisfies it whatever the connections declare.
LEMMA FreshHolds == Init => IInv
BY DEF Init, Fresh, IInv, TypeOK, RegistrationProtocol, NothingAbandoned

\* Steps outside the hook.
LEMMA AroundPreserves ==
    ASSUME IInv, Environment \/ UNCHANGED vars
    PROVE  IInv'
<1> USE DEF IInv, TypeOK, RegistrationProtocol, NothingAbandoned, Declared
<1>1. ASSUME NEW b, NEW v, EditFlag(b, v)
      PROVE  IInv'
    BY <1>1 DEF EditFlag, process, callers
<1>2. CASE Restart
    BY <1>2 DEF Restart
<1>3. CASE UNCHANGED vars
    BY <1>3 DEF vars, process, callers
<1> HIDE DEF IInv
<1> QED
    BY <1>1, <1>2, <1>3 DEF Environment

\* Finding the connection remembered, missing, plain or declaring.
LEMMA LookupPreserves ==
    ASSUME IInv, NEW t \in Caller, Call(t) \/ Lookup(t) \/ Raise(t) \/ Ask(t)
    PROVE  IInv'
<1> USE DEF IInv, TypeOK, RegistrationProtocol, NothingAbandoned, Declared
<1>1. CASE Call(t)
    BY <1>1 DEF Call, process
<1>2. CASE Lookup(t)
    <2>1. CASE connections[ConnOf[t]] = "missing"
        BY <1>2, <2>1 DEF Lookup
    <2>2. CASE connections[ConnOf[t]] = "plain"
        BY <1>2, <2>2 DEF Lookup
    <2>3. CASE connections[ConnOf[t]] = "provider"
        BY <1>2, <2>3 DEF Lookup
    <2> QED
        BY <2>1, <2>2, <2>3
<1>3. CASE Raise(t)
    BY <1>3 DEF Raise, process
<1>4. CASE Ask(t)
    BY <1>4 DEF Ask, process
<1> QED
    BY <1>1, <1>2, <1>3, <1>4

\* Building, installing and remembering the provider.
LEMMA InstallPreserves ==
    ASSUME IInv, NEW t \in Caller,
           (\E i \in Instance : Construct(t, i)) \/ Install(t) \/ Mark(t)
    PROVE  IInv'
<1> USE DEF IInv, TypeOK, RegistrationProtocol, NothingAbandoned, Declared
<1>1. ASSUME NEW i \in Instance, Construct(t, i)
      PROVE  IInv'
    BY <1>1 DEF Construct
<1>2. CASE Install(t)
    BY <1>2 DEF Install
<1>3. CASE Mark(t)
    BY <1>3 DEF Mark
<1> QED
    BY <1>1, <1>2, <1>3

\* The inductive invariant, for any interleaving of callers, failures and
\* restarts (hooks/openfeature.py:58-79).
THEOREM ProtocolHolds == Spec => []IInv
<1>1. ASSUME IInv, [Next]_vars
      PROVE  IInv'
    BY <1>1, AroundPreserves, LookupPreserves, InstallPreserves
    DEF Next, Registering
<1> QED
    BY <1>1, FreshHolds, PTL DEF Spec

\* The points of _register_provider rely on what holds there.
THEOREM RegistrationHolds == Spec => []RegistrationProtocol
BY ProtocolHolds, PTL DEF IInv

\* The registry, the SDK's provider and the callers' locals keep their types.
THEOREM TypeCorrect == Spec => []TypeOK
BY ProtocolHolds, PTL DEF IInv

\* When one connection declares a provider, the evaluations of its hook reach
\* no other (hooks/openfeature.py:23-25).
THEOREM OwnProvider == Spec => []OwnProviderAnswers
<1>1. IInv => OwnProviderAnswers
    BY DEF IInv, TypeOK, RegistrationProtocol, OwnProviderAnswers, Sole, Asked, Declared
<1> QED
    BY <1>1, ProtocolHolds, PTL

\* No provider that was constructed is left running unused, however many
\* callers register at once.
THEOREM NoneAbandoned == Spec => []NothingAbandoned
BY ProtocolHolds, PTL DEF IInv, RegistrationProtocol

\* A sensor uses the hook as any caller does.
THEOREM SensorsAreCallers == SensorSpec => Spec
<1>1. SensorInit => Init
    BY DEF SensorInit
<1>2. [SensorNext]_sensorVars => [Next]_vars
    BY DEF SensorNext, Next, Around, Poke, HookRegisters, PokeReturns, sensorVars
<1> QED
    BY <1>1, <1>2, PTL DEF SensorSpec, Spec

\* A sensor for True passes only on a backend that serves the flag as on.
THEOREM PassOnlyOn == SensorSpec => PassesOnlyWhenOn
<1>1. ASSUME IInv, [SensorNext]_sensorVars,
             NEW t \in Caller \ succeeded, t \in succeeded', Expected[t]
      PROVE  \E b \in MayAsk(t) : served[b] = TRUE
    <2>1. PokeReturns(t)
        BY <1>1 DEF SensorNext, Around, Poke, HookRegisters, PokeReturns, sensorVars
    <2>2. Answer(FALSE) = TRUE
        BY <1>1, <2>1, ExpectedAssumption DEF PokeReturns
    <2>3. served[Asked] = TRUE
        BY <2>2 DEF Answer
    <2>4. Asked \in MayAsk(t)
        BY <1>1, <2>1 DEF PokeReturns, Ask, MayAsk, Asked, Sole, Declared, IInv, TypeOK,
            RegistrationProtocol
    <2> QED
        BY <2>3, <2>4
<1>2. SensorSpec => []IInv
    BY SensorsAreCallers, ProtocolHolds, PTL
<1>3. IInv /\ [SensorNext]_sensorVars =>
        [\A t \in Caller \ succeeded :
            t \in succeeded' /\ Expected[t] => \E b \in MayAsk(t) : served[b] = TRUE]_sensorVars
    BY <1>1
<1> QED
    BY <1>2, <1>3, PTL DEF SensorSpec, PassesOnlyWhenOn
=============================================================================
