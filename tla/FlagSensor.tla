----------------------------- MODULE FlagSensor -----------------------------
(***************************************************************************)
(* FeatureFlagSensor (sensors/feature_flag.py): pokes through a hook until *)
(* the flag answers the expected value.  A poke that raises is retried by  *)
(* Airflow; a sensor's timeout is Airflow's too and is not modelled.       *)
(***************************************************************************)
EXTENDS Hook

CONSTANT Expected  \* [Caller -> BOOLEAN]

ASSUME ExpectedAssumption == Expected \in [Caller -> BOOLEAN]

VARIABLE succeeded  \* the sensors that passed; it outlives the process

sensorVars == <<vars, succeeded>>

SensorInit == Init /\ succeeded = {}

\* The next poke of a sensor that has not passed.
Poke(t) ==
    /\ t \notin succeeded
    /\ Call(t)
    /\ UNCHANGED succeeded

\* Mutant: is_enabled() with the expected value as its default.
PokeReturnsDefault(t) ==
    /\ Ask(t)
    /\ succeeded' = IF Answer(Expected[t]) = Expected[t]
                    THEN succeeded \cup {t} ELSE succeeded

\* poke(): is_enabled(default=False) == expected
PokeReturns(t) ==
    /\ Ask(t)
    /\ succeeded' = IF Answer(FALSE) = Expected[t]
                    THEN succeeded \cup {t} ELSE succeeded

Around == Environment /\ UNCHANGED succeeded

HookRegisters(t) == Registering(t) /\ UNCHANGED succeeded

SensorNext ==
    \/ Around
    \/ \E t \in Caller : Poke(t) \/ HookRegisters(t) \/ PokeReturns(t)

SensorSpec == SensorInit /\ [][SensorNext]_sensorVars

\* Airflow pokes again, and a poke goes on.
FairSensorSpec ==
    /\ SensorSpec
    /\ \A t \in Caller :
        WF_sensorVars(Poke(t)) /\ WF_sensorVars(HookRegisters(t) \/ PokeReturns(t))

-----------------------------------------------------------------------------
(* Properties.                                                             *)

\* The backends a sensor's poke may reach: its own connection's when that is
\* the only one that declares a provider, otherwise whichever the process
\* holds at the time.
MayAsk(t) ==
    IF Sole(ConnOf[t]) THEN {ConnOf[t]} ELSE {Bootstrap} \cup {c \in Conn : Declared(c)}

\* A sensor that holds a task until a flag is on lets it go only when a
\* backend it may ask serves the flag as on: not on a default, and not on
\* what the provider of before its registration says.
PassesOnlyWhenOn ==
    [][\A t \in Caller \ succeeded :
        t \in succeeded' /\ Expected[t] => \E b \in MayAsk(t) : served[b] = TRUE]_sensorVars

\* When the backends it may ask come to rest on the expected value, the
\* sensor passes, whatever failed before.
SensorPasses ==
    \A t \in Caller :
        <>[](\A b \in MayAsk(t) : served[b] = Expected[t]) => <>(t \in succeeded)

=============================================================================
