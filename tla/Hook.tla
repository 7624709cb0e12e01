-------------------------------- MODULE Hook --------------------------------
(***************************************************************************)
(* OpenFeatureHook (hooks/openfeature.py) in one process.  A hook looks    *)
(* its connection up on first use, registers the provider that the         *)
(* connection declares, remembers the connection, and evaluates.  The SDK  *)
(* holds one provider for the whole process; the one it starts with is     *)
(* what airflow_local_settings set.  set_provider() shuts down the         *)
(* provider it replaces.                                                   *)
(*                                                                         *)
(* Callers are hooks in use: of several threads, or one after the other.   *)
(* Nothing guards _register_provider.                                      *)
(***************************************************************************)
EXTENDS Naturals, FiniteSets

CONSTANTS
    Caller,
    Conn, ConnOf,  \* [Caller -> Conn]: conn_id
    Instance,      \* the objects provider_class may return
    Bootstrap,     \* the provider of airflow_local_settings
    Unknown,       \* an unknown flag, a backend out of reach
    None,
    MaxFailures,   \* bound: lookups and constructions that raise, crashes
    MaxEdits       \* bound: changes of the flag

ASSUME ConstantsAssumption ==
    /\ ConnOf \in [Caller -> Conn]
    /\ Bootstrap \notin Instance \cup Conn
    /\ None \notin Instance \cup Conn
    /\ MaxFailures \in Nat
    /\ MaxEdits \in Nat

VARIABLES
    connections,  \* Airflow's: per connection, what its extra declares
    served,       \* per backend: what it serves for the flag
    edits,
    registered,   \* _REGISTERED_CONNECTIONS
    provider,     \* the SDK's provider
    shut,         \* the instances it shut down
    builtFor,     \* per instance: the connection it was constructed from, or None
    pc,           \* per caller: where it is
    mine,         \* per caller: the local `provider'
    failures

process == <<registered, provider, shut, builtFor>>
callers == <<pc, mine>>
vars == <<connections, served, edits, process, callers, failures>>

Backend == Conn \cup {Bootstrap}
InRegister == {"lookup", "construct", "install", "mark"}

\* The backend the client would ask now.
Asked == IF provider = Bootstrap THEN Bootstrap ELSE builtFor[provider]

\* The client answers the caller's default when the flag does not resolve.
Answer(default) == IF served[Asked] = Unknown THEN default ELSE served[Asked]

Fresh ==
    /\ registered = {}
    /\ provider = Bootstrap
    /\ shut = {}
    /\ builtFor = [i \in Instance |-> None]
    /\ pc = [t \in Caller |-> "idle"]
    /\ mine = [t \in Caller |-> None]

Init ==
    /\ connections \in [Conn -> {"missing", "plain", "provider"}]
    /\ served = [b \in Backend |-> FALSE]
    /\ edits = 0
    /\ failures = 0
    /\ Fresh

-----------------------------------------------------------------------------
(* Around the hook.                                                        *)

\* An operator turns the flag, or a backend goes and comes.
EditFlag(b, v) ==
    /\ edits < MaxEdits
    /\ served[b] # v
    /\ served' = [served EXCEPT ![b] = v]
    /\ edits' = edits + 1
    /\ UNCHANGED <<connections, process, callers, failures>>

\* A new process, as for every poke of a rescheduled sensor; or the process
\* dies in the middle of a call.
Restart ==
    /\ \/ \A t \in Caller : pc[t] = "idle"
       \/ failures < MaxFailures
    /\ failures' = IF \A t \in Caller : pc[t] = "idle" THEN failures ELSE failures + 1
    /\ registered' = {}
    /\ provider' = Bootstrap
    /\ shut' = {}
    /\ builtFor' = [i \in Instance |-> None]
    /\ pc' = [t \in Caller |-> "idle"]
    /\ mine' = [t \in Caller |-> None]
    /\ UNCHANGED <<connections, served, edits>>

-----------------------------------------------------------------------------
(* The hook.                                                               *)

\* _register_provider() returns at once for a connection it remembers.
Call(t) ==
    /\ pc[t] = "idle"
    /\ pc' = [pc EXCEPT ![t] = IF ConnOf[t] \in registered THEN "ask" ELSE "lookup"]
    /\ UNCHANGED <<connections, served, edits, process, mine, failures>>

\* Mutant: the connection is remembered as soon as it was found.
LookupMarks(t) ==
    /\ pc[t] = "lookup"
    /\ pc' = [pc EXCEPT ![t] =
        IF connections[ConnOf[t]] = "provider" THEN "construct" ELSE "ask"]
    /\ registered' = registered \cup {ConnOf[t]}
    /\ UNCHANGED <<connections, served, edits, provider, shut, builtFor, mine, failures>>

\* get_connection(): a connection that does not exist is remembered too.
Lookup(t) ==
    /\ pc[t] = "lookup"
    /\ CASE connections[ConnOf[t]] = "missing" ->
              /\ registered' = registered \cup {ConnOf[t]}
              /\ pc' = [pc EXCEPT ![t] = "ask"]
         [] connections[ConnOf[t]] = "plain" ->
              /\ pc' = [pc EXCEPT ![t] = "mark"]
              /\ UNCHANGED registered
         [] connections[ConnOf[t]] = "provider" ->
              /\ pc' = [pc EXCEPT ![t] = "construct"]
              /\ UNCHANGED registered
    /\ UNCHANGED <<connections, served, edits, provider, shut, builtFor, mine, failures>>

\* Mutant: a failed registration is remembered.
RaiseMarks(t) ==
    /\ pc[t] \in {"lookup", "construct"}
    /\ failures < MaxFailures
    /\ failures' = failures + 1
    /\ pc' = [pc EXCEPT ![t] = "idle"]
    /\ registered' = registered \cup {ConnOf[t]}
    /\ UNCHANGED <<connections, served, edits, provider, shut, builtFor, mine>>

\* The lookup, the import or the constructor raises: nothing is remembered.
Raise(t) ==
    /\ pc[t] \in {"lookup", "construct"}
    /\ failures < MaxFailures
    /\ failures' = failures + 1
    /\ pc' = [pc EXCEPT ![t] = "idle"]
    /\ UNCHANGED <<connections, served, edits, process, mine>>

\* provider_class(**provider_kwargs)
Construct(t, i) ==
    /\ pc[t] = "construct"
    /\ builtFor[i] = None
    /\ builtFor' = [builtFor EXCEPT ![i] = ConnOf[t]]
    /\ mine' = [mine EXCEPT ![t] = i]
    /\ pc' = [pc EXCEPT ![t] = "install"]
    /\ UNCHANGED <<connections, served, edits, registered, provider, shut, failures>>

\* Mutant: an object whose connection was registered meanwhile is dropped.
InstallUnlessRemembered(t) ==
    /\ pc[t] = "install"
    /\ IF ConnOf[t] \in registered
       THEN UNCHANGED <<provider, shut>>
       ELSE /\ provider' = mine[t]
            /\ shut' = shut \cup ({provider} \ {Bootstrap})
    /\ mine' = [mine EXCEPT ![t] = None]
    /\ pc' = [pc EXCEPT ![t] = "mark"]
    /\ UNCHANGED <<connections, served, edits, registered, builtFor, failures>>

\* api.set_provider()
Install(t) ==
    /\ pc[t] = "install"
    /\ provider' = mine[t]
    /\ shut' = shut \cup ({provider} \ {Bootstrap})
    /\ mine' = [mine EXCEPT ![t] = None]
    /\ pc' = [pc EXCEPT ![t] = "mark"]
    /\ UNCHANGED <<connections, served, edits, registered, builtFor, failures>>

\* Mutant: the provider is remembered instead of its connection.
MarkProvider(t) ==
    /\ pc[t] = "mark"
    /\ registered' = registered \cup {provider}
    /\ pc' = [pc EXCEPT ![t] = "ask"]
    /\ UNCHANGED <<connections, served, edits, provider, shut, builtFor, mine, failures>>

\* The connection is remembered when its provider is in place.
Mark(t) ==
    /\ pc[t] = "mark"
    /\ registered' = registered \cup {ConnOf[t]}
    /\ pc' = [pc EXCEPT ![t] = "ask"]
    /\ UNCHANGED <<connections, served, edits, provider, shut, builtFor, mine, failures>>

\* is_enabled() asks the provider the SDK holds at that time; see Answer.
Ask(t) ==
    /\ pc[t] = "ask"
    /\ pc' = [pc EXCEPT ![t] = "idle"]
    /\ UNCHANGED <<connections, served, edits, process, mine, failures>>

\* The steps of _register_provider after the first test.
Registering(t) ==
    \/ Lookup(t)
    \/ Raise(t)
    \/ \E i \in Instance : Construct(t, i)
    \/ Install(t)
    \/ Mark(t)

Environment ==
    \/ \E b \in Backend, v \in {TRUE, FALSE, Unknown} : EditFlag(b, v)
    \/ Restart

Next ==
    \/ Environment
    \/ \E t \in Caller : Call(t) \/ Registering(t) \/ Ask(t)

Spec == Init /\ [][Next]_vars

-----------------------------------------------------------------------------
(* Properties.                                                             *)

TypeOK ==
    /\ connections \in [Conn -> {"missing", "plain", "provider"}]
    /\ edits \in Nat
    /\ registered \subseteq Conn
    /\ provider \in Instance \cup {Bootstrap}
    /\ shut \subseteq Instance
    /\ builtFor \in [Instance -> Conn \cup {None}]
    /\ pc \in [Caller -> InRegister \cup {"idle", "ask"}]
    /\ mine \in [Caller -> Instance \cup {None}]
    /\ failures \in Nat

Declared(c) == connections[c] = "provider"

\* c is the only connection that declares a provider.
Sole(c) == \A d \in Conn : Declared(d) <=> d = c

\* "This hook registers that provider from the connection and evaluates
\* flags": when one connection declares a provider, no evaluation of its hook
\* reaches another one, whatever other hooks register, fail or find
\* remembered meanwhile.
OwnProviderAnswers ==
    \A t \in Caller : pc[t] = "ask" /\ Sole(ConnOf[t]) => Asked = ConnOf[t]

\* Every provider that was constructed is in use, is about to be, or was
\* shut down: two callers that register at once leave no client behind.
NothingAbandoned ==
    \A i \in Instance : builtFor[i] # None =>
        \/ provider = i
        \/ i \in shut
        \/ \E t \in Caller : pc[t] = "install" /\ mine[t] = i

\* What each point of _register_provider relies on: the object in hand is the
\* connection's, and once a connection that declares a provider is remembered
\* the SDK holds a provider of some connection for good.
RegistrationProtocol ==
    /\ \A t \in Caller :
        /\ pc[t] = "install" <=> mine[t] # None
        /\ pc[t] = "install" => builtFor[mine[t]] = ConnOf[t]
        /\ pc[t] \in {"construct", "install"} => Declared(ConnOf[t])
        /\ pc[t] \in {"mark", "ask"} /\ Declared(ConnOf[t]) => provider # Bootstrap
    /\ \A c \in registered : Declared(c) => provider # Bootstrap
    /\ provider # Bootstrap => builtFor[provider] # None
    /\ \A i \in Instance : builtFor[i] # None => Declared(builtFor[i])
    /\ NothingAbandoned
=============================================================================
