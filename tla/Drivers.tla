------------------------------ MODULE Drivers ------------------------------
(***************************************************************************)
(* The drivers of system_tests that place real tasks through a backend and *)
(* give a verdict.  A driver is the list of steps of its main(); it runs   *)
(* tasks in subprocesses whose settings set the provider, or asks flags in *)
(* its own process, and judges what it reads back: the latest row of the   *)
(* metadata database, or the file the task wrote.  Meanwhile a container   *)
(* may be out of reach, flagd may still serve the file as it was, a        *)
(* subprocess may fail, and the driver may be killed and started again.    *)
(*                                                                         *)
(* A population is one dag inside and one outside the subset of the flags. *)
(* An answer is in (the subset's value), out (the other one) or none (the  *)
(* caller's default); a placement flag that answers none leaves the        *)
(* authored default, which is what out gives.                              *)
(***************************************************************************)
EXTENDS Naturals, Sequences

CONSTANTS
    inDag, outDag,
    NoRow,        \* no row of a dag in the database, or no file of it
    Driver,       \* the drivers to run
    MaxOutages,   \* bound: changes of a container's reachability
    MaxAttempts   \* bound: starts of a driver

Container == {"flagd", "unleash"}
Nobody == "nobody"

\* What a driver reads back of one dag's run.
CellRecord ==
    [backend : Container \cup {"growthbook", "inhouse", "statsig", Nobody},
     dag : {inDag, outDag}, state : {"success", "failed", "parsed"},
     answers : Seq({"in", "out", "none"}), attempt : Nat, run : Nat]

ASSUME DriverAssumption ==
    /\ Driver \subseteq {"kill_switch", "real_data_flow", "matrix", "gates_listener",
                         "ab_experiment", "run_all_backends", "run_use_cases"}
    /\ inDag # outDag
    /\ NoRow \notin CellRecord
    /\ MaxOutages \in Nat /\ MaxAttempts \in Nat

VARIABLES
    driver, attempt,
    todo,       \* the steps main() has left
    answers,    \* of the task or the questions in hand
    runs,       \* how many subprocesses ran tasks in this attempt
    got,        \* what the driver read back, in order
    provider,   \* api.set_provider() of the driver's own process
    live,       \* the backends whose results run_all_backends holds
    exposer,    \* whose answers run_all_backends printed as exposures
    verdict,
    quiet,      \* nothing went wrong outside since this attempt began (history)
    rows,       \* per dag: the latest row, or file, on disk
    file,       \* whether the flag file puts inDag in the subset
    loaded,     \* the same of what flagd serves
    container,  \* whether a flagd container runs
    reach,      \* per container: whether it can be reached
    outages

driverVars == <<driver, attempt, todo, answers, runs, got, provider, live, exposer,
                verdict, quiet, rows, file, loaded, container, reach, outages>>

world == <<file, loaded, container, reach, outages>>
process == <<answers, runs, got, provider, live, exposer>>

-----------------------------------------------------------------------------
(* The scripts.                                                            *)

Step(op) == [op |-> op]
Run(b, d, n) == [op |-> "run", backend |-> b, dag |-> d, questions |-> n]
Read(d) == [op |-> "read", dag |-> d]
Ask(d, n) == [op |-> "ask", dag |-> d, questions |-> n]
Factory(b) == [op |-> "factory", backend |-> b]
Identical(first) == [op |-> "identical", first |-> first]

Prelude == <<Step("setup"), Step("migrate"), Step("flagd_up")>>
Cells(b, n) == <<Run(b, inDag, n), Read(inDag), Run(b, outDag, n), Read(outDag)>>

KillSwitch ==
    Prelude \o << Run("flagd", inDag, 1), Read(inDag), Step("flip"),
                  Run("flagd", inDag, 1), Read(inDag), Step("judge") >>

\* One flag, the pool.
RealDataFlow ==
    Prelude \o Cells("flagd", 1) \o Cells("growthbook", 1) \o Cells("statsig", 1)
            \o <<Step("judge")>>

\* Two flags, the pool and the queue.
Matrix ==
    Prelude \o Cells("flagd", 2) \o Cells("growthbook", 2) \o Cells("statsig", 2)
            \o Cells("unleash", 2) \o Cells("inhouse", 2) \o <<Step("judge")>>

\* Two gates and the exposure, asked in the task, which writes a file.
GatesListener ==
    Prelude \o << Run("flagd", inDag, 3), Run("flagd", outDag, 3),
                  Read(inDag), Read(outDag), Step("judge") >>

\* The model's arm and its exposure, asked in the task.
AbExperiment ==
    Prelude \o << Run("flagd", inDag, 2), Run("flagd", outDag, 2),
                  Read(inDag), Read(outDag), Step("judge") >>

\* Mutant: the factory that may raise after set_provider() comes last.
FlagdLast == <<"growthbook", "inhouse", "unleash", "statsig", "flagd">>

Backends == <<"flagd", "growthbook", "inhouse", "unleash", "statsig">>

OneBackend(b) == <<Factory(b), Ask(inDag, 1), Ask(outDag, 1), Step("assert")>>

RunAllBackends ==
    OneBackend(Backends[1]) \o OneBackend(Backends[2]) \o OneBackend(Backends[3])
        \o OneBackend(Backends[4]) \o OneBackend(Backends[5])
        \o <<Identical(1), Step("expose"), Step("judge")>>

\* Pool and queue, the two gates, then the pool again on three backends.
RunUseCases ==
    << Factory("flagd"),
       Ask(inDag, 2), Ask(outDag, 2), Step("assert"),
       Ask(inDag, 1), Ask(outDag, 1), Step("assert"),
       Ask(inDag, 1), Ask(outDag, 1), Step("assert"),
       Ask(inDag, 1), Ask(outDag, 1),
       Factory("growthbook"), Ask(inDag, 1), Ask(outDag, 1),
       Factory("inhouse"), Ask(inDag, 1), Ask(outDag, 1),
       Identical(7), Step("judge") >>

Script(d) ==
    CASE d = "kill_switch" -> KillSwitch
      [] d = "real_data_flow" -> RealDataFlow
      [] d = "matrix" -> Matrix
      [] d = "gates_listener" -> GatesListener
      [] d = "ab_experiment" -> AbExperiment
      [] d = "run_all_backends" -> RunAllBackends
      [] d = "run_use_cases" -> RunUseCases

InProcess == driver \in {"run_all_backends", "run_use_cases"}

\* The tasks of these two write a file; the others leave a database row.
WritesFile == driver \in {"gates_listener", "ab_experiment"}

-----------------------------------------------------------------------------
DriverInit ==
    /\ driver \in Driver
    /\ attempt = 1
    /\ todo = Script(driver)
    /\ answers = <<>> /\ runs = 0 /\ got = <<>>
    /\ provider = Nobody /\ live = {} /\ exposer = Nobody
    /\ verdict = "running"
    /\ quiet = TRUE
    /\ rows = [d \in {inDag, outDag} |-> NoRow]
    /\ file = TRUE /\ loaded = TRUE
    /\ container = InProcess  \* these two expect one to be running
    /\ reach = [b \in Container |-> TRUE]
    /\ outages = 0

Doing(op) == verdict = "running" /\ Head(todo).op = op
Done == todo' = Tail(todo)

\* An uncaught exception: no teardown.
Die == verdict' = "died" /\ UNCHANGED <<todo, process, world, rows>>

\* What a provider on backend b answers about dag d.
AnswerOf(b, d) ==
    CASE b \in Container /\ ~reach[b] -> "none"
      [] b = "flagd" -> IF ~container THEN "none"
                        ELSE IF loaded /\ d = inDag THEN "in" ELSE "out"
      [] OTHER -> IF d = inDag THEN "in" ELSE "out"

Cell(b, d, state) ==
    [backend |-> b, dag |-> d, state |-> state, answers |-> answers,
     attempt |-> attempt, run |-> runs + 1]

-----------------------------------------------------------------------------
(* Preparing and ending.                                                   *)

\* Mutant: what earlier attempts left on disk stays.
SetUpKeeps ==
    /\ Doing("setup")
    /\ file' = TRUE
    /\ Done
    /\ UNCHANGED <<driver, attempt, verdict, quiet, rows, process, loaded, container, reach, outages>>

\* setup(): home and output directories are removed and made anew; the kill
\* switch writes its flag file.
SetUp ==
    /\ Doing("setup")
    /\ rows' = [d \in {inDag, outDag} |-> NoRow]
    /\ file' = TRUE
    /\ Done
    /\ UNCHANGED <<driver, attempt, verdict, quiet, process, loaded, container, reach, outages>>

\* airflow db migrate, checked.
Migrate ==
    /\ Doing("migrate")
    /\ \/ Done /\ UNCHANGED <<verdict, quiet, rows, process, world>>
       \/ Die /\ quiet' = FALSE
    /\ UNCHANGED <<driver, attempt>>

\* Mutant: without `docker rm -f' the name of a left container is taken.
FlagdUpKeeps ==
    /\ Doing("flagd_up")
    /\ IF container
       THEN verdict' = "failed" /\ UNCHANGED <<container, loaded, todo>>
       ELSE container' = TRUE /\ loaded' = file /\ Done /\ UNCHANGED verdict
    /\ UNCHANGED <<driver, attempt, quiet, rows, process, file, reach, outages>>

\* flagd_up(): a left container is removed, a new one reads the file; a
\* failed `docker run' makes main() exit 1.
FlagdUp ==
    /\ Doing("flagd_up")
    /\ \/ container' = TRUE /\ loaded' = file /\ Done /\ UNCHANGED <<verdict, quiet>>
       \/ container' = FALSE /\ verdict' = "failed" /\ quiet' = FALSE
          /\ UNCHANGED <<loaded, todo>>
    /\ UNCHANGED <<driver, attempt, rows, process, file, reach, outages>>

\* write_flags(OFF).
Flip ==
    /\ Doing("flip")
    /\ file' = FALSE
    /\ Done
    /\ UNCHANGED <<driver, attempt, verdict, quiet, rows, process, loaded, container, reach, outages>>

Placed(c) == \A i \in DOMAIN c.answers : c.answers[i] = "in"
NotPlaced(c) == \A i \in DOMAIN c.answers : c.answers[i] # "in"
AsExpected(c) == IF c.dag = inDag THEN Placed(c) ELSE NotPlaced(c)

\* What main() computes as ok; the in-process drivers asserted before.
Passed ==
    CASE driver = "kill_switch" ->
            Placed(got[1]) /\ NotPlaced(got[2]) /\ got[2].state = "success"
      [] driver \in {"real_data_flow", "matrix"} ->
            \A i \in DOMAIN got : AsExpected(got[i]) /\ got[i].state = "success"
      [] driver = "gates_listener" ->
            Placed(got[1]) /\ NotPlaced(got[2]) /\ got[2].answers[3] = "out"
      [] driver = "ab_experiment" ->
            \A side \in {TRUE, FALSE} :
                \E i \in DOMAIN got : (got[i].answers[1] = "in") = side
      [] OTHER -> TRUE

\* A driver removes the container it started, then exits.
Judge ==
    /\ Doing("judge")
    /\ container' = InProcess
    /\ verdict' = IF Passed THEN "ok" ELSE "failed"
    /\ Done
    /\ UNCHANGED <<driver, attempt, quiet, rows, process, file, loaded, reach, outages>>

-----------------------------------------------------------------------------
(* Tasks in subprocesses.                                                  *)

\* A flag is asked, in a task or in the driver's process; flagd may not have
\* read the file yet.
AskFlag ==
    /\ Doing("run") \/ Doing("ask")
    /\ Len(answers) < Head(todo).questions
    /\ LET b == IF Doing("run") THEN Head(todo).backend ELSE provider
       IN  /\ answers' = Append(answers, AnswerOf(b, Head(todo).dag))
           /\ quiet' = (quiet /\ (b = "flagd" => loaded = file))
    /\ UNCHANGED <<driver, attempt, todo, verdict, rows, runs, got, provider, live, exposer, world>>

\* `airflow dags test' exits 0: the task's state and placement are in the
\* database; a task that failed wrote no file.
RunEnds(state) ==
    /\ Doing("run")
    /\ Len(answers) = Head(todo).questions
    /\ runs' = runs + 1
    /\ rows' = IF WritesFile /\ state # "success" THEN rows
               ELSE [rows EXCEPT ![Head(todo).dag] =
                        Cell(Head(todo).backend, Head(todo).dag, state)]
    /\ answers' = <<>>
    /\ quiet' = (quiet /\ state = "success")
    /\ Done
    /\ UNCHANGED <<driver, attempt, verdict, got, provider, live, exposer, world>>

\* Mutant: the exit code is not checked.
RunUnchecked ==
    /\ Doing("run")
    /\ runs' = runs + 1
    /\ answers' = <<>>
    /\ quiet' = FALSE
    /\ Done
    /\ UNCHANGED <<driver, attempt, verdict, rows, got, provider, live, exposer, world>>

\* It exits with an error, which check=True raises.
RunFails ==
    /\ Doing("run")
    /\ Die
    /\ quiet' = FALSE
    /\ UNCHANGED <<driver, attempt>>

\* The row with the latest start, or the file; there may be none.
ReadBack ==
    /\ Doing("read")
    /\ IF rows[Head(todo).dag] = NoRow
       THEN Die
       ELSE /\ got' = Append(got, rows[Head(todo).dag])
            /\ Done
            /\ UNCHANGED <<verdict, rows, answers, runs, provider, live, exposer, world>>
    /\ UNCHANGED <<driver, attempt, quiet>>

-----------------------------------------------------------------------------
(* Providers in the driver's own process.                                  *)

\* The rest of a backend's steps, when its factory raises.
SkipBackend == todo' = SubSeq(todo, 5, Len(todo))

\* Every factory but the in-house one imports a package, or its provider's
\* constructor does, and two reach a server before they set the provider: they
\* may raise, which run_all_backends catches.  run_use_cases has imported
\* flagd's at its start and does not catch what GrowthBook's raises.
FactoryRaises ==
    /\ Doing("factory")
    /\ Head(todo).backend # "inhouse"
    /\ \/ /\ driver = "run_all_backends"
          /\ SkipBackend
          /\ UNCHANGED <<verdict, quiet, rows, process, world>>
       \/ /\ driver = "run_use_cases" /\ Head(todo).backend = "growthbook"
          /\ Die
          /\ quiet' = FALSE
    /\ UNCHANGED <<driver, attempt>>

\* The provider is set; run_all_backends then tries flagd, and raises when it
\* does not answer.
FactorySets ==
    /\ Doing("factory")
    /\ LET b == Head(todo).backend
       IN  /\ provider' = b
           /\ IF driver = "run_all_backends" /\ b = "flagd" /\ AnswerOf(b, inDag) = "none"
              THEN SkipBackend ELSE Done
    /\ UNCHANGED <<driver, attempt, verdict, quiet, rows, answers, runs, got, live, exposer, world>>

\* A parse of the population, or a gate, for one dag.
AskEnds ==
    /\ Doing("ask")
    /\ Len(answers) = Head(todo).questions
    /\ runs' = runs + 1
    /\ got' = Append(got, Cell(provider, Head(todo).dag, "parsed"))
    /\ answers' = <<>>
    /\ Done
    /\ UNCHANGED <<driver, attempt, verdict, quiet, rows, provider, live, exposer, world>>

AssertPlacement ==
    /\ Doing("assert")
    /\ IF \A i \in {Len(got) - 1, Len(got)} : AsExpected(got[i])
       THEN /\ live' = live \cup {provider}
            /\ Done
            /\ UNCHANGED <<verdict, rows, answers, runs, got, provider, exposer, world>>
       ELSE Die
    /\ UNCHANGED <<driver, attempt, quiet>>

AssertIdentical ==
    /\ Doing("identical")
    /\ IF \A i, j \in Head(todo).first..Len(got) :
            got[i].dag = got[j].dag => Placed(got[i]) = Placed(got[j])
       THEN Done /\ UNCHANGED <<verdict, rows, process, world>>
       ELSE Die
    /\ UNCHANGED <<driver, attempt, quiet>>

\* emit_exposure() asks whatever provider is set.
Expose ==
    /\ Doing("expose")
    /\ exposer' = provider
    /\ Done
    /\ UNCHANGED <<driver, attempt, verdict, quiet, rows, answers, runs, got, provider, live, world>>

-----------------------------------------------------------------------------
(* Around the driver.                                                      *)

\* flagd watches its file.
HotReload ==
    /\ container /\ loaded # file
    /\ loaded' = file
    /\ UNCHANGED <<driver, attempt, todo, verdict, quiet, rows, process, file, container, reach, outages>>

Outage(b) ==
    /\ verdict = "running"
    /\ outages < MaxOutages
    /\ outages' = outages + 1
    /\ reach' = [reach EXCEPT ![b] = ~@]
    /\ quiet' = FALSE
    /\ UNCHANGED <<driver, attempt, todo, verdict, rows, process, file, loaded, container>>

\* The driver is killed and started again; disk and container stay.
Rerun ==
    /\ verdict \in {"running", "died"}
    /\ attempt < MaxAttempts
    /\ attempt' = attempt + 1
    /\ todo' = Script(driver)
    /\ answers' = <<>> /\ runs' = 0 /\ got' = <<>>
    /\ provider' = Nobody /\ live' = {} /\ exposer' = Nobody
    /\ verdict' = "running"
    /\ quiet' = \A b \in Container : reach[b]
    /\ UNCHANGED <<driver, rows, world>>

DriverNext ==
    \/ SetUp \/ Migrate \/ FlagdUp \/ Flip \/ Judge
    \/ AskFlag \/ RunFails \/ ReadBack
    \/ \E state \in {"success", "failed"} : RunEnds(state)
    \/ FactoryRaises \/ FactorySets \/ AskEnds
    \/ AssertPlacement \/ AssertIdentical \/ Expose
    \/ HotReload \/ Rerun
    \/ \E b \in Container : Outage(b)

DriverSpec == DriverInit /\ [][DriverNext]_driverVars

-----------------------------------------------------------------------------
(* Properties.                                                             *)

\* A driver judges, cell by cell, what its own subprocesses of this attempt
\* left, in their order: never a row of the backend before, nor a file of an
\* earlier attempt, whatever failed in between (matrix.py:155, "latest row").
EveryCellIsItsRuns ==
    \A i \in DOMAIN got : got[i].attempt = attempt /\ got[i].run = i

\* A driver that says the provider does not place as documented is right
\* about it, or something outside broke in this attempt: what a killed
\* attempt left behind never makes a driver fail.
QuietRunPasses == verdict \in {"failed", "died"} => ~quiet

\* run_all_backends prints the exposures of a backend whose placement it has
\* checked, also when factories raised with or without setting a provider: the
\* in-house one, which does neither, comes after the one that can do both.
ExposureFromLive == exposer # Nobody => exposer \in live
=============================================================================
