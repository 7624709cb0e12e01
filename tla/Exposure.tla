------------------------------ MODULE Exposure ------------------------------
(***************************************************************************)
(* The exposure listener (listener.py) beside the placement policy.  A     *)
(* task runs with the attributes the scheduler read; when it starts, the   *)
(* worker asks the backend again, flag by flag and always for a string,    *)
(* and logs the answers as the group the task landed in.                   *)
(*                                                                         *)
(* The openfeature.exposure metrics repeat the log line and may stop at a  *)
(* failure; only the log line is kept here.                                *)
(***************************************************************************)
EXTENDS Placement

CONSTANTS
    Run,           \* task runs
    ExposureFlags  \* EXPOSURE_FLAGS: the flags of the built-in dimensions

ASSUME ExposureAssumption == ExposureFlags \in Seq(Flag)

VARIABLES
    enable_listener,  \* [openfeature] enable_exposure_listener
    basis,   \* per task: the views since its last pass began, and whether
             \* the policy was on (history)
    run,     \* per run: the task, the attributes it runs with, its basis
    asking,  \* per run: the next flag emit_exposure asks, 0 before and after
    answers, \* per run: the answers so far
    log      \* per run: the logged treatments, or None

runs == <<run, asking, answers, log>>
exposureVars == <<vars, enable_listener, basis, runs>>

FlagAnswers == [Flag -> Value \cup {Unset}]
NoAnswers == [f \in Flag |-> Unset]
NotStarted == [task |-> None, attrs |-> None, views |-> {}, on |-> FALSE]

ExposureInit ==
    /\ Init
    /\ enable_listener \in BOOLEAN
    /\ basis = [t \in Task |-> [views |-> {View}, on |-> FALSE]]
    /\ run = [r \in Run |-> NotStarted]
    /\ asking = [r \in Run |-> 0]
    /\ answers = [r \in Run |-> NoAnswers]
    /\ log = [r \in Run |-> None]

\* A step of the policy or the backend, as the exposure sees it.  A run
\* still to be logged keeps collecting the views.
PlacementStep ==
    /\ Next
    /\ basis' = [t \in Task |->
        LET committing == {w \in Parser : parsing[w] = t /\ parsing'[w] = None}
        IN  IF committing = {}
            THEN [basis[t] EXCEPT !.views = @ \cup {View'}]
            ELSE LET w == CHOOSE w \in committing : TRUE
                 IN  [views |-> seen[w], on |-> next[w] # 0]]
    /\ run' = [r \in Run |->
        IF run[r].task # None /\ log[r] = None
        THEN [run[r] EXCEPT !.views = @ \cup {View'}] ELSE run[r]]
    /\ UNCHANGED <<enable_listener, asking, answers, log>>

\* The scheduler starts a run with what the last pass stored.
StartTask(r, t) ==
    /\ run[r] = NotStarted
    /\ run' = [run EXCEPT ![r] =
        [task |-> t, attrs |-> placed[t], views |-> basis[t].views, on |-> basis[t].on]]
    /\ UNCHANGED <<vars, enable_listener, basis, asking, answers, log>>

\* emit_exposure(), up to its first question.
EmitExposure(r) ==
    /\ run[r] # NotStarted /\ asking[r] = 0 /\ log[r] = None
    /\ asking' = [asking EXCEPT ![r] = 1]
    /\ UNCHANGED <<vars, enable_listener, basis, run, answers, log>>

\* on_task_instance_running, behind its gate.
OnTaskInstanceRunning(r) == enable_listener /\ EmitExposure(r)

\* The task's code, or the policy, calls emit_exposure itself.
TaskCallsEmit(r) == EmitExposure(r)

\* Mutant: the wrong flag's answer is kept.
ResolvePrevious(r) ==
    /\ asking[r] \in 1..Len(ExposureFlags)
    /\ LET f == ExposureFlags[asking[r]]
           v == config[ExposureFlags[1]][run[r].task]
       IN  answers' = [answers EXCEPT ![r][f] = IF up /\ v \in StringValue THEN v ELSE Unset]
    /\ asking' = [asking EXCEPT ![r] = @ + 1]
    /\ UNCHANGED <<vars, enable_listener, basis, run, log>>

\* variant(): every flag is asked for a string; one that serves a number
\* answers the default.
ResolveFlag(r) ==
    /\ asking[r] \in 1..Len(ExposureFlags)
    /\ LET f == ExposureFlags[asking[r]]
           v == config[f][run[r].task]
       IN  answers' = [answers EXCEPT ![r][f] = IF up /\ v \in StringValue THEN v ELSE Unset]
    /\ asking' = [asking EXCEPT ![r] = @ + 1]
    /\ UNCHANGED <<vars, enable_listener, basis, run, log>>

\* The flags that resolved are logged; nothing is when none did.
LogTreatments(r) ==
    /\ asking[r] > Len(ExposureFlags)
    /\ log' = [log EXCEPT ![r] = answers[r]]
    /\ asking' = [asking EXCEPT ![r] = 0]
    /\ UNCHANGED <<vars, enable_listener, basis, run, answers>>

ExposureNext ==
    \/ PlacementStep
    \/ \E r \in Run, t \in Task : StartTask(r, t)
    \/ \E r \in Run : OnTaskInstanceRunning(r) \/ TaskCallsEmit(r)
                      \/ ResolveFlag(r) \/ LogTreatments(r)

ExposureSpec == ExposureInit /\ [][ExposureNext]_exposureVars

-----------------------------------------------------------------------------
(* Properties.                                                             *)

Logged(r, f) == log[r] # None /\ log[r][f] # Unset

\* The string dimensions that decide an attribute alone: no other one
\* targets it, it can be assigned, its setter does not raise.
Deciding(t) ==
    {d \in {Dimensions[j] : j \in 1..Len(Dimensions)} :
        /\ \A j \in 1..Len(Dimensions) : Dimensions[j].attr = d.attr => Dimensions[j] = d
        /\ d.attr \in Writable[t] /\ t \notin d.raises}

\* Nothing was edited from the pass that placed the run until the record,
\* and the policy was on.
Steady(r) == run[r].on /\ \E view \in run[r].views : run[r].views = {view}

\* While the flags rest and the policy is on, the record of a string flag
\* and the attribute the task ran with are the same group, in both
\* directions: treated and recorded, or neither.
SteadyRecordIsRight ==
    \A r \in Run : log[r] # None /\ Steady(r) =>
        \A d \in Deciding(run[r].task) :
            d.kind = "string" /\ d.flag \in {ExposureFlags[j] : j \in 1..Len(ExposureFlags)} =>
                run[r].attrs[d.attr] =
                    IF Logged(r, d.flag) THEN log[r][d.flag] ELSE Authored[run[r].task][d.attr]

\* listener.py:1, "record which group each task landed in": a task that landed
\* in a group of one of EXPOSURE_FLAGS is recorded, at least while the flags
\* rest.
EveryGroupIsRecorded ==
    \A r \in Run : log[r] # None /\ Steady(r) =>
        \A d \in Deciding(run[r].task) :
            /\ d.flag \in {ExposureFlags[j] : j \in 1..Len(ExposureFlags)}
            /\ run[r].attrs[d.attr] # Authored[run[r].task][d.attr]
            => Logged(r, d.flag)
=============================================================================
