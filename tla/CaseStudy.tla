----------------------------- MODULE CaseStudy -----------------------------
(***************************************************************************)
(* The case study (system_tests/case_study/run_case_study.py): it sets the *)
(* flag's percentage in Unleash stage by stage, asks the flag for every    *)
(* region and runs the rollup it answers.  The client polls Unleash on its *)
(* own; the driver sleeps four seconds and hopes that a poll has come.     *)
(*                                                                         *)
(* Both this driver and the setup script write the group id revenue_rollup *)
(* into the strategy, so that a region keeps its bucket throughout.  A     *)
(* setup that overlooked a failed question may have left a second strategy *)
(* behind; Unleash turns a flag on for whom any of its strategies does.    *)
(***************************************************************************)
EXTENDS FlagSetup, Rollup

CONSTANTS
    Region,
    RegionBucket,  \* [Region -> 1..100]: Unleash's hash of group id and region
    Shard          \* the shards a region may have

ASSUME CaseStudyAssumption == RegionBucket \in [Region -> 1..100]

VARIABLES
    casePhase,   \* idle, or run_stage() is about to set, to ask, or all is over
    stage,       \* how many stages have begun
    clientOn, fetched,    \* the environment and percentages the client fetched
    unseen,      \* whether the client has yet to fetch a stage's percentage (history)
    region_todo, \* the regions this stage has not asked for
    on_v2,       \* per stage: the regions on v2
    parity_ok,
    early,       \* the stages and regions asked while unseen (history)
    shards,
    caseVerdict

caseVars == <<casePhase, stage, clientOn, fetched, unseen, region_todo, on_v2,
              parity_ok, early, shards, caseVerdict>>

\* Mutant: two stages in the wrong order.
StagesSwapped == <<0, 50, 25, 75, 100>>

Stages == <<0, 25, 50, 75, 100>>

CaseStudyInit ==
    /\ FlagSetupInit
    /\ casePhase = "idle" /\ stage = 0
    /\ clientOn = FALSE /\ fetched = <<>> /\ unseen = TRUE
    /\ region_todo = {} /\ on_v2 = <<>> /\ parity_ok = TRUE /\ early = {}
    /\ shards \in [Region -> Shard]
    /\ caseVerdict = "running"

\* strategy_id() finds the first strategy, which the ramp sets; make_client()
\* fetches once.  The setup scripts are over.
StartCase ==
    /\ casePhase = "idle" /\ request \in {"finished", "dead"} /\ strategies # <<>>
    /\ casePhase' = "set"
    /\ script' = "none" /\ request' = "finished" /\ wanted' = NoFlag
    /\ found' = 0 /\ note' = FALSE /\ accepted' = {}
    /\ clientOn' = envOn /\ fetched' = strategies
    /\ UNCHANGED <<unleashServer, growthbookServer, blind, overlooked, starts, stage, unseen,
                   region_todo, on_v2, parity_ok, early, shards, caseVerdict>>

CaseDies == casePhase' = "over" /\ caseVerdict' = "died"

\* set_rollout(); a request that fails, before or after the server acted,
\* ends the driver.
SetRollout ==
    /\ casePhase = "set" /\ stage < Len(Stages)
    /\ stage' = stage + 1
    /\ strategies' \in {strategies, [strategies EXCEPT ![1] = Stages[stage + 1]]}
    /\ \/ /\ strategies'[1] = Stages[stage + 1]
          /\ casePhase' = "ask"
          /\ region_todo' = Region
          /\ on_v2' = Append(on_v2, {})
          /\ UNCHANGED caseVerdict
       \/ CaseDies /\ UNCHANGED <<region_todo, on_v2>>
    /\ UNCHANGED <<feature, envOn, growthbookServer, request, found, note, accepted, blind,
                   overlooked, scriptVars, clientOn, fetched, unseen, parity_ok, early, shards>>

\* The client's thread, at any time, however late.
Poll ==
    /\ casePhase \in {"set", "ask"}
    /\ clientOn' = envOn /\ fetched' = strategies
    /\ unseen' = (unseen /\ stage = 0)
    /\ UNCHANGED <<setupVars, casePhase, stage, region_todo, on_v2, parity_ok, early,
                   shards, caseVerdict>>

\* What the client answers of a region.
IsOn(r) == clientOn /\ \E i \in DOMAIN fetched : RegionBucket[r] <= fetched[i]

\* flag_enabled(), the rollup it picks, and the parity of v2 with v1.
RunRegion(r) ==
    /\ casePhase = "ask" /\ r \in region_todo
    /\ region_todo' = region_todo \ {r}
    /\ IF IsOn(r)
       THEN /\ on_v2' = [on_v2 EXCEPT ![stage] = @ \cup {r}]
            /\ parity_ok' = (parity_ok /\ RollupV1("pipeline", shards[r])
                                            = RollupV2("pipeline", shards[r]))
       ELSE UNCHANGED <<on_v2, parity_ok>>
    /\ early' = IF unseen THEN early \cup {<<stage, r>>} ELSE early
    /\ UNCHANGED <<setupVars, casePhase, stage, clientOn, fetched, unseen, shards, caseVerdict>>

\* The stage's row.
EndStage ==
    /\ casePhase = "ask" /\ region_todo = {}
    /\ casePhase' = "set"
    /\ UNCHANGED <<setupVars, stage, clientOn, fetched, unseen, region_todo, on_v2,
                   parity_ok, early, shards, caseVerdict>>

\* The report divides by the v1 mean of the first stage, which is 0.0 when no
\* region ran v1 in it.
JudgeCase ==
    /\ casePhase = "set" /\ stage = Len(Stages)
    /\ IF on_v2[1] = Region
       THEN CaseDies
       ELSE /\ casePhase' = "over"
            /\ caseVerdict' = IF on_v2[stage] = Region /\ parity_ok THEN "ok" ELSE "failed"
    /\ UNCHANGED <<setupVars, stage, clientOn, fetched, unseen, region_todo, on_v2,
                   parity_ok, early, shards>>

CaseStudyNext ==
    \/ casePhase = "idle" /\ FlagSetupNext
                          /\ UNCHANGED caseVars
    \/ StartCase \/ SetRollout \/ Poll \/ EndStage \/ JudgeCase
    \/ \E r \in Region : RunRegion(r)

CaseStudySpec == CaseStudyInit /\ [][CaseStudyNext]_<<setupVars, caseVars>>

-----------------------------------------------------------------------------
(* Properties.                                                             *)

\* A ramp only widens: however late the polls, a region that ran v2 once the
\* client had fetched a stage's percentage runs v2 in every later stage; and the
\* driver's "every region ended on v2" with all revenues alike
\* (run_case_study.py:130) holds when it says so.  Its report can only divide
\* by zero when every region was asked for with the percentage from before the
\* first stage, or is let in by a strategy that the ramp does not set.
NoRegionLeavesV2 ==
    /\ \A i, j \in DOMAIN on_v2 :
        i < j => \A r \in on_v2[i] :
            <<i, r>> \in early \/ r \in on_v2[j] \/ (j = stage /\ r \in region_todo)
    /\ caseVerdict = "ok" =>
        /\ on_v2[stage] = Region
        /\ \A r \in Region : RollupV1("pipeline", shards[r]) = RollupV2("pipeline", shards[r])
    /\ (caseVerdict = "died" /\ stage = Len(Stages) /\ Len(on_v2) = stage /\ on_v2[1] = Region) =>
        \A r \in Region :
            \/ <<1, r>> \in early
            \/ \E i \in DOMAIN strategies \ {1} : RegionBucket[r] <= strategies[i]
=============================================================================
