----------------------------- MODULE FlagSetup -----------------------------
(***************************************************************************)
(* The two scripts that create the case study's flag                       *)
(* (system_tests/case_study), each of which calls itself idempotent.  They *)
(* are lists of requests to an Unleash and a GrowthBook server.  A request *)
(* may be refused, which the scripts overlook, the questions they ask      *)
(* included; or the connection breaks, before or after the server acted,   *)
(* and the script dies.  Either is then started again, maybe with another  *)
(* percentage.                                                             *)
(***************************************************************************)
EXTENDS Naturals, Sequences

CONSTANTS
    Rollout,     \* the percentages to set up
    MaxStarts    \* bound: starts of the scripts

ASSUME FlagSetupAssumption == Rollout \subseteq 0..100 /\ MaxStarts \in Nat

NoFlag == 101  \* no percentage

VARIABLES
    \* The Unleash server: the feature, the percentages of its flexibleRollout
    \* strategies, the environment.
    feature, strategies, envOn,
    \* The GrowthBook server: the user, organizations, the rule's coverage.
    user, orgs, coverage,
    \* The script that runs.
    script, request, wanted, found, note, starts,
    accepted, \* the requests the server accepted of this start (history)
    blind,    \* how many questions for the organizations failed (history)
    overlooked \* how many questions for the feature that failed hid a strategy (history)

unleashServer == <<feature, strategies, envOn>>
growthbookServer == <<user, orgs, coverage>>
scriptVars == <<script, wanted, starts>>
setupVars == <<unleashServer, growthbookServer, request, found, note, accepted, blind, overlooked, scriptVars>>

FlagSetupInit ==
    /\ feature = FALSE /\ strategies = <<>> /\ envOn = FALSE
    /\ user = FALSE /\ orgs = 0 /\ coverage = NoFlag
    /\ script = "none" /\ request = "finished" /\ wanted = NoFlag
    /\ found = 0 /\ note = FALSE /\ starts = 0 /\ accepted = {} /\ blind = 0
    /\ overlooked = 0

\* A first start, one after the end, or one after the script died or was
\* killed.
StartSetup(s, pct) ==
    /\ starts < MaxStarts
    /\ starts' = starts + 1
    /\ script' = s /\ wanted' = pct
    /\ request' = IF s = "unleash" THEN "create" ELSE "register"
    /\ found' = 0 /\ note' = FALSE /\ accepted' = {}
    /\ UNCHANGED <<unleashServer, growthbookServer, blind, overlooked>>

\* What becomes of the request in hand, when the server's action is Act.  The
\* GrowthBook script overlooks every error status, the other one 400 and 409.
Send(Act, next) ==
    \/ Act /\ request' = next /\ accepted' = accepted \cup {request}
    \/ Act /\ request' = "dead" /\ UNCHANGED accepted
    \/ UNCHANGED <<unleashServer, growthbookServer, accepted>> /\ request' \in {next, "dead"}

-----------------------------------------------------------------------------
(* setup_unleash_flag.py                                                   *)

\* An existing feature answers 409.
CreateFeature ==
    /\ request = "create"
    /\ Send(feature' = TRUE /\ UNCHANGED <<strategies, envOn, growthbookServer>>, "get")
    /\ UNCHANGED <<found, note, blind, overlooked, scriptVars>>

\* The id of the last flexibleRollout strategy.  A 400 or 409 reads as a
\* feature without any; another error, as the 404 of a feature that is not
\* there, ends the script.
GetFeature ==
    /\ request = "get"
    /\ \/ feature /\ found' = Len(strategies) /\ request' = "write" /\ UNCHANGED overlooked
       \/ /\ found' = 0 /\ request' = "write"
          /\ overlooked' = IF strategies # <<>> THEN overlooked + 1 ELSE overlooked
       \/ request' = "dead" /\ UNCHANGED <<found, overlooked>>
    /\ UNCHANGED <<unleashServer, growthbookServer, note, accepted, blind, scriptVars>>

\* Mutant: the strategy is always added.
AddStrategy ==
    /\ request = "write"
    /\ Send(/\ feature /\ strategies' = Append(strategies, wanted)
            /\ UNCHANGED <<feature, envOn, growthbookServer>>, "on")
    /\ UNCHANGED <<found, note, blind, overlooked, scriptVars>>

\* PUT of the strategy found, or POST of one where none was.
WriteStrategy ==
    /\ request = "write"
    /\ Send(/\ feature
            /\ strategies' = IF found # 0 THEN [strategies EXCEPT ![found] = wanted]
                             ELSE Append(strategies, wanted)
            /\ UNCHANGED <<feature, envOn, growthbookServer>>, "on")
    /\ UNCHANGED <<found, note, blind, overlooked, scriptVars>>

SwitchOn ==
    /\ request = "on"
    /\ Send(feature /\ envOn' = TRUE /\ UNCHANGED <<feature, strategies, growthbookServer>>, "finished")
    /\ UNCHANGED <<found, note, blind, overlooked, scriptVars>>

-----------------------------------------------------------------------------
(* setup_growthbook_flag.py                                                *)

\* A no-op for a user that exists.
Register ==
    /\ request = "register"
    /\ Send(user' = TRUE /\ UNCHANGED <<unleashServer, orgs, coverage>>, "user")
    /\ UNCHANGED <<found, note, blind, overlooked, scriptVars>>

\* The login and the user's organizations.  An answer that is an error reads as
\* none; none at the second time is an IndexError.
GetUser ==
    /\ request \in {"user", "user again"}
    /\ \E error \in BOOLEAN :
        /\ found' = IF user /\ ~error THEN orgs ELSE 0
        /\ blind' = IF error THEN blind + 1 ELSE blind
    /\ request' \in {"dead", IF found' # 0 THEN "post"
                            ELSE IF request = "user" THEN "organization" ELSE "dead"}
    /\ UNCHANGED <<unleashServer, growthbookServer, note, accepted, overlooked, scriptVars>>

CreateOrganization ==
    /\ request = "organization"
    /\ Send(user /\ orgs' = orgs + 1 /\ UNCHANGED <<unleashServer, user, coverage>>, "user again")
    /\ UNCHANGED <<found, note, blind, overlooked, scriptVars>>

\* The feature with its rule.  A refusal, as of one that exists, is noted; the
\* last line then still prints the percentage asked for.
PostFeature ==
    /\ request = "post"
    /\ \/ /\ coverage = NoFlag
          /\ coverage' = wanted
          /\ request' \in {"finished", "dead"}
          /\ UNCHANGED note
       \/ request' \in {"finished", "dead"} /\ note' = TRUE /\ UNCHANGED coverage
    /\ UNCHANGED <<unleashServer, user, orgs, found, accepted, blind, overlooked, scriptVars>>

FlagSetupNext ==
    \/ \E pct \in Rollout : StartSetup("unleash", pct) \/ StartSetup("growthbook", pct)
    \/ CreateFeature \/ GetFeature \/ WriteStrategy \/ SwitchOn
    \/ Register \/ GetUser \/ CreateOrganization \/ PostFeature

FlagSetupSpec == FlagSetupInit /\ [][FlagSetupNext]_setupVars

-----------------------------------------------------------------------------
(* Properties.                                                             *)

FlagSetupTypeOK ==
    /\ feature \in BOOLEAN /\ envOn \in BOOLEAN /\ user \in BOOLEAN /\ note \in BOOLEAN
    /\ strategies \in Seq(0..100)
    /\ orgs \in Nat /\ blind \in Nat /\ overlooked \in Nat /\ found \in Nat /\ starts \in 0..MaxStarts
    /\ coverage \in Rollout \cup {NoFlag} /\ wanted \in Rollout \cup {NoFlag}
    /\ script \in {"none", "unleash", "growthbook"}
    /\ request \in {"create", "get", "write", "on", "register", "user", "organization",
                    "user again", "post", "finished", "dead"}

\* "Idempotent" (setup_unleash_flag.py:3, setup_growthbook_flag.py:4): the
\* scripts, died and started again anywhere, leave one strategy and one
\* organization, but for the times that a failed question hid those there are.
\* A start of the first that ends with its requests accepted leaves the
\* percentage it was given in the strategy that the next one finds; one of the
\* second leaves that or prints its note.
SetupIsIdempotent ==
    /\ Len(strategies) <= 1 + overlooked
    /\ orgs <= 1 + blind
    /\ (script = "unleash" /\ request = "finished" /\ {"write", "on"} \subseteq accepted) =>
            /\ feature /\ envOn /\ strategies # <<>>
            /\ strategies[Len(strategies)] = wanted
    /\ (script = "growthbook" /\ request = "finished") =>
            orgs # 0 /\ (coverage = wanted \/ note)
=============================================================================
