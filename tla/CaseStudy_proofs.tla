-------------------------- MODULE CaseStudy_proofs --------------------------
(***************************************************************************)
(* Theorems about the case study: both setup scripts are idempotent,       *)
(* whatever requests are lost or refused, wherever they die and however    *)
(* often they are started again; and the ramp that follows only widens,    *)
(* for any regions, hash and shards and however late the client polls.     *)
(***************************************************************************)
EXTENDS CaseStudy, TLAPS

UnleashRequest == {"create", "get", "write", "on"}
GrowthBookRequest == {"register", "user", "organization", "user again", "post"}

\* What a script that has come to a request knows of its server.
UnleashProtocol ==
    /\ request \in UnleashRequest => script = "unleash"
    /\ request \in UnleashRequest => wanted \in Rollout
    /\ request \in {"create", "get", "write"} => "write" \notin accepted
    /\ request \in UnleashRequest => "on" \notin accepted
    /\ request = "write" => found = Len(strategies) \/ (found = 0 /\ Len(strategies) <= overlooked)
    /\ (script = "unleash" /\ request \in {"on", "finished"} /\ "write" \in accepted) =>
            feature /\ strategies # <<>> /\ strategies[Len(strategies)] = wanted
    /\ (script = "unleash" /\ request = "finished" /\ "on" \in accepted) => envOn

GrowthBookProtocol ==
    /\ request \in GrowthBookRequest => script = "growthbook"
    /\ ~user => orgs = 0
    /\ request = "organization" => orgs <= blind
    /\ request = "post" => orgs # 0
    /\ (script = "growthbook" /\ request = "finished") => orgs # 0 /\ (coverage = wanted \/ note)

\* The types, the truth values apart: the provers take them one kind at a time.
TruthsOK == feature \in BOOLEAN /\ envOn \in BOOLEAN /\ user \in BOOLEAN /\ note \in BOOLEAN
NumbersOK ==
    /\ strategies \in Seq(0..100)
    /\ orgs \in Nat /\ blind \in Nat /\ overlooked \in Nat /\ found \in Nat /\ starts \in 0..MaxStarts
NamesOK ==
    /\ coverage \in Rollout \cup {NoFlag} /\ wanted \in Rollout \cup {NoFlag}
    /\ script \in {"none", "unleash", "growthbook"}
    /\ request \in UnleashRequest \cup GrowthBookRequest \cup {"finished", "dead"}

LEMMA SameTypes == FlagSetupTypeOK <=> TruthsOK /\ NumbersOK /\ NamesOK
BY DEF FlagSetupTypeOK, TruthsOK, NumbersOK, NamesOK, UnleashRequest, GrowthBookRequest

SetupInv ==
    /\ TruthsOK /\ NumbersOK /\ NamesOK
    /\ UnleashProtocol
    /\ GrowthBookProtocol
    /\ Len(strategies) <= 1 + overlooked
    /\ orgs <= 1 + blind

LEMMA SetupStarts == FlagSetupInit => SetupInv
<1> SUFFICES ASSUME FlagSetupInit PROVE SetupInv
    OBVIOUS
<1> USE DEF FlagSetupInit
<1>1. strategies \in Seq(0..100) /\ Len(strategies) = 0
    OBVIOUS
<1>2. TruthsOK
    BY DEF TruthsOK
<1>3. NumbersOK
    BY <1>1, FlagSetupAssumption DEF NumbersOK
<1>4. NamesOK
    BY DEF NamesOK, UnleashRequest, GrowthBookRequest
<1>5. UnleashProtocol /\ GrowthBookProtocol
    BY DEF UnleashProtocol, GrowthBookProtocol, UnleashRequest, GrowthBookRequest
<1> QED BY <1>1, <1>2, <1>3, <1>4, <1>5 DEF SetupInv

\* A strategy is only ever written over the one that was found, or after those
\* there are.
Written(list, n, pct) == IF n # 0 THEN [list EXCEPT ![n] = pct] ELSE Append(list, pct)

LEMMA WrittenLast ==
    ASSUME NEW S, NEW list \in Seq(S), NEW pct \in S, NEW n, n \in {0, Len(list)}
    PROVE  /\ Written(list, n, pct) \in Seq(S)
           /\ Len(Written(list, n, pct)) = IF n # 0 THEN Len(list) ELSE Len(list) + 1
           /\ Written(list, n, pct) # <<>>
           /\ Written(list, n, pct)[Len(Written(list, n, pct))] = pct
<1> DEFINE new == Written(list, n, pct)
<1>1. Len(list) \in Nat /\ DOMAIN list = 1..Len(list) /\ \A i \in 1..Len(list) : list[i] \in S
    OBVIOUS
<1>2. CASE n = 0
    BY <1>2 DEF Written
<1>3. CASE n # 0
    <2>1. n = Len(list) /\ n \in Nat /\ n \in 1..n
        <3>1. n = Len(list)
            BY <1>3
        <3>2. n \in Nat
            BY <1>1, <3>1
        <3> QED BY <1>3, <3>1, <3>2
    <2> DEFINE put == [i \in 1..n |-> IF i = n THEN pct ELSE list[i]]
    <2>2. new = put
        BY <1>1, <1>3, <2>1 DEF Written
    <2>3. put \in Seq(S) /\ Len(put) = n
        <3>1. \A i \in 1..n : (IF i = n THEN pct ELSE list[i]) \in S
            BY <1>1, <2>1
        <3> QED BY <2>1, <3>1
    <2>4. put[n] = pct
        BY <2>1
    <2>5. put # <<>>
        BY <1>3, <2>3
    <2> QED BY <1>3, <2>1, <2>2, <2>3, <2>4, <2>5
<1> QED BY <1>2, <1>3

LEMMA SetupStep == SetupInv /\ [FlagSetupNext]_setupVars => SetupInv'
<1> SUFFICES ASSUME SetupInv, [FlagSetupNext]_setupVars PROVE SetupInv'
    OBVIOUS
<1> USE DEF SetupInv, UnleashRequest, GrowthBookRequest
<1>1. ASSUME NEW s \in {"unleash", "growthbook"}, NEW pct \in Rollout, StartSetup(s, pct) PROVE SetupInv'
    <2> USE <1>1 DEF StartSetup, unleashServer, growthbookServer, scriptVars
    <2>1. TruthsOK'
        BY DEF TruthsOK
    <2>2. NumbersOK'
        BY FlagSetupAssumption DEF NumbersOK
    <2>3. NamesOK'
        BY DEF NamesOK
    <2>4. UnleashProtocol'
        BY DEF TruthsOK, NumbersOK, NamesOK, UnleashProtocol
    <2>5. GrowthBookProtocol'
        BY DEF TruthsOK, NumbersOK, NamesOK, GrowthBookProtocol
    <2>6. Len(strategies') <= 1 + overlooked' /\ orgs' <= 1 + blind'
        BY DEF NumbersOK, UnleashProtocol, GrowthBookProtocol
    <2> QED BY <2>1, <2>2, <2>3, <2>4, <2>5, <2>6
<1>2. ASSUME CreateFeature PROVE SetupInv'
    <2> USE <1>2 DEF CreateFeature, Send, unleashServer, growthbookServer, scriptVars
    <2>1. TruthsOK'
        BY DEF TruthsOK
    <2>2. NumbersOK'
        BY FlagSetupAssumption DEF NumbersOK
    <2>3. NamesOK'
        BY DEF NamesOK
    <2>4. UnleashProtocol'
        BY DEF TruthsOK, NumbersOK, NamesOK, UnleashProtocol
    <2>5. GrowthBookProtocol'
        BY DEF TruthsOK, NumbersOK, NamesOK, GrowthBookProtocol
    <2>6. Len(strategies') <= 1 + overlooked' /\ orgs' <= 1 + blind'
        BY DEF NumbersOK, UnleashProtocol, GrowthBookProtocol
    <2> QED BY <2>1, <2>2, <2>3, <2>4, <2>5, <2>6
<1>3. ASSUME GetFeature PROVE SetupInv'
    <2>a. /\ request = "get" /\ script = "unleash" /\ request' \in {"write", "dead"}
          /\ Len(strategies) \in Nat /\ overlooked \in Nat /\ Len(strategies) <= 1 + overlooked
          /\ strategies # <<>> \/ Len(strategies) = 0
        BY <1>3 DEF GetFeature, UnleashProtocol, NumbersOK
    <2>b. \/ found' = Len(strategies) /\ overlooked' = overlooked
          \/ found' = 0 /\ overlooked' = IF strategies # <<>> THEN overlooked + 1 ELSE overlooked
          \/ request' = "dead" /\ found' = found /\ overlooked' = overlooked
        BY <1>3 DEF GetFeature
    <2>c. UNCHANGED <<unleashServer, growthbookServer, note, accepted, blind, scriptVars>>
        BY <1>3 DEF GetFeature
    <2>d. /\ overlooked' \in Nat /\ overlooked <= overlooked'
          /\ request' = "write" => found' = Len(strategies)
                                   \/ (found' = 0 /\ Len(strategies) <= overlooked')
        BY <2>a, <2>b
    <2> USE <2>c DEF unleashServer, growthbookServer, scriptVars
    <2>1. TruthsOK'
        BY DEF TruthsOK
    <2>2. NumbersOK'
        BY <2>a, <2>b, <2>d DEF NumbersOK
    <2>3. NamesOK'
        BY <2>a DEF NamesOK
    <2>4. UnleashProtocol'
        BY <2>a, <2>d DEF UnleashProtocol
    <2>5. GrowthBookProtocol'
        BY <2>a DEF GrowthBookProtocol
    <2>6. Len(strategies') <= 1 + overlooked' /\ orgs' <= 1 + blind'
        BY <2>a, <2>d
    <2> QED BY <2>1, <2>2, <2>3, <2>4, <2>5, <2>6
<1>4. ASSUME WriteStrategy PROVE SetupInv'
    <2> DEFINE written == Written(strategies, found, wanted)
    <2>a. /\ request = "write" /\ script = "unleash"
          /\ request' \in {"on", "dead"} /\ "on" \notin accepted'
          /\ found = Len(strategies) \/ (found = 0 /\ Len(strategies) <= overlooked)
        BY <1>4 DEF WriteStrategy, Send, UnleashProtocol
    <2>b. strategies' = strategies \/ strategies' = written
        BY <1>4 DEF WriteStrategy, Send, unleashServer, Written
    <2>c. "write" \in accepted' => strategies' = written /\ feature
        BY <1>4 DEF WriteStrategy, Send, UnleashProtocol, Written
    <2>d. UNCHANGED <<feature, envOn, growthbookServer, found, note, blind, overlooked, scriptVars>>
        BY <1>4 DEF WriteStrategy, Send, unleashServer
    <2>e. /\ written \in Seq(0..100) /\ Len(written) <= 1 + overlooked
          /\ written # <<>> /\ written[Len(written)] = wanted
        <3> DEFINE P == 0..100
        <3>1. wanted \in P /\ found \in {0, Len(strategies)}
            BY <2>a, FlagSetupAssumption DEF UnleashProtocol
        <3>2. strategies \in Seq(P) /\ Len(strategies) \in Nat
            BY DEF NumbersOK
        <3>3. Len(strategies) <= 1 + overlooked /\ overlooked \in Nat
            BY DEF NumbersOK
        <3> HIDE DEF P
        <3>4. /\ written \in Seq(P) /\ written # <<>> /\ written[Len(written)] = wanted
              /\ Len(written) = IF found # 0 THEN Len(strategies) ELSE Len(strategies) + 1
            BY <3>1, <3>2, WrittenLast
        <3> HIDE DEF written
        <3>5. Len(written) <= 1 + overlooked
            BY <2>a, <3>2, <3>3, <3>4
        <3> QED BY <3>4, <3>5 DEF P
    <2> HIDE DEF written
    <2> USE <2>d DEF growthbookServer, scriptVars
    <2>1. TruthsOK'
        BY DEF TruthsOK
    <2>2. strategies' \in Seq(0..100) /\ Len(strategies') <= 1 + overlooked'
        <3>1. CASE strategies' = strategies
            BY <3>1 DEF NumbersOK
        <3>2. CASE strategies' = written
            BY <2>e, <3>2
        <3> QED BY <2>b, <3>1, <3>2
    <2>3. NumbersOK' /\ orgs' <= 1 + blind'
        BY <2>2 DEF NumbersOK
    <2>4. NamesOK'
        BY <2>a DEF NamesOK
    <2>5. UnleashProtocol'
        BY <2>a, <2>e, <2>c DEF UnleashProtocol
    <2>6. GrowthBookProtocol'
        BY <2>a DEF GrowthBookProtocol
    <2> QED BY <2>1, <2>2, <2>3, <2>4, <2>5, <2>6
<1>5. ASSUME SwitchOn PROVE SetupInv'
    <2>a. /\ script = "unleash" /\ envOn' \in {TRUE, envOn}
          /\ request' \in {"finished", "dead"} /\ accepted' \in {accepted, accepted \cup {"on"}}
          /\ "on" \in accepted' => envOn'
          /\ request = "on"
        BY <1>5 DEF SwitchOn, Send, unleashServer, UnleashProtocol
    <2>b. UNCHANGED <<feature, strategies, growthbookServer, found, note, blind, overlooked, scriptVars>>
        BY <1>5 DEF SwitchOn, Send, unleashServer
    <2> USE <2>a, <2>b DEF growthbookServer, scriptVars
    <2>1. TruthsOK'
        BY DEF TruthsOK
    <2>2. NumbersOK'
        BY DEF NumbersOK
    <2>3. NamesOK'
        BY DEF NamesOK
    <2>4. UnleashProtocol'
        BY DEF UnleashProtocol
    <2>5. GrowthBookProtocol'
        BY DEF GrowthBookProtocol
    <2>6. Len(strategies') <= 1 + overlooked' /\ orgs' <= 1 + blind'
        OBVIOUS
    <2> QED BY <2>1, <2>2, <2>3, <2>4, <2>5, <2>6
<1>6. ASSUME Register PROVE SetupInv'
    <2> USE <1>6 DEF Register, Send, unleashServer, growthbookServer, scriptVars
    <2>1. TruthsOK'
        BY DEF TruthsOK
    <2>2. NumbersOK'
        BY FlagSetupAssumption DEF NumbersOK
    <2>3. NamesOK'
        BY DEF NamesOK
    <2>4. UnleashProtocol'
        BY DEF TruthsOK, NumbersOK, NamesOK, UnleashProtocol
    <2>5. GrowthBookProtocol'
        BY DEF TruthsOK, NumbersOK, NamesOK, GrowthBookProtocol
    <2>6. Len(strategies') <= 1 + overlooked' /\ orgs' <= 1 + blind'
        BY DEF NumbersOK, UnleashProtocol, GrowthBookProtocol
    <2> QED BY <2>1, <2>2, <2>3, <2>4, <2>5, <2>6
<1>7. ASSUME GetUser PROVE SetupInv'
    <2>a. PICK error \in BOOLEAN :
            /\ found' = IF user /\ ~error THEN orgs ELSE 0
            /\ blind' = IF error THEN blind + 1 ELSE blind
        BY <1>7 DEF GetUser
    <2>b. /\ request' = "post" => found' # 0
          /\ request' = "organization" => found' = 0
          /\ request' \in {"post", "organization", "dead"}
          /\ script = "growthbook"
        BY <1>7 DEF GetUser, GrowthBookProtocol
    <2>c. UNCHANGED <<unleashServer, growthbookServer, note, accepted, overlooked, scriptVars>>
        BY <1>7 DEF GetUser
    <2>d. /\ found' \in {0, orgs} /\ blind' \in {blind, blind + 1}
          /\ found' = 0 => orgs = 0 \/ blind' = blind + 1
        BY <2>a DEF GrowthBookProtocol
    <2> USE <2>c DEF unleashServer, growthbookServer, scriptVars
    <2>1. TruthsOK'
        BY DEF TruthsOK
    <2>2. NumbersOK'
        BY <2>d DEF NumbersOK
    <2>3. NamesOK'
        BY <2>b DEF NamesOK
    <2>4. UnleashProtocol'
        BY <2>b DEF UnleashProtocol
    <2>5. GrowthBookProtocol'
        <3>1. /\ request' = "organization" => orgs' <= blind'
              /\ request' = "post" => orgs' # 0
            BY <2>b, <2>d DEF NumbersOK
        <3> QED BY <2>b, <3>1 DEF GrowthBookProtocol
    <2>6. Len(strategies') <= 1 + overlooked' /\ orgs' <= 1 + blind'
        <3>1. orgs' = orgs /\ (blind' = blind \/ blind' = blind + 1)
            BY <2>d
        <3> QED BY <3>1 DEF NumbersOK
    <2> QED BY <2>1, <2>2, <2>3, <2>4, <2>5, <2>6
<1>8. ASSUME CreateOrganization PROVE SetupInv'
    <2>a. /\ script = "growthbook" /\ request' \in {"user again", "dead"}
          /\ user \/ orgs' = orgs
        BY <1>8 DEF CreateOrganization, Send, growthbookServer, GrowthBookProtocol
    <2>b. orgs <= blind /\ (orgs' = orgs \/ orgs' = orgs + 1)
        <3>1. orgs <= blind
            BY <1>8 DEF CreateOrganization, GrowthBookProtocol
        <3>2. orgs' = orgs \/ orgs' = orgs + 1
            BY <1>8 DEF CreateOrganization, Send, growthbookServer
        <3> QED BY <3>1, <3>2
    <2>c. UNCHANGED <<unleashServer, user, coverage, found, note, blind, overlooked, scriptVars>>
        BY <1>8 DEF CreateOrganization, Send, growthbookServer
    <2> USE <2>c DEF unleashServer, scriptVars
    <2>1. TruthsOK'
        BY DEF TruthsOK
    <2>2. NumbersOK'
        BY <2>b DEF NumbersOK
    <2>3. NamesOK'
        BY <2>a DEF NamesOK
    <2>4. UnleashProtocol'
        BY <2>a DEF UnleashProtocol
    <2>5. GrowthBookProtocol'
        BY <2>a DEF GrowthBookProtocol
    <2>6. Len(strategies') <= 1 + overlooked' /\ orgs' <= 1 + blind'
        BY <2>b DEF NumbersOK
    <2> QED BY <2>1, <2>2, <2>3, <2>4, <2>5, <2>6
<1>9. ASSUME PostFeature PROVE SetupInv'
    <2>a. /\ script = "growthbook" /\ orgs # 0 /\ request' \in {"finished", "dead"}
          /\ coverage' = wanted \/ note'
          /\ coverage' \in {coverage, wanted} /\ note' \in {note, TRUE}
        BY <1>9 DEF PostFeature, GrowthBookProtocol
    <2>b. UNCHANGED <<unleashServer, user, orgs, found, accepted, blind, overlooked, scriptVars>>
        BY <1>9 DEF PostFeature
    <2> USE <2>a, <2>b DEF unleashServer, scriptVars
    <2>1. TruthsOK'
        BY DEF TruthsOK
    <2>2. NumbersOK'
        BY DEF NumbersOK
    <2>3. NamesOK'
        BY DEF NamesOK
    <2>4. UnleashProtocol'
        BY DEF UnleashProtocol
    <2>5. GrowthBookProtocol'
        BY DEF GrowthBookProtocol
    <2>6. Len(strategies') <= 1 + overlooked' /\ orgs' <= 1 + blind'
        OBVIOUS
    <2> QED BY <2>1, <2>2, <2>3, <2>4, <2>5, <2>6
<1>10. CASE UNCHANGED setupVars
    <2> USE <1>10 DEF setupVars, unleashServer, growthbookServer, scriptVars
    <2>1. TruthsOK' /\ NamesOK'
        BY DEF TruthsOK, NamesOK
    <2>2. NumbersOK' /\ Len(strategies') <= 1 + overlooked' /\ orgs' <= 1 + blind'
        BY DEF NumbersOK
    <2>3. UnleashProtocol'
        BY DEF UnleashProtocol
    <2>4. GrowthBookProtocol'
        BY DEF GrowthBookProtocol
    <2> QED BY <2>1, <2>2, <2>3, <2>4
<1> QED
    BY <1>1, <1>2, <1>3, <1>4, <1>5, <1>6, <1>7, <1>8, <1>9, <1>10 DEF FlagSetupNext

\* "Idempotent" of both scripts, for any percentages, deaths and starts.
THEOREM SetupsAreIdempotent == FlagSetupSpec => []SetupIsIdempotent
<1>1. SetupInv => SetupIsIdempotent
    BY DEF SetupInv, NumbersOK, UnleashProtocol, GrowthBookProtocol, UnleashRequest,
           GrowthBookRequest, SetupIsIdempotent
<1> QED BY <1>1, SetupStarts, SetupStep, PTL DEF FlagSetupSpec

\* No setup leaves a percentage, a request or a count outside of its range.
THEOREM SetupTypeCorrect == FlagSetupSpec => []FlagSetupTypeOK
<1>1. SetupInv => FlagSetupTypeOK
    BY SameTypes DEF SetupInv
<1> QED BY <1>1, SetupStarts, SetupStep, PTL DEF FlagSetupSpec

-----------------------------------------------------------------------------
(* The ramp.                                                               *)

Ramping == casePhase \in {"set", "ask"}

\* The driver's own state.
DriverState ==
    /\ casePhase \in {"idle", "set", "ask", "over"}
    /\ stage \in 0..5
    /\ on_v2 \in Seq(SUBSET Region)
    /\ casePhase = "idle" =>
        /\ stage = 0 /\ on_v2 = <<>> /\ unseen /\ region_todo = {}
    /\ casePhase # "idle" => script = "none" /\ request = "finished"
    /\ casePhase # "over" => caseVerdict = "running"
    /\ casePhase = "set" => region_todo = {}
    /\ casePhase = "ask" => stage # 0
    /\ Ramping => Len(on_v2) = stage

\* What Unleash holds and the client fetched: a client that saw a stage's
\* percentage holds one of the stages begun, and the strategies that the ramp
\* does not set as they are.
ClientState ==
    Ramping =>
        /\ strategies # <<>> /\ clientOn = envOn
        /\ fetched \in Seq(0..100) /\ Len(fetched) = Len(strategies)
        /\ \A i \in DOMAIN fetched : i # 1 => fetched[i] = strategies[i]
        /\ stage # 0 => strategies[1] = Stages[stage]
        /\ ~unseen => stage # 0 /\ fetched[1] <= Stages[stage]

\* A region on v2 was asked early, or the client's present answer is v2.
StaysIn(i, r) == <<i, r>> \in early \/ (~unseen /\ IsOn(r))
WhyOnV2 == Ramping => \A i \in DOMAIN on_v2 : \A r \in on_v2[i] : StaysIn(i, r)

OnlyWidens ==
    \A i, j \in DOMAIN on_v2 :
        i < j => \A r \in on_v2[i] :
            <<i, r>> \in early \/ r \in on_v2[j] \/ (j = stage /\ r \in region_todo)

\* The first stage sets its strategy to zero percent.
LetInBesides(r) == \E i \in DOMAIN strategies \ {1} : RegionBucket[r] <= strategies[i]
FirstIsEarly == on_v2 # <<>> => \A r \in on_v2[1] : <<1, r>> \in early \/ LetInBesides(r)

SameRevenue(r) == RollupV1("pipeline", shards[r]) = RollupV2("pipeline", shards[r])
ParityKept == parity_ok => \A i \in DOMAIN on_v2 : \A r \in on_v2[i] : SameRevenue(r)

Verdict == caseVerdict = "ok" =>
    casePhase = "over" /\ stage \in DOMAIN on_v2 /\ on_v2[stage] = Region /\ parity_ok

CaseInv ==
    /\ DriverState /\ ClientState /\ WhyOnV2
    /\ OnlyWidens /\ FirstIsEarly /\ ParityKept /\ Verdict

LEMMA StagesRise ==
    /\ Len(Stages) = 5 /\ Stages[1] = 0
    /\ \A k \in 1..5 : Stages[k] \in 0..100
    /\ \A k \in 1..4 : Stages[k] <= Stages[k + 1]
BY DEF Stages

LEMMA CaseStarts == CaseStudyInit => SetupInv /\ CaseInv
<1> SUFFICES ASSUME CaseStudyInit PROVE SetupInv /\ CaseInv
    OBVIOUS
<1>1. SetupInv
    BY SetupStarts DEF CaseStudyInit
<1>2. on_v2 = <<>> /\ on_v2 \in Seq(SUBSET Region) /\ DOMAIN on_v2 = {}
    BY DEF CaseStudyInit
<1>3. DriverState
    BY <1>2 DEF CaseStudyInit, DriverState, Ramping
<1>4. ClientState /\ WhyOnV2 /\ OnlyWidens /\ FirstIsEarly /\ ParityKept /\ Verdict
    BY <1>2 DEF CaseStudyInit, ClientState, WhyOnV2, Ramping, OnlyWidens, FirstIsEarly,
                ParityKept, Verdict
<1> QED BY <1>1, <1>3, <1>4 DEF CaseInv

LEMMA RolledOut ==
    ASSUME NEW S, NEW list \in Seq(S), NEW pct \in S,
           NEW new \in {list, [list EXCEPT ![1] = pct]}
    PROVE  /\ new \in Seq(S) /\ Len(new) = Len(list)
           /\ (new[1] = pct \/ new = list \/ list = <<>>)
           /\ DOMAIN new = DOMAIN list /\ \A i \in DOMAIN list : i # 1 => new[i] = list[i]
<1>1. CASE new = list
    BY <1>1
<1>2. CASE new = [list EXCEPT ![1] = pct]
    <2> DEFINE n == Len(list)
               written == [i \in 1..n |-> IF i = 1 THEN pct ELSE list[i]]
    <2>1. n \in Nat /\ DOMAIN list = 1..n /\ \A i \in 1..n : list[i] \in S
        OBVIOUS
    <2>2. written \in Seq(S) /\ Len(written) = n
        <3> HIDE DEF n
        <3>1. \A i \in 1..n : (IF i = 1 THEN pct ELSE list[i]) \in S
            BY <2>1
        <3> QED BY <2>1, <3>1
    <2>4. new = written
        BY <1>2, <2>1
    <2>3. list # <<>> => 1 \in DOMAIN list
        OBVIOUS
    <2> QED BY <1>2, <2>1, <2>2, <2>3, <2>4
<1> QED BY <1>1, <1>2

\* The strategies that the ramp does not set.
OthersStay ==
    /\ DOMAIN strategies' = DOMAIN strategies
    /\ \A i \in DOMAIN strategies : i # 1 => strategies'[i] = strategies[i]

LEMMA RolloutLeavesOthers ==
    ASSUME SetupInv, SetRollout, stage \in 0..4
    PROVE  /\ strategies' \in Seq(0..100) /\ Len(strategies') = Len(strategies)
           /\ OthersStay
<1> DEFINE P == 0..100
           pct == Stages[stage + 1]
<1>1. pct \in P
    <2>1. stage + 1 \in 1..5
        OBVIOUS
    <2> QED BY <2>1, StagesRise
<1> HIDE DEF pct
<1>0. strategies \in Seq(P)
    BY DEF SetupInv, NumbersOK
<1>2. strategies' \in {strategies, [strategies EXCEPT ![1] = pct]}
    BY DEF SetRollout, pct
<1> HIDE DEF P
<1>3. strategies' \in Seq(P) /\ Len(strategies') = Len(strategies) /\ OthersStay
    BY <1>0, <1>1, <1>2, RolledOut DEF OthersStay
<1> QED BY <1>3 DEF P

\* The setup scripts' invariant outlives them: the driver overwrites the first
\* strategy there is.
LEMMA SetupOutlived ==
    ASSUME SetupInv, DriverState, [CaseStudyNext]_<<setupVars, caseVars>>
    PROVE  SetupInv'
<1>1. CASE FlagSetupNext
    BY <1>1, SetupStep
<1>2. CASE UNCHANGED setupVars
    BY <1>2, SetupStep
<1>3. CASE StartCase
    BY <1>3 DEF StartCase, unleashServer, growthbookServer, SetupInv, TruthsOK, NumbersOK,
        NamesOK, UnleashProtocol, GrowthBookProtocol, UnleashRequest, GrowthBookRequest
<1>4. CASE SetRollout
    <2>1. stage < Len(Stages) /\ stage \in 0..5 /\ casePhase # "idle"
        BY <1>4 DEF SetRollout, DriverState
    <2>4. strategies' \in Seq(0..100) /\ Len(strategies') = Len(strategies)
        <3>1. stage \in 0..4
            BY <2>1, StagesRise
        <3> QED BY <1>4, <3>1, RolloutLeavesOthers
    <2>5. UNCHANGED <<feature, envOn, growthbookServer, request, found, note, accepted, blind,
                      overlooked, scriptVars>>
        BY <1>4 DEF SetRollout
    <2>6. script = "none" /\ request = "finished"
        BY <2>1 DEF DriverState
    <2>7. TruthsOK' /\ NamesOK'
        BY <2>5 DEF SetupInv, TruthsOK, NamesOK, growthbookServer, scriptVars
    <2>8. NumbersOK' /\ Len(strategies') <= 1 + overlooked' /\ orgs' <= 1 + blind'
        BY <2>4, <2>5 DEF SetupInv, NumbersOK, growthbookServer, scriptVars
    <2>9. UnleashProtocol' /\ GrowthBookProtocol'
        BY <2>5, <2>6 DEF SetupInv, UnleashProtocol, GrowthBookProtocol, growthbookServer,
            scriptVars, UnleashRequest, GrowthBookRequest
    <2> QED BY <2>7, <2>8, <2>9 DEF SetupInv
<1> QED BY <1>1, <1>2, <1>3, <1>4
        DEF CaseStudyNext, Poll, RunRegion, EndStage, JudgeCase

\* What the actions that leave the regions alone keep.
LEMMA RegionsLeftAlone ==
    ASSUME CaseInv, UNCHANGED <<on_v2, early, shards, parity_ok>>, on_v2 = <<>> \/ OthersStay,
           (stage' = stage /\ region_todo' = region_todo) \/ region_todo = {}
    PROVE  OnlyWidens' /\ FirstIsEarly' /\ ParityKept'
<1>1. OnlyWidens'
    BY DEF CaseInv, OnlyWidens
<1>2. FirstIsEarly'
    <2> SUFFICES ASSUME on_v2 # <<>>, OthersStay, NEW r \in on_v2[1], <<1, r>> \notin early
                 PROVE  LetInBesides(r)'
        BY DEF FirstIsEarly
    <2>1. LetInBesides(r)
        BY DEF CaseInv, FirstIsEarly
    <2> QED BY <2>1 DEF LetInBesides, OthersStay
<1>3. ParityKept'
    BY DEF CaseInv, ParityKept, SameRevenue
<1> QED BY <1>1, <1>2, <1>3

LEMMA FirstOfMany ==
    ASSUME NEW S, NEW list \in Seq(S), list # <<>>
    PROVE  list[1] \in S
OBVIOUS

LEMMA FirstPercentage ==
    ASSUME SetupInv, strategies # <<>>
    PROVE  strategies[1] \in 0..100
<1> DEFINE P == 0..100
<1>1. strategies \in Seq(P)
    BY DEF SetupInv, NumbersOK
<1> HIDE DEF P
<1>2. strategies[1] \in P
    BY <1>1, FirstOfMany
<1> QED BY <1>2 DEF P

LEMMA NoGreater ==
    ASSUME NEW a \in 0..100, NEW b \in 0..100, NEW c \in 0..100, a <= b, b <= c
    PROVE  a <= c
    OBVIOUS

\* The client holds as many percentages as there are strategies.
LEMMA FetchedFirst ==
    ASSUME SetupInv, ClientState, Ramping
    PROVE  fetched[1] \in 0..100 /\ DOMAIN fetched = DOMAIN strategies
<1> DEFINE P == 0..100
<1>1. fetched \in Seq(P) /\ strategies \in Seq(P)
    BY DEF ClientState, SetupInv, NumbersOK
<1>2. Len(fetched) = Len(strategies) /\ strategies # <<>>
    BY DEF ClientState
<1> HIDE DEF P
<1>3. fetched # <<>>
    BY <1>1, <1>2
<1>4. fetched[1] \in P
    BY <1>1, <1>3, FirstOfMany
<1>5. DOMAIN fetched = DOMAIN strategies
    BY <1>1, <1>2
<1> QED BY <1>4, <1>5 DEF P

\* The regions of a stage, with their hashes.
LEMMA RegionsOnV2 ==
    ASSUME CaseInv, NEW i \in DOMAIN on_v2, NEW r \in on_v2[i]
    PROVE  i \in 1..Len(on_v2) /\ r \in Region /\ RegionBucket[r] \in 1..100
<1>1. on_v2 \in Seq(SUBSET Region)
    BY DEF CaseInv, DriverState
<1>2. i \in 1..Len(on_v2) /\ r \in Region
    BY <1>1
<1> QED BY <1>2, CaseStudyAssumption

LEMMA StartKeeps == ASSUME SetupInv, CaseInv, StartCase PROVE CaseInv'
<1>1. /\ casePhase = "idle" /\ casePhase' = "set" /\ script' = "none" /\ request' = "finished"
      /\ strategies # <<>> /\ clientOn' = envOn /\ fetched' = strategies
      /\ UNCHANGED <<strategies, envOn, stage, unseen, region_todo, on_v2, parity_ok, early,
                     shards, caseVerdict>>
    BY DEF StartCase, unleashServer
<1>2. stage = 0 /\ on_v2 = <<>> /\ unseen /\ region_todo = {} /\ caseVerdict = "running"
    BY <1>1 DEF CaseInv, DriverState
<1>3. DOMAIN on_v2 = {} /\ Len(on_v2) = 0
    BY <1>2
<1>4. strategies \in Seq(0..100)
    BY DEF SetupInv, NumbersOK
<1>5. DriverState'
    BY <1>1, <1>2, <1>3 DEF CaseInv, DriverState, Ramping
<1>6. ClientState'
    BY <1>1, <1>2, <1>4 DEF ClientState, Ramping
<1>7. WhyOnV2' /\ Verdict'
    BY <1>1, <1>2, <1>3 DEF WhyOnV2, Verdict, CaseInv
<1>8. OnlyWidens' /\ FirstIsEarly' /\ ParityKept'
    BY <1>1, RegionsLeftAlone DEF OthersStay
<1> QED BY <1>5, <1>6, <1>7, <1>8 DEF CaseInv

\* A stage's percentage is at least the one before, so that what a client saw
\* stays below it.
LEMMA RolloutKeeps == ASSUME SetupInv, CaseInv, SetRollout PROVE CaseInv'
<1>1. /\ casePhase = "set" /\ stage < Len(Stages) /\ stage' = stage + 1
      /\ UNCHANGED <<envOn, request, script, clientOn, fetched, unseen, parity_ok, early, shards>>
    BY DEF SetRollout, scriptVars
<1>2. /\ region_todo = {} /\ caseVerdict = "running" /\ Len(on_v2) = stage
      /\ on_v2 \in Seq(SUBSET Region) /\ stage \in 0..4 /\ stage + 1 \in 1..5
      /\ script = "none" /\ request = "finished"
    BY <1>1, StagesRise DEF CaseInv, DriverState, Ramping
<1>0. Len(strategies') = Len(strategies) /\ strategies' \in Seq(0..100) /\ OthersStay
    <2>1. stage \in 0..4
        BY <1>2
    <2> QED BY <2>1, RolloutLeavesOthers
<1>3. CASE CaseDies /\ UNCHANGED <<region_todo, on_v2>>
    <2>1. casePhase' = "over" /\ caseVerdict' = "died" /\ on_v2' = on_v2 /\ region_todo' = region_todo
        BY <1>3 DEF CaseDies
    <2>2. DriverState' /\ ClientState' /\ WhyOnV2' /\ Verdict'
        BY <1>1, <1>2, <2>1 DEF DriverState, ClientState, WhyOnV2, Verdict, Ramping
    <2>3. OnlyWidens' /\ FirstIsEarly' /\ ParityKept'
        BY <1>0, <1>1, <1>2, <2>1, RegionsLeftAlone
    <2> QED BY <2>2, <2>3 DEF CaseInv
<1>4. CASE /\ strategies'[1] = Stages[stage + 1] /\ casePhase' = "ask"
           /\ region_todo' = Region /\ on_v2' = Append(on_v2, {}) /\ UNCHANGED caseVerdict
    <2>1. /\ on_v2' \in Seq(SUBSET Region) /\ Len(on_v2') = stage + 1
          /\ DOMAIN on_v2' = 1..(stage + 1) /\ DOMAIN on_v2 = 1..stage
          /\ \A i \in 1..stage : on_v2'[i] = on_v2[i] /\ on_v2[i] \subseteq Region
          /\ on_v2'[stage + 1] = {}
        BY <1>2, <1>4
    <2>2. DriverState'
        BY <1>1, <1>2, <1>4, <2>1 DEF DriverState, Ramping
    <2>3. ClientState /\ Ramping /\ OnlyWidens /\ FirstIsEarly /\ ParityKept /\ WhyOnV2
        BY <1>1 DEF CaseInv, Ramping
    <2>4. ClientState'
        <3>1. strategies' # <<>>
            BY <1>0, <2>3 DEF ClientState, SetupInv, NumbersOK
        <3>2. /\ clientOn' = envOn' /\ fetched' \in Seq(0..100) /\ Len(fetched') = Len(strategies')
              /\ \A i \in DOMAIN fetched' : i # 1 => fetched'[i] = strategies'[i]
            <4>1. DOMAIN fetched = DOMAIN strategies
                BY <2>3 DEF ClientState, SetupInv, NumbersOK
            <4> QED BY <1>0, <1>1, <2>3, <4>1 DEF ClientState, OthersStay
        <3>3. strategies'[1] = Stages[stage']
            BY <1>1, <1>4
        <3>4. ~unseen' => stage' # 0 /\ fetched'[1] <= Stages[stage']
            <4> SUFFICES ASSUME ~unseen PROVE fetched[1] <= Stages[stage + 1]
                BY <1>1, <1>2
            <4>1. stage \in 1..4 /\ fetched[1] <= Stages[stage]
                BY <1>2, <2>3 DEF ClientState
            <4>2. Stages[stage] <= Stages[stage + 1] /\ Stages[stage] \in 0..100 /\ Stages[stage + 1] \in 0..100
                BY <4>1, StagesRise
            <4>3. fetched[1] \in 0..100
                BY <2>3, FetchedFirst
            <4> QED BY <4>1, <4>2, <4>3, NoGreater
        <3> QED BY <3>1, <3>2, <3>3, <3>4 DEF ClientState
    <2>5. WhyOnV2'
        <3> SUFFICES ASSUME NEW i \in 1..(stage + 1), NEW r \in on_v2'[i] PROVE StaysIn(i, r)'
            BY <2>1 DEF WhyOnV2
        <3>1. i \in DOMAIN on_v2 /\ r \in on_v2[i]
            BY <1>2, <2>1
        <3> QED BY <1>1, <2>3, <3>1 DEF WhyOnV2, StaysIn, IsOn
    <2>6. OnlyWidens'
        <3> SUFFICES ASSUME NEW i \in 1..(stage + 1), NEW j \in 1..(stage + 1), i < j,
                            NEW r \in on_v2'[i]
                     PROVE  <<i, r>> \in early' \/ r \in on_v2'[j] \/ (j = stage' /\ r \in region_todo')
            BY <2>1 DEF OnlyWidens
        <3>1. i \in 1..stage /\ r \in on_v2[i] /\ r \in Region
            BY <1>2, <2>1
        <3>2. CASE j = stage + 1
            BY <1>1, <1>4, <3>1, <3>2
        <3>3. CASE j \in 1..stage
            BY <1>1, <1>2, <2>1, <2>3, <3>1, <3>3 DEF OnlyWidens
        <3> QED BY <1>2, <3>2, <3>3
    <2>7. FirstIsEarly'
        <3>1. CASE stage = 0
            BY <2>1, <3>1 DEF FirstIsEarly
        <3>2. CASE stage # 0
            <4>1. 1 \in 1..stage /\ on_v2 # <<>> /\ on_v2'[1] = on_v2[1]
                BY <1>2, <2>1, <3>2
            <4> SUFFICES ASSUME NEW r \in on_v2[1], <<1, r>> \notin early
                         PROVE  LetInBesides(r)'
                BY <1>1, <4>1 DEF FirstIsEarly
            <4>2. LetInBesides(r)
                BY <2>3, <4>1 DEF FirstIsEarly
            <4> QED BY <1>0, <4>2 DEF LetInBesides, OthersStay
        <3> QED BY <3>1, <3>2
    <2>8. ParityKept'
        BY <1>1, <1>2, <2>1, <2>3 DEF ParityKept, SameRevenue
    <2>9. Verdict'
        BY <1>2, <1>4 DEF Verdict
    <2> QED BY <2>2, <2>4, <2>5, <2>6, <2>7, <2>8, <2>9 DEF CaseInv
<1> QED BY <1>3, <1>4 DEF SetRollout

LEMMA PollKeeps == ASSUME SetupInv, CaseInv, Poll PROVE CaseInv'
<1>1. /\ Ramping /\ clientOn' = envOn /\ fetched' = strategies
      /\ unseen' = (unseen /\ stage = 0)
      /\ UNCHANGED <<strategies, envOn, request, script, casePhase, stage, region_todo, on_v2,
                     parity_ok, early, shards, caseVerdict>>
    BY DEF Poll, Ramping, setupVars, unleashServer, scriptVars
<1>2. DriverState /\ ClientState /\ WhyOnV2 /\ Verdict
    BY DEF CaseInv
<1>3. strategies # <<>> /\ strategies[1] \in 0..100
    BY <1>1, <1>2, FirstPercentage DEF ClientState
<1>4. stage # 0 => strategies[1] = Stages[stage]
    BY <1>1, <1>2 DEF ClientState
<1>5. DriverState' /\ Verdict'
    BY <1>1, <1>2 DEF DriverState, Verdict, Ramping
<1>6. ClientState'
    <2>1. ~unseen' => stage # 0
        BY <1>1, <1>2 DEF ClientState
    <2>2. /\ strategies' # <<>> /\ fetched' \in Seq(0..100) /\ Len(fetched') = Len(strategies')
          /\ \A i \in DOMAIN fetched' : i # 1 => fetched'[i] = strategies'[i]
          /\ stage' # 0 => strategies'[1] = Stages[stage']
        BY <1>1, <1>3, <1>4 DEF SetupInv, NumbersOK
    <2>3. ~unseen' => stage' # 0 /\ fetched'[1] <= Stages[stage']
        <3>1. stage # 0 => fetched'[1] = Stages[stage] /\ fetched'[1] \in 0..100
            BY <1>1, <1>3, <1>4
        <3>2. stage # 0 => fetched'[1] <= Stages[stage']
            <4>1. stage' = stage
                BY <1>1
            <4> QED BY <3>1, <4>1
        <3> QED BY <1>1, <2>1, <3>2
    <2>4. clientOn' = envOn'
        BY <1>1
    <2> QED BY <2>2, <2>3, <2>4 DEF ClientState
<1>7. WhyOnV2'
    <2> SUFFICES ASSUME NEW i \in DOMAIN on_v2, NEW r \in on_v2[i], <<i, r>> \notin early
                 PROVE  ~unseen' /\ IsOn(r)'
        BY <1>1 DEF WhyOnV2, StaysIn
    <2>1. ~unseen /\ IsOn(r)
        BY <1>1, <1>2 DEF WhyOnV2, StaysIn
    <2>2. stage # 0 /\ fetched[1] <= Stages[stage] /\ clientOn = envOn
        BY <1>1, <1>2, <2>1 DEF ClientState
    <2>3. RegionBucket[r] \in 1..100
        BY RegionsOnV2
    <2>4. ~unseen'
        BY <1>1, <2>1, <2>2
    <2>5. PICK k \in DOMAIN fetched : RegionBucket[r] <= fetched[k]
        BY <2>1 DEF IsOn
    <2>6. k \in DOMAIN strategies /\ fetched[1] \in 0..100
        BY <1>1, <1>2, FetchedFirst
    <2>7. RegionBucket[r] <= strategies[k]
        <3>1. CASE k # 1
            BY <1>1, <1>2, <2>5, <3>1 DEF ClientState
        <3>2. CASE k = 1
            <4>1. RegionBucket[r] <= fetched[1] /\ fetched[1] <= strategies[1]
                BY <1>4, <2>2, <2>5, <3>2
            <4>2. strategies[1] \in 0..100
                BY <1>3
            <4>3. RegionBucket[r] \in 0..100
                BY <2>3
            <4>4. RegionBucket[r] <= strategies[1]
                BY <2>6, <4>1, <4>2, <4>3, NoGreater
            <4> QED BY <3>2, <4>4
        <3> QED BY <3>1, <3>2
    <2> QED BY <1>1, <2>1, <2>2, <2>4, <2>6, <2>7 DEF IsOn
<1>8. OnlyWidens' /\ FirstIsEarly' /\ ParityKept'
    BY <1>1, RegionsLeftAlone DEF OthersStay
<1> QED BY <1>5, <1>6, <1>7, <1>8 DEF CaseInv

LEMMA EndStageKeeps == ASSUME SetupInv, CaseInv, EndStage PROVE CaseInv'
<1>1. /\ casePhase = "ask" /\ region_todo = {} /\ casePhase' = "set"
      /\ UNCHANGED <<strategies, envOn, request, script, stage, clientOn, fetched, unseen,
                     region_todo, on_v2, parity_ok, early, shards, caseVerdict>>
    BY DEF EndStage, setupVars, unleashServer, scriptVars
<1>2. DriverState'
    BY <1>1 DEF CaseInv, DriverState, Ramping
<1>3. ClientState'
    BY <1>1 DEF CaseInv, ClientState, Ramping
<1>4. WhyOnV2'
    BY <1>1 DEF CaseInv, WhyOnV2, StaysIn, IsOn, Ramping
<1>5. Verdict'
    BY <1>1 DEF CaseInv, Verdict
<1>6. OnlyWidens' /\ FirstIsEarly' /\ ParityKept'
    BY <1>1, RegionsLeftAlone DEF OthersStay
<1> QED BY <1>2, <1>3, <1>4, <1>5, <1>6 DEF CaseInv

LEMMA JudgeKeeps == ASSUME SetupInv, CaseInv, JudgeCase PROVE CaseInv'
<1>1. /\ casePhase = "set" /\ casePhase' = "over" /\ stage = 5
      /\ caseVerdict' = "ok" => on_v2[stage] = Region /\ parity_ok
      /\ UNCHANGED <<strategies, request, script, stage, region_todo, on_v2, parity_ok, early, shards>>
    BY StagesRise DEF JudgeCase, CaseDies, setupVars, unleashServer, scriptVars
<1>2. Len(on_v2) = stage /\ on_v2 \in Seq(SUBSET Region) /\ stage \in DOMAIN on_v2
    BY <1>1 DEF CaseInv, DriverState, Ramping
<1>3. DriverState' /\ ClientState' /\ WhyOnV2'
    BY <1>1 DEF CaseInv, DriverState, ClientState, WhyOnV2, Ramping
<1>4. Verdict'
    BY <1>1, <1>2 DEF Verdict
<1>5. OnlyWidens' /\ FirstIsEarly' /\ ParityKept'
    BY <1>1, RegionsLeftAlone DEF OthersStay
<1> QED BY <1>3, <1>4, <1>5 DEF CaseInv

\* A region that was asked in earlier stages gets the same answer, or was asked
\* early; asked in the first stage, it is early or stays on v1.
LEMMA RunRegionKeeps == ASSUME SetupInv, CaseInv, NEW r \in Region, RunRegion(r) PROVE CaseInv'
<1> DEFINE v2 == IsOn(r)
<1>1. /\ casePhase = "ask" /\ r \in region_todo /\ region_todo' = region_todo \ {r}
      /\ early' = IF unseen THEN early \cup {<<stage, r>>} ELSE early
      /\ UNCHANGED <<strategies, envOn, request, script, casePhase, stage, clientOn, fetched,
                     unseen, shards, caseVerdict>>
    BY DEF RunRegion, setupVars, unleashServer, scriptVars
<1>2. IF v2 THEN /\ on_v2' = [on_v2 EXCEPT ![stage] = @ \cup {r}]
                 /\ parity_ok' = (parity_ok /\ SameRevenue(r))
            ELSE UNCHANGED <<on_v2, parity_ok>>
    BY DEF RunRegion, SameRevenue
<1>3. /\ DriverState /\ ClientState /\ WhyOnV2 /\ OnlyWidens /\ FirstIsEarly /\ ParityKept /\ Verdict
      /\ Ramping
    BY <1>1 DEF CaseInv, Ramping
<1>4. /\ stage \in 1..5 /\ Len(on_v2) = stage /\ DOMAIN on_v2 = 1..stage
      /\ on_v2 \in Seq(SUBSET Region) /\ \A i \in 1..stage : on_v2[i] \subseteq Region
      /\ caseVerdict = "running"
    BY <1>1, <1>3 DEF DriverState
<1>5. /\ \A i \in 1..stage : on_v2[i] \subseteq on_v2'[i]
      /\ \A i \in 1..stage : i # stage => on_v2'[i] = on_v2[i]
      /\ on_v2'[stage] = IF v2 THEN on_v2[stage] \cup {r} ELSE on_v2[stage]
      /\ on_v2' \in Seq(SUBSET Region) /\ Len(on_v2') = stage /\ DOMAIN on_v2' = 1..stage
    <2>1. CASE v2
        <3> DEFINE T == SUBSET Region
                   x == on_v2[stage] \cup {r}
        <3>1. on_v2 \in Seq(T) /\ stage \in DOMAIN on_v2 /\ x \in T
            BY <1>4
        <3>2. on_v2' = [on_v2 EXCEPT ![stage] = x]
            BY <1>2, <2>1
        <3> HIDE DEF T, x
        <3>3. on_v2' \in Seq(T) /\ Len(on_v2') = Len(on_v2) /\ DOMAIN on_v2' = DOMAIN on_v2
            BY <3>1, <3>2
        <3>4. \A i \in 1..stage : on_v2'[i] = IF i = stage THEN x ELSE on_v2[i]
            BY <1>4, <3>2
        <3>5. \A i \in 1..stage : on_v2[i] \subseteq on_v2'[i]
            BY <3>4 DEF x
        <3> QED BY <1>4, <2>1, <3>3, <3>4, <3>5 DEF T, x
    <2>2. CASE ~v2
        BY <1>2, <1>4, <2>2
    <2> QED BY <2>1, <2>2
<1> HIDE DEF v2
<1>6. early \subseteq early' /\ (unseen => <<stage, r>> \in early')
    BY <1>1
<1>7. DriverState'
    BY <1>1, <1>3, <1>4, <1>5 DEF DriverState, Ramping
<1>8. ClientState'
    BY <1>1, <1>3 DEF ClientState, Ramping
<1>9. \A i \in 1..stage : \A q \in on_v2'[i] : q \in on_v2[i] \/ (v2 /\ i = stage /\ q = r)
    BY <1>4, <1>5
<1>10. WhyOnV2'
    <2> SUFFICES ASSUME NEW i \in 1..stage, NEW q \in on_v2'[i] PROVE StaysIn(i, q)'
        BY <1>5 DEF WhyOnV2
    <2>1. CASE q \in on_v2[i]
        BY <1>1, <1>3, <1>4, <1>6, <2>1 DEF WhyOnV2, StaysIn, IsOn
    <2>2. CASE v2 /\ i = stage /\ q = r
        BY <1>1, <1>6, <2>2 DEF StaysIn, IsOn, v2
    <2> QED BY <1>9, <2>1, <2>2
<1>11. OnlyWidens'
    <2> SUFFICES ASSUME NEW i \in 1..stage, NEW j \in 1..stage, i < j, NEW q \in on_v2'[i]
                 PROVE  <<i, q>> \in early' \/ q \in on_v2'[j] \/ (j = stage' /\ q \in region_todo')
        BY <1>5 DEF OnlyWidens
    <2>1. q \in on_v2[i]
        BY <1>4, <1>9
    <2>2. <<i, q>> \in early \/ q \in on_v2[j] \/ (j = stage /\ q \in region_todo)
        BY <1>3, <1>4, <2>1 DEF OnlyWidens
    <2>3. CASE j = stage /\ q = r
        <3>1. <<i, q>> \in early \/ v2
            BY <1>3, <1>4, <2>1, <2>3 DEF WhyOnV2, StaysIn, v2
        <3>2. v2 => q \in on_v2'[j]
            BY <1>5, <2>3
        <3> QED BY <1>6, <3>1, <3>2
    <2> QED BY <1>1, <1>5, <1>6, <2>2, <2>3
<1>12. FirstIsEarly'
    <2> SUFFICES ASSUME NEW q \in on_v2'[1] PROVE <<1, q>> \in early' \/ LetInBesides(q)'
        BY DEF FirstIsEarly
    <2>0. LetInBesides(q)' <=> LetInBesides(q)
        BY <1>1 DEF LetInBesides
    <2>1. 1 \in 1..stage /\ on_v2 # <<>>
        BY <1>4
    <2>2. CASE q \in on_v2[1]
        BY <1>3, <1>6, <2>0, <2>1, <2>2 DEF FirstIsEarly
    <2>3. CASE v2 /\ 1 = stage /\ q = r
        <3>1. CASE unseen
            BY <1>6, <2>3, <3>1
        <3>2. CASE ~unseen
            <4>1. PICK k \in DOMAIN fetched : RegionBucket[r] <= fetched[k]
                BY <2>3 DEF v2, IsOn
            <4>2. fetched[1] <= Stages[1] /\ fetched[1] \in 0..100 /\ k \in DOMAIN strategies
                BY <1>3, <2>3, <3>2, FetchedFirst DEF ClientState
            <4>3. RegionBucket[r] \in 1..100 /\ Stages[1] = 0
                BY CaseStudyAssumption, StagesRise
            <4>4. k # 1
                BY <4>1, <4>2, <4>3
            <4>5. RegionBucket[r] <= strategies[k]
                BY <1>3, <4>1, <4>4 DEF ClientState
            <4> QED BY <2>0, <2>3, <4>2, <4>4, <4>5 DEF LetInBesides
        <3> QED BY <3>1, <3>2
    <2> QED BY <1>9, <2>1, <2>2, <2>3
<1>13. ParityKept'
    <2> SUFFICES ASSUME parity_ok', NEW i \in 1..stage, NEW q \in on_v2'[i] PROVE SameRevenue(q)'
        BY <1>5 DEF ParityKept
    <2>1. parity_ok /\ (v2 => SameRevenue(r))
        BY <1>2 DEF v2
    <2>2. SameRevenue(q)
        BY <1>3, <1>4, <1>9, <2>1 DEF ParityKept
    <2> QED BY <1>1, <2>2 DEF SameRevenue
<1>14. Verdict'
    BY <1>1, <1>4 DEF Verdict
<1> QED BY <1>7, <1>8, <1>10, <1>11, <1>12, <1>13, <1>14 DEF CaseInv

LEMMA CaseStep ==
    SetupInv /\ CaseInv /\ [CaseStudyNext]_<<setupVars, caseVars>> => SetupInv' /\ CaseInv'
<1> SUFFICES ASSUME SetupInv, CaseInv, [CaseStudyNext]_<<setupVars, caseVars>>
             PROVE  SetupInv' /\ CaseInv'
    OBVIOUS
<1>1. SetupInv'
    BY SetupOutlived DEF CaseInv
<1>2. CASE UNCHANGED caseVars /\ (casePhase = "idle" \/ UNCHANGED setupVars)
    <2>1. UNCHANGED <<casePhase, stage, clientOn, fetched, unseen, region_todo, on_v2,
                      parity_ok, early, shards, caseVerdict>>
        BY <1>2 DEF caseVars
    <2>2. casePhase # "idle" => UNCHANGED <<strategies, envOn, request, script>>
        BY <1>2 DEF setupVars, unleashServer, scriptVars
    <2>3. DriverState'
        BY <2>1, <2>2 DEF CaseInv, DriverState, Ramping
    <2>4. ClientState'
        BY <2>1, <2>2 DEF CaseInv, ClientState, Ramping
    <2>5. WhyOnV2' /\ Verdict'
        BY <2>1 DEF CaseInv, WhyOnV2, StaysIn, IsOn, Ramping, Verdict
    <2>6. OnlyWidens' /\ FirstIsEarly' /\ ParityKept'
        <3>1. on_v2 = <<>> \/ OthersStay
            BY <2>2 DEF CaseInv, DriverState, OthersStay
        <3> QED BY <2>1, <3>1, RegionsLeftAlone
    <2> QED BY <1>1, <2>3, <2>4, <2>5, <2>6 DEF CaseInv
<1> QED
    BY <1>1, <1>2, StartKeeps, RolloutKeeps, PollKeeps, EndStageKeeps, JudgeKeeps,
       RunRegionKeeps DEF CaseStudyNext

\* "Every region ended on v2" (run_case_study.py:130) and the ramp before it,
\* for any regions, hash and shards, however late the client polls and whichever
\* request ends the driver.
THEOREM NobodyLeaves == CaseStudySpec => []NoRegionLeavesV2
<1>1. CaseInv => NoRegionLeavesV2
    <2> SUFFICES ASSUME CaseInv PROVE NoRegionLeavesV2
        OBVIOUS
    <2>1. OnlyWidens
        BY DEF CaseInv
    <2>2. ASSUME caseVerdict = "ok"
          PROVE  /\ on_v2[stage] = Region
                 /\ \A r \in Region : RollupV1("pipeline", shards[r]) = RollupV2("pipeline", shards[r])
        BY <2>2 DEF CaseInv, Verdict, ParityKept, SameRevenue
    <2>3. ASSUME stage = Len(Stages), Len(on_v2) = stage, on_v2[1] = Region
          PROVE  \A r \in Region : <<1, r>> \in early \/ LetInBesides(r)
        <3>1. on_v2 # <<>>
            BY <2>3, StagesRise
        <3> QED BY <2>3, <3>1 DEF CaseInv, FirstIsEarly
    <2> QED BY <2>1, <2>2, <2>3 DEF NoRegionLeavesV2, OnlyWidens, LetInBesides
<1> QED BY <1>1, CaseStarts, CaseStep, PTL DEF CaseStudySpec

\* The case study, which overwrites the strategy the setup left, leaves both
\* scripts' promise intact.
THEOREM SetupOutlivesTheStudy == CaseStudySpec => []SetupIsIdempotent
<1>1. SetupInv => SetupIsIdempotent
    BY DEF SetupInv, NumbersOK, UnleashProtocol, GrowthBookProtocol, UnleashRequest,
           GrowthBookRequest, SetupIsIdempotent
<1> QED BY <1>1, CaseStarts, CaseStep, PTL DEF CaseStudySpec
=============================================================================
