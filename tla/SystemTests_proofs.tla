------------------------- MODULE SystemTests_proofs -------------------------
(***************************************************************************)
(* Theorems about the system tests: what the placement drivers judge, for  *)
(* any number of outages and attempts, and what the canary counts, for any *)
(* finite population and hash.                                             *)
(***************************************************************************)
EXTENDS SystemTests, SequenceTheorems, FiniteSetTheorems, TLAPS

-----------------------------------------------------------------------------
(* The drivers' scripts.                                                   *)

Population == {inDag, outDag}
Backend == Container \cup {"growthbook", "inhouse", "statsig"}

AnyStep ==
    [op : {"setup", "migrate", "flagd_up", "flip", "judge", "assert", "expose"}]
    \cup [op : {"run"}, backend : Backend, dag : Population, questions : 1..3]
    \cup [op : {"read"}, dag : Population]
    \cup [op : {"ask"}, dag : Population, questions : 1..3]
    \cup [op : {"factory"}, backend : Backend]
    \cup [op : {"identical"}, first : {1, 7}]

\* Where main() is.
Size == Len(Script(driver))
Pos == Size - Len(todo) + 1
Now == Head(todo)

\* These read a row right after its run; the other two run both dags first.
Alternates == driver \in {"kill_switch", "real_data_flow", "matrix"}

DriverTypes ==
    /\ driver \in Driver /\ attempt \in Nat
    /\ answers \in Seq({"in", "out", "none"}) /\ runs \in Nat /\ got \in Seq(CellRecord)
    /\ provider \in Backend \cup {Nobody}
    /\ rows \in [Population -> CellRecord \cup {NoRow}]
    /\ verdict \in {"running", "ok", "failed", "died"}

\* What is left of main() is the end of its script.
OnScript ==
    /\ todo \in Seq(AnyStep) /\ Len(todo) <= Size
    /\ \A i \in 1..Len(todo) : todo[i] = Script(driver)[Size - Len(todo) + i]
    /\ verdict = "running" => todo # <<>>

\* What is in hand: the answers of the present step.
InHand ==
    /\ verdict = "running" /\ Now.op \in {"run", "ask"} => Len(answers) <= Now.questions
    /\ verdict = "running" /\ Now.op \notin {"run", "ask"} => answers = <<>>

\* How many tasks ran and how many were read, by the place in the script.
Counted == verdict = "running" =>
    /\ InProcess => runs = Len(got)
    /\ Alternates => runs = IF Now.op = "read" THEN Len(got) + 1 ELSE Len(got)
    /\ driver = "kill_switch" => runs = IF Pos <= 4 THEN 0 ELSE IF Pos <= 7 THEN 1 ELSE 2
    /\ WritesFile =>
        /\ runs = IF Pos <= 4 THEN 0 ELSE IF Pos = 5 THEN 1 ELSE 2
        /\ Len(got) = IF Pos <= 6 THEN 0 ELSE IF Pos = 7 THEN 1 ELSE 2

\* The rows to be read are those of this attempt.
OfThis(c, d, n) == c \in CellRecord /\ c.dag = d /\ c.attempt = attempt /\ c.run = n
RowsAreFresh == verdict = "running" =>
    /\ Alternates /\ Now.op = "read" => OfThis(rows[Now.dag], Now.dag, runs)
    /\ WritesFile /\ Pos >= 2 =>
        /\ rows[inDag] = NoRow \/ OfThis(rows[inDag], inDag, 1)
        /\ rows[outDag] = NoRow \/ OfThis(rows[outDag], outDag, 2)

CellInv == DriverTypes /\ OnScript /\ InHand /\ Counted /\ RowsAreFresh /\ EveryCellIsItsRuns

\* In run_all_backends, once the in-house backend is through, whose factory
\* cannot raise, whatever provider is set when a backend begins is live.
Exposable ==
    /\ driver = "run_all_backends" /\ Pos \in {13, 17, 21, 22, 23} => provider \in live
    /\ ExposureFromLive

\* The machine, as the place in the script tells.
Machine ==
    /\ InProcess => container /\ file /\ loaded
    /\ verdict = "running" /\ ~InProcess =>
        /\ Pos >= 4 => container
        /\ Pos >= 2 => (file <=> (driver = "kill_switch" => Pos <= 6))

\* What driver drv reads back when nothing breaks: the answer its n-th task or
\* question has for dag d.
Wanted(drv, d, n) == IF d = inDag /\ (drv = "kill_switch" => n = 1) THEN "in" ELSE "out"
Good(drv, c, d, n) ==
    /\ c \in CellRecord /\ c.dag = d
    /\ c.state = "success" \/ drv \in {"run_all_backends", "run_use_cases"}
    /\ Len(c.answers) # 0 /\ (drv = "gates_listener" => Len(c.answers) = 3)
    /\ \A i \in 1..Len(c.answers) : c.answers[i] = Wanted(drv, d, n)

\* A placement is asserted after two questions.
Asked == verdict = "running" /\ InProcess =>
    /\ Pos >= 2 /\ Script(driver)[Pos - 1].op = "ask" => Len(got) >= 1
    /\ Pos >= 3 /\ Script(driver)[Pos - 1].op = "ask" /\ Script(driver)[Pos - 2].op = "ask" => Len(got) >= 2

\* Nothing broke: every answer in hand, read back or on disk is the wanted one.
InHandIsGood == Now.op \in {"run", "ask"} =>
    \A i \in 1..Len(answers) : answers[i] = Wanted(driver, Now.dag, runs + 1)
ReadIsGood == \A i \in 1..Len(got) : Good(driver, got[i], got[i].dag, i)
OnDiskIsGood ==
    /\ Alternates /\ Now.op = "read" => Good(driver, rows[Now.dag], Now.dag, runs)
    /\ WritesFile /\ Pos >= 5 => Good(driver, rows[inDag], inDag, 1)
    /\ WritesFile /\ Pos >= 6 => Good(driver, rows[outDag], outDag, 2)
AllIsGood == quiet /\ verdict = "running" =>
    (\A b \in Container : reach[b]) /\ InHandIsGood /\ ReadIsGood /\ OnDiskIsGood

\* Whose row came first.
ReadInOrder ==
    /\ driver = "kill_switch" => \A i \in 1..Len(got) : got[i].dag = inDag
    /\ WritesFile => \A i \in 1..Len(got) : got[i].dag = IF i = 1 THEN inDag ELSE outDag

QuietInv == Machine /\ Asked /\ AllIsGood /\ ReadInOrder /\ QuietRunPasses

-----------------------------------------------------------------------------
(* What the scripts look like.                                             *)

LEMMA Joined ==
    ASSUME NEW S, NEW s \in Seq(S), NEW t \in Seq(S)
    PROVE  /\ s \o t \in Seq(S) /\ Len(s \o t) = Len(s) + Len(t)
           /\ \A i \in 1..Len(s) : (s \o t)[i] = s[i]
           /\ \A i \in 1..Len(t) : (s \o t)[Len(s) + i] = t[i]
BY ConcatProperties

LEMMA StepsAreSteps ==
    /\ \A op \in {"setup", "migrate", "flagd_up", "flip", "judge", "assert", "expose"} :
            Step(op) \in AnyStep /\ Step(op).op = op
    /\ \A b \in Backend, d \in Population, n \in 1..3 :
            /\ Run(b, d, n) \in AnyStep /\ Run(b, d, n).op = "run" /\ Run(b, d, n).dag = d
            /\ Run(b, d, n).backend = b
    /\ \A d \in Population : Read(d) \in AnyStep /\ Read(d).op = "read" /\ Read(d).dag = d
    /\ \A d \in Population, n \in 1..3 :
            Ask(d, n) \in AnyStep /\ Ask(d, n).op = "ask" /\ Ask(d, n).dag = d
    /\ \A b \in Backend :
            Factory(b) \in AnyStep /\ Factory(b).op = "factory" /\ Factory(b).backend = b
    /\ \A n \in {1, 7} : Identical(n) \in AnyStep /\ Identical(n).op = "identical" /\ Identical(n).first = n
BY DEF Step, Run, Read, Ask, Factory, Identical, AnyStep

LEMMA PreludeIs ==
    /\ Prelude \in Seq(AnyStep) /\ Len(Prelude) = 3
    /\ Prelude[1].op = "setup" /\ Prelude[2].op = "migrate" /\ Prelude[3].op = "flagd_up"
BY StepsAreSteps DEF Prelude

LEMMA CellsAre ==
    ASSUME NEW b \in Backend, NEW n \in 1..3
    PROVE  /\ Cells(b, n) \in Seq(AnyStep) /\ Len(Cells(b, n)) = 4
           /\ Cells(b, n)[1].op = "run" /\ Cells(b, n)[1].dag = inDag
           /\ Cells(b, n)[2].op = "read" /\ Cells(b, n)[2].dag = inDag
           /\ Cells(b, n)[3].op = "run" /\ Cells(b, n)[3].dag = outDag
           /\ Cells(b, n)[4].op = "read" /\ Cells(b, n)[4].dag = outDag
BY StepsAreSteps DEF Cells, Population

\* A script that runs tasks is framed by its preparations and its verdict; one
\* that alternates reads each run's row in the step after it.
Framed(s) ==
    /\ s \in Seq(AnyStep) /\ Len(s) >= 4
    /\ s[1].op = "setup" /\ s[2].op = "migrate" /\ s[3].op = "flagd_up" /\ s[Len(s)].op = "judge"
    /\ \A k \in 4..(Len(s) - 1) : s[k].op \in {"run", "read", "flip"}
Paired(s) == \A k \in 1..(Len(s) - 1) :
    /\ s[k].op = "run" <=> s[k + 1].op = "read"
    /\ s[k].op = "run" => s[k + 1].dag = s[k].dag

NoFlip(s) == \A k \in 1..Len(s) : s[k].op # "flip"

\* Such a script before its verdict.
Growing(s) ==
    /\ s \in Seq(AnyStep) /\ Len(s) >= 3
    /\ s[1].op = "setup" /\ s[2].op = "migrate" /\ s[3].op = "flagd_up"
    /\ \A k \in 4..Len(s) : s[k].op \in {"run", "read"}
    /\ s[Len(s)].op # "run"
    /\ Paired(s)

LEMMA GrowsByCells ==
    ASSUME NEW s, Growing(s), NEW b \in Backend, NEW n \in 1..3
    PROVE  Growing(s \o Cells(b, n))
<1> DEFINE t == Cells(b, n)
           u == s \o t
           m == Len(s)
<1>1. /\ s \in Seq(AnyStep) /\ m \in Nat /\ m >= 3 /\ t \in Seq(AnyStep) /\ Len(t) = 4
    BY CellsAre DEF Growing
<1>2. /\ u \in Seq(AnyStep) /\ Len(u) = m + 4
      /\ \A i \in 1..m : u[i] = s[i]
      /\ u[m + 1] = t[1] /\ u[m + 2] = t[2] /\ u[m + 3] = t[3] /\ u[m + 4] = t[4]
    <2>1. /\ u \in Seq(AnyStep) /\ Len(u) = m + Len(t)
          /\ \A i \in 1..m : u[i] = s[i]
          /\ \A i \in 1..Len(t) : u[m + i] = t[i]
        <3> HIDE DEF t
        <3>0. t \in Seq(AnyStep) /\ s \in Seq(AnyStep)
            BY <1>1
        <3>1. Len(s \o t) = Len(s) + Len(t)
            BY <3>0, Joined
        <3>2. s \o t \in Seq(AnyStep)
            BY <3>0, Joined
        <3>3. \A i \in 1..Len(s) : (s \o t)[i] = s[i]
            BY <3>0, Joined
        <3>4. \A i \in 1..Len(t) : (s \o t)[Len(s) + i] = t[i]
            BY <3>0, Joined
        <3> QED BY <3>1, <3>2, <3>3, <3>4
    <2> HIDE DEF t, u, m
    <2> QED BY <1>1, <2>1
<1>3. /\ t[1].op = "run" /\ t[2].op = "read" /\ t[3].op = "run" /\ t[4].op = "read"
      /\ t[2].dag = t[1].dag /\ t[4].dag = t[3].dag
    BY CellsAre
<1> HIDE DEF t, u
<1>4. u[1].op = "setup" /\ u[2].op = "migrate" /\ u[3].op = "flagd_up"
    <2>1. 1 \in 1..m /\ 2 \in 1..m /\ 3 \in 1..m
        BY <1>1
    <2>2. u[1] = s[1] /\ u[2] = s[2] /\ u[3] = s[3]
        BY <1>2, <2>1
    <2> QED BY <2>2 DEF Growing
<1>5. \A k \in 4..(m + 4) : u[k].op \in {"run", "read"}
    <2> TAKE k \in 4..(m + 4)
    <2>1. CASE k \in 4..m
        BY <1>1, <1>2, <2>1 DEF Growing
    <2>2. CASE k \in {m + 1, m + 2, m + 3, m + 4}
        BY <1>2, <1>3, <2>2
    <2> QED BY <1>1, <2>1, <2>2
<1>6. Paired(u)
    <2> SUFFICES ASSUME NEW k \in 1..(m + 3)
                 PROVE  /\ u[k].op = "run" <=> u[k + 1].op = "read"
                        /\ u[k].op = "run" => u[k + 1].dag = u[k].dag
        BY <1>1, <1>2 DEF Paired
    <2>1. CASE k \in 1..(m - 1)
        <3>1. u[k] = s[k] /\ u[k + 1] = s[k + 1]
            BY <1>1, <1>2, <2>1
        <3>2. /\ s[k].op = "run" <=> s[k + 1].op = "read"
              /\ s[k].op = "run" => s[k + 1].dag = s[k].dag
            BY <2>1 DEF Growing, Paired
        <3> QED BY <3>1, <3>2
    <2>2. CASE k = m
        BY <1>1, <1>2, <1>3, <2>2 DEF Growing
    <2>3. CASE k \in {m + 1, m + 2, m + 3}
        BY <1>1, <1>2, <1>3, <2>3
    <2> QED BY <1>1, <2>1, <2>2, <2>3
<1> QED BY <1>1, <1>2, <1>3, <1>4, <1>5, <1>6 DEF Growing, u, t

LEMMA EndsInVerdict ==
    ASSUME NEW s, Growing(s)
    PROVE  LET u == s \o <<Step("judge")>> IN Framed(u) /\ Paired(u) /\ NoFlip(u)
<1> DEFINE t == <<Step("judge")>>
           u == s \o t
           m == Len(s)
<1>1. s \in Seq(AnyStep) /\ m \in Nat /\ m >= 3
    BY DEF Growing
<1>2. t \in Seq(AnyStep) /\ Len(t) = 1 /\ t[1].op = "judge"
    BY StepsAreSteps
<1>3. /\ u \in Seq(AnyStep) /\ Len(u) = m + 1
      /\ \A i \in 1..m : u[i] = s[i]
      /\ u[m + 1].op = "judge"
    BY <1>1, <1>2, Joined
<1> HIDE DEF t, u
<1>4. Framed(u)
    BY <1>1, <1>3 DEF Growing, Framed
<1>5. Paired(u)
    <2> SUFFICES ASSUME NEW k \in 1..m
                 PROVE  /\ u[k].op = "run" <=> u[k + 1].op = "read"
                        /\ u[k].op = "run" => u[k + 1].dag = u[k].dag
        BY <1>1, <1>3 DEF Paired
    <2>1. CASE k = m
        BY <1>1, <1>3, <2>1 DEF Growing
    <2>2. CASE k \in 1..(m - 1)
        <3>1. u[k] = s[k] /\ u[k + 1] = s[k + 1]
            BY <1>1, <1>3, <2>2
        <3>2. /\ s[k].op = "run" <=> s[k + 1].op = "read"
              /\ s[k].op = "run" => s[k + 1].dag = s[k].dag
            BY <2>2 DEF Growing, Paired
        <3> QED BY <3>1, <3>2
    <2> QED BY <1>1, <2>1, <2>2
<1>6. NoFlip(u)
    <2> SUFFICES ASSUME NEW k \in 1..(m + 1) PROVE u[k].op # "flip"
        BY <1>3 DEF NoFlip
    <2>1. CASE k \in 1..3
        BY <1>1, <1>3, <2>1 DEF Growing
    <2>2. CASE k \in 4..m
        BY <1>1, <1>3, <2>2 DEF Growing
    <2>3. CASE k = m + 1
        BY <1>3, <2>3
    <2> QED BY <1>1, <2>1, <2>2, <2>3
<1> QED BY <1>4, <1>5, <1>6 DEF u, t

LEMMA RealDataFlowIs == Framed(RealDataFlow) /\ Paired(RealDataFlow) /\ NoFlip(RealDataFlow)
<1> DEFINE s0 == Prelude
           s1 == s0 \o Cells("flagd", 1)
           s2 == s1 \o Cells("growthbook", 1)
           s3 == s2 \o Cells("statsig", 1)
<1>1. Growing(s0)
    BY PreludeIs DEF Growing, Paired
<1> HIDE DEF s0
<1>2. Growing(s1)
    BY <1>1, GrowsByCells DEF Backend, Container
<1> HIDE DEF s1
<1>3. Growing(s2)
    BY <1>2, GrowsByCells DEF Backend
<1> HIDE DEF s2
<1>4. Growing(s3)
    BY <1>3, GrowsByCells DEF Backend
<1> HIDE DEF s3
<1>5. RealDataFlow = s3 \o <<Step("judge")>>
    BY DEF RealDataFlow, s3, s2, s1, s0
<1> QED BY <1>4, <1>5, EndsInVerdict

LEMMA MatrixIs == Framed(Matrix) /\ Paired(Matrix) /\ NoFlip(Matrix)
<1> DEFINE s0 == Prelude
           s1 == s0 \o Cells("flagd", 2)
           s2 == s1 \o Cells("growthbook", 2)
           s3 == s2 \o Cells("statsig", 2)
           s4 == s3 \o Cells("unleash", 2)
           s5 == s4 \o Cells("inhouse", 2)
<1>1. Growing(s0)
    BY PreludeIs DEF Growing, Paired
<1> HIDE DEF s0
<1>2. Growing(s1)
    BY <1>1, GrowsByCells DEF Backend, Container
<1> HIDE DEF s1
<1>3. Growing(s2)
    BY <1>2, GrowsByCells DEF Backend
<1> HIDE DEF s2
<1>4. Growing(s3)
    BY <1>3, GrowsByCells DEF Backend
<1> HIDE DEF s3
<1>5. Growing(s4)
    BY <1>4, GrowsByCells DEF Backend, Container
<1> HIDE DEF s4
<1>6. Growing(s5)
    BY <1>5, GrowsByCells DEF Backend
<1> HIDE DEF s5
<1>7. Matrix = s5 \o <<Step("judge")>>
    BY DEF Matrix, s5, s4, s3, s2, s1, s0
<1> QED BY <1>6, <1>7, EndsInVerdict

\* A script of six steps after the preparations.
LEMMA AfterPrelude ==
    ASSUME NEW t \in Seq(AnyStep)
    PROVE  /\ Prelude \o t \in Seq(AnyStep) /\ Len(Prelude \o t) = 3 + Len(t)
           /\ (Prelude \o t)[1].op = "setup" /\ (Prelude \o t)[2].op = "migrate"
           /\ (Prelude \o t)[3].op = "flagd_up"
           /\ \A k \in 4..(3 + Len(t)) : (Prelude \o t)[k] = t[k - 3]
<1> DEFINE p == Prelude
           u == p \o t
<1>1. p \in Seq(AnyStep)
    BY PreludeIs
<1> HIDE DEF p
<1>2. /\ u \in Seq(AnyStep) /\ Len(u) = Len(p) + Len(t)
      /\ \A i \in 1..Len(p) : u[i] = p[i]
      /\ \A i \in 1..Len(t) : u[Len(p) + i] = t[i]
    BY <1>1, Joined
<1> HIDE DEF u
<1>3. Len(p) = 3 /\ p[1].op = "setup" /\ p[2].op = "migrate" /\ p[3].op = "flagd_up"
    BY PreludeIs DEF p
<1>4. \A k \in 4..(3 + Len(t)) : u[k] = t[k - 3]
    <2> TAKE k \in 4..(3 + Len(t))
    <2>1. k - 3 \in 1..Len(t) /\ Len(p) + (k - 3) = k
        BY <1>3
    <2> QED BY <1>2, <2>1
<1> QED BY <1>2, <1>3, <1>4 DEF u, p

LEMMA KillSwitchIs ==
    /\ Framed(KillSwitch) /\ Paired(KillSwitch) /\ Len(KillSwitch) = 9
    /\ \A k \in {4, 7} : KillSwitch[k].op = "run" /\ KillSwitch[k].dag = inDag
                          /\ KillSwitch[k].backend = "flagd"
    /\ \A k \in {5, 8} : KillSwitch[k].op = "read" /\ KillSwitch[k].dag = inDag
    /\ KillSwitch[6].op = "flip"
<1> DEFINE t == << Run("flagd", inDag, 1), Read(inDag), Step("flip"),
                  Run("flagd", inDag, 1), Read(inDag), Step("judge") >>
           u == Prelude \o t
<1>1. /\ t \in Seq(AnyStep) /\ Len(t) = 6
      /\ \A k \in {1, 4} : t[k].op = "run" /\ t[k].dag = inDag
                            /\ t[k].backend = "flagd"
      /\ \A k \in {2, 5} : t[k].op = "read" /\ t[k].dag = inDag
      /\ t[3].op = "flip" /\ t[6].op = "judge"
    BY StepsAreSteps DEF Population, Backend, Container
<1> HIDE DEF t
<1>2. /\ u \in Seq(AnyStep) /\ Len(u) = 9
      /\ u[1].op = "setup" /\ u[2].op = "migrate" /\ u[3].op = "flagd_up"
      /\ u[4] = t[1] /\ u[5] = t[2] /\ u[6] = t[3] /\ u[7] = t[4] /\ u[8] = t[5] /\ u[9] = t[6]
    <2>1. /\ u \in Seq(AnyStep) /\ Len(u) = 3 + Len(t)
          /\ u[1].op = "setup" /\ u[2].op = "migrate" /\ u[3].op = "flagd_up"
        BY <1>1, AfterPrelude
    <2>2. \A k \in 4..(3 + Len(t)) : u[k] = t[k - 3]
        BY <1>1, AfterPrelude
    <2> HIDE DEF u
    <2> QED BY <1>1, <2>1, <2>2
<1>3. KillSwitch = u
    BY DEF KillSwitch, t
<1> HIDE DEF u
<1>4. Framed(u)
    BY <1>1, <1>2 DEF Framed
<1>5. Paired(u)
    <2> SUFFICES ASSUME NEW k \in 1..8
                 PROVE  /\ u[k].op = "run" <=> u[k + 1].op = "read"
                        /\ u[k].op = "run" => u[k + 1].dag = u[k].dag
        BY <1>2 DEF Paired
    <2> QED BY <1>1, <1>2
<1> QED BY <1>1, <1>2, <1>3, <1>4, <1>5

\* The two drivers that run both dags, then read both files.
BothThenBoth(s, n) ==
    /\ Framed(s) /\ Len(s) = 8
    /\ s[4].op = "run" /\ s[4].dag = inDag /\ s[4].questions = n
    /\ s[5].op = "run" /\ s[5].dag = outDag /\ s[5].questions = n
    /\ s[6].op = "read" /\ s[6].dag = inDag /\ s[7].op = "read" /\ s[7].dag = outDag

LEMMA FileScripts == BothThenBoth(GatesListener, 3) /\ BothThenBoth(AbExperiment, 2)
<1>1. ASSUME NEW n \in 1..3
      PROVE  BothThenBoth(Prelude \o << Run("flagd", inDag, n), Run("flagd", outDag, n),
                                        Read(inDag), Read(outDag), Step("judge") >>, n)
    <2> DEFINE t == << Run("flagd", inDag, n), Run("flagd", outDag, n),
                       Read(inDag), Read(outDag), Step("judge") >>
               u == Prelude \o t
    <2>1. /\ t \in Seq(AnyStep) /\ Len(t) = 5
          /\ t[1].op = "run" /\ t[1].dag = inDag /\ t[2].op = "run" /\ t[2].dag = outDag
          /\ t[3].op = "read" /\ t[3].dag = inDag /\ t[4].op = "read" /\ t[4].dag = outDag
          /\ t[5].op = "judge"
        BY StepsAreSteps DEF Population, Backend, Container
    <2>2. t[1].questions = n /\ t[2].questions = n
        BY DEF Run
    <2> HIDE DEF t
    <2>3. /\ u \in Seq(AnyStep) /\ Len(u) = 8
          /\ u[1].op = "setup" /\ u[2].op = "migrate" /\ u[3].op = "flagd_up"
          /\ u[4] = t[1] /\ u[5] = t[2] /\ u[6] = t[3] /\ u[7] = t[4] /\ u[8] = t[5]
        <3>1. /\ u \in Seq(AnyStep) /\ Len(u) = 3 + Len(t)
              /\ u[1].op = "setup" /\ u[2].op = "migrate" /\ u[3].op = "flagd_up"
            BY <2>1, AfterPrelude
        <3>2. \A k \in 4..(3 + Len(t)) : u[k] = t[k - 3]
            BY <2>1, AfterPrelude
        <3> HIDE DEF u
        <3> QED BY <2>1, <3>1, <3>2
    <2> HIDE DEF u
    <2>4. Framed(u)
        BY <2>1, <2>3 DEF Framed
    <2>5. BothThenBoth(u, n)
        BY <2>1, <2>2, <2>3, <2>4 DEF BothThenBoth
    <2> QED BY <2>5 DEF u, t
<1> QED BY <1>1 DEF GatesListener, AbExperiment

\* The scripts that ask in the driver's process assert after two questions.
AsksOnly(s) ==
    /\ s \in Seq(AnyStep) /\ s[Len(s)].op = "judge"
    /\ \A k \in 1..Len(s) : s[k].op \in {"factory", "ask", "assert", "identical", "expose", "judge"}
    /\ \A k \in 1..Len(s) : s[k].op = "assert" => k >= 3 /\ s[k - 1].op = "ask" /\ s[k - 2].op = "ask"

LEMMA RunUseCasesIs ==
    /\ AsksOnly(RunUseCases) /\ Len(RunUseCases) = 20
    /\ \A k \in 1..20 : RunUseCases[k].op # "expose"
<1> DEFINE u == RunUseCases
<1>1. /\ u \in Seq(AnyStep) /\ Len(u) = 20
      /\ \A k \in {1, 13, 16} : u[k].op = "factory"
      /\ \A k \in {2, 3, 5, 6, 8, 9, 11, 12, 14, 15, 17, 18} : u[k].op = "ask"
      /\ \A k \in {4, 7, 10} : u[k].op = "assert"
      /\ u[19].op = "identical" /\ u[20].op = "judge"
    BY StepsAreSteps DEF RunUseCases, Population, Backend, Container
<1> HIDE DEF u
<1>2. \A k \in 1..20 : k \in {1, 13, 16} \/ k \in {2, 3, 5, 6, 8, 9, 11, 12, 14, 15, 17, 18}
                         \/ k \in {4, 7, 10} \/ k = 19 \/ k = 20
    OBVIOUS
<1>3. \A k \in 1..20 : u[k].op = "assert" => k \in {4, 7, 10}
    BY <1>1, <1>2
<1>4. \A k \in 1..20 : u[k].op \in {"factory", "ask", "assert", "identical", "judge"}
    BY <1>1, <1>2
<1>5. \A k \in {4, 7, 10} : k >= 3 /\ u[k - 1].op = "ask" /\ u[k - 2].op = "ask"
    BY <1>1
<1> QED BY <1>1, <1>3, <1>4, <1>5 DEF AsksOnly, u

LEMMA OneBackendIs ==
    ASSUME NEW b \in Backend
    PROVE  /\ OneBackend(b) \in Seq(AnyStep) /\ Len(OneBackend(b)) = 4
           /\ OneBackend(b)[1].op = "factory" /\ OneBackend(b)[1].backend = b
           /\ OneBackend(b)[2].op = "ask" /\ OneBackend(b)[3].op = "ask"
           /\ OneBackend(b)[4].op = "assert"
BY StepsAreSteps DEF OneBackend, Population

\* One backend's steps, from the k-th.
Block(s, k, b) ==
    /\ s[k].op = "factory" /\ s[k].backend = b
    /\ s[k + 1].op = "ask" /\ s[k + 2].op = "ask" /\ s[k + 3].op = "assert"

LEMMA BackendAdded ==
    ASSUME NEW s \in Seq(AnyStep), NEW b \in Backend, NEW u, u = s \o OneBackend(b)
    PROVE  /\ u \in Seq(AnyStep) /\ Len(u) = Len(s) + 4
           /\ \A k, c : k \in 1..(Len(s) - 3) /\ Block(s, k, c) => Block(u, k, c)
           /\ Block(u, Len(s) + 1, b)
<1> DEFINE t == OneBackend(b)
           m == Len(s)
<1>1. t \in Seq(AnyStep)
    BY OneBackendIs
<1>2. /\ t[1].op = "factory" /\ t[1].backend = b /\ t[2].op = "ask" /\ t[3].op = "ask"
      /\ t[4].op = "assert" /\ Len(t) = 4
    BY OneBackendIs
<1> HIDE DEF t
<1>3. /\ u \in Seq(AnyStep) /\ Len(u) = Len(s) + Len(t)
      /\ \A i \in 1..Len(s) : u[i] = s[i]
      /\ \A i \in 1..Len(t) : u[Len(s) + i] = t[i]
    BY <1>1, Joined DEF t
<1>4. m \in Nat
    OBVIOUS
<1> HIDE DEF m
<1>5. u[m + 1] = t[1] /\ u[m + 2] = t[2] /\ u[m + 3] = t[3] /\ u[m + 4] = t[4]
    BY <1>2, <1>3, <1>4 DEF m
<1>6. Block(u, m + 1, b)
    <2>1. (m + 1) + 1 = m + 2 /\ (m + 1) + 2 = m + 3 /\ (m + 1) + 3 = m + 4
        BY <1>4
    <2> QED BY <1>2, <1>5, <2>1 DEF Block
<1>7. ASSUME NEW k, NEW c, k \in 1..(m - 3), Block(s, k, c) PROVE Block(u, k, c)
    <2>1. k \in 1..m /\ k + 1 \in 1..m /\ k + 2 \in 1..m /\ k + 3 \in 1..m
        BY <1>4, <1>7
    <2>2. u[k] = s[k] /\ u[k + 1] = s[k + 1] /\ u[k + 2] = s[k + 2] /\ u[k + 3] = s[k + 3]
        BY <1>3, <2>1 DEF m
    <2> QED BY <1>7, <2>2 DEF Block
<1> QED BY <1>2, <1>3, <1>6, <1>7 DEF m

LEMMA RunAllBackendsIs ==
    /\ AsksOnly(RunAllBackends) /\ Len(RunAllBackends) = 23
    /\ \A k \in 1..23 :
        /\ RunAllBackends[k].op = "factory" <=> k \in {1, 5, 9, 13, 17}
        /\ RunAllBackends[k].op = "judge" <=> k = 23
        /\ RunAllBackends[k].op = "assert" <=> k \in {4, 8, 12, 16, 20}
        /\ RunAllBackends[k].op = "expose" <=> k = 22
        /\ RunAllBackends[k].op = "identical" <=> k = 21
    /\ RunAllBackends[1].backend = "flagd" /\ RunAllBackends[5].backend = "growthbook"
    /\ RunAllBackends[9].backend = "inhouse" /\ RunAllBackends[13].backend = "unleash"
    /\ RunAllBackends[17].backend = "statsig"
<1> DEFINE s1 == OneBackend(Backends[1])
           s2 == s1 \o OneBackend(Backends[2])
           s3 == s2 \o OneBackend(Backends[3])
           s4 == s3 \o OneBackend(Backends[4])
           s5 == s4 \o OneBackend(Backends[5])
           t == <<Identical(1), Step("expose"), Step("judge")>>
           u == s5 \o t
<1>0. /\ Backends[1] = "flagd" /\ Backends[2] = "growthbook" /\ Backends[3] = "inhouse"
      /\ Backends[4] = "unleash" /\ Backends[5] = "statsig"
      /\ \A i \in 1..5 : Backends[i] \in Backend
    BY DEF Backends, Backend, Container
<1>t. t \in Seq(AnyStep) /\ Len(t) = 3 /\ t[1].op = "identical" /\ t[2].op = "expose" /\ t[3].op = "judge"
    BY StepsAreSteps
<1>u. RunAllBackends = u
    BY DEF RunAllBackends
<1> HIDE DEF t
<1>1. s1 \in Seq(AnyStep) /\ Len(s1) = 4 /\ Block(s1, 1, "flagd")
    BY <1>0, OneBackendIs DEF Block
<1> HIDE DEF s1
<1>2. /\ s2 \in Seq(AnyStep) /\ Len(s2) = 8
      /\ Block(s2, 1, "flagd") /\ Block(s2, 5, "growthbook")
    <2>1. s1 \in Seq(AnyStep) /\ Backends[2] \in Backend
        BY <1>0, <1>1
    <2>2. /\ s2 \in Seq(AnyStep) /\ Len(s2) = Len(s1) + 4
          /\ \A k, c : k \in 1..(Len(s1) - 3) /\ Block(s1, k, c) => Block(s2, k, c)
          /\ Block(s2, Len(s1) + 1, Backends[2])
        BY <2>1, BackendAdded
    <2> HIDE DEF s2
    <2>3. \A k \in 1..1, c \in Backend : Block(s1, k, c) => Block(s2, k, c)
        BY <1>1, <2>2
    <2> QED BY <1>0, <1>1, <2>2, <2>3 DEF Backend, Container
<1> HIDE DEF s2
<1>3. /\ s3 \in Seq(AnyStep) /\ Len(s3) = 12
      /\ Block(s3, 1, "flagd") /\ Block(s3, 5, "growthbook") /\ Block(s3, 9, "inhouse")
    <2>1. s2 \in Seq(AnyStep) /\ Backends[3] \in Backend
        BY <1>0, <1>2
    <2>2. /\ s3 \in Seq(AnyStep) /\ Len(s3) = Len(s2) + 4
          /\ \A k, c : k \in 1..(Len(s2) - 3) /\ Block(s2, k, c) => Block(s3, k, c)
          /\ Block(s3, Len(s2) + 1, Backends[3])
        BY <2>1, BackendAdded
    <2> HIDE DEF s3
    <2>3. \A k \in 1..5, c \in Backend : Block(s2, k, c) => Block(s3, k, c)
        BY <1>2, <2>2
    <2> QED BY <1>0, <1>2, <2>2, <2>3 DEF Backend, Container
<1> HIDE DEF s3
<1>4. /\ s4 \in Seq(AnyStep) /\ Len(s4) = 16
      /\ Block(s4, 1, "flagd") /\ Block(s4, 5, "growthbook")
      /\ Block(s4, 9, "inhouse") /\ Block(s4, 13, "unleash")
    <2>1. s3 \in Seq(AnyStep) /\ Backends[4] \in Backend
        BY <1>0, <1>3
    <2>2. /\ s4 \in Seq(AnyStep) /\ Len(s4) = Len(s3) + 4
          /\ \A k, c : k \in 1..(Len(s3) - 3) /\ Block(s3, k, c) => Block(s4, k, c)
          /\ Block(s4, Len(s3) + 1, Backends[4])
        BY <2>1, BackendAdded
    <2> HIDE DEF s4
    <2>3. \A k \in 1..9, c \in Backend : Block(s3, k, c) => Block(s4, k, c)
        BY <1>3, <2>2
    <2> QED BY <1>0, <1>3, <2>2, <2>3 DEF Backend, Container
<1> HIDE DEF s4
<1>5. /\ s5 \in Seq(AnyStep) /\ Len(s5) = 20
      /\ Block(s5, 1, "flagd") /\ Block(s5, 5, "growthbook")
      /\ Block(s5, 9, "inhouse") /\ Block(s5, 13, "unleash") /\ Block(s5, 17, "statsig")
    <2>1. s4 \in Seq(AnyStep) /\ Backends[5] \in Backend
        BY <1>0, <1>4
    <2>2. /\ s5 \in Seq(AnyStep) /\ Len(s5) = Len(s4) + 4
          /\ \A k, c : k \in 1..(Len(s4) - 3) /\ Block(s4, k, c) => Block(s5, k, c)
          /\ Block(s5, Len(s4) + 1, Backends[5])
        BY <2>1, BackendAdded
    <2> HIDE DEF s5
    <2>3. \A k \in 1..13, c \in Backend : Block(s4, k, c) => Block(s5, k, c)
        BY <1>4, <2>2
    <2> QED BY <1>0, <1>4, <2>2, <2>3 DEF Backend, Container
<1> HIDE DEF s5
<1>6. s5 \in Seq(AnyStep) /\ t \in Seq(AnyStep)
    BY <1>5, <1>t
<1>7. /\ u \in Seq(AnyStep) /\ Len(u) = Len(s5) + Len(t)
      /\ \A i \in 1..Len(s5) : u[i] = s5[i]
      /\ \A i \in 1..Len(t) : u[Len(s5) + i] = t[i]
    BY <1>6, Joined
<1> HIDE DEF u
<1>8. Len(u) = 23 /\ (\A i \in 1..20 : u[i] = s5[i]) /\ u[21] = t[1] /\ u[22] = t[2] /\ u[23] = t[3]
    BY <1>5, <1>7, <1>t
<1>9. /\ \A k \in {1, 5, 9, 13, 17} : u[k].op = "factory"
      /\ \A k \in {2, 3, 6, 7, 10, 11, 14, 15, 18, 19} : u[k].op = "ask"
      /\ \A k \in {4, 8, 12, 16, 20} : u[k].op = "assert"
      /\ u[21].op = "identical" /\ u[22].op = "expose" /\ u[23].op = "judge"
    BY <1>5, <1>8, <1>t DEF Block
<1>10. /\ u[1].backend = "flagd" /\ u[5].backend = "growthbook" /\ u[9].backend = "inhouse"
       /\ u[13].backend = "unleash" /\ u[17].backend = "statsig"
    BY <1>5, <1>8 DEF Block
<1>11. \A k \in 1..23 : k \in {1, 5, 9, 13, 17} \/ k \in {2, 3, 6, 7, 10, 11, 14, 15, 18, 19}
                          \/ k \in {4, 8, 12, 16, 20} \/ k = 21 \/ k = 22 \/ k = 23
    OBVIOUS
<1>12. \A k \in 1..23 : u[k].op = "assert" => k \in {4, 8, 12, 16, 20}
    BY <1>9, <1>11
<1>13. \A k \in 1..23 : u[k].op \in {"factory", "ask", "assert", "identical", "expose", "judge"}
    BY <1>9, <1>11
<1>14. \A k \in {4, 8, 12, 16, 20} : k >= 3 /\ u[k - 1].op = "ask" /\ u[k - 2].op = "ask"
    BY <1>9
<1>15. AsksOnly(u)
    <2>1. u \in Seq(AnyStep)
        BY <1>7
    <2> QED BY <2>1, <1>8, <1>9, <1>12, <1>13, <1>14 DEF AsksOnly
<1>16. \A k \in 1..23 :
        /\ u[k].op = "factory" <=> k \in {1, 5, 9, 13, 17}
        /\ u[k].op = "judge" <=> k = 23
        /\ u[k].op = "assert" <=> k \in {4, 8, 12, 16, 20}
        /\ u[k].op = "expose" <=> k = 22
        /\ u[k].op = "identical" <=> k = 21
    BY <1>9, <1>11
<1> QED BY <1>u, <1>8, <1>10, <1>15, <1>16

-----------------------------------------------------------------------------
(* The place in the script.                                                *)

LEMMA Kinds ==
    ASSUME driver \in Driver
    PROVE  /\ InProcess <=> ~(Alternates \/ WritesFile)
           /\ ~(Alternates /\ WritesFile)
           /\ driver = "kill_switch" => Alternates
           /\ driver = "gates_listener" => WritesFile
           /\ driver = "run_all_backends" => InProcess
BY DriverAssumption DEF InProcess, Alternates, WritesFile

LEMMA Scripts ==
    /\ Script("kill_switch") = KillSwitch
    /\ Script("real_data_flow") = RealDataFlow
    /\ Script("matrix") = Matrix
    /\ Script("gates_listener") = GatesListener
    /\ Script("ab_experiment") = AbExperiment
    /\ Script("run_all_backends") = RunAllBackends
    /\ Script("run_use_cases") = RunUseCases
BY DEF Script

LEMMA FramedIs ==
    ASSUME NEW s, Framed(s)
    PROVE  s \in Seq(AnyStep) /\ Len(s) \in Nat /\ Len(s) >= 4 /\ s[Len(s)].op = "judge"
BY DEF Framed

LEMMA ScriptIs ==
    ASSUME driver \in Driver
    PROVE  /\ Script(driver) \in Seq(AnyStep) /\ Size \in Nat /\ Size >= 4
           /\ Script(driver)[Size].op = "judge"
           /\ ~InProcess => Framed(Script(driver))
           /\ InProcess => AsksOnly(Script(driver))
           /\ Alternates => Paired(Script(driver))
           /\ Alternates /\ driver # "kill_switch" => NoFlip(Script(driver))
           /\ WritesFile => BothThenBoth(Script(driver), IF driver = "gates_listener" THEN 3 ELSE 2)
<1>1. CASE driver = "kill_switch"
    <2>1. Script(driver) = KillSwitch
        BY <1>1, Scripts
    <2>2. Alternates /\ ~InProcess /\ ~WritesFile
        BY <1>1 DEF InProcess, Alternates, WritesFile
    <2> QED BY <1>1, <2>1, <2>2, KillSwitchIs, FramedIs DEF Size
<1>2. CASE driver = "real_data_flow"
    <2>1. Script(driver) = RealDataFlow
        BY <1>2, Scripts
    <2>2. Alternates /\ ~InProcess /\ ~WritesFile
        BY <1>2 DEF InProcess, Alternates, WritesFile
    <2> QED BY <1>2, <2>1, <2>2, RealDataFlowIs, FramedIs DEF Size
<1>3. CASE driver = "matrix"
    <2>1. Script(driver) = Matrix
        BY <1>3, Scripts
    <2>2. Alternates /\ ~InProcess /\ ~WritesFile
        BY <1>3 DEF InProcess, Alternates, WritesFile
    <2> QED BY <1>3, <2>1, <2>2, MatrixIs, FramedIs DEF Size
<1>4. CASE driver = "gates_listener"
    <2>1. Script(driver) = GatesListener
        BY <1>4, Scripts
    <2>2. WritesFile /\ ~InProcess /\ ~Alternates
        BY <1>4 DEF InProcess, Alternates, WritesFile
    <2>3. BothThenBoth(GatesListener, IF driver = "gates_listener" THEN 3 ELSE 2) /\ Framed(GatesListener)
        BY <1>4, FileScripts DEF BothThenBoth
    <2> QED BY <2>1, <2>2, <2>3, FramedIs DEF Size
<1>5. CASE driver = "ab_experiment"
    <2>1. Script(driver) = AbExperiment
        BY <1>5, Scripts
    <2>2. WritesFile /\ ~InProcess /\ ~Alternates
        BY <1>5 DEF InProcess, Alternates, WritesFile
    <2>3. BothThenBoth(AbExperiment, IF driver = "gates_listener" THEN 3 ELSE 2) /\ Framed(AbExperiment)
        BY <1>5, FileScripts DEF BothThenBoth
    <2> QED BY <2>1, <2>2, <2>3, FramedIs DEF Size
<1>6. CASE driver = "run_all_backends"
    <2>1. Script(driver) = RunAllBackends
        BY <1>6, Scripts
    <2>2. InProcess /\ ~Alternates /\ ~WritesFile
        BY <1>6 DEF InProcess, Alternates, WritesFile
    <2>3. AsksOnly(RunAllBackends) /\ Len(RunAllBackends) \in Nat /\ Len(RunAllBackends) >= 4
        BY RunAllBackendsIs
    <2> QED BY <2>1, <2>2, <2>3 DEF Size, AsksOnly
<1>7. CASE driver = "run_use_cases"
    <2>1. Script(driver) = RunUseCases
        BY <1>7, Scripts
    <2>2. InProcess /\ ~Alternates /\ ~WritesFile
        BY <1>7 DEF InProcess, Alternates, WritesFile
    <2>3. AsksOnly(RunUseCases) /\ Len(RunUseCases) \in Nat /\ Len(RunUseCases) >= 4
        BY RunUseCasesIs
    <2> QED BY <2>1, <2>2, <2>3 DEF Size, AsksOnly
<1> QED BY <1>1, <1>2, <1>3, <1>4, <1>5, <1>6, <1>7, DriverAssumption

LEMMA NowIs ==
    ASSUME driver \in Driver, OnScript, verdict = "running"
    PROVE  /\ Pos \in 1..Size /\ Now = Script(driver)[Pos] /\ Now \in AnyStep
           /\ Len(todo) >= 1 /\ Len(todo) \in Nat
<1>1. todo \in Seq(AnyStep) /\ todo # <<>> /\ Len(todo) <= Size
    BY DEF OnScript
<1>2. Len(todo) \in Nat /\ Len(todo) >= 1 /\ Now = todo[1] /\ Now \in AnyStep
    BY <1>1 DEF Now
<1>3. todo[1] = Script(driver)[Size - Len(todo) + 1]
    BY <1>2 DEF OnScript
<1> QED BY <1>1, <1>2, <1>3, ScriptIs DEF Pos

\* A later place of the same script.
LEMMA Rest ==
    ASSUME NEW S, NEW t \in Seq(S), NEW n \in 1..4, n < Len(t),
           NEW u, u = SubSeq(t, n + 1, Len(t))
    PROVE  /\ u \in Seq(S) /\ Len(u) = Len(t) - n
           /\ \A i \in 1..(Len(t) - n) : u[i] = t[n + i]
OBVIOUS

LEMMA Onward ==
    ASSUME driver \in Driver, OnScript, verdict = "running", UNCHANGED driver,
           NEW n \in 1..4, Pos + n <= Size,
           todo' = SubSeq(todo, n + 1, Len(todo)) \/ (n = 1 /\ todo' = Tail(todo))
    PROVE  OnScript' /\ Pos' = Pos + n /\ Now' = Script(driver)[Pos + n]
<1> DEFINE u == todo'
           m == Len(todo)
           k == Len(u)
<1>1. todo \in Seq(AnyStep) /\ m \in Nat /\ m <= Size /\ Size \in Nat
    BY ScriptIs DEF OnScript
<1>2. m >= n + 1 /\ Pos = Size - m + 1
    BY <1>1 DEF Pos
<1>3. u \in Seq(AnyStep) /\ k = m - n /\ (\A i \in 1..(m - n) : u[i] = todo[n + i])
    <2>1. CASE u = SubSeq(todo, n + 1, Len(todo))
        BY <1>1, <1>2, <2>1, Rest
    <2>2. CASE n = 1 /\ u = Tail(todo)
        BY <1>1, <1>2, <2>2
    <2> QED BY <2>1, <2>2
<1>4. Size' = Size /\ Script(driver)' = Script(driver)
    BY DEF Size
<1>5. Pos' = Size - k + 1 /\ Now' = Head(u)
    BY <1>4 DEF Pos, Now
<1>e. (/\ u \in Seq(AnyStep) /\ k <= Size
       /\ (\A i \in 1..k : u[i] = Script(driver)[Size - k + i])
       /\ u # <<>>) => OnScript'
    BY <1>4, Zenon DEF OnScript
<1>6. \A i \in 1..m : todo[i] = Script(driver)[Size - m + i]
    BY DEF OnScript
<1> HIDE DEF u, m, k
<1>7. k \in Nat /\ k >= 1 /\ k <= Size /\ Size - k + 1 = Pos + n
    BY <1>1, <1>2, <1>3
<1>8. \A i \in 1..k : u[i] = Script(driver)[Size - k + i]
    <2> TAKE i \in 1..k
    <2>1. n + i \in 1..m /\ Size - m + (n + i) = Size - k + i
        BY <1>1, <1>2, <1>3
    <2>2. todo[n + i] = Script(driver)[Size - m + (n + i)]
        BY <1>6, <2>1
    <2> QED BY <1>3, <2>1, <2>2
<1>9. u # <<>> /\ Head(u) = u[1]
    BY <1>3, <1>7 DEF k
<1>10. u[1] = Script(driver)[Pos + n]
    BY <1>7, <1>8
<1> QED BY <1>3, <1>5, <1>e, <1>7, <1>8, <1>9, <1>10

\* What the place tells of the step there.
LEMMA StepFields ==
    ASSUME NEW h \in AnyStep
    PROVE  /\ h.op \in {"run", "read", "ask"} => h.dag \in Population
           /\ h.op \in {"run", "ask"} => h.questions \in 1..3
           /\ h.op \in {"run", "factory"} => h.backend \in Backend
           /\ h.op = "identical" => h.first \in {1, 7}
BY DEF AnyStep

LEMMA SubprocessPlaces ==
    ASSUME driver \in Driver, OnScript, verdict = "running", ~InProcess
    PROVE  /\ Now.op = "setup" <=> Pos = 1
           /\ Now.op = "migrate" <=> Pos = 2
           /\ Now.op = "flagd_up" <=> Pos = 3
           /\ Now.op = "judge" <=> Pos = Size
           /\ Now.op \in {"run", "read", "flip"} <=> Pos \in 4..(Size - 1)
           /\ Now.op \in {"setup", "migrate", "flagd_up", "judge", "run", "read", "flip"}
<1>1. /\ Framed(Script(driver)) /\ Size = Len(Script(driver)) /\ Size \in Nat /\ Size >= 4
      /\ Pos \in 1..Size /\ Now = Script(driver)[Pos]
    BY ScriptIs, NowIs DEF Size
<1> DEFINE s == Script(driver)
<1>2. /\ s[1].op = "setup" /\ s[2].op = "migrate" /\ s[3].op = "flagd_up" /\ s[Size].op = "judge"
      /\ \A k \in 4..(Size - 1) : s[k].op \in {"run", "read", "flip"}
    BY <1>1 DEF Framed
<1> HIDE DEF s
<1>3. Now = s[Pos]
    BY <1>1 DEF s
<1>4. CASE Pos \in 4..(Size - 1)
    BY <1>1, <1>2, <1>3, <1>4
<1>5. CASE Pos \in {1, 2, 3, Size}
    BY <1>1, <1>2, <1>3, <1>5
<1> QED BY <1>1, <1>4, <1>5

LEMMA InProcessPlaces ==
    ASSUME driver \in Driver, OnScript, verdict = "running", InProcess
    PROVE  /\ Now.op \in {"factory", "ask", "assert", "identical", "expose", "judge"}
           /\ Pos = Size => Now.op = "judge"
           /\ Now.op = "assert" => /\ Pos >= 3 /\ Script(driver)[Pos - 1].op = "ask"
                                  /\ Script(driver)[Pos - 2].op = "ask"
BY ScriptIs, NowIs DEF AsksOnly, Size

LEMMA FilePlaces ==
    ASSUME driver \in Driver, OnScript, verdict = "running", WritesFile
    PROVE  /\ Size = 8 /\ Pos \in 1..8
           /\ Now.op = "run" <=> Pos \in {4, 5}
           /\ Now.op = "read" <=> Pos \in {6, 7}
           /\ Now.op # "flip"
           /\ Pos \in {4, 6} => Now.dag = inDag
           /\ Pos \in {5, 7} => Now.dag = outDag
           /\ Pos \in {4, 5} => Now.questions = IF driver = "gates_listener" THEN 3 ELSE 2
<1> DEFINE n == IF driver = "gates_listener" THEN 3 ELSE 2
           s == Script(driver)
<1>1. BothThenBoth(s, n) /\ Pos \in 1..Size /\ Now = s[Pos] /\ ~InProcess
    BY ScriptIs, NowIs, Kinds
<1> HIDE DEF n, s
<1>2. /\ Len(s) = 8
      /\ s[4].op = "run" /\ s[4].dag = inDag /\ s[4].questions = n
      /\ s[5].op = "run" /\ s[5].dag = outDag /\ s[5].questions = n
      /\ s[6].op = "read" /\ s[6].dag = inDag /\ s[7].op = "read" /\ s[7].dag = outDag
    BY <1>1 DEF BothThenBoth
<1>3. Size = 8
    BY <1>2 DEF Size, s
<1>4. /\ Now.op = "setup" <=> Pos = 1
      /\ Now.op = "migrate" <=> Pos = 2
      /\ Now.op = "flagd_up" <=> Pos = 3
      /\ Now.op = "judge" <=> Pos = 8
    BY <1>1, <1>3, SubprocessPlaces
<1>5. Pos \in 1..8
    BY <1>1, <1>3
<1>6. CASE Pos \in {1, 2, 3, 8}
    BY <1>3, <1>4, <1>6
<1>7. CASE Pos \in {4, 5, 6, 7}
    BY <1>1, <1>2, <1>3, <1>7 DEF n
<1> QED BY <1>5, <1>6, <1>7

LEMMA KillSwitchPlaces ==
    ASSUME driver \in Driver, OnScript, verdict = "running", driver = "kill_switch"
    PROVE  /\ Size = 9 /\ Pos \in 1..9
           /\ Now.op = "run" <=> Pos \in {4, 7}
           /\ Now.op = "read" <=> Pos \in {5, 8}
           /\ Now.op = "flip" <=> Pos = 6
           /\ Pos \in {4, 5, 7, 8} => Now.dag = inDag
           /\ Pos \in {4, 7} => Now.backend = "flagd"
<1> DEFINE s == KillSwitch
<1>1. s = Script(driver) /\ Pos \in 1..Size /\ Now = s[Pos] /\ ~InProcess
    BY Scripts, NowIs, Kinds
<1>2. /\ Len(s) = 9
      /\ \A k \in {4, 7} : s[k].op = "run" /\ s[k].dag = inDag /\ s[k].backend = "flagd"
      /\ \A k \in {5, 8} : s[k].op = "read" /\ s[k].dag = inDag
      /\ s[6].op = "flip"
    BY KillSwitchIs
<1> HIDE DEF s
<1>3. Size = 9
    BY <1>1, <1>2 DEF Size
<1>4. /\ Now.op = "setup" <=> Pos = 1
      /\ Now.op = "migrate" <=> Pos = 2
      /\ Now.op = "flagd_up" <=> Pos = 3
      /\ Now.op = "judge" <=> Pos = 9
    BY <1>1, <1>3, SubprocessPlaces
<1>5. Pos \in 1..9
    BY <1>1, <1>3
<1>6. CASE Pos \in {1, 2, 3, 9}
    BY <1>3, <1>4, <1>6
<1>7. CASE Pos \in {4, 5, 6, 7, 8}
    BY <1>1, <1>2, <1>3, <1>7
<1> QED BY <1>5, <1>6, <1>7

LEMMA AlternatingPlaces ==
    ASSUME driver \in Driver, OnScript, verdict = "running", Alternates
    PROVE  /\ Now.op = "flip" => driver = "kill_switch"
           /\ Pos + 1 <= Size =>
                /\ Now.op = "run" <=> Script(driver)[Pos + 1].op = "read"
                /\ Now.op = "run" => Script(driver)[Pos + 1].dag = Now.dag
<1>1. Paired(Script(driver)) /\ Pos \in 1..Size /\ Now = Script(driver)[Pos] /\ Size \in Nat
    BY ScriptIs, NowIs
<1>2. driver # "kill_switch" => NoFlip(Script(driver))
    BY ScriptIs
<1>3. Pos + 1 <= Size => Pos \in 1..(Len(Script(driver)) - 1)
    BY <1>1 DEF Size
<1>4. Pos \in 1..Len(Script(driver))
    BY <1>1 DEF Size
<1> QED BY <1>1, <1>2, <1>3, <1>4 DEF Paired, NoFlip

\* The step is done, and it was not the verdict.
LEMMA Advanced ==
    ASSUME driver \in Driver, OnScript, verdict = "running", UNCHANGED driver,
           Done, Now.op # "judge"
    PROVE  /\ OnScript' /\ Pos' = Pos + 1 /\ Now' = Script(driver)[Pos + 1]
           /\ Pos + 1 <= Size /\ Pos \in 1..Size /\ Size \in Nat
<1>1. Pos \in 1..Size /\ Now = Script(driver)[Pos] /\ Script(driver)[Size].op = "judge" /\ Size \in Nat
    BY NowIs, ScriptIs
<1>2. Pos # Size
    BY <1>1
<1>3. Pos + 1 <= Size
    BY <1>1, <1>2
<1> QED BY <1>1, <1>3, Onward DEF Done

-----------------------------------------------------------------------------
(* Every cell is of its run.                                               *)

Emptied == [d \in Population |-> NoRow]

LEMMA SameKind ==
    ASSUME UNCHANGED driver
    PROVE  /\ InProcess' <=> InProcess
           /\ Alternates' <=> Alternates
           /\ WritesFile' <=> WritesFile
BY DEF InProcess, Alternates, WritesFile

\* A step that neither runs, asks nor reads.
LEMMA PlainKeeps ==
    ASSUME CellInv, verdict = "running", verdict' = "running", Done,
           Now.op \notin {"run", "read", "ask", "judge"},
           UNCHANGED <<driver, attempt, answers, runs, got>>,
           provider' \in Backend \cup {Nobody},
           rows' = Emptied \/ (UNCHANGED rows /\ Now.op # "setup")
    PROVE  CellInv'
<1>1. /\ DriverTypes /\ OnScript /\ InHand /\ Counted /\ RowsAreFresh /\ EveryCellIsItsRuns
      /\ driver \in Driver
    BY DEF CellInv, DriverTypes
<1>2. /\ OnScript' /\ Pos' = Pos + 1 /\ Now' = Script(driver)[Pos + 1] /\ Pos + 1 <= Size
      /\ Pos \in 1..Size /\ Size \in Nat
    BY <1>1, Advanced
<1>3. (InProcess' <=> InProcess) /\ (Alternates' <=> Alternates) /\ (WritesFile' <=> WritesFile)
    BY SameKind
<1>4. DriverTypes'
    BY <1>1 DEF DriverTypes, Emptied
<1>5. answers = <<>> /\ Len(answers) = 0 /\ Now.op # "read"
    BY <1>1 DEF InHand
<1>6. InHand'
    <2>1. Now' \in AnyStep
        BY <1>1, <1>2, ScriptIs DEF Size
    <2>2. Now'.op \in {"run", "ask"} => Now'.questions \in 1..3
        BY <2>1, StepFields
    <2> QED BY <1>5, <2>2 DEF InHand
<1>7. Alternates => Now'.op # "read"
    BY <1>1, <1>2, AlternatingPlaces
<1>8. driver = "kill_switch" => Pos \in {1, 2, 3, 6, 9}
    BY <1>1, KillSwitchPlaces
<1>9. WritesFile => Pos \in {1, 2, 3, 8} /\ Size = 8
    BY <1>1, FilePlaces
<1>10. Counted'
    <2>1. InProcess => runs' = Len(got')
        BY <1>1 DEF Counted
    <2>2. Alternates => Now'.op # "read" /\ runs' = Len(got')
        BY <1>1, <1>5, <1>7 DEF Counted
    <2>3. driver = "kill_switch" => runs' = IF Pos' <= 4 THEN 0 ELSE IF Pos' <= 7 THEN 1 ELSE 2
        BY <1>1, <1>2, <1>8 DEF Counted
    <2>4. WritesFile => Pos \in {1, 2, 3} /\ Pos' <= 4 /\ runs' = 0 /\ Len(got') = 0
        BY <1>1, <1>2, <1>9 DEF Counted
    <2>5. WritesFile => /\ runs' = IF Pos' <= 4 THEN 0 ELSE IF Pos' = 5 THEN 1 ELSE 2
                        /\ Len(got') = IF Pos' <= 6 THEN 0 ELSE IF Pos' = 7 THEN 1 ELSE 2
        BY <1>2, <2>4
    <2> QED BY <1>3, <2>1, <2>2, <2>3, <2>5 DEF Counted
<1>11. RowsAreFresh'
    <2>1. WritesFile => /\ rows'[inDag] = NoRow \/ OfThis(rows[inDag], inDag, 1)'
                        /\ rows'[outDag] = NoRow \/ OfThis(rows[outDag], outDag, 2)'
        <3>1. CASE rows' = Emptied
            BY <3>1 DEF Emptied, Population
        <3>2. CASE UNCHANGED rows /\ Now.op # "setup"
            <4>1. WritesFile => Pos >= 2
                BY <1>1, <1>2, <3>2, SubprocessPlaces, Kinds
            <4> QED BY <1>1, <3>2, <4>1 DEF RowsAreFresh, OfThis
        <3> QED BY <3>1, <3>2
    <2> QED BY <1>3, <1>7, <2>1 DEF RowsAreFresh
<1>12. EveryCellIsItsRuns'
    BY <1>1 DEF EveryCellIsItsRuns
<1> QED BY <1>2, <1>4, <1>6, <1>10, <1>11, <1>12 DEF CellInv

LEMMA TailIs ==
    ASSUME NEW S, NEW t \in Seq(S), Len(t) >= 1, NEW u, u = Tail(t)
    PROVE  u \in Seq(S) /\ Len(u) = Len(t) - 1 /\ \A i \in 1..Len(u) : u[i] = t[i + 1]
OBVIOUS

\* The driver ends, in one way or another.
LEMMA EndKeeps ==
    ASSUME CellInv, verdict' \in {"ok", "failed", "died"},
           UNCHANGED <<driver, attempt, answers, runs, got, provider, rows>>,
           UNCHANGED todo \/ (verdict = "running" /\ Done)
    PROVE  CellInv'
<1>1. DriverTypes /\ OnScript /\ EveryCellIsItsRuns /\ driver \in Driver
    BY DEF CellInv, DriverTypes
<1>2. DriverTypes' /\ EveryCellIsItsRuns' /\ InHand' /\ Counted' /\ RowsAreFresh'
    BY <1>1 DEF DriverTypes, EveryCellIsItsRuns, InHand, Counted, RowsAreFresh
<1>3. OnScript'
    <2>1. CASE UNCHANGED todo
        BY <1>1, <2>1 DEF OnScript, Size
    <2>2. CASE verdict = "running" /\ Done
        <3> DEFINE u == todo'
                   m == Len(todo)
                   k == Len(u)
        <3>1. todo \in Seq(AnyStep) /\ m \in Nat /\ m >= 1 /\ m <= Size /\ Size \in Nat /\ u = Tail(todo)
            BY <1>1, <2>2, NowIs, ScriptIs DEF OnScript, Done
        <3>2. u \in Seq(AnyStep) /\ k = m - 1 /\ \A i \in 1..k : u[i] = todo[i + 1]
            BY <3>1, TailIs
        <3>3. \A i \in 1..m : todo[i] = Script(driver)[Size - m + i]
            BY <1>1 DEF OnScript
        <3>4. Size' = Size /\ Script(driver)' = Script(driver) /\ verdict' # "running"
            BY DEF Size
        <3>5. (/\ u \in Seq(AnyStep) /\ k <= Size
               /\ \A i \in 1..k : u[i] = Script(driver)[Size - k + i]) => OnScript'
            BY <3>4, Zenon DEF OnScript
        <3> HIDE DEF u, m, k
        <3>6. ASSUME NEW i \in 1..k PROVE u[i] = Script(driver)[Size - k + i]
            <4>0. m \in Nat /\ Size \in Nat /\ k = m - 1
                BY <3>1, <3>2
            <4>1. i + 1 \in 1..m /\ Size - m + (i + 1) = Size - k + i
                BY <4>0
            <4>2. todo[i + 1] = Script(driver)[Size - m + (i + 1)]
                BY <3>3, <4>1
            <4> QED BY <3>2, <4>1, <4>2
        <3>7. k <= Size
            BY <3>1, <3>2
        <3> QED BY <3>2, <3>5, <3>6, <3>7
    <2> QED BY <2>1, <2>2
<1> QED BY <1>2, <1>3 DEF CellInv

\* Nothing of the driver changes.
LEMMA StillKeeps ==
    ASSUME CellInv,
           UNCHANGED <<driver, attempt, todo, verdict, answers, runs, got, provider, rows>>
    PROVE  CellInv'
<1>1. Size' = Size /\ Pos' = Pos /\ Now' = Now
    BY DEF Size, Pos, Now
<1>2. (InProcess' <=> InProcess) /\ (Alternates' <=> Alternates) /\ (WritesFile' <=> WritesFile)
    BY SameKind
<1>3. DriverTypes' /\ EveryCellIsItsRuns'
    BY DEF CellInv, DriverTypes, EveryCellIsItsRuns
<1>4. OnScript'
    BY <1>1 DEF CellInv, OnScript
<1>5. InHand'
    BY <1>1 DEF CellInv, InHand
<1>6. Counted'
    BY <1>1, <1>2 DEF CellInv, Counted
<1>7. RowsAreFresh'
    BY <1>1, <1>2 DEF CellInv, RowsAreFresh, OfThis
<1> QED BY <1>3, <1>4, <1>5, <1>6, <1>7 DEF CellInv

LEMMA AskKeeps == ASSUME CellInv, AskFlag PROVE CellInv'
<1>1. /\ DriverTypes /\ OnScript /\ InHand /\ Counted /\ RowsAreFresh /\ EveryCellIsItsRuns
      /\ driver \in Driver
    BY DEF CellInv, DriverTypes
<1>2. /\ verdict = "running" /\ Now.op \in {"run", "ask"} /\ Len(answers) < Now.questions
      /\ \E b, d : answers' = Append(answers, AnswerOf(b, d))
      /\ UNCHANGED <<driver, attempt, todo, verdict, rows, runs, got, provider>>
    BY DEF AskFlag, Doing, Now
<1>3. \A b, d : AnswerOf(b, d) \in {"in", "out", "none"}
    BY DEF AnswerOf
<1>4. answers' \in Seq({"in", "out", "none"}) /\ Len(answers') = Len(answers) + 1 /\ Len(answers) \in Nat
    BY <1>1, <1>2, <1>3 DEF DriverTypes
<1>5. Size' = Size /\ Pos' = Pos /\ Now' = Now
    BY <1>2 DEF Size, Pos, Now
<1>6. (InProcess' <=> InProcess) /\ (Alternates' <=> Alternates) /\ (WritesFile' <=> WritesFile)
    BY <1>2, SameKind
<1>7. DriverTypes' /\ EveryCellIsItsRuns'
    BY <1>1, <1>2, <1>4 DEF DriverTypes, EveryCellIsItsRuns
<1>8. OnScript'
    BY <1>1, <1>2, <1>5 DEF OnScript
<1>9. InHand'
    <2>1. Now.questions \in 1..3
        BY <1>1, <1>2, NowIs, StepFields
    <2>2. Len(answers') <= Now.questions
        BY <1>2, <1>4, <2>1
    <2> QED BY <1>2, <1>5, <2>2 DEF InHand
<1>10. Counted'
    BY <1>1, <1>2, <1>5, <1>6 DEF Counted
<1>11. RowsAreFresh'
    BY <1>1, <1>2, <1>5, <1>6 DEF RowsAreFresh, OfThis
<1> QED BY <1>7, <1>8, <1>9, <1>10, <1>11 DEF CellInv

\* What a finished step leaves in hand.
LEMMA NothingInHand ==
    ASSUME driver \in Driver, UNCHANGED driver, Pos + 1 <= Size, Pos \in 1..Size,
           Now' = Script(driver)[Pos + 1], answers' = <<>>
    PROVE  InHand' /\ Now' \in AnyStep
<1>1. Now' \in AnyStep
    BY ScriptIs DEF Size
<1>2. Now'.op \in {"run", "ask"} => Now'.questions \in 1..3
    BY <1>1, StepFields
<1>3. Len(answers') = 0
    OBVIOUS
<1> QED BY <1>1, <1>2, <1>3 DEF InHand

\* The next read finds this run's row, or, of a file, none.
LEMMA RunKeeps == ASSUME CellInv, NEW state \in {"success", "failed"}, RunEnds(state) PROVE CellInv'
<1>1. /\ DriverTypes /\ OnScript /\ InHand /\ Counted /\ RowsAreFresh /\ EveryCellIsItsRuns
      /\ driver \in Driver
    BY DEF CellInv, DriverTypes
<1> DEFINE c == Cell(Now.backend, Now.dag, state)
<1>2. /\ verdict = "running" /\ Now.op = "run" /\ Done /\ runs' = runs + 1 /\ answers' = <<>>
      /\ rows' = IF WritesFile /\ state # "success" THEN rows ELSE [rows EXCEPT ![Now.dag] = c]
      /\ UNCHANGED <<driver, attempt, verdict, got, provider>>
    BY DEF RunEnds, Doing, Now
<1>3. /\ OnScript' /\ Pos' = Pos + 1 /\ Now' = Script(driver)[Pos + 1] /\ Pos + 1 <= Size
      /\ Pos \in 1..Size /\ Size \in Nat
    BY <1>1, <1>2, Advanced
<1>4. (InProcess' <=> InProcess) /\ (Alternates' <=> Alternates) /\ (WritesFile' <=> WritesFile)
    BY <1>2, SameKind
<1>5. Now.dag \in Population /\ Now.backend \in Backend
    BY <1>1, <1>2, NowIs, StepFields
<1>6. OfThis(c, Now.dag, runs + 1)
    BY <1>1, <1>5 DEF DriverTypes, OfThis, Cell, CellRecord, Population, Backend, Container
<1> HIDE DEF c
<1>7. rows \in [Population -> CellRecord \cup {NoRow}]
    BY <1>1 DEF DriverTypes
<1>8. /\ rows' \in [Population -> CellRecord \cup {NoRow}]
      /\ ~WritesFile => rows'[Now.dag] = c
      /\ rows'[Now.dag] \in {rows[Now.dag], c}
      /\ \A d \in Population : d # Now.dag => rows'[d] = rows[d]
    BY <1>2, <1>5, <1>6, <1>7 DEF OfThis
<1>9. DriverTypes' /\ EveryCellIsItsRuns' /\ runs \in Nat /\ Len(got) \in Nat
    BY <1>1, <1>2, <1>8 DEF DriverTypes, EveryCellIsItsRuns
<1>10. InHand'
    BY <1>1, <1>2, <1>3, NothingInHand
<1>11. ~InProcess
    BY <1>1, <1>2, InProcessPlaces
<1>12. Alternates => Now'.op = "read" /\ Now'.dag = Now.dag /\ runs = Len(got)
    BY <1>1, <1>2, <1>3, AlternatingPlaces DEF Counted
<1>13. Counted'
    <2>1. Alternates => Now'.op = "read" /\ runs' = Len(got') + 1
        BY <1>2, <1>12
    <2>2. driver = "kill_switch" => runs' = IF Pos' <= 4 THEN 0 ELSE IF Pos' <= 7 THEN 1 ELSE 2
        <3> SUFFICES ASSUME driver = "kill_switch" PROVE runs' = IF Pos' <= 4 THEN 0 ELSE IF Pos' <= 7 THEN 1 ELSE 2
            OBVIOUS
        <3>1. Pos \in {4, 7}
            BY <1>1, <1>2, KillSwitchPlaces
        <3>2. runs = IF Pos <= 4 THEN 0 ELSE IF Pos <= 7 THEN 1 ELSE 2
            BY <1>1, <1>2 DEF Counted
        <3> QED BY <1>2, <1>3, <3>1, <3>2
    <2>3. WritesFile => /\ runs' = IF Pos' <= 4 THEN 0 ELSE IF Pos' = 5 THEN 1 ELSE 2
                        /\ Len(got') = IF Pos' <= 6 THEN 0 ELSE IF Pos' = 7 THEN 1 ELSE 2
        <3> SUFFICES ASSUME WritesFile
                     PROVE  /\ runs' = IF Pos' <= 4 THEN 0 ELSE IF Pos' = 5 THEN 1 ELSE 2
                            /\ Len(got') = IF Pos' <= 6 THEN 0 ELSE IF Pos' = 7 THEN 1 ELSE 2
            OBVIOUS
        <3>1. Pos \in {4, 5}
            BY <1>1, <1>2, FilePlaces
        <3>2. /\ runs = IF Pos <= 4 THEN 0 ELSE IF Pos = 5 THEN 1 ELSE 2
              /\ Len(got) = IF Pos <= 6 THEN 0 ELSE IF Pos = 7 THEN 1 ELSE 2
            BY <1>1, <1>2 DEF Counted
        <3> QED BY <1>2, <1>3, <3>1, <3>2
    <2>4. InProcess => runs' = Len(got')
        BY <1>11
    <2> QED BY <1>2, <1>4, <2>1, <2>2, <2>3, <2>4 DEF Counted
<1>14. RowsAreFresh'
    <2>1. ASSUME Alternates PROVE OfThis(rows[Now.dag], Now.dag, runs)'
        <3>1. rows'[Now'.dag] = c /\ Now'.dag = Now.dag
            BY <1>1, <1>8, <1>12, <2>1, Kinds
        <3> QED BY <1>2, <1>6, <3>1 DEF OfThis
    <2>2. ASSUME WritesFile
          PROVE  /\ rows'[inDag] = NoRow \/ OfThis(rows[inDag], inDag, 1)'
                 /\ rows'[outDag] = NoRow \/ OfThis(rows[outDag], outDag, 2)'
        <3>1. /\ Pos \in {4, 5}
              /\ Pos = 4 => Now.dag = inDag
              /\ Pos = 5 => Now.dag = outDag
            BY <1>1, <1>2, <2>2, FilePlaces
        <3>2. runs + 1 = IF Pos = 4 THEN 1 ELSE 2
            BY <1>1, <1>2, <2>2, <3>1 DEF Counted
        <3>3. /\ rows[inDag] = NoRow \/ OfThis(rows[inDag], inDag, 1)
              /\ rows[outDag] = NoRow \/ OfThis(rows[outDag], outDag, 2)
            BY <1>1, <1>2, <2>2, <3>1 DEF RowsAreFresh
        <3>4. CASE Pos = 4
            <4>1. rows'[outDag] = rows[outDag] /\ rows'[inDag] \in {rows[inDag], c} /\ OfThis(c, inDag, 1)
                BY <1>6, <1>8, <3>1, <3>2, <3>4, DriverAssumption DEF Population
            <4> QED BY <1>2, <3>3, <4>1 DEF OfThis
        <3>5. CASE Pos = 5
            <4>1. rows'[inDag] = rows[inDag] /\ rows'[outDag] \in {rows[outDag], c} /\ OfThis(c, outDag, 2)
                BY <1>6, <1>8, <3>1, <3>2, <3>5, DriverAssumption DEF Population
            <4> QED BY <1>2, <3>3, <4>1 DEF OfThis
        <3> QED BY <3>1, <3>4, <3>5
    <2> QED BY <1>4, <2>1, <2>2 DEF RowsAreFresh
<1> QED BY <1>3, <1>9, <1>10, <1>13, <1>14 DEF CellInv

\* The row read back is the next cell.
LEMMA CellRead ==
    ASSUME DriverTypes, EveryCellIsItsRuns, NEW c \in CellRecord, c.attempt = attempt,
           c.run = Len(got) + 1, got' = Append(got, c), UNCHANGED attempt
    PROVE  /\ got' \in Seq(CellRecord) /\ Len(got') = Len(got) + 1 /\ Len(got) \in Nat
           /\ \A i \in 1..Len(got) : got'[i] = got[i]
           /\ got'[Len(got) + 1] = c
           /\ EveryCellIsItsRuns'
<1>1. got \in Seq(CellRecord)
    BY DEF DriverTypes
<1>2. /\ got' \in Seq(CellRecord) /\ Len(got') = Len(got) + 1 /\ Len(got) \in Nat
      /\ \A i \in 1..Len(got) : got'[i] = got[i]
      /\ got'[Len(got) + 1] = c
      /\ DOMAIN got' = 1..(Len(got) + 1) /\ DOMAIN got = 1..Len(got)
    BY <1>1
<1>3. EveryCellIsItsRuns'
    <2> SUFFICES ASSUME NEW i \in 1..(Len(got) + 1) PROVE got'[i].attempt = attempt /\ got'[i].run = i
        BY <1>2 DEF EveryCellIsItsRuns
    <2>1. CASE i \in 1..Len(got)
        BY <1>2, <2>1 DEF EveryCellIsItsRuns
    <2>2. CASE i = Len(got) + 1
        BY <1>2, <2>2
    <2> QED BY <1>2, <2>1, <2>2
<1> QED BY <1>2, <1>3

LEMMA ReadKeeps ==
    ASSUME CellInv, ReadBack, verdict' = "running"
    PROVE  CellInv'
<1>1. /\ DriverTypes /\ OnScript /\ InHand /\ Counted /\ RowsAreFresh /\ EveryCellIsItsRuns
      /\ driver \in Driver
    BY DEF CellInv, DriverTypes
<1> DEFINE c == rows[Now.dag]
<1>2. /\ verdict = "running" /\ Now.op = "read" /\ c # NoRow /\ got' = Append(got, c) /\ Done
      /\ UNCHANGED <<driver, attempt, verdict, rows, answers, runs, provider>>
    BY DEF ReadBack, Doing, Die, Now
<1>3. /\ OnScript' /\ Pos' = Pos + 1 /\ Now' = Script(driver)[Pos + 1] /\ Pos + 1 <= Size
      /\ Pos \in 1..Size /\ Size \in Nat
    BY <1>1, <1>2, Advanced
<1>4. (InProcess' <=> InProcess) /\ (Alternates' <=> Alternates) /\ (WritesFile' <=> WritesFile)
    BY <1>2, SameKind
<1>5. Now.dag \in Population /\ answers = <<>>
    BY <1>1, <1>2, NowIs, StepFields DEF InHand
<1>6. c \in CellRecord
    BY <1>1, <1>2, <1>5 DEF DriverTypes
<1>7. ~InProcess
    BY <1>1, <1>2, InProcessPlaces
<1>8. Alternates => /\ c.attempt = attempt /\ c.run = runs /\ runs = Len(got) + 1
                    /\ Now'.op # "read"
    BY <1>1, <1>2, <1>3, AlternatingPlaces DEF Counted, RowsAreFresh, OfThis
<1>9. WritesFile => /\ Pos \in {6, 7} /\ runs = 2
                    /\ Len(got) = IF Pos = 6 THEN 0 ELSE 1
                    /\ c.attempt = attempt /\ c.run = IF Pos = 6 THEN 1 ELSE 2
    <2> SUFFICES ASSUME WritesFile
                 PROVE  /\ Pos \in {6, 7} /\ runs = 2 /\ Len(got) = IF Pos = 6 THEN 0 ELSE 1
                        /\ c.attempt = attempt /\ c.run = IF Pos = 6 THEN 1 ELSE 2
        OBVIOUS
    <2>1. Pos \in {6, 7} /\ Now.dag = IF Pos = 6 THEN inDag ELSE outDag
        BY <1>1, <1>2, FilePlaces
    <2>2. OfThis(c, Now.dag, IF Pos = 6 THEN 1 ELSE 2)
        BY <1>1, <1>2, <2>1 DEF RowsAreFresh
    <2> QED BY <1>1, <1>2, <2>1, <2>2 DEF Counted, OfThis
<1>10. c.attempt = attempt /\ c.run = Len(got) + 1
    <2>0. Alternates \/ WritesFile
        BY <1>1, <1>7, Kinds
    <2>1. CASE Alternates
        BY <1>8, <2>1
    <2>2. CASE WritesFile
        <3> HIDE DEF c
        <3>1. /\ Pos = 6 \/ Pos = 7
              /\ Len(got) = IF Pos = 6 THEN 0 ELSE 1
              /\ c.attempt = attempt /\ c.run = IF Pos = 6 THEN 1 ELSE 2
            BY <1>9, <2>2
        <3> QED BY <3>1
    <2> QED BY <2>0, <2>1, <2>2
<1>11. EveryCellIsItsRuns' /\ got' \in Seq(CellRecord) /\ Len(got') = Len(got) + 1 /\ Len(got) \in Nat
    <2> HIDE DEF c
    <2> QED BY <1>1, <1>2, <1>6, <1>10, CellRead
<1>12. DriverTypes'
    BY <1>1, <1>2, <1>11 DEF DriverTypes
<1>13. InHand'
    BY <1>1, <1>2, <1>3, <1>5, NothingInHand
<1>14. Counted'
    <2>1. Alternates => Now'.op # "read" /\ runs' = Len(got')
        BY <1>2, <1>8, <1>11
    <2>2. driver = "kill_switch" => runs' = IF Pos' <= 4 THEN 0 ELSE IF Pos' <= 7 THEN 1 ELSE 2
        <3> SUFFICES ASSUME driver = "kill_switch" PROVE runs' = IF Pos' <= 4 THEN 0 ELSE IF Pos' <= 7 THEN 1 ELSE 2
            OBVIOUS
        <3>1. Pos \in {5, 8}
            BY <1>1, <1>2, KillSwitchPlaces
        <3>2. runs = IF Pos <= 4 THEN 0 ELSE IF Pos <= 7 THEN 1 ELSE 2
            BY <1>1, <1>2 DEF Counted
        <3> QED BY <1>2, <1>3, <3>1, <3>2
    <2>3. WritesFile => /\ runs' = IF Pos' <= 4 THEN 0 ELSE IF Pos' = 5 THEN 1 ELSE 2
                        /\ Len(got') = IF Pos' <= 6 THEN 0 ELSE IF Pos' = 7 THEN 1 ELSE 2
        BY <1>2, <1>3, <1>9, <1>11
    <2>4. InProcess => runs' = Len(got')
        BY <1>7
    <2> QED BY <1>2, <1>4, <2>1, <2>2, <2>3, <2>4 DEF Counted
<1>15. RowsAreFresh'
    BY <1>1, <1>2, <1>3, <1>4, <1>8, <1>9 DEF RowsAreFresh, OfThis
<1> QED BY <1>3, <1>11, <1>12, <1>13, <1>14, <1>15 DEF CellInv

LEMMA AnswerKeeps == ASSUME CellInv, AskEnds PROVE CellInv'
<1>1. /\ DriverTypes /\ OnScript /\ InHand /\ Counted /\ RowsAreFresh /\ EveryCellIsItsRuns
      /\ driver \in Driver
    BY DEF CellInv, DriverTypes
<1> DEFINE c == Cell(provider, Now.dag, "parsed")
<1>2. /\ verdict = "running" /\ Now.op = "ask" /\ Done /\ runs' = runs + 1 /\ answers' = <<>>
      /\ got' = Append(got, c)
      /\ UNCHANGED <<driver, attempt, verdict, rows, provider>>
    BY DEF AskEnds, Doing, Now
<1>3. /\ OnScript' /\ Pos' = Pos + 1 /\ Now' = Script(driver)[Pos + 1] /\ Pos + 1 <= Size
      /\ Pos \in 1..Size /\ Size \in Nat
    BY <1>1, <1>2, Advanced
<1>4. (InProcess' <=> InProcess) /\ (Alternates' <=> Alternates) /\ (WritesFile' <=> WritesFile)
    BY <1>2, SameKind
<1>5. Now.dag \in Population
    BY <1>1, <1>2, NowIs, StepFields
<1>6. InProcess /\ ~Alternates /\ ~WritesFile /\ driver # "kill_switch"
    BY <1>1, <1>2, SubprocessPlaces, Kinds
<1>7. runs = Len(got)
    BY <1>1, <1>2, <1>6 DEF Counted
<1>8. c \in CellRecord /\ c.attempt = attempt /\ c.run = Len(got) + 1
    BY <1>1, <1>5, <1>7 DEF DriverTypes, Cell, CellRecord, Population, Backend, Container
<1>9. EveryCellIsItsRuns' /\ got' \in Seq(CellRecord) /\ Len(got') = Len(got) + 1 /\ Len(got) \in Nat
    <2> HIDE DEF c
    <2> QED BY <1>1, <1>2, <1>8, CellRead
<1>10. DriverTypes'
    BY <1>1, <1>2, <1>9 DEF DriverTypes
<1>11. InHand'
    BY <1>1, <1>2, <1>3, NothingInHand
<1>12. Counted' /\ RowsAreFresh'
    BY <1>2, <1>4, <1>6, <1>7, <1>9 DEF Counted, RowsAreFresh
<1> QED BY <1>3, <1>9, <1>10, <1>11, <1>12 DEF CellInv

\* A driver that starts, the first time or again.
Beginning ==
    /\ driver \in Driver /\ attempt \in Nat /\ todo = Script(driver)
    /\ answers = <<>> /\ runs = 0 /\ got = <<>> /\ provider = Nobody
    /\ verdict = "running" /\ rows \in [Population -> CellRecord \cup {NoRow}]

LEMMA FirstPlace ==
    Beginning => /\ OnScript /\ Pos = 1 /\ Now = Script(driver)[1] /\ Now \in AnyStep
                 /\ Now.op \notin {"run", "read"}
<1> SUFFICES ASSUME Beginning
             PROVE  /\ OnScript /\ Pos = 1 /\ Now = Script(driver)[1] /\ Now \in AnyStep
                    /\ Now.op \notin {"run", "read"}
    OBVIOUS
<1>1. driver \in Driver /\ todo = Script(driver) /\ verdict = "running"
    BY DEF Beginning
<1>2. Script(driver) \in Seq(AnyStep) /\ Size \in Nat /\ Size >= 4 /\ Len(todo) = Size
    BY <1>1, ScriptIs DEF Size
<1>3. OnScript
    <2>1. todo # <<>>
        BY <1>1, <1>2
    <2>2. \A i \in 1..Len(todo) : todo[i] = Script(driver)[Size - Len(todo) + i]
        BY <1>1, <1>2
    <2> QED BY <1>1, <1>2, <2>1, <2>2 DEF OnScript
<1>4. Pos = 1
    BY <1>2 DEF Pos
<1>5. Now = Script(driver)[1] /\ Now \in AnyStep
    BY <1>1, <1>3, <1>4, NowIs
<1>6. Now.op \notin {"run", "read"}
    BY <1>1, <1>2, <1>3, <1>4, SubprocessPlaces, InProcessPlaces
<1> QED BY <1>3, <1>4, <1>5, <1>6

AtStart == Pos = 1

LEMMA FirstAgain == Beginning' => AtStart'
<1>1. Beginning => AtStart
    BY FirstPlace DEF AtStart
<1> QED BY <1>1, PTL

LEMMA BeginsFresh == Beginning => CellInv
<1> SUFFICES ASSUME Beginning PROVE CellInv
    OBVIOUS
<1>1. /\ OnScript /\ Pos = 1 /\ Now \in AnyStep /\ Now.op \notin {"run", "read"}
    BY FirstPlace
<1>2. DriverTypes /\ EveryCellIsItsRuns
    BY DEF Beginning, DriverTypes, EveryCellIsItsRuns
<1>3. InHand
    BY <1>1, StepFields DEF Beginning, InHand
<1>4. Counted
    BY <1>1 DEF Beginning, Counted
<1>5. RowsAreFresh
    BY <1>1 DEF Beginning, RowsAreFresh
<1> QED BY <1>1, <1>2, <1>3, <1>4, <1>5 DEF CellInv

LEMMA BeginsAgain == Beginning' => CellInv'
BY BeginsFresh, PTL

LEMMA CellInit == DriverInit => CellInv
<1> SUFFICES ASSUME DriverInit PROVE CellInv
    OBVIOUS
<1>1. Beginning
    BY DEF DriverInit, Beginning, Population
<1> QED BY <1>1, BeginsFresh

LEMMA RerunKeeps == ASSUME CellInv, Rerun PROVE CellInv'
<1>1. Script(driver)' = Script(driver)
    BY DEF Rerun
<1>2. /\ driver' = driver /\ attempt' = attempt + 1 /\ todo' = Script(driver) /\ rows' = rows
      /\ answers' = <<>> /\ runs' = 0 /\ got' = <<>> /\ provider' = Nobody /\ verdict' = "running"
    BY DEF Rerun
<1>3. driver \in Driver /\ attempt \in Nat /\ rows \in [Population -> CellRecord \cup {NoRow}]
    BY DEF CellInv, DriverTypes
<1>4. Beginning'
    BY <1>1, <1>2, <1>3 DEF Beginning
<1> QED BY <1>4, BeginsAgain

\* A factory that raised leaves out the rest of its backend.
LEMMA Skipped ==
    ASSUME CellInv, driver = "run_all_backends", verdict = "running", Now.op = "factory",
           SkipBackend, UNCHANGED driver
    PROVE  /\ OnScript' /\ Pos \in {1, 5, 9, 13, 17} /\ Pos' = Pos + 4
           /\ Now' = Script(driver)[Pos + 4]
<1>1. driver \in Driver /\ OnScript /\ Script(driver) = RunAllBackends /\ Size = 23
    BY Scripts, RunAllBackendsIs DEF CellInv, DriverTypes, Size
<1>2. Pos \in 1..23 /\ Now = RunAllBackends[Pos]
    BY <1>1, NowIs
<1>3. Pos \in {1, 5, 9, 13, 17}
    BY <1>2, RunAllBackendsIs
<1>4. Pos + 4 <= Size
    BY <1>1, <1>3
<1> QED BY <1>1, <1>3, <1>4, Onward DEF SkipBackend

LEMMA SkipKeeps ==
    ASSUME CellInv, driver = "run_all_backends", verdict = "running", Now.op = "factory",
           SkipBackend, UNCHANGED <<driver, attempt, verdict, answers, runs, got, rows>>,
           provider' \in Backend \cup {Nobody}
    PROVE  CellInv'
<1>1. /\ DriverTypes /\ OnScript /\ InHand /\ Counted /\ EveryCellIsItsRuns /\ driver \in Driver
    BY DEF CellInv, DriverTypes
<1>2. OnScript' /\ Pos' = Pos + 4 /\ Pos \in {1, 5, 9, 13, 17} /\ Now' = Script(driver)[Pos + 4]
    BY Skipped
<1>3. InProcess /\ ~Alternates /\ ~WritesFile /\ driver # "kill_switch"
    BY <1>1, Kinds
<1>4. (InProcess' <=> InProcess) /\ (Alternates' <=> Alternates) /\ (WritesFile' <=> WritesFile)
    BY SameKind
<1>5. DriverTypes' /\ EveryCellIsItsRuns'
    BY <1>1 DEF DriverTypes, EveryCellIsItsRuns
<1>6. InHand'
    <2>0. RunAllBackends \in Seq(AnyStep) /\ Len(RunAllBackends) = 23 /\ Script(driver) = RunAllBackends
        BY RunAllBackendsIs, Scripts DEF AsksOnly
    <2>1. Now' \in AnyStep
        BY <1>2, <2>0
    <2>2. Now'.op \in {"run", "ask"} => Now'.questions \in 1..3
        BY <2>1, StepFields
    <2>3. answers' = <<>> /\ Len(answers') = 0
        BY <1>1 DEF InHand
    <2> QED BY <2>2, <2>3 DEF InHand
<1>7. Counted' /\ RowsAreFresh'
    <2>1. runs' = Len(got')
        BY <1>1, <1>3 DEF Counted
    <2> QED BY <1>3, <1>4, <2>1 DEF Counted, RowsAreFresh
<1> QED BY <1>2, <1>5, <1>6, <1>7 DEF CellInv

\* A factory that raises leaves out its backend, or ends run_use_cases.
LEMMA Raised ==
    ASSUME FactoryRaises
    PROVE  /\ verdict = "running" /\ Now.op = "factory"
           /\ \/ /\ driver = "run_all_backends" /\ Now.backend # "inhouse" /\ SkipBackend
                 /\ UNCHANGED <<driver, attempt, verdict, quiet, answers, runs, got, provider, live,
                                exposer, rows, file, loaded, container, reach>>
              \/ /\ driver = "run_use_cases" /\ verdict' = "died" /\ quiet' = FALSE
                 /\ UNCHANGED <<driver, attempt, todo, answers, runs, got, provider, live, exposer,
                                rows, file, loaded, container, reach>>
BY DEF FactoryRaises, Doing, Now, Die, process, world

\* A factory's step.
LEMMA FactoryKeeps == ASSUME CellInv, FactoryRaises \/ FactorySets PROVE CellInv'
<1>1. /\ driver \in Driver /\ OnScript /\ verdict = "running" /\ Now.op = "factory"
      /\ Now \in AnyStep /\ provider \in Backend \cup {Nobody}
    BY NowIs DEF CellInv, DriverTypes, FactoryRaises, FactorySets, Doing, Now
<1>2. CASE FactoryRaises
    <2>1. CASE driver = "run_all_backends" /\ SkipBackend
        BY <1>1, <1>2, <2>1, Raised, SkipKeeps
    <2>2. CASE driver = "run_use_cases"
        BY <1>2, <2>2, Raised, EndKeeps
    <2> QED BY <1>2, <2>1, <2>2, Raised
<1>3. CASE FactorySets
    <2>1. provider' = Now.backend /\ provider' \in Backend
        BY <1>1, <1>3, StepFields DEF FactorySets, Now
    <2>2. CASE driver = "run_all_backends" /\ SkipBackend
        BY <1>1, <1>3, <2>1, <2>2, SkipKeeps DEF FactorySets
    <2>3. CASE Done
        BY <1>1, <1>3, <2>1, <2>3, PlainKeeps DEF FactorySets
    <2> QED BY <1>3, <2>2, <2>3 DEF FactorySets
<1> QED BY <1>2, <1>3

\* The steps of main() that neither run, ask nor read.
LEMMA PlainStepKeeps ==
    ASSUME CellInv,
           \/ SetUp \/ Migrate \/ FlagdUp \/ Flip \/ Judge \/ RunFails
           \/ AssertPlacement \/ AssertIdentical \/ Expose
    PROVE  CellInv'
<1>1. provider \in Backend \cup {Nobody} /\ rows \in [Population -> CellRecord \cup {NoRow}]
    BY DEF CellInv, DriverTypes
<1>2. CASE SetUp
    <2>1. /\ verdict = "running" /\ Now.op = "setup" /\ Done /\ rows' = Emptied
          /\ UNCHANGED <<driver, attempt, verdict, answers, runs, got, provider>>
        BY <1>2 DEF SetUp, Doing, Now, process, Emptied, Population
    <2> QED BY <1>1, <2>1, PlainKeeps
<1>3. CASE Flip \/ Expose
    <2>1. /\ verdict = "running" /\ Now.op \in {"flip", "expose"} /\ Done
          /\ UNCHANGED <<driver, attempt, verdict, answers, runs, got, provider, rows>>
        BY <1>3 DEF Flip, Expose, Doing, Now, process
    <2> QED BY <1>1, <2>1, PlainKeeps
<1>4. CASE Judge
    <2>1. /\ verdict = "running" /\ Done /\ verdict' \in {"ok", "failed"}
          /\ UNCHANGED <<driver, attempt, answers, runs, got, provider, rows>>
        BY <1>4 DEF Judge, Doing, process
    <2> QED BY <2>1, EndKeeps
<1>5. CASE RunFails
    <2>1. /\ verdict' = "died"
          /\ UNCHANGED <<driver, attempt, todo, answers, runs, got, provider, rows>>
        BY <1>5 DEF RunFails, Die, process
    <2> QED BY <2>1, EndKeeps
<1>6. CASE Migrate \/ AssertIdentical
    <2>1. CASE Die
        <3>1. /\ verdict' = "died"
              /\ UNCHANGED <<driver, attempt, todo, answers, runs, got, provider, rows>>
            BY <1>6, <2>1 DEF Migrate, AssertIdentical, Die, process
        <3> QED BY <3>1, EndKeeps
    <2>2. CASE Done /\ UNCHANGED <<verdict, rows, process>>
        <3>1. /\ verdict = "running" /\ Now.op \in {"migrate", "identical"} /\ Done
              /\ UNCHANGED <<driver, attempt, verdict, answers, runs, got, provider, rows>>
            BY <1>6, <2>2 DEF Migrate, AssertIdentical, Doing, Now, process
        <3> QED BY <1>1, <3>1, PlainKeeps
    <2> QED BY <1>6, <2>1, <2>2 DEF Migrate, AssertIdentical
<1>7. CASE FlagdUp
    <2>1. CASE verdict' = "failed" /\ UNCHANGED todo
        <3>1. UNCHANGED <<driver, attempt, answers, runs, got, provider, rows>>
            BY <1>7 DEF FlagdUp, process
        <3> QED BY <2>1, <3>1, EndKeeps
    <2>2. CASE Done /\ UNCHANGED verdict
        <3>1. /\ verdict = "running" /\ Now.op = "flagd_up" /\ Done
              /\ UNCHANGED <<driver, attempt, verdict, answers, runs, got, provider, rows>>
            BY <1>7, <2>2 DEF FlagdUp, Doing, Now, process
        <3> QED BY <1>1, <3>1, PlainKeeps
    <2> QED BY <1>7, <2>1, <2>2 DEF FlagdUp
<1>8. CASE AssertPlacement
    <2>1. CASE Die
        <3>1. /\ verdict' = "died"
              /\ UNCHANGED <<driver, attempt, todo, answers, runs, got, provider, rows>>
            BY <1>8, <2>1 DEF AssertPlacement, Die, process
        <3> QED BY <3>1, EndKeeps
    <2>2. CASE Done /\ UNCHANGED <<verdict, rows, answers, runs, got, provider>>
        <3>1. /\ verdict = "running" /\ Now.op = "assert" /\ Done
              /\ UNCHANGED <<driver, attempt, verdict, answers, runs, got, provider, rows>>
            BY <1>8, <2>2 DEF AssertPlacement, Doing, Now
        <3> QED BY <1>1, <3>1, PlainKeeps
    <2> QED BY <1>8, <2>1, <2>2 DEF AssertPlacement
<1> QED BY <1>2, <1>3, <1>4, <1>5, <1>6, <1>7, <1>8

LEMMA CellStep == CellInv /\ [DriverNext]_driverVars => CellInv'
<1> SUFFICES ASSUME CellInv, [DriverNext]_driverVars PROVE CellInv'
    OBVIOUS
<1>1. CASE SetUp \/ Migrate \/ FlagdUp \/ Flip \/ Judge \/ RunFails
           \/ AssertPlacement \/ AssertIdentical \/ Expose
    BY <1>1, PlainStepKeeps
<1>2. CASE AskFlag
    BY <1>2, AskKeeps
<1>3. CASE ReadBack
    <2>1. CASE verdict' = "running"
        BY <1>3, <2>1, ReadKeeps
    <2>2. CASE verdict' # "running"
        <3>1. /\ verdict' = "died"
              /\ UNCHANGED <<driver, attempt, todo, answers, runs, got, provider, rows>>
            BY <1>3, <2>2 DEF ReadBack, Doing, Die, process
        <3> QED BY <3>1, EndKeeps
    <2> QED BY <2>1, <2>2
<1>4. CASE \E state \in {"success", "failed"} : RunEnds(state)
    BY <1>4, RunKeeps
<1>5. CASE FactoryRaises \/ FactorySets
    BY <1>5, FactoryKeeps
<1>6. CASE AskEnds
    BY <1>6, AnswerKeeps
<1>7. CASE Rerun
    BY <1>7, RerunKeeps
<1>8. CASE HotReload \/ (\E b \in Container : Outage(b)) \/ UNCHANGED driverVars
    <2>1. UNCHANGED <<driver, attempt, todo, verdict, answers, runs, got, provider, rows>>
        BY <1>8 DEF HotReload, Outage, driverVars, process
    <2> QED BY <2>1, StillKeeps
<1> QED BY <1>1, <1>2, <1>3, <1>4, <1>5, <1>6, <1>7, <1>8 DEF DriverNext

LEMMA CellAlways == DriverSpec => []CellInv
BY CellInit, CellStep, PTL DEF DriverSpec

\* A driver judges, cell by cell, what its own subprocesses of this attempt
\* left, in their order, for any number of outages and attempts.
THEOREM CellsAreTheirRuns == DriverSpec => []EveryCellIsItsRuns
<1>1. CellInv => EveryCellIsItsRuns
    BY DEF CellInv
<1> QED BY <1>1, CellAlways, PTL

-----------------------------------------------------------------------------
(* Whose exposures are printed.                                            *)

\* The places of run_all_backends.
LEMMA AllBackendsPlaces ==
    ASSUME driver = "run_all_backends", driver \in Driver, OnScript, verdict = "running"
    PROVE  /\ Pos \in 1..23 /\ Size = 23
           /\ Now.op = "factory" <=> Pos \in {1, 5, 9, 13, 17}
           /\ Now.op = "assert" <=> Pos \in {4, 8, 12, 16, 20}
           /\ Now.op = "expose" <=> Pos = 22
           /\ Now.op = "identical" <=> Pos = 21
           /\ Now.op = "judge" <=> Pos = 23
           /\ Pos = 1 => Now.backend = "flagd"
           /\ Pos = 5 => Now.backend = "growthbook"
           /\ Pos = 9 => Now.backend = "inhouse"
           /\ Pos = 13 => Now.backend = "unleash"
           /\ Pos = 17 => Now.backend = "statsig"
           /\ Now.op \in {"factory", "ask", "assert", "identical", "expose", "judge"}
<1>1. Script(driver) = RunAllBackends /\ Size = 23
    BY Scripts, RunAllBackendsIs DEF Size
<1>2. Pos \in 1..23 /\ Now = RunAllBackends[Pos]
    BY <1>1, NowIs
<1>3. Now.op \in {"factory", "ask", "assert", "identical", "expose", "judge"}
    BY Kinds, InProcessPlaces
<1> QED BY <1>1, <1>2, <1>3, RunAllBackendsIs

\* Only run_all_backends prints exposures.
LEMMA WhoExposes ==
    ASSUME driver \in Driver, OnScript, verdict = "running", Now.op = "expose"
    PROVE  driver = "run_all_backends"
<1>1. InProcess
    BY SubprocessPlaces
<1>2. driver # "run_use_cases"
    <2> SUFFICES ASSUME driver = "run_use_cases" PROVE FALSE
        OBVIOUS
    <2>1. Script(driver) = RunUseCases /\ Size = 20
        BY Scripts, RunUseCasesIs DEF Size
    <2>2. Pos \in 1..20 /\ Now = RunUseCases[Pos]
        BY <2>1, NowIs
    <2> QED BY <2>2, RunUseCasesIs
<1> QED BY <1>1, <1>2 DEF InProcess

LEMMA ExposableInit == DriverInit => Exposable
<1> SUFFICES ASSUME DriverInit PROVE Exposable
    OBVIOUS
<1>1. Pos = 1
    BY FirstPlace DEF DriverInit, Beginning, Population
<1> QED BY <1>1 DEF DriverInit, Exposable, ExposureFromLive

\* The place stays, and whoever is set and live.
LEMMA ExposableStays ==
    ASSUME Exposable, UNCHANGED <<driver, todo, provider, live, exposer>>
    PROVE  Exposable'
BY DEF Exposable, ExposureFromLive, Pos, Size

\* The steps that only other drivers take.
LEMMA ExposableElsewhere ==
    ASSUME Exposable, driver # "run_all_backends", UNCHANGED <<driver, live>>,
           UNCHANGED exposer
    PROVE  Exposable'
BY DEF Exposable, ExposureFromLive

\* The provider that begins the next backend is live.
LEMMA ExposableOnward ==
    ASSUME Exposable, driver = "run_all_backends", UNCHANGED <<driver, exposer>>,
           live \subseteq live',
           Pos' \in {13, 17, 21, 22, 23} => provider' \in live'
    PROVE  Exposable'
BY DEF Exposable, ExposureFromLive

LEMMA ExposableStep == CellInv /\ Exposable /\ [DriverNext]_driverVars => Exposable'
<1> SUFFICES ASSUME CellInv, Exposable, [DriverNext]_driverVars PROVE Exposable'
    OBVIOUS
<1>0. driver \in Driver /\ OnScript
    BY DEF CellInv, DriverTypes
<1>1. CASE SetUp \/ Migrate \/ FlagdUp \/ Flip \/ RunFails \/ ReadBack
           \/ \E state \in {"success", "failed"} : RunEnds(state)
    <2>1. /\ verdict = "running" /\ Now.op \in {"setup", "migrate", "flagd_up", "flip", "run", "read"}
          /\ UNCHANGED <<driver, live, exposer>>
        BY <1>1 DEF SetUp, Migrate, FlagdUp, Flip, RunFails, ReadBack, RunEnds, Die, Doing, Now, process
    <2>2. driver # "run_all_backends"
        BY <1>0, <2>1, AllBackendsPlaces
    <2> QED BY <2>1, <2>2, ExposableElsewhere
<1>2. CASE AskFlag \/ HotReload \/ (\E b \in Container : Outage(b)) \/ UNCHANGED driverVars
    <2>1. UNCHANGED <<driver, todo, provider, live, exposer>>
        BY <1>2 DEF AskFlag, HotReload, Outage, driverVars, process
    <2> QED BY <2>1, ExposableStays
<1>3. CASE Rerun
    <2>1. driver' = driver /\ exposer' = Nobody
        BY <1>3 DEF Rerun
    <2>2. Pos' = 1
        <3>1. Beginning'
            <4>1. Script(driver)' = Script(driver)
                BY <2>1
            <4> QED BY <1>3, <4>1 DEF Rerun, CellInv, DriverTypes, Beginning
        <3> QED BY <3>1, FirstAgain DEF AtStart
    <2> QED BY <2>1, <2>2 DEF Exposable, ExposureFromLive
<1>4. CASE FactoryRaises
    <2>1. CASE driver # "run_all_backends"
        BY <1>4, <2>1, Raised, ExposableElsewhere
    <2>2. CASE driver = "run_all_backends"
        <3>1. /\ verdict = "running" /\ Now.op = "factory" /\ Now.backend # "inhouse"
              /\ SkipBackend /\ UNCHANGED <<driver, provider, live, exposer>>
            BY <1>4, <2>2, Raised
        <3>2. Pos \in {1, 5, 9, 13, 17} /\ Pos' = Pos + 4
            BY <2>2, <3>1, Skipped
        <3>3. Pos \in {1, 5, 13, 17}
            BY <1>0, <2>2, <3>1, <3>2, AllBackendsPlaces
        <3>4. Pos' \in {13, 17, 21, 22, 23} => provider' \in live'
            BY <2>2, <3>1, <3>2, <3>3 DEF Exposable
        <3> QED BY <2>2, <3>1, <3>4, ExposableOnward
    <2> QED BY <2>1, <2>2
<1>5. CASE FactorySets
    <2>1. /\ verdict = "running" /\ Now.op = "factory"
          /\ \/ driver = "run_all_backends" /\ Now.backend = "flagd" /\ SkipBackend
             \/ Done
          /\ UNCHANGED <<driver, live, exposer>>
        BY <1>5 DEF FactorySets, Doing, Now
    <2>2. CASE driver # "run_all_backends"
        BY <2>1, <2>2, ExposableElsewhere
    <2>3. CASE driver = "run_all_backends"
        <3>1. Pos \in {1, 5, 9, 13, 17}
            BY <1>0, <2>1, <2>3, AllBackendsPlaces
        <3>2. CASE Now.backend = "flagd" /\ SkipBackend
            <4>1. Pos = 1
                BY <1>0, <2>1, <2>3, <3>1, <3>2, AllBackendsPlaces
            <4>2. Pos' = 5
                BY <2>1, <2>3, <3>2, <4>1, Skipped
            <4> QED BY <2>1, <2>3, <4>2, ExposableOnward
        <3>3. CASE Done
            <4>1. Pos' = Pos + 1
                BY <1>0, <2>1, <3>3, Advanced
            <4> QED BY <2>1, <2>3, <3>1, <4>1, ExposableOnward
        <3> QED BY <2>1, <3>2, <3>3
    <2> QED BY <2>2, <2>3
<1>6. CASE AskEnds
    <2>1. verdict = "running" /\ Now.op = "ask" /\ Done /\ UNCHANGED <<driver, provider, live, exposer>>
        BY <1>6 DEF AskEnds, Doing, Now
    <2>2. CASE driver # "run_all_backends"
        BY <2>1, <2>2, ExposableElsewhere
    <2>3. CASE driver = "run_all_backends"
        <3>1. Pos' = Pos + 1 /\ Pos \in 1..23
            BY <1>0, <2>1, <2>3, Advanced, AllBackendsPlaces
        <3>2. Pos \notin {4, 8, 12, 16, 20, 21, 22}
            BY <1>0, <2>1, <2>3, AllBackendsPlaces
        <3>3. Pos' \notin {13, 17, 21, 22, 23}
            BY <3>1, <3>2
        <3> QED BY <2>1, <2>3, <3>3, ExposableOnward
    <2> QED BY <2>2, <2>3
<1>7. CASE AssertPlacement
    <2>1. CASE Die
        <3>1. UNCHANGED <<driver, todo, provider, live, exposer>>
            BY <1>7, <2>1 DEF AssertPlacement, Die, process
        <3> QED BY <3>1, ExposableStays
    <2>2. CASE live' = live \cup {provider}
        <3>1. UNCHANGED <<driver, provider, exposer>>
            BY <1>7, <2>2 DEF AssertPlacement, Die, process
        <3> QED BY <2>2, <3>1 DEF Exposable, ExposureFromLive
    <2> QED BY <1>7, <2>1, <2>2 DEF AssertPlacement
<1>8. CASE AssertIdentical \/ Judge
    <2>1. CASE UNCHANGED todo
        <3>1. UNCHANGED <<driver, todo, provider, live, exposer>>
            BY <1>8, <2>1 DEF AssertIdentical, Judge, Die, process
        <3> QED BY <3>1, ExposableStays
    <2>2. CASE todo' # todo
        <3>1. /\ verdict = "running" /\ Now.op \in {"identical", "judge"}
              /\ UNCHANGED <<driver, provider, live, exposer>>
            BY <1>8, <2>2 DEF AssertIdentical, Judge, Die, Doing, Now, process
        <3>2. CASE driver # "run_all_backends"
            BY <3>1, <3>2, ExposableElsewhere
        <3>3. CASE driver = "run_all_backends"
            <4>1. Pos \in {21, 23}
                BY <1>0, <3>1, <3>3, AllBackendsPlaces
            <4> QED BY <3>1, <3>3, <4>1 DEF Exposable, ExposureFromLive
        <3> QED BY <3>2, <3>3
    <2> QED BY <2>1, <2>2
<1>9. CASE Expose
    <2>1. /\ verdict = "running" /\ Now.op = "expose" /\ exposer' = provider
          /\ UNCHANGED <<driver, provider, live>>
        BY <1>9 DEF Expose, Doing, Now
    <2>2. driver = "run_all_backends"
        BY <1>0, <2>1, WhoExposes
    <2>3. Pos = 22
        BY <1>0, <2>1, <2>2, AllBackendsPlaces
    <2>4. provider \in live
        BY <2>2, <2>3 DEF Exposable
    <2> QED BY <2>1, <2>4 DEF Exposable, ExposureFromLive
<1> QED BY <1>1, <1>2, <1>3, <1>4, <1>5, <1>6, <1>7, <1>8, <1>9 DEF DriverNext

\* run_all_backends prints the exposures of a backend whose placement it has
\* checked, whichever factories but the in-house one raised, with or without
\* setting a provider.
THEOREM ExposuresAreOfTheLive == DriverSpec => []ExposureFromLive
<1>1. Exposable => ExposureFromLive
    BY DEF Exposable
<1> QED BY <1>1, CellAlways, ExposableInit, ExposableStep, PTL DEF DriverSpec

-----------------------------------------------------------------------------
(* Nothing broke, so the driver passes: the machine.                       *)

\* Nothing but what flagd serves changes.
LEMMA MachineStays ==
    ASSUME Machine, UNCHANGED <<driver, todo, container, file>>, loaded' \in {loaded, file},
           verdict' = "running" => verdict = "running"
    PROVE  Machine'
BY SameKind DEF Machine, Pos, Size

\* A step of main() that leaves the machine alone.
LEMMA MachineOnward ==
    ASSUME CellInv, Machine, verdict = "running", verdict' = "running", Done,
           Now.op \notin {"setup", "flagd_up", "flip", "judge"},
           UNCHANGED <<driver, container, file, loaded>>
    PROVE  Machine'
<1>1. driver \in Driver /\ OnScript
    BY DEF CellInv, DriverTypes
<1>2. Pos' = Pos + 1 /\ Pos \in 1..Size /\ Size \in Nat
    BY <1>1, Advanced
<1>3. ~InProcess => Pos \notin {1, 3}
    BY <1>1, SubprocessPlaces
<1>4. driver = "kill_switch" => Pos # 6
    BY <1>1, KillSwitchPlaces
<1>5. CASE InProcess
    BY <1>5, SameKind DEF Machine
<1>6. CASE ~InProcess
    <2>1. Pos' >= 4 => Pos >= 4
        BY <1>2, <1>3, <1>6
    <2>2. Pos' >= 2 => Pos >= 2
        BY <1>2, <1>3, <1>6
    <2>3. driver = "kill_switch" => (Pos' <= 6 <=> Pos <= 6)
        BY <1>2, <1>4
    <2>4. /\ Pos >= 4 => container
          /\ Pos >= 2 => (file <=> (driver = "kill_switch" => Pos <= 6))
        BY <1>6 DEF Machine
    <2>5. ~InProcess'
        BY <1>6, SameKind
    <2> QED BY <2>1, <2>2, <2>3, <2>4, <2>5 DEF Machine
<1> QED BY <1>5, <1>6

LEMMA MachineStep == CellInv /\ Machine /\ [DriverNext]_driverVars => Machine'
<1> SUFFICES ASSUME CellInv, Machine, [DriverNext]_driverVars PROVE Machine'
    OBVIOUS
<1>0. driver \in Driver /\ OnScript
    BY DEF CellInv, DriverTypes
<1>1. CASE SetUp
    <2>1. /\ verdict = "running" /\ Now.op = "setup" /\ Done /\ file' = TRUE
          /\ UNCHANGED <<driver, verdict, container, loaded>>
        BY <1>1 DEF SetUp, Doing, Now
    <2>2. Pos' = Pos + 1 /\ ~InProcess /\ Pos = 1
        BY <1>0, <2>1, Advanced, InProcessPlaces, SubprocessPlaces
    <2> QED BY <2>1, <2>2, SameKind DEF Machine
<1>2. CASE FlagdUp
    <2>1. /\ verdict = "running" /\ Now.op = "flagd_up" /\ UNCHANGED <<driver, file>>
          /\ \/ container' = TRUE /\ Done
             \/ verdict' = "failed"
        BY <1>2 DEF FlagdUp, Doing, Now
    <2>2. ~InProcess /\ Pos = 3
        BY <1>0, <2>1, InProcessPlaces, SubprocessPlaces
    <2>3. ~InProcess'
        BY <2>1, <2>2, SameKind
    <2>4. CASE container' = TRUE /\ Done
        <3>1. Pos' = 4
            BY <1>0, <2>1, <2>2, <2>4, Advanced
        <3>2. file <=> (driver = "kill_switch" => Pos <= 6)
            BY <2>1, <2>2 DEF Machine
        <3> QED BY <2>1, <2>2, <2>3, <2>4, <3>1, <3>2 DEF Machine
    <2>5. CASE verdict' = "failed"
        BY <2>3, <2>5 DEF Machine
    <2> QED BY <2>1, <2>4, <2>5
<1>3. CASE Flip
    <2>1. /\ verdict = "running" /\ Now.op = "flip" /\ Done /\ file' = FALSE
          /\ UNCHANGED <<driver, verdict, container, loaded>>
        BY <1>3 DEF Flip, Doing, Now
    <2>2. ~InProcess /\ driver = "kill_switch"
        <3>1. ~InProcess
            BY <1>0, <2>1, InProcessPlaces
        <3>2. ~WritesFile
            BY <1>0, <2>1, FilePlaces
        <3> QED BY <1>0, <2>1, <3>1, <3>2, Kinds, AlternatingPlaces
    <2>3. Pos = 6 /\ Pos' = 7
        BY <1>0, <2>1, <2>2, KillSwitchPlaces, Advanced
    <2>4. container /\ ~InProcess'
        BY <2>1, <2>2, <2>3, SameKind DEF Machine
    <2> QED BY <2>1, <2>2, <2>3, <2>4 DEF Machine
<1>4. CASE Judge
    <2>1. /\ verdict' \in {"ok", "failed"} /\ container' = InProcess
          /\ UNCHANGED <<driver, file, loaded>>
        BY <1>4 DEF Judge
    <2> QED BY <2>1, SameKind DEF Machine
<1>5. CASE AskFlag \/ RunFails \/ HotReload \/ (\E b \in Container : Outage(b)) \/ UNCHANGED driverVars
    <2>1. /\ UNCHANGED <<driver, todo, container, file>> /\ loaded' \in {loaded, file}
          /\ verdict' = "running" => verdict = "running"
        BY <1>5 DEF AskFlag, RunFails, Die, HotReload, Outage, driverVars, world
    <2> QED BY <2>1, MachineStays
<1>6. CASE Migrate \/ ReadBack \/ AssertPlacement \/ AssertIdentical
    <2>1. CASE Die
        <3>1. UNCHANGED <<driver, todo, container, file, loaded>> /\ verdict' = "died"
            BY <1>6, <2>1 DEF Migrate, ReadBack, AssertPlacement, AssertIdentical, Die, world
        <3> QED BY <3>1, MachineStays
    <2>2. CASE Done /\ UNCHANGED verdict
        <3>1. /\ verdict = "running" /\ Now.op \in {"migrate", "read", "assert", "identical"}
              /\ UNCHANGED <<driver, container, file, loaded>>
            BY <1>6 DEF Migrate, ReadBack, AssertPlacement, AssertIdentical, Doing, Now, Die, world
        <3> QED BY <2>2, <3>1, MachineOnward
    <2> QED BY <1>6, <2>1, <2>2 DEF Migrate, ReadBack, AssertPlacement, AssertIdentical
<1>7. CASE AskEnds \/ Expose \/ \E state \in {"success", "failed"} : RunEnds(state)
    <2>1. /\ verdict = "running" /\ Now.op \in {"ask", "expose", "run"} /\ Done
          /\ UNCHANGED <<driver, verdict, container, file, loaded>>
        BY <1>7 DEF AskEnds, Expose, RunEnds, Doing, Now, world
    <2> QED BY <2>1, MachineOnward
<1>8. CASE FactoryRaises \/ FactorySets \/ Rerun
    <2>1. UNCHANGED <<driver, container, file, loaded>>
        BY <1>8, Raised DEF FactorySets, Rerun, world
    <2>2. CASE InProcess
        BY <2>1, <2>2, SameKind DEF Machine
    <2>3. CASE ~InProcess
        <3>1. Rerun
            BY <1>0, <1>8, <2>3, SubprocessPlaces DEF FactoryRaises, FactorySets, Doing, Now
        <3>2. Beginning'
            <4>1. Script(driver)' = Script(driver)
                BY <2>1
            <4> QED BY <3>1, <4>1 DEF Rerun, CellInv, DriverTypes, Beginning
        <3>3. Pos' = 1
            BY <3>2, FirstAgain DEF AtStart
        <3>4. ~InProcess'
            BY <2>1, <2>3, SameKind
        <3> QED BY <3>3, <3>4 DEF Machine
    <2> QED BY <2>2, <2>3
<1> QED BY <1>1, <1>2, <1>3, <1>4, <1>5, <1>6, <1>7, <1>8 DEF DriverNext

-----------------------------------------------------------------------------
(* Nothing broke, so the driver passes: the order of what was read.        *)

\* What a successful read appends.
LEMMA ReadIs ==
    ASSUME CellInv, ReadBack, rows[Now.dag] # NoRow
    PROVE  /\ got \in Seq(CellRecord) /\ rows[Now.dag] \in CellRecord
           /\ rows[Now.dag].dag = Now.dag /\ Now.dag \in Population
           /\ got' = Append(got, rows[Now.dag]) /\ ~InProcess
           /\ driver = "kill_switch" => Now.dag = inDag
           /\ Alternates => runs = Len(got) + 1
           /\ WritesFile =>
                \/ Pos = 6 /\ Len(got) = 0 /\ Now.dag = inDag
                \/ Pos = 7 /\ Len(got) = 1 /\ Now.dag = outDag
<1>1. /\ DriverTypes /\ OnScript /\ Counted /\ RowsAreFresh /\ driver \in Driver
    BY DEF CellInv, DriverTypes
<1>2. verdict = "running" /\ Now.op = "read" /\ got' = Append(got, rows[Now.dag])
    BY DEF ReadBack, Doing, Now
<1>3. Now.dag \in Population /\ ~InProcess
    BY <1>1, <1>2, NowIs, StepFields, InProcessPlaces
<1>4. rows[Now.dag] \in CellRecord /\ got \in Seq(CellRecord)
    BY <1>1, <1>3 DEF DriverTypes
<1>5. driver = "kill_switch" => Now.dag = inDag
    BY <1>1, <1>2, KillSwitchPlaces
<1>6. WritesFile => (Pos = 6 /\ Now.dag = inDag) \/ (Pos = 7 /\ Now.dag = outDag)
    BY <1>1, <1>2, FilePlaces
<1>7. Alternates => runs = Len(got) + 1
    BY <1>1, <1>2 DEF Counted
<1>8. WritesFile => Len(got) = IF Pos <= 6 THEN 0 ELSE IF Pos = 7 THEN 1 ELSE 2
    BY <1>1, <1>2 DEF Counted
<1>9. WritesFile => \/ Pos = 6 /\ Len(got) = 0 /\ Now.dag = inDag
                    \/ Pos = 7 /\ Len(got) = 1 /\ Now.dag = outDag
    BY <1>6, <1>8
<1>10. rows[Now.dag].dag = Now.dag
    <2>1. CASE Alternates
        BY <1>1, <1>2, <2>1 DEF RowsAreFresh, OfThis
    <2>2. CASE WritesFile
        BY <1>1, <1>2, <1>6, <2>2 DEF RowsAreFresh, OfThis
    <2> QED BY <1>1, <1>3, <2>1, <2>2, Kinds
<1> QED BY <1>2, <1>3, <1>4, <1>5, <1>7, <1>9, <1>10

LEMMA OrderStep == CellInv /\ ReadInOrder /\ [DriverNext]_driverVars => ReadInOrder'
<1> SUFFICES ASSUME CellInv, ReadInOrder, [DriverNext]_driverVars PROVE ReadInOrder'
    OBVIOUS
<1>0. driver \in Driver /\ OnScript /\ got \in Seq(CellRecord)
    BY DEF CellInv, DriverTypes
<1>1. UNCHANGED driver
    BY DEF DriverNext, driverVars, SetUp, Migrate, FlagdUp, Flip, Judge, AskFlag, RunFails, ReadBack,
           RunEnds, FactoryRaises, FactorySets, AskEnds, AssertPlacement, AssertIdentical, Expose,
           HotReload, Rerun, Outage
<1>2. WritesFile' <=> WritesFile
    BY <1>1, SameKind
<1>3. CASE UNCHANGED got
    BY <1>1, <1>2, <1>3 DEF ReadInOrder
<1>4. CASE ReadBack /\ rows[Now.dag] # NoRow
    <2> DEFINE c == rows[Now.dag]
    <2>1. /\ got' = Append(got, c) /\ c.dag = Now.dag /\ c \in CellRecord
          /\ driver = "kill_switch" => Now.dag = inDag
          /\ WritesFile => (Len(got) = 0 /\ Now.dag = inDag) \/ (Len(got) = 1 /\ Now.dag = outDag)
        BY <1>4, ReadIs
    <2> HIDE DEF c
    <2>2. /\ Len(got') = Len(got) + 1 /\ Len(got) \in Nat
          /\ \A i \in 1..Len(got) : got'[i] = got[i]
          /\ got'[Len(got) + 1] = c
        BY <1>0, <2>1
    <2>3. ASSUME driver = "kill_switch", NEW i \in 1..Len(got') PROVE got'[i].dag = inDag
        <3>1. CASE i \in 1..Len(got)
            BY <2>2, <2>3, <3>1 DEF ReadInOrder
        <3>2. CASE i = Len(got) + 1
            BY <2>1, <2>2, <2>3, <3>2
        <3> QED BY <2>2, <3>1, <3>2
    <2>4. ASSUME WritesFile, NEW i \in 1..Len(got')
          PROVE  got'[i].dag = IF i = 1 THEN inDag ELSE outDag
        <3>1. CASE i \in 1..Len(got)
            BY <2>2, <2>4, <3>1 DEF ReadInOrder
        <3>2. CASE i = Len(got) + 1
            BY <2>1, <2>2, <2>4, <3>2
        <3> QED BY <2>2, <3>1, <3>2
    <2> QED BY <1>1, <1>2, <2>3, <2>4 DEF ReadInOrder
<1>5. CASE AskEnds
    <2>1. InProcess
        BY <1>0, <1>5, SubprocessPlaces DEF AskEnds, Doing, Now
    <2>2. driver # "kill_switch" /\ ~WritesFile
        BY <1>0, <2>1, Kinds
    <2> QED BY <1>1, <1>2, <2>2 DEF ReadInOrder
<1>6. CASE Rerun
    <2>1. got' = <<>> /\ Len(got') = 0
        BY <1>6 DEF Rerun
    <2>2. \A i \in 1..Len(got') : FALSE
        BY <2>1
    <2> QED BY <2>2 DEF ReadInOrder
<1> QED BY <1>3, <1>4, <1>5, <1>6
    DEF DriverNext, driverVars, SetUp, Migrate, FlagdUp, Flip, Judge, AskFlag, RunFails, ReadBack, Die,
        RunEnds, FactoryRaises, FactorySets, AssertPlacement, AssertIdentical, Expose,
        HotReload, Outage, Now, process

\* The step is another one than a question.
LEMMA AskedOnward ==
    ASSUME CellInv, Asked, verdict = "running", Done, Now.op \notin {"ask", "judge"}, UNCHANGED driver
    PROVE  Asked'
<1>1. driver \in Driver /\ OnScript
    BY DEF CellInv, DriverTypes
<1>2. Pos' = Pos + 1 /\ Now = Script(driver)[Pos] /\ Pos \in 1..Size /\ Size \in Nat
    BY <1>1, Advanced, NowIs
<1>3. Script(driver)' = Script(driver) /\ Pos' - 1 = Pos
    BY <1>2
<1>4. Script(driver)[Pos].op # "ask"
    BY <1>2
<1> QED BY <1>3, <1>4 DEF Asked

LEMMA AskedStep == CellInv /\ Asked /\ [DriverNext]_driverVars => Asked'
<1> SUFFICES ASSUME CellInv, Asked, [DriverNext]_driverVars PROVE Asked'
    OBVIOUS
<1>0. driver \in Driver /\ OnScript /\ got \in Seq(CellRecord)
    BY DEF CellInv, DriverTypes
<1>1. UNCHANGED driver
    BY DEF DriverNext, driverVars, SetUp, Migrate, FlagdUp, Flip, Judge, AskFlag, RunFails, ReadBack,
           RunEnds, FactoryRaises, FactorySets, AskEnds, AssertPlacement, AssertIdentical, Expose,
           HotReload, Rerun, Outage
<1>2. Script(driver)' = Script(driver) /\ (InProcess' <=> InProcess)
    BY <1>1, SameKind
<1>3. CASE verdict' # "running"
    BY <1>3 DEF Asked
<1>4. CASE UNCHANGED <<todo, got, verdict>>
    BY <1>1, <1>2, <1>4 DEF Asked, Pos, Size
<1>5. CASE verdict = "running" /\ Done /\ Now.op \notin {"ask", "judge"}
    BY <1>1, <1>5, AskedOnward
<1>6. CASE AskEnds
    <2>1. /\ verdict = "running" /\ Now.op = "ask" /\ Done /\ UNCHANGED verdict
          /\ \E c \in CellRecord \cup {Cell(provider, Now.dag, "parsed")} : got' = Append(got, c)
        BY <1>6 DEF AskEnds, Doing, Now
    <2>2. Pos' = Pos + 1 /\ Now = Script(driver)[Pos] /\ Pos \in 1..Size /\ Size \in Nat
        BY <1>0, <1>1, <2>1, Advanced, NowIs
    <2>3. Len(got') = Len(got) + 1 /\ Len(got) \in Nat
        BY <1>0, <2>1
    <2>4. Pos' - 1 = Pos /\ Pos' - 2 = Pos - 1
        BY <2>2
    <2>5. InProcess /\ Pos >= 2 /\ Script(driver)[Pos - 1].op = "ask" => Len(got) >= 1
        BY <2>1 DEF Asked
    <2>6. Pos' >= 3 => Pos >= 2
        BY <2>2
    <2> QED BY <1>2, <2>3, <2>4, <2>5, <2>6 DEF Asked
<1>7. CASE Rerun
    <2>1. Beginning'
        BY <1>2, <1>7 DEF Rerun, CellInv, DriverTypes, Beginning
    <2>2. Pos' = 1
        BY <2>1, FirstAgain DEF AtStart
    <2> QED BY <2>2 DEF Asked
<1>8. CASE verdict = "running" /\ Now.op = "factory" /\ driver = "run_all_backends" /\ SkipBackend
    <2>1. Pos \in {1, 5, 9, 13, 17} /\ Pos' = Pos + 4
        BY <1>1, <1>8, Skipped
    <2>2. Script(driver) = RunAllBackends
        BY <1>8, Scripts
    <2>3. Pos' - 1 \in {4, 8, 12, 16, 20}
        BY <2>1
    <2>4. Script(driver)[Pos' - 1].op = "assert"
        BY <2>2, <2>3, RunAllBackendsIs
    <2> QED BY <1>2, <2>4 DEF Asked
<1>9. CASE SetUp \/ Migrate \/ FlagdUp \/ Flip \/ Judge
    BY <1>3, <1>5, <1>9 DEF SetUp, Migrate, FlagdUp, Flip, Judge, Die, Doing, Now
<1>10. CASE AskFlag \/ HotReload \/ (\E b \in Container : Outage(b)) \/ UNCHANGED driverVars
    <2>1. UNCHANGED <<todo, got, verdict>>
        BY <1>10 DEF AskFlag, HotReload, Outage, driverVars, process
    <2> QED BY <1>4, <2>1
<1>11. CASE RunFails \/ ReadBack \/ \E state \in {"success", "failed"} : RunEnds(state)
    BY <1>3, <1>5, <1>11 DEF RunFails, ReadBack, RunEnds, Die, Doing, Now
<1>12. CASE FactoryRaises \/ FactorySets
    BY <1>3, <1>5, <1>8, <1>12, Raised DEF FactorySets, Doing, Now
<1>13. CASE AssertPlacement \/ AssertIdentical \/ Expose
    BY <1>3, <1>5, <1>13 DEF AssertPlacement, AssertIdentical, Expose, Die, Doing, Now
<1> QED BY <1>6, <1>7, <1>9, <1>10, <1>11, <1>12, <1>13 DEF DriverNext

-----------------------------------------------------------------------------
(* Nothing broke, so the driver passes: what it judges.                    *)

LEMMA AsWanted ==
    ASSUME NEW c, NEW n, Good(driver, c, c.dag, n)
    PROVE  /\ Wanted(driver, c.dag, n) = "in" => Placed(c)
           /\ Wanted(driver, c.dag, n) = "out" => NotPlaced(c) /\ ~Placed(c)
           /\ c.answers[1] = Wanted(driver, c.dag, n)
           /\ driver = "gates_listener" => c.answers[3] = Wanted(driver, c.dag, n)
           /\ driver # "kill_switch" => AsExpected(c)
           /\ driver # "kill_switch" => (Placed(c) <=> c.dag = inDag)
<1> DEFINE w == Wanted(driver, c.dag, n)
<1>1. /\ c \in CellRecord /\ Len(c.answers) # 0 /\ (driver = "gates_listener" => Len(c.answers) = 3)
      /\ \A i \in 1..Len(c.answers) : c.answers[i] = w
    BY DEF Good
<1>2. c.answers \in Seq({"in", "out", "none"})
    BY <1>1 DEF CellRecord
<1>3. DOMAIN c.answers = 1..Len(c.answers) /\ Len(c.answers) \in Nat
    BY <1>2
<1>4. w \in {"in", "out"} /\ (driver # "kill_switch" => (w = "in" <=> c.dag = inDag))
    BY DEF Wanted
<1> HIDE DEF w
<1>5. w = "in" => Placed(c)
    BY <1>1, <1>3 DEF Placed
<1>6. 1 \in 1..Len(c.answers)
    BY <1>1, <1>3
<1>7. w = "out" => NotPlaced(c) /\ ~Placed(c)
    BY <1>1, <1>3, <1>6 DEF Placed, NotPlaced
<1>8. driver = "gates_listener" => c.answers[3] = w
    BY <1>1
<1>9. driver # "kill_switch" => AsExpected(c) /\ (Placed(c) <=> c.dag = inDag)
    BY <1>4, <1>5, <1>7 DEF AsExpected
<1> QED BY <1>1, <1>5, <1>6, <1>7, <1>8, <1>9 DEF w

LEMMA JudgePasses ==
    ASSUME CellInv, QuietInv, quiet, verdict = "running", Now.op = "judge"
    PROVE  Passed
<1>1. /\ driver \in Driver /\ OnScript /\ Counted /\ got \in Seq(CellRecord)
    BY DEF CellInv, DriverTypes
<1>2. /\ ReadIsGood /\ ReadInOrder
    BY DEF QuietInv, AllIsGood
<1>3. DOMAIN got = 1..Len(got) /\ Len(got) \in Nat
    BY <1>1
<1>4. CASE driver = "kill_switch"
    <2>1. Pos = 9
        BY <1>1, <1>4, SubprocessPlaces, KillSwitchPlaces, Kinds
    <2>2. runs = 2 /\ Len(got) = 2
        BY <1>1, <1>4, <2>1, Kinds DEF Counted
    <2>3. got[1].dag = inDag /\ got[2].dag = inDag
        BY <1>2, <1>4, <2>2 DEF ReadInOrder
    <2>4. Good(driver, got[1], got[1].dag, 1) /\ Good(driver, got[2], got[2].dag, 2)
        BY <1>2, <2>2 DEF ReadIsGood
    <2>5. Wanted(driver, got[1].dag, 1) = "in" /\ Wanted(driver, got[2].dag, 2) = "out"
        BY <1>4, <2>3 DEF Wanted
    <2>6. Placed(got[1])
        BY <2>4, <2>5, AsWanted
    <2>7. NotPlaced(got[2])
        BY <2>4, <2>5, AsWanted
    <2>8. got[2].state = "success"
        BY <1>4, <2>4 DEF Good
    <2> QED BY <1>4, <2>6, <2>7, <2>8 DEF Passed
<1>5. CASE driver \in {"real_data_flow", "matrix"}
    <2> SUFFICES ASSUME NEW i \in 1..Len(got) PROVE AsExpected(got[i]) /\ got[i].state = "success"
        BY <1>3, <1>5 DEF Passed
    <2>1. Good(driver, got[i], got[i].dag, i)
        BY <1>2 DEF ReadIsGood
    <2>2. AsExpected(got[i])
        BY <1>5, <2>1, AsWanted
    <2> QED BY <1>5, <2>1, <2>2 DEF Good
<1>6. CASE driver \in {"gates_listener", "ab_experiment"}
    <2>1. WritesFile /\ ~InProcess
        BY <1>1, <1>6, Kinds DEF WritesFile
    <2>2. Pos = 8
        BY <1>1, <2>1, SubprocessPlaces, FilePlaces
    <2>3. Len(got) = 2
        BY <1>1, <2>1, <2>2 DEF Counted
    <2>4. got[1].dag = inDag /\ got[2].dag = outDag
        BY <1>2, <2>1, <2>3 DEF ReadInOrder
    <2>5. Good(driver, got[1], got[1].dag, 1) /\ Good(driver, got[2], got[2].dag, 2)
        BY <1>2, <2>3 DEF ReadIsGood
    <2>6. Wanted(driver, got[1].dag, 1) = "in" /\ Wanted(driver, got[2].dag, 2) = "out"
        BY <1>6, <2>4, DriverAssumption DEF Wanted
    <2>7. Placed(got[1]) /\ got[1].answers[1] = "in"
        BY <2>5, <2>6, AsWanted
    <2>8. /\ NotPlaced(got[2]) /\ got[2].answers[1] = "out"
          /\ driver = "gates_listener" => got[2].answers[3] = "out"
        BY <2>5, <2>6, AsWanted
    <2>9. CASE driver = "gates_listener"
        BY <2>7, <2>8, <2>9 DEF Passed
    <2>10. CASE driver = "ab_experiment"
        <3>1. 1 \in DOMAIN got /\ 2 \in DOMAIN got
            BY <1>3, <2>3
        <3>2. ((got[1].answers[1] = "in") = TRUE) /\ ((got[2].answers[1] = "in") = FALSE)
            BY <2>7, <2>8
        <3>3. \A side \in {TRUE, FALSE} : \E i \in DOMAIN got : (got[i].answers[1] = "in") = side
            BY <3>1, <3>2
        <3> QED BY <2>10, <3>3 DEF Passed
    <2> QED BY <1>6, <2>9, <2>10
<1>7. CASE InProcess
    BY <1>7 DEF Passed, InProcess
<1> QED BY <1>1, <1>4, <1>5, <1>6, <1>7, DriverAssumption DEF InProcess

\* A file or a row to be read is there, and is good.
LEMMA RowIsThere ==
    ASSUME CellInv, AllIsGood, quiet, verdict = "running", Now.op = "read"
    PROVE  /\ rows[Now.dag] # NoRow
           /\ Alternates => Good(driver, rows[Now.dag], Now.dag, runs)
           /\ WritesFile => Good(driver, rows[Now.dag], Now.dag, IF Pos = 6 THEN 1 ELSE 2)
<1>1. driver \in Driver /\ OnScript /\ OnDiskIsGood
    BY DEF CellInv, DriverTypes, AllIsGood
<1>2. ~InProcess
    BY <1>1, InProcessPlaces
<1>3. CASE Alternates
    <2>1. Good(driver, rows[Now.dag], Now.dag, runs)
        BY <1>1, <1>3 DEF OnDiskIsGood
    <2> QED BY <1>1, <1>3, <2>1, Kinds, DriverAssumption DEF Good
<1>4. CASE WritesFile
    <2>1. (Pos = 6 /\ Now.dag = inDag) \/ (Pos = 7 /\ Now.dag = outDag)
        BY <1>1, <1>4, FilePlaces
    <2>2. Good(driver, rows[Now.dag], Now.dag, IF Pos = 6 THEN 1 ELSE 2)
        BY <1>1, <1>4, <2>1 DEF OnDiskIsGood
    <2> QED BY <1>1, <1>4, <2>2, Kinds, DriverAssumption DEF Good
<1> QED BY <1>1, <1>2, <1>3, <1>4, Kinds

\* So neither assertion of an in-process driver raises.
LEMMA PlacementHolds ==
    ASSUME CellInv, QuietInv, quiet, verdict = "running", Now.op = "assert"
    PROVE  \A i \in {Len(got) - 1, Len(got)} : AsExpected(got[i])
<1>1. driver \in Driver /\ OnScript /\ got \in Seq(CellRecord) /\ ReadIsGood /\ Asked
    BY DEF CellInv, DriverTypes, QuietInv, AllIsGood
<1>2. InProcess
    BY <1>1, SubprocessPlaces
<1>3. Len(got) >= 2 /\ Len(got) \in Nat
    BY <1>1, <1>2, InProcessPlaces DEF Asked
<1>4. driver # "kill_switch"
    BY <1>1, <1>2, Kinds
<1> SUFFICES ASSUME NEW i \in {Len(got) - 1, Len(got)} PROVE AsExpected(got[i])
    OBVIOUS
<1>5. i \in 1..Len(got)
    BY <1>3
<1>6. Good(driver, got[i], got[i].dag, i)
    BY <1>1, <1>5 DEF ReadIsGood
<1> QED BY <1>4, <1>6, AsWanted

LEMMA IdenticalHolds ==
    ASSUME CellInv, QuietInv, quiet, verdict = "running", Now.op = "identical"
    PROVE  \A i, j \in Now.first..Len(got) : got[i].dag = got[j].dag => Placed(got[i]) = Placed(got[j])
<1>1. driver \in Driver /\ OnScript /\ got \in Seq(CellRecord) /\ ReadIsGood
    BY DEF CellInv, DriverTypes, QuietInv, AllIsGood
<1>2. InProcess
    BY <1>1, SubprocessPlaces
<1>3. driver # "kill_switch"
    BY <1>1, <1>2, Kinds
<1>4. Now.first \in {1, 7} /\ Len(got) \in Nat
    BY <1>1, NowIs, StepFields
<1>5. ASSUME NEW i \in Now.first..Len(got) PROVE Placed(got[i]) <=> got[i].dag = inDag
    <2>1. i \in 1..Len(got)
        BY <1>4
    <2>2. Good(driver, got[i], got[i].dag, i)
        BY <1>1, <2>1 DEF ReadIsGood
    <2> QED BY <1>3, <2>2, AsWanted
<1>6. \A i \in Now.first..Len(got) : Placed(got[i]) \in BOOLEAN
    BY DEF Placed
<1> QED BY <1>5, <1>6

LEMMA PassStep == CellInv /\ QuietInv /\ [DriverNext]_driverVars => QuietRunPasses'
<1> SUFFICES ASSUME CellInv, QuietInv, [DriverNext]_driverVars PROVE QuietRunPasses'
    OBVIOUS
<1>0. QuietRunPasses /\ AllIsGood
    BY DEF QuietInv
<1>1. CASE verdict' \in {"running", "ok"} \/ ~quiet'
    BY <1>1 DEF QuietRunPasses
<1>2. CASE UNCHANGED <<verdict, quiet>>
    BY <1>0, <1>2 DEF QuietRunPasses
<1>3. CASE SetUp \/ Migrate \/ FlagdUp \/ Flip \/ RunFails \/ AskFlag
           \/ \E state \in {"success", "failed"} : RunEnds(state)
    BY <1>1, <1>2, <1>3 DEF SetUp, Migrate, FlagdUp, Flip, RunFails, AskFlag, RunEnds, Die, Doing
<1>4. CASE Judge
    <2>1. quiet => Passed
        BY <1>4, JudgePasses DEF Judge, Doing, Now
    <2>2. verdict' = (IF Passed THEN "ok" ELSE "failed") /\ UNCHANGED quiet
        BY <1>4 DEF Judge
    <2> QED BY <1>1, <2>1, <2>2
<1>5. CASE ReadBack
    <2>1. quiet => rows[Now.dag] # NoRow
        BY <1>0, <1>5, RowIsThere DEF ReadBack, Doing, Now
    <2>2. UNCHANGED quiet /\ (rows[Now.dag] # NoRow => UNCHANGED verdict)
        BY <1>5 DEF ReadBack, Now
    <2> QED BY <1>1, <1>2, <2>1, <2>2
<1>6. CASE AssertPlacement
    <2>1. quiet => \A i \in {Len(got) - 1, Len(got)} : AsExpected(got[i])
        BY <1>6, PlacementHolds DEF AssertPlacement, Doing, Now
    <2>2. /\ UNCHANGED quiet
          /\ (\A i \in {Len(got) - 1, Len(got)} : AsExpected(got[i])) => UNCHANGED verdict
        BY <1>6 DEF AssertPlacement
    <2> QED BY <1>1, <1>2, <2>1, <2>2
<1>7. CASE AssertIdentical
    <2> DEFINE same == \A i, j \in Now.first..Len(got) :
                            got[i].dag = got[j].dag => Placed(got[i]) = Placed(got[j])
    <2>1. quiet => same
        BY <1>7, IdenticalHolds DEF AssertIdentical, Doing, Now
    <2>2. UNCHANGED quiet /\ (same => UNCHANGED verdict)
        BY <1>7 DEF AssertIdentical, Now
    <2> QED BY <1>1, <1>2, <2>1, <2>2
<1>8. CASE FactoryRaises \/ FactorySets \/ AskEnds \/ Expose \/ HotReload \/ Rerun
           \/ (\E b \in Container : Outage(b)) \/ UNCHANGED driverVars
    BY <1>1, <1>2, <1>8, Raised DEF FactorySets, AskEnds, Expose, HotReload, Rerun, Outage, driverVars
<1> QED BY <1>3, <1>4, <1>5, <1>6, <1>7, <1>8 DEF DriverNext

-----------------------------------------------------------------------------
(* Nothing broke, so the driver passes: every answer is the wanted one.    *)

\* The step may go on with nothing in hand and nothing to be read at once.
LEMMA GoodOnward ==
    ASSUME driver \in Driver, UNCHANGED <<driver, reach>>, quiet' => quiet, AllIsGood,
           verdict = "running", quiet' => ReadIsGood',
           Len(answers') = 0, Alternates => Now'.op # "read", WritesFile /\ quiet' => OnDiskIsGood'
    PROVE  AllIsGood'
<1> SUFFICES ASSUME quiet', verdict' = "running"
             PROVE  (\A b \in Container : reach'[b]) /\ InHandIsGood' /\ ReadIsGood' /\ OnDiskIsGood'
    BY DEF AllIsGood
<1>1. (Alternates' <=> Alternates) /\ (WritesFile' <=> WritesFile)
    BY SameKind
<1>2. \A b \in Container : reach'[b]
    BY DEF AllIsGood
<1>3. InHandIsGood'
    <2>1. \A i \in 1..Len(answers') : FALSE
        OBVIOUS
    <2> QED BY <2>1 DEF InHandIsGood
<1>4. OnDiskIsGood'
    <2>1. CASE WritesFile
        BY <2>1
    <2>2. CASE ~WritesFile
        BY <1>1, <2>2 DEF OnDiskIsGood
    <2> QED BY <2>1, <2>2
<1> QED BY <1>2, <1>3, <1>4

\* A step that neither runs, asks nor reads.
LEMMA GoodPlain ==
    ASSUME CellInv, AllIsGood, verdict = "running", Done,
           Now.op \notin {"run", "read", "ask", "judge"},
           UNCHANGED <<driver, quiet, answers, runs, got, reach>>
    PROVE  AllIsGood'
<1>1. /\ driver \in Driver /\ OnScript /\ InHand /\ (quiet => ReadIsGood)
    BY DEF CellInv, DriverTypes, AllIsGood
<1>2. Pos' = Pos + 1 /\ Now' = Script(driver)[Pos + 1] /\ Pos + 1 <= Size /\ Pos \in 1..Size
    BY <1>1, Advanced
<1>3. Len(answers') = 0
    BY <1>1 DEF InHand
<1>4. Alternates => Now'.op # "read"
    BY <1>1, <1>2, AlternatingPlaces
<1>5. WritesFile => OnDiskIsGood'
    <2> SUFFICES ASSUME WritesFile PROVE OnDiskIsGood'
        OBVIOUS
    <2>1. Pos \in {1, 2, 3}
        <3>1. ~InProcess /\ Pos \in 1..8 /\ Size = 8 /\ Pos \notin {4, 5, 6, 7}
            BY <1>1, Kinds, FilePlaces
        <3>2. Pos # 8
            BY <1>1, <3>1, SubprocessPlaces
        <3> QED BY <3>1, <3>2
    <2>2. Pos' \in {2, 3, 4}
        BY <1>2, <2>1
    <2>3. ~(Pos' >= 5) /\ ~(Pos' >= 6) /\ ~Alternates'
        BY <1>1, <2>2, SameKind, Kinds
    <2> QED BY <2>3 DEF OnDiskIsGood
<1>6. quiet' => ReadIsGood'
    BY <1>1 DEF ReadIsGood
<1> QED BY <1>1, <1>3, <1>4, <1>5, <1>6, GoodOnward

\* Neither the place nor what was answered changes.
LEMMA GoodStill ==
    ASSUME AllIsGood, UNCHANGED <<driver, todo, answers, runs, got, rows, reach>>,
           quiet' => quiet, verdict' = "running" => verdict = "running"
    PROVE  AllIsGood'
<1>1. Pos' = Pos /\ Now' = Now
    BY DEF Pos, Now, Size
<1>2. (Alternates' <=> Alternates) /\ (WritesFile' <=> WritesFile)
    BY SameKind
<1>3. InHandIsGood => InHandIsGood'
    BY <1>1 DEF InHandIsGood
<1>4. ReadIsGood => ReadIsGood'
    BY DEF ReadIsGood
<1>5. OnDiskIsGood => OnDiskIsGood'
    BY <1>1, <1>2 DEF OnDiskIsGood
<1> QED BY <1>3, <1>4, <1>5 DEF AllIsGood

\* What a backend that can be reached answers.
LEMMA GoodAnswer ==
    ASSUME CellInv, Machine, AllIsGood, AskFlag, quiet', NEW b,
           b = IF Now.op = "run" THEN Now.backend ELSE provider
    PROVE  AnswerOf(b, Now.dag) = Wanted(driver, Now.dag, runs + 1)
<1>1. /\ driver \in Driver /\ OnScript /\ Counted /\ runs \in Nat
      /\ verdict = "running" /\ Now.op \in {"run", "ask"} /\ quiet /\ (b = "flagd" => loaded = file)
    BY DEF CellInv, DriverTypes, AskFlag, Doing, Now
<1>2. \A x \in Container : reach[x]
    BY <1>1 DEF AllIsGood
<1>3. Pos \in 1..Size /\ Size \in Nat
    BY <1>1, NowIs, ScriptIs
<1>4. b = "flagd" => container
    <2>1. CASE InProcess
        BY <2>1 DEF Machine
    <2>2. CASE ~InProcess
        BY <1>1, <1>3, <2>2, SubprocessPlaces DEF Machine
    <2> QED BY <2>1, <2>2
<1>5. b = "flagd" => (loaded <=> (driver = "kill_switch" => Pos <= 6))
    <2>1. CASE InProcess
        BY <1>1, <2>1, Kinds DEF Machine
    <2>2. CASE ~InProcess
        <3>1. Pos >= 2
            BY <1>1, <1>3, <2>2, SubprocessPlaces
        <3> QED BY <1>1, <2>2, <3>1 DEF Machine
    <2> QED BY <2>1, <2>2
<1>6. driver = "kill_switch" => b = "flagd" /\ (Pos <= 6 <=> runs + 1 = 1)
    <2> SUFFICES ASSUME driver = "kill_switch" PROVE b = "flagd" /\ (Pos <= 6 <=> runs + 1 = 1)
        OBVIOUS
    <2>1. ~InProcess
        BY <1>1, Kinds
    <2>2. Now.op = "run"
        BY <1>1, <2>1, SubprocessPlaces
    <2>3. Pos \in {4, 7} /\ Now.backend = "flagd"
        BY <1>1, <2>2, KillSwitchPlaces
    <2>4. runs = IF Pos <= 4 THEN 0 ELSE IF Pos <= 7 THEN 1 ELSE 2
        BY <1>1 DEF Counted
    <2>5. Pos <= 6 <=> runs + 1 = 1
        BY <2>3, <2>4
    <2> QED BY <2>2, <2>3, <2>5
<1>7. CASE b = "flagd"
    BY <1>2, <1>4, <1>5, <1>6, <1>7 DEF AnswerOf, Wanted, Container
<1>8. CASE b # "flagd"
    BY <1>2, <1>6, <1>8 DEF AnswerOf, Wanted
<1> QED BY <1>7, <1>8

LEMMA GoodAsk == ASSUME CellInv, Machine, AllIsGood, AskFlag PROVE AllIsGood'
<1> SUFFICES ASSUME quiet', verdict' = "running"
             PROVE  (\A b \in Container : reach'[b]) /\ InHandIsGood' /\ ReadIsGood' /\ OnDiskIsGood'
    BY DEF AllIsGood
<1> DEFINE b == IF Now.op = "run" THEN Now.backend ELSE provider
           w == Wanted(driver, Now.dag, runs + 1)
<1>1. /\ verdict = "running" /\ Now.op \in {"run", "ask"} /\ quiet
      /\ answers' = Append(answers, AnswerOf(b, Now.dag))
      /\ UNCHANGED <<driver, todo, runs, got, rows, reach>>
    BY DEF AskFlag, Doing, Now, world
<1>2. AnswerOf(b, Now.dag) = w
    BY GoodAnswer
<1>3. answers \in Seq({"in", "out", "none"}) /\ (\A i \in 1..Len(answers) : answers[i] = w)
    BY <1>1 DEF CellInv, DriverTypes, AllIsGood, InHandIsGood
<1>4. answers' = Append(answers, w)
    BY <1>1, <1>2
<1>5. Pos' = Pos /\ Now' = Now /\ (Alternates' <=> Alternates) /\ (WritesFile' <=> WritesFile)
    BY <1>1, SameKind DEF Pos, Now, Size
<1>6. Wanted(driver, Now.dag, runs + 1)' = w
    BY <1>1, <1>5
<1> HIDE DEF w
<1>7. \A i \in 1..Len(answers') : answers'[i] = w
    <2>1. Len(answers') = Len(answers) + 1 /\ Len(answers) \in Nat
        BY <1>3, <1>4
    <2> TAKE i \in 1..Len(answers')
    <2>2. CASE i \in 1..Len(answers)
        BY <1>3, <1>4, <2>2
    <2>3. CASE i = Len(answers) + 1
        BY <1>3, <1>4, <2>3
    <2> QED BY <2>1, <2>2, <2>3
<1>8. InHandIsGood'
    BY <1>6, <1>7 DEF InHandIsGood
<1>9. ReadIsGood' /\ \A x \in Container : reach'[x]
    BY <1>1 DEF AllIsGood, ReadIsGood
<1>10. OnDiskIsGood'
    BY <1>1, <1>5 DEF AllIsGood, OnDiskIsGood
<1> QED BY <1>8, <1>9, <1>10

\* What a run leaves on disk.
LEMMA GoodRun ==
    ASSUME CellInv, AllIsGood, NEW state \in {"success", "failed"}, RunEnds(state)
    PROVE  AllIsGood'
<1> SUFFICES ASSUME quiet', verdict' = "running"
             PROVE  (\A b \in Container : reach'[b]) /\ InHandIsGood' /\ ReadIsGood' /\ OnDiskIsGood'
    BY DEF AllIsGood
<1> DEFINE c == Cell(Now.backend, Now.dag, state)
<1>1. /\ DriverTypes /\ OnScript /\ Counted /\ driver \in Driver
    BY DEF CellInv, DriverTypes
<1>2. /\ verdict = "running" /\ Now.op = "run" /\ Done /\ runs' = runs + 1 /\ answers' = <<>>
      /\ Len(answers) = Now.questions /\ quiet /\ state = "success"
      /\ rows' = [rows EXCEPT ![Now.dag] = c]
      /\ UNCHANGED <<driver, got, reach>>
    BY DEF RunEnds, Doing, Now, world
<1>3. /\ Pos' = Pos + 1 /\ Now' = Script(driver)[Pos + 1] /\ Pos + 1 <= Size /\ Pos \in 1..Size
    BY <1>1, <1>2, Advanced
<1>4. Now.dag \in Population /\ Now.backend \in Backend /\ Now.questions \in 1..3 /\ ~InProcess
    BY <1>1, <1>2, NowIs, StepFields, InProcessPlaces
<1>5. (Alternates' <=> Alternates) /\ (WritesFile' <=> WritesFile)
    BY <1>2, SameKind
<1>6. InHandIsGood /\ ReadIsGood /\ OnDiskIsGood /\ (\A b \in Container : reach[b])
    BY <1>2 DEF AllIsGood
<1>7. driver = "gates_listener" => Now.questions = 3
    BY <1>1, <1>2, Kinds, FilePlaces
<1>8. Good(driver, c, Now.dag, runs + 1)
    <2>1. c \in CellRecord /\ c.dag = Now.dag /\ c.state = "success" /\ c.answers = answers
        BY <1>1, <1>2, <1>4 DEF DriverTypes, Cell, CellRecord, Population, Backend, Container
    <2>2. \A i \in 1..Len(answers) : answers[i] = Wanted(driver, Now.dag, runs + 1)
        BY <1>2, <1>6 DEF InHandIsGood
    <2>3. Len(answers) # 0 /\ (driver = "gates_listener" => Len(answers) = 3)
        BY <1>2, <1>4, <1>7
    <2> HIDE DEF c
    <2> QED BY <2>1, <2>2, <2>3 DEF Good
<1> HIDE DEF c
<1>9. rows'[Now.dag] = c /\ \A d \in Population : d # Now.dag => rows'[d] = rows[d]
    BY <1>1, <1>2, <1>4 DEF DriverTypes
<1>10. InHandIsGood'
    <2>1. \A i \in 1..Len(answers') : FALSE
        BY <1>2
    <2> QED BY <2>1 DEF InHandIsGood
<1>11. ReadIsGood' /\ \A b \in Container : reach'[b]
    BY <1>2, <1>6 DEF ReadIsGood
<1>12. OnDiskIsGood'
    <2>1. CASE Alternates
        <3>1. Now'.dag = Now.dag /\ ~WritesFile
            BY <1>1, <1>2, <1>3, <2>1, AlternatingPlaces, Kinds
        <3>2. Good(driver, rows[Now.dag], Now.dag, runs)'
            BY <1>2, <1>8, <1>9, <3>1
        <3> QED BY <1>5, <3>1, <3>2 DEF OnDiskIsGood
    <2>2. CASE WritesFile
        <3>1. Pos \in {4, 5} /\ (Pos = 4 => Now.dag = inDag) /\ (Pos = 5 => Now.dag = outDag)
            BY <1>1, <1>2, <2>2, FilePlaces
        <3>2. runs + 1 = IF Pos = 4 THEN 1 ELSE 2
            BY <1>1, <1>2, <2>2, <3>1 DEF Counted
        <3>3. ~Alternates'
            BY <1>1, <1>5, <2>2, Kinds
        <3>4. CASE Pos = 4
            <4>1. Good(driver, rows'[inDag], inDag, 1) /\ Pos' = 5
                BY <1>3, <1>8, <1>9, <3>1, <3>2, <3>4
            <4>2. ~(Pos' >= 6)
                BY <4>1
            <4> QED BY <1>2, <3>3, <4>1, <4>2 DEF OnDiskIsGood
        <3>5. CASE Pos = 5
            <4>1. Good(driver, rows'[outDag], outDag, 2) /\ rows'[inDag] = rows[inDag]
                BY <1>8, <1>9, <3>1, <3>2, <3>5, DriverAssumption DEF Population
            <4>2. Good(driver, rows[inDag], inDag, 1)
                BY <1>6, <2>2, <3>5 DEF OnDiskIsGood
            <4> QED BY <1>2, <3>3, <4>1, <4>2 DEF OnDiskIsGood
        <3> QED BY <3>1, <3>4, <3>5
    <2> QED BY <1>1, <1>4, <2>1, <2>2, Kinds
<1> QED BY <1>10, <1>11, <1>12

\* What is read or parsed is appended.
LEMMA GoodCell ==
    ASSUME CellInv, ReadIsGood, NEW c, Good(driver, c, c.dag, Len(got) + 1), got' = Append(got, c),
           UNCHANGED driver
    PROVE  ReadIsGood'
<1>1. got \in Seq(CellRecord) /\ c \in CellRecord
    BY DEF CellInv, DriverTypes, Good
<1>2. /\ Len(got') = Len(got) + 1 /\ Len(got) \in Nat /\ got'[Len(got) + 1] = c
      /\ \A i \in 1..Len(got) : got'[i] = got[i]
    BY <1>1
<1>3. ASSUME NEW i \in 1..Len(got') PROVE Good(driver, got'[i], got'[i].dag, i)
    <2>1. CASE i \in 1..Len(got)
        BY <1>2, <2>1 DEF ReadIsGood
    <2>2. CASE i = Len(got) + 1
        BY <1>2, <2>2
    <2> QED BY <1>2, <2>1, <2>2
<1> QED BY <1>3 DEF ReadIsGood

LEMMA GoodRead ==
    ASSUME CellInv, AllIsGood, ReadBack, rows[Now.dag] # NoRow PROVE AllIsGood'
<1>1. driver \in Driver /\ OnScript /\ Counted /\ InHand
    BY DEF CellInv, DriverTypes
<1>2. /\ verdict = "running" /\ Now.op = "read" /\ Done
      /\ UNCHANGED <<driver, quiet, rows, answers, runs, reach>>
    BY DEF ReadBack, Doing, Now, world
<1>3. /\ Pos' = Pos + 1 /\ Now' = Script(driver)[Pos + 1] /\ Pos + 1 <= Size /\ Pos \in 1..Size
    BY <1>1, <1>2, Advanced
<1> DEFINE c == rows[Now.dag]
<1>4. /\ got' = Append(got, c) /\ c.dag = Now.dag /\ ~InProcess
      /\ Alternates => runs = Len(got) + 1
      /\ WritesFile => (Pos = 6 /\ Len(got) = 0) \/ (Pos = 7 /\ Len(got) = 1)
    BY ReadIs
<1>5. ASSUME quiet PROVE Good(driver, c, c.dag, Len(got) + 1)
    <2>1. /\ Alternates => Good(driver, c, Now.dag, runs)
          /\ WritesFile => Good(driver, c, Now.dag, IF Pos = 6 THEN 1 ELSE 2)
        BY <1>2, <1>5, RowIsThere
    <2> HIDE DEF c
    <2>2. CASE Alternates
        BY <1>4, <2>1, <2>2
    <2>3. CASE WritesFile
        <3>0. (Pos = 6 /\ Len(got) = 0) \/ (Pos = 7 /\ Len(got) = 1)
            BY <1>4, <2>3
        <3>1. Good(driver, c, Now.dag, IF Pos = 6 THEN 1 ELSE 2)
            BY <2>1, <2>3
        <3>2. CASE Pos = 6 /\ Len(got) = 0
            BY <1>4, <3>1, <3>2
        <3>3. CASE Pos = 7 /\ Len(got) = 1
            BY <1>4, <3>1, <3>3
        <3> QED BY <3>0, <3>2, <3>3
    <2> QED BY <1>1, <1>4, <2>2, <2>3, Kinds
<1> HIDE DEF c
<1>6. quiet' => ReadIsGood'
    BY <1>2, <1>4, <1>5, GoodCell DEF AllIsGood
<1>7. Len(answers') = 0
    BY <1>2 DEF CellInv, InHand
<1>8. Alternates => Now'.op # "read"
    BY <1>1, <1>2, <1>3, AlternatingPlaces
<1>9. WritesFile /\ quiet' => OnDiskIsGood'
    <2> SUFFICES ASSUME WritesFile, quiet' PROVE OnDiskIsGood'
        OBVIOUS
    <2>1. Pos >= 6 /\ ~Alternates'
        BY <1>1, <1>2, <1>4, SameKind, Kinds
    <2>2. Good(driver, rows[inDag], inDag, 1) /\ Good(driver, rows[outDag], outDag, 2)
        BY <1>2, <1>3, <2>1 DEF AllIsGood, OnDiskIsGood
    <2> QED BY <1>2, <2>1, <2>2 DEF OnDiskIsGood
<1> QED BY <1>1, <1>2, <1>6, <1>7, <1>8, <1>9, GoodOnward

LEMMA GoodParse == ASSUME CellInv, AllIsGood, AskEnds PROVE AllIsGood'
<1>1. DriverTypes /\ OnScript /\ Counted /\ driver \in Driver
    BY DEF CellInv, DriverTypes
<1> DEFINE c == Cell(provider, Now.dag, "parsed")
<1>2. /\ verdict = "running" /\ Now.op = "ask" /\ Done /\ answers' = <<>> /\ got' = Append(got, c)
      /\ Len(answers) = Now.questions
      /\ UNCHANGED <<driver, quiet, reach>>
    BY DEF AskEnds, Doing, Now, world
<1>3. Now.dag \in Population /\ Now.questions \in 1..3
    BY <1>1, <1>2, NowIs, StepFields
<1>4. InProcess /\ ~Alternates /\ ~WritesFile /\ driver # "gates_listener"
    BY <1>1, <1>2, SubprocessPlaces, Kinds
<1>5. runs = Len(got)
    BY <1>1, <1>2, <1>4 DEF Counted
<1>6. ASSUME quiet PROVE Good(driver, c, c.dag, Len(got) + 1)
    <2>1. c \in CellRecord /\ c.dag = Now.dag /\ c.answers = answers
        BY <1>1, <1>3 DEF DriverTypes, Cell, CellRecord, Population, Backend, Container
    <2>2. \A i \in 1..Len(answers) : answers[i] = Wanted(driver, Now.dag, runs + 1)
        BY <1>2, <1>6 DEF AllIsGood, InHandIsGood
    <2>3. Len(answers) # 0
        BY <1>2, <1>3
    <2> HIDE DEF c
    <2> QED BY <1>4, <1>5, <2>1, <2>2, <2>3 DEF Good, InProcess
<1> HIDE DEF c
<1>7. quiet' => ReadIsGood'
    BY <1>2, <1>6, GoodCell DEF AllIsGood
<1>8. Len(answers') = 0
    BY <1>2
<1> QED BY <1>1, <1>2, <1>4, <1>7, <1>8, GoodOnward

\* A driver that starts has nothing to answer for.
LEMMA GoodStart == Beginning => InHandIsGood /\ ReadIsGood /\ OnDiskIsGood
<1> SUFFICES ASSUME Beginning PROVE InHandIsGood /\ ReadIsGood /\ OnDiskIsGood
    OBVIOUS
<1>1. Pos = 1 /\ Now.op # "read"
    BY FirstPlace
<1>2. Len(answers) = 0 /\ Len(got) = 0
    BY DEF Beginning
<1>3. (\A i \in 1..Len(answers) : FALSE) /\ (\A i \in 1..Len(got) : FALSE)
    BY <1>2
<1> QED BY <1>1, <1>3 DEF InHandIsGood, ReadIsGood, OnDiskIsGood

LEMMA GoodAgain == Beginning' => InHandIsGood' /\ ReadIsGood' /\ OnDiskIsGood'
BY GoodStart, PTL

LEMMA GoodStep == CellInv /\ Machine /\ AllIsGood /\ [DriverNext]_driverVars => AllIsGood'
<1> SUFFICES ASSUME CellInv, Machine, AllIsGood, [DriverNext]_driverVars PROVE AllIsGood'
    OBVIOUS
<1>0. driver \in Driver /\ OnScript
    BY DEF CellInv, DriverTypes
<1>1. CASE ~quiet' \/ verdict' # "running"
    BY <1>1 DEF AllIsGood
<1>2. CASE AskFlag
    BY <1>2, GoodAsk
<1>3. CASE \E state \in {"success", "failed"} : RunEnds(state)
    BY <1>3, GoodRun
<1>4. CASE AskEnds
    BY <1>4, GoodParse
<1>5. CASE ReadBack
    <2>1. CASE rows[Now.dag] # NoRow
        BY <1>5, <2>1, GoodRead
    <2>2. CASE rows[Now.dag] = NoRow
        BY <1>1, <1>5, <2>2 DEF ReadBack, Die, Now
    <2> QED BY <2>1, <2>2
<1>6. CASE SetUp \/ Migrate \/ FlagdUp \/ Flip \/ AssertPlacement \/ AssertIdentical \/ Expose
    <2>1. /\ verdict = "running" /\ UNCHANGED driver
          /\ Now.op \in {"setup", "migrate", "flagd_up", "flip", "assert", "identical", "expose"}
        BY <1>6 DEF SetUp, Migrate, FlagdUp, Flip, AssertPlacement, AssertIdentical, Expose, Doing, Now
    <2>2. CASE Done /\ UNCHANGED <<quiet, answers, runs, got, reach>>
        BY <2>1, <2>2, GoodPlain
    <2> QED BY <1>1, <1>6, <2>2
            DEF SetUp, Migrate, FlagdUp, Flip, AssertPlacement, AssertIdentical, Expose, Die, process, world
<1>7. CASE Judge \/ RunFails \/ (\E b \in Container : Outage(b))
    BY <1>1, <1>7 DEF Judge, RunFails, Die, Outage
<1>8. CASE HotReload \/ UNCHANGED driverVars
    <2>1. UNCHANGED <<driver, todo, verdict, quiet, answers, runs, got, rows, reach>>
        BY <1>8 DEF HotReload, driverVars, process
    <2> QED BY <2>1, GoodStill
<1>9. CASE FactoryRaises \/ FactorySets
    <2>1. /\ verdict = "running" /\ Now.op = "factory"
          /\ UNCHANGED driver
          /\ \/ /\ UNCHANGED <<quiet, answers, runs, got, reach>>
                /\ Done \/ (SkipBackend /\ driver = "run_all_backends")
             \/ verdict' = "died"
        BY <1>9, Raised DEF FactorySets, Doing, Now, process, world
    <2>2. CASE Done
        BY <1>1, <2>1, <2>2, GoodPlain
    <2>3. CASE SkipBackend /\ driver = "run_all_backends" /\ verdict' # "died"
        <3>1. ~Alternates /\ ~WritesFile /\ Len(answers') = 0
            BY <1>0, <2>1, <2>3, Kinds DEF CellInv, InHand
        <3>2. UNCHANGED <<driver, quiet, answers, runs, got, reach>>
            BY <2>1, <2>3
        <3>3. quiet' => ReadIsGood'
            BY <2>1, <3>2 DEF AllIsGood, ReadIsGood
        <3> QED BY <1>0, <2>1, <3>1, <3>2, <3>3, GoodOnward
    <2> QED BY <1>1, <2>1, <2>2, <2>3
<1>10. CASE Rerun
    <2>1. UNCHANGED <<driver, reach>> /\ quiet' = \A b \in Container : reach[b]
        BY <1>10 DEF Rerun, world
    <2>2. Beginning'
        <3>1. Script(driver)' = Script(driver)
            BY <2>1
        <3> QED BY <1>10, <3>1 DEF Rerun, CellInv, DriverTypes, Beginning
    <2> QED BY <2>1, <2>2, GoodAgain DEF AllIsGood
<1> QED BY <1>2, <1>3, <1>4, <1>5, <1>6, <1>7, <1>8, <1>9, <1>10 DEF DriverNext

LEMMA QuietInit == DriverInit => QuietInv
<1> SUFFICES ASSUME DriverInit PROVE QuietInv
    OBVIOUS
<1>1. Beginning
    BY DEF DriverInit, Beginning, Population
<1>2. Pos = 1
    BY <1>1, FirstPlace
<1>3. Machine /\ Asked /\ QuietRunPasses
    BY <1>2 DEF DriverInit, Machine, Asked, QuietRunPasses
<1>4. AllIsGood
    BY <1>1, GoodStart DEF AllIsGood, DriverInit
<1>5. ReadInOrder
    <2>1. Len(got) = 0
        BY DEF DriverInit
    <2>2. \A i \in 1..Len(got) : FALSE
        BY <2>1
    <2> QED BY <2>2 DEF ReadInOrder
<1> QED BY <1>3, <1>4, <1>5 DEF QuietInv

\* A driver that says the provider does not place as documented is right about
\* it, or something outside broke in this attempt, whatever earlier attempts
\* left behind.
THEOREM FailuresAreReal == DriverSpec => []QuietRunPasses
<1>1. CellInv /\ QuietInv /\ [DriverNext]_driverVars => QuietInv'
    BY MachineStep, AskedStep, GoodStep, OrderStep, PassStep DEF QuietInv
<1>2. QuietInv => QuietRunPasses
    BY DEF QuietInv
<1> QED BY <1>1, <1>2, CellAlways, QuietInit, PTL DEF DriverSpec

-----------------------------------------------------------------------------
(* The canary.                                                             *)

\* Where pods come from: an earlier attempt, the first subset, or the present
\* one once show() launches it.
Launching == IF phase \in {"launch", "poll"} THEN subset ELSE {}
PodsWereRouted ==
    phase # "over" => \A d \in Dag : pods[d] # "none" => d \in leftover \cup c25 \cup Launching

\* The first subset is written at the end of the first show() only.
FirstSubset ==
    /\ phase = "launch" => unlaunched \subseteq subset
    /\ phase # "over" => canaryVerdict = "running"
    /\ phase # "over" /\ ramp = 25 => c25 = {}

\* What the verdict compared.
Judged ==
    canaryVerdict = "ok" =>
        /\ p50 \subseteq leftover \cup c25 \cup c50
        /\ c25 \subseteq c50
        /\ Cardinality(p50) = Cardinality(c50)

CanaryInv == CanaryTypeOK /\ PodsWereRouted /\ FirstSubset /\ Judged

LEMMA CanaryInvInit == CanaryInit => CanaryInv
BY DEF CanaryInit, CanaryInv, CanaryTypeOK, PodsWereRouted, Launching, FirstSubset, Judged,
       PodState

LEMMA CanaryInvStep == CanaryInv /\ [CanaryNext]_canaryVars => CanaryInv'
<1> SUFFICES ASSUME CanaryInv, [CanaryNext]_canaryVars PROVE CanaryInv'
    OBVIOUS
<1> USE DEF CanaryInv, CanaryTypeOK, PodsWereRouted, Launching, FirstSubset, Judged
<1>1. ASSUME NEW d \in Dag, RouteDag(d) PROVE CanaryInv'
    BY <1>1 DEF RouteDag, flagd, results
<1>2. CASE StartLaunching
    BY <1>2 DEF StartLaunching, flagd, results
<1>3. ASSUME NEW d \in Dag, LaunchPod(d) PROVE CanaryInv'
    <2>1. \A e \in Dag : pods'[e] = pods[e] \/ (e = d /\ pods'[e] \in PodState)
        BY <1>3 DEF LaunchPod, PodState
    <2>2. pods' \in [Dag -> PodState]
        BY <1>3 DEF LaunchPod, PodState
    <2> QED
        BY <1>3, <2>1, <2>2 DEF LaunchPod, flagd, results
<1>4. CASE StartPolling
    BY <1>4 DEF StartPolling, flagd, results
<1>5. CASE PollAgain
    BY <1>5 DEF PollAgain, flagd, results
<1>6. CASE EndShow
    <2> DEFINE up == {d \in Dag : pods[d] \in Up}
    <2>1. up \subseteq leftover \cup c25 \cup subset
        BY <1>6 DEF EndShow, Up
    <2>2. CASE canaryVerdict = "running" /\ ramp = 25
        BY <1>6, <2>2 DEF EndShow
    <2>3. CASE ~(canaryVerdict = "running" /\ ramp = 25)
        <3>1. /\ c50' = subset /\ p50' \in {up, {}} /\ c25' = c25 /\ phase' = "over"
              /\ canaryVerdict' = IF Grew(p50') THEN "ok" ELSE "failed"
            BY <1>6, <2>3 DEF EndShow
        <3>2. Judged'
            BY <1>6, <2>1, <3>1 DEF EndShow, Grew
        <3>3. CanaryTypeOK'
            BY <1>6, <2>3, <3>1 DEF EndShow
        <3> QED
            BY <1>6, <2>3, <3>1, <3>2, <3>3 DEF EndShow
    <2> QED
        BY <2>2, <2>3
<1>7. ASSUME NEW d \in Dag, PodMoves(d) PROVE CanaryInv'
    <2>1. \A e \in Dag : pods'[e] = pods[e] \/ (e = d /\ pods[e] # "none")
        BY <1>7 DEF PodMoves
    <2>2. pods' \in [Dag -> PodState]
        BY <1>7 DEF PodMoves, PodState, Up
    <2> QED
        BY <1>7, <2>1, <2>2 DEF PodMoves, flagd, results
<1>8. CASE ReloadRamp
    BY <1>8 DEF ReloadRamp, results
<1>9. CASE FlagdOutage
    BY <1>9 DEF FlagdOutage, results
<1>10. CASE UNCHANGED canaryVars
    BY <1>10 DEF canaryVars, flagd, results
<1> QED
    BY <1>1, <1>2, <1>3, <1>4, <1>5, <1>6, <1>7, <1>8, <1>9, <1>10 DEF CanaryNext

\* A passing canary ran a pod for every dag the flag routed, although it only
\* compares two numbers, provided no pod of an earlier attempt lies outside
\* the second subset.
THEOREM RoutedRan == CanarySpec => []RoutedTasksRan
<1>1. CanaryInv => RoutedTasksRan
    <2> SUFFICES ASSUME CanaryInv, canaryVerdict = "ok", leftover \subseteq c50
                 PROVE  p50 = c50
        BY DEF RoutedTasksRan
    <2>1. p50 \subseteq c50 /\ Cardinality(p50) = Cardinality(c50)
        BY DEF CanaryInv, Judged
    <2>2. IsFiniteSet(c50)
        BY CanaryAssumption, FS_Subset DEF CanaryInv, CanaryTypeOK
    <2> QED
        BY <2>1, <2>2, FS_Subset
<1> QED
    BY <1>1, CanaryInvInit, CanaryInvStep, PTL DEF CanarySpec

-----------------------------------------------------------------------------
(* The tests together.                                                     *)

LEMMA AloneInit ==
    Init => DriverInit /\ CanaryInit /\ OutcomeInit /\ RollupInit /\ CaseStudyInit
BY DEF Init

LEMMA AloneStep ==
    [Next]_testVars => /\ [DriverNext]_driverVars
                       /\ [CanaryNext]_canaryVars
                       /\ [OutcomeNext]_outcomeVars
                       /\ [RollupNext]_rollupVars
                       /\ [CaseStudyNext]_<<setupVars, caseVars>>
<1> SUFFICES ASSUME [Next]_testVars
             PROVE  /\ [DriverNext]_driverVars
                    /\ [CanaryNext]_canaryVars
                    /\ [OutcomeNext]_outcomeVars
                    /\ [RollupNext]_rollupVars
                    /\ [CaseStudyNext]_<<setupVars, caseVars>>
    OBVIOUS
<1>1. CASE Drive
    BY <1>1 DEF Drive
<1>2. CASE Route
    BY <1>2 DEF Route
<1>3. CASE Measure
    BY <1>3 DEF Measure
<1>4. CASE RollUp
    BY <1>4 DEF RollUp
<1>5. CASE Study
    BY <1>5 DEF Study
<1>6. CASE UNCHANGED testVars
    BY <1>6 DEF testVars
<1> QED BY <1>1, <1>2, <1>3, <1>4, <1>5, <1>6 DEF Next

\* The tests run one at a time on machines of their own: each behaviour of
\* them together is, for every test, a behaviour of that test alone, so that
\* what is proved of a test alone holds here.
THEOREM TestsRunAlone ==
    Spec => DriverSpec /\ CanarySpec /\ OutcomeSpec /\ RollupSpec /\ CaseStudySpec
BY AloneInit, AloneStep, PTL
   DEF Spec, DriverSpec, CanarySpec, OutcomeSpec, RollupSpec, CaseStudySpec

\* Hence the verdicts of the drivers and of the canary in the run of all tests.
THEOREM TestsJudgeWell ==
    Spec => [](EveryCellIsItsRuns /\ QuietRunPasses /\ ExposureFromLive /\ RoutedTasksRan)
BY TestsRunAlone, CellsAreTheirRuns, FailuresAreReal, ExposuresAreOfTheLive, RoutedRan, PTL
=============================================================================
