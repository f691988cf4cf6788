------------------------------ MODULE Results ------------------------------
(***************************************************************************)
(* The numbers of a judging (src/tioj/submission.cpp, RunExecute in        *)
(* src/tioj/tasks.cpp): the limits a stage runs under, the time, memory,   *)
(* verdict and score a testdatum ends with, and the total.  JudgeQueue has *)
(* the control (which task runs when) and takes verdicts from the sets of  *)
(* Verdicts; here one submission is judged with what its programs use and  *)
(* its checker prints, and its testdata advance in any order.              *)
(*                                                                         *)
(* Units are scaled down by the constants: Unit stands for 1'000'000 (a    *)
(* point), FullPoints for 100 points, kMax for the 1'000'000 points of     *)
(* NormalizeScore.  What programs use and print is given per problem by    *)
(* constant operators.  Virtual memory is treated like resident memory and *)
(* is left out.                                                            *)
(***************************************************************************)
EXTENDS Verdicts, FiniteSets, Sequences, FiniteSetsExt

CONSTANTS
  Problems,
  Usages(_), Outputs(_), Summaries(_),
  Nothing,                 \* not run, not printed
  Unit, FullPoints, kMax,
  MulNum, MulDen,          \* kTimeMultiplier = MulNum / MulDen
  kCpuMargin, kWallMargin, \* 50'000 and 1'000'000 microseconds
  kMaxRSS, kRSSLimitMargin, kMaxOutput

ASSUME ResultsAssumption ==
  /\ {Unit, FullPoints, kMax, MulNum, MulDen, kMaxRSS, kMaxOutput, kWallMargin} \subseteq Nat \ {0}
  /\ FullPoints <= kMax
  /\ kCpuMargin \in Nat /\ kCpuMargin >= 2
  /\ kRSSLimitMargin \in Nat
  /\ MulNum <= kCpuMargin * MulDen   \* a microsecond is never indicated as more than the margin

Resource == [time : Int, rss : Int, output : Int, ignore_verdict : BOOLEAN, td_groups : SUBSET Nat]
Usage    == [utime : Nat, stime : Nat, wall : Nat, rss : Nat, end : {"exit", "status", "signal", "SIGXFSZ", "error"}]

\* An exit status has eight bits; AbrToVerdict yields runtime verdicts for a checker.
Output ==
  [ok : BOOLEAN, code : 0 .. 255, accept : BOOLEAN, nextpass : BOOLEAN,
   score : SUBSET Int, verdict : SUBSET RuntimeVerdict, time : SUBSET Int, rss : SUBSET Int]

Summary == [ok : BOOLEAN, score : SUBSET Int, verdict : SUBSET Verdict]

ASSUME DataAssumption ==
  \A p \in Problems :
    /\ p.testdata \in Seq(Resource)
    /\ p.group_score \in Seq(Int)
    /\ Usages(p) \subseteq Usage
    /\ Outputs(p) \subseteq Output
    /\ Summaries(p) \subseteq Summary \cup {Nothing}

Full == FullPoints * Unit

VARIABLES
  prob,           \* the problem, from Problems
  phase,          \* td -> "run", "ran", "checked" or "end"
  stage,          \* td -> its stage
  r,              \* td -> [verdict, score, time, rss, skip_stage]
  size,           \* td_results.size()
  out,            \* td -> what the checker printed
  used,           \* history: td -> what its last stage used, and the limits it ran under
  cancelled,      \* cancelled_group
  res             \* [verdict, total_score, done]

vars == <<prob, phase, stage, r, size, out, used, cancelled, res>>

Td(i) == prob.testdata[i]
Tds == DOMAIN prob.testdata
NewTdResult == [verdict |-> NUL, score |-> 0, time |-> 0, rss |-> 0, skip_stage |-> FALSE]

\* With a compile error every task ends without running.
Init ==
  /\ prob \in Problems
  /\ \E v \in {NUL, CE} :
       /\ res = [verdict |-> v, total_score |-> 0, done |-> FALSE]
       /\ phase = [i \in Tds |-> IF v = NUL THEN "run" ELSE "end"]
  /\ stage = [i \in Tds |-> 0]
  /\ r = [i \in Tds |-> NewTdResult]
  /\ size = 0
  /\ out = [i \in Tds |-> Nothing]
  /\ used = [i \in Tds |-> Nothing]
  /\ cancelled = {}

LastStage(i) == stage[i] = prob.stages - 1
IsCancelled(i) == Td(i).td_groups # {} /\ Td(i).td_groups \subseteq cancelled

-----------------------------------------------------------------------------
(* Execution *)

\* Real time * kTimeMultiplier = Indicated time
ToUs(t) == (t * MulNum) \div MulDen
ToReal(t) == (t * MulDen) \div MulNum

\* Mutant: every stage gets the whole time limit.
RunExecuteWhole(i) ==
  [cpu_time  |-> Max({ToReal(Td(i).time + kCpuMargin), 1}),
   wall_time |-> ToReal(Max({(Td(i).time * 6) \div 5, Td(i).time + kWallMargin})),
   rss       |-> kMaxRSS]

\* Mutant: no margin.
RunExecuteTight(i) ==
  [cpu_time  |-> Max({ToReal(Max({Td(i).time - (IF stage[i] > 0 THEN r[i].time ELSE 0), 0})), 1}),
   wall_time |-> ToReal(Td(i).time + kWallMargin),
   rss       |-> kMaxRSS]

\* The limits of the sandbox.
RunExecute(i) ==
  LET lim      == Td(i)
      lim_time == Max({lim.time - (IF stage[i] > 0 THEN r[i].time ELSE 0), 0})
      fsize    == IF lim.output <= 0 \/ lim.output > kMaxOutput THEN kMaxOutput ELSE lim.output
      rss      == IF lim.rss <= 0 \/ kMaxRSS - lim.rss <= kRSSLimitMargin THEN kMaxRSS
                  ELSE lim.rss + kRSSLimitMargin
  IN  [cpu_time  |-> Max({ToReal(lim_time + kCpuMargin), 1}),
       wall_time |-> ToReal(Max({(lim_time * 6) \div 5, lim_time + kWallMargin})),
       rss       |-> IF prob.sandbox_strict THEN rss ELSE rss + fsize]

\* cjail (external): what is used beyond the limits ends the program.
TimeKill(u, opt) == u.utime + u.stime > opt.cpu_time \/ u.wall > opt.wall_time
OomKill(u, opt)  == u.rss > opt.rss

\* The if-chain of FinalizeExecute on a result t that has the sums already.
ExecutedVerdict(i, u, opt, t) ==
  LET over_memory == Td(i).rss # 0 /\ t.rss > Td(i).rss
  IN  IF u.end = "error" THEN EE
      ELSE IF OomKill(u, opt) THEN MLE
      ELSE IF TimeKill(u, opt) THEN TLE
      ELSE IF u.end = "SIGXFSZ" THEN OLE
      ELSE IF over_memory THEN MLE
      ELSE IF u.end = "signal" THEN SIG
      ELSE IF u.end = "status" THEN RE
      ELSE IF t.time > Td(i).time THEN TLE
      ELSE NUL

FinalizeExecute(i, u, opt) ==
  LET first == stage[i] = 0
      t == [r[i] EXCEPT !.time = ToUs(u.utime) + ToUs(u.stime) + (IF first THEN 0 ELSE @),
                        !.rss = IF first THEN u.rss ELSE Max({@, u.rss}),
                        !.score = IF first THEN 0 ELSE @]
  IN  [t EXCEPT !.verdict = ExecutedVerdict(i, u, opt, t)]

Execute(i, u) ==
  LET opt == RunExecute(i)
      scored == LastStage(i) \/ prob.judge_between_stages
  IN
  /\ phase[i] = "run"
  /\ ~IsCancelled(i)
  /\ stage[i] > 0 => r[i].verdict = NUL
  /\ r' = [r EXCEPT ![i] = FinalizeExecute(i, u, opt)]
  /\ size' = Max({size, i})
  /\ used' = [used EXCEPT ![i] = [u |-> u, opt |-> opt, before |-> IF stage[i] > 0 THEN r[i].time ELSE 0]]
  /\ phase' = [phase EXCEPT ![i] = IF scored THEN "ran" ELSE "run"]
  /\ stage' = [stage EXCEPT ![i] = IF scored THEN @ ELSE @ + 1]
  /\ UNCHANGED <<prob, out, cancelled, res>>

\* SetupExecute of the stages after an abnormal one returns false.
SkipExecute(i) ==
  /\ phase[i] = "run"
  /\ stage[i] > 0
  /\ r[i].verdict # NUL
  /\ ~IsCancelled(i)
  /\ phase' = [phase EXCEPT ![i] = IF LastStage(i) THEN "ran" ELSE "run"]
  /\ stage' = [stage EXCEPT ![i] = IF LastStage(i) THEN @ ELSE @ + 1]
  /\ UNCHANGED <<prob, r, size, out, used, cancelled, res>>

\* All groups of it have failed: the rest of its tasks is skipped.
Cancel(i) ==
  /\ phase[i] \in {"run", "ran"}
  /\ IsCancelled(i)
  /\ phase' = [phase EXCEPT ![i] = "end"]
  /\ UNCHANGED <<prob, stage, r, size, out, used, cancelled, res>>

-----------------------------------------------------------------------------
(* Scoring.  A checker's output is a record: ok (it exited and left a regular
   file), code (its exit status), accept (it printed 0, for the old checkers),
   nextpass (for Kattis), and score, verdict, time and rss as sets of at most
   one value. *)

Clamp(x, m) == Max({-m, Min({x, m})})

\* lround: to the nearest, halves away from zero
Round(n, d) == IF n >= 0 THEN (2 * n + d) \div (2 * d) ELSE -((2 * (-n) + d) \div (2 * d))

\* Mutant: no limits.
NormalizeScoreFree(n, d) == Round(n * Unit, d)

\* Of the number n / d.
NormalizeScore(n, d) == Clamp(Round(n * Unit, d), kMax * Unit)

Printed(s, default) == IF s = {} THEN default ELSE CHOOSE x \in s : TRUE
Score(s, default) == Printed({NormalizeScore(x, 1) : x \in s}, default)

AcOrContinue(t, last_stage) == IF last_stage THEN [t EXCEPT !.verdict = AC, !.score = Full] ELSE t

ParseSpecjudgeOverrides(t, o, allow_score) ==
  [t EXCEPT !.verdict = Printed(o.verdict, @),
            !.time = Printed(o.time, @),
            !.rss = Printed(o.rss, @),
            !.score = IF ~allow_score THEN @
                      ELSE Score(o.score, IF o.verdict = {AC} THEN Full ELSE @)]

OldSpecjudge(t, o, last_stage) ==
  IF o.accept THEN ParseSpecjudgeOverrides(AcOrContinue(t, last_stage), o, TRUE)
  ELSE [t EXCEPT !.verdict = WA]

\* Mutant: an output without verdict accepts.
NewSpecjudgeAccepts(t, o) == ParseSpecjudgeOverrides(AcOrContinue(t, TRUE), o, TRUE)

NewSpecjudge(t, o) == ParseSpecjudgeOverrides(t, o, TRUE)

PolygonSpecjudge(t, o, last_stage) ==
  LET t1 == AcOrContinue(t, last_stage)
      t2 == [t1 EXCEPT !.score = CASE o.code = 7   -> Score(o.score, 0)
                                   [] o.code >= 50 -> ((o.code - 50) * Full) \div 200
                                   [] OTHER        -> @]
      t3 == IF t2.score < Full THEN [t2 EXCEPT !.verdict = WA] ELSE t2
  IN  IF o.code < 50 /\ o.code \notin {0, 7} THEN [t EXCEPT !.verdict = WA]
      ELSE ParseSpecjudgeOverrides(t3, o, FALSE)

\* "no nextpass.in = immediate success"
KattisSpecjudge(t, o, last_stage) ==
  LET t1 == AcOrContinue(t, last_stage)
      t2 == IF ~last_stage /\ ~o.nextpass THEN [t1 EXCEPT !.verdict = AC] ELSE t1
      t3 == [t2 EXCEPT !.score = Score(o.score, @)]
  IN  ParseSpecjudgeOverrides(IF o.code = 42 THEN t3 ELSE [t EXCEPT !.verdict = WA], o, FALSE)

\* "specjudge failed unexpectedly"
CheckerFailed(o) ==
  \/ ~o.ok
  \/ prob.specjudge_type \notin {"SPECJUDGE_POLYGON", "SPECJUDGE_KATTIS"} /\ o.code # 0
  \/ prob.specjudge_type = "SPECJUDGE_POLYGON" /\ o.code = 3
  \/ prob.specjudge_type = "SPECJUDGE_KATTIS" /\ o.code \notin {42, 43}

SpecjudgeResult(t, o, last_stage) ==
  IF CheckerFailed(o) THEN [t EXCEPT !.verdict = SpecjudgeFailedVerdict(prob, @)]
  ELSE CASE prob.specjudge_type = "SPECJUDGE_OLD"     -> OldSpecjudge(t, o, last_stage)
         [] prob.specjudge_type = "SPECJUDGE_POLYGON" -> PolygonSpecjudge(t, o, last_stage)
         [] prob.specjudge_type = "SPECJUDGE_KATTIS"  -> KattisSpecjudge(t, o, last_stage)
         [] OTHER                                     -> NewSpecjudge(t, o)

\* SetupScoring runs the checker, unless the execution failed and the problem
\* does not judge that.
RunChecker(i, o) ==
  /\ phase[i] = "ran"
  /\ ~IsCancelled(i)
  /\ prob.specjudge_type # "SKIP"
  /\ r[i].verdict = NUL \/ prob.judge_abnormally_terminated
  /\ phase' = [phase EXCEPT ![i] = "checked"]
  /\ out' = [out EXCEPT ![i] = o]
  /\ UNCHANGED <<prob, stage, r, size, used, cancelled, res>>

\* "default: WA or keep verdict (if TLE etc.) for last_stage, continue otherwise"
Scored(i, read, o) ==
  LET zero == [r[i] EXCEPT !.score = 0]
      t    == IF read THEN SpecjudgeResult(zero, o, LastStage(i)) ELSE zero
  IN  CASE ~LastStage(i) /\ t.verdict # NUL -> [t EXCEPT !.skip_stage = TRUE]
        [] LastStage(i) /\ t.verdict = NUL  -> [t EXCEPT !.verdict = WA]
        [] OTHER                            -> t

\* Mutant: the groups of any scored testdatum are cancelled.
FailedGroupsAll(i, t) == IF prob.skip_group THEN Td(i).td_groups ELSE {}

FailedGroups(i, t) ==
  IF prob.skip_group /\ t.verdict \notin {NUL, AC} THEN Td(i).td_groups ELSE {}

FinalizeScoring(i, read, o) ==
  LET t == Scored(i, read, o)
      ends == LastStage(i) \/ t.skip_stage
  IN
  /\ r' = [r EXCEPT ![i] = t]
  /\ cancelled' = cancelled \cup FailedGroups(i, t)
  /\ phase' = [phase EXCEPT ![i] = IF ends THEN "end" ELSE "run"]
  /\ stage' = [stage EXCEPT ![i] = IF ends THEN @ ELSE @ + 1]
  /\ out' = [out EXCEPT ![i] = Nothing]
  /\ UNCHANGED <<prob, size, used, res>>

CheckerEnds(i) == phase[i] = "checked" /\ FinalizeScoring(i, TRUE, out[i])

NotInvoked(i) ==
  /\ phase[i] = "ran"
  /\ ~IsCancelled(i)
  /\ r[i].verdict # NUL /\ ~prob.judge_abnormally_terminated
  /\ FinalizeScoring(i, FALSE, Nothing)

\* Type SKIP finalizes with an empty result, which is read as a failure.
SkipChecker(i) ==
  /\ phase[i] = "ran"
  /\ ~IsCancelled(i)
  /\ prob.specjudge_type = "SKIP"
  /\ r[i].verdict = NUL \/ prob.judge_abnormally_terminated
  /\ FinalizeScoring(i, TRUE, [ok |-> FALSE])

-----------------------------------------------------------------------------
(* Summary *)

kInfScore == 2 * kMax * Unit

Counted == {i \in 1 .. size : ~Td(i).ignore_verdict}
InGroup(g) == {i \in Tds : g \in Td(i).td_groups}

OverallVerdict == IF res.verdict # NUL THEN res.verdict ELSE Max({AC} \cup {r[i].verdict : i \in Counted})

SubtaskScore(g) ==
  LET m == Min({kInfScore} \cup {r[i].score : i \in Counted \cap InGroup(g)})
  IN  IF m = kInfScore THEN Full ELSE m

Total(score(_)) ==
  NormalizeScore(SumFunction([g \in DOMAIN prob.group_score |-> score(g) * prob.group_score[g]]), Full * Unit)

TotalScore(verdict) == IF verdict < CE THEN Total(SubtaskScore) ELSE 0

\* The output of the summary program, if there is one: a failure is JRE; it may
\* name a verdict and a score.
SummaryResult(verdict, total, o) ==
  CASE o = Nothing -> [verdict |-> verdict, total_score |-> total]
    [] o # Nothing /\ ~o.ok -> [verdict |-> JRE, total_score |-> total]
    [] OTHER -> [verdict |-> LET v == Printed(o.verdict, verdict) IN IF v = NUL THEN WA ELSE v,
                 total_score |-> Score(o.score, total)]

FinalizeSummary(o) ==
  LET s == SummaryResult(OverallVerdict, TotalScore(OverallVerdict), o)
  IN
  /\ ~res.done
  /\ \A i \in Tds : phase[i] = "end"
  /\ res' = [verdict |-> s.verdict, total_score |-> s.total_score, done |-> TRUE]
  /\ UNCHANGED <<prob, phase, stage, r, size, out, used, cancelled>>

-----------------------------------------------------------------------------
Next ==
  \/ \E i \in Tds : SkipExecute(i) \/ Cancel(i) \/ CheckerEnds(i) \/ NotInvoked(i) \/ SkipChecker(i)
  \/ \E i \in Tds, u \in Usages(prob) : Execute(i, u)
  \/ \E i \in Tds, o \in Outputs(prob) : RunChecker(i, o)
  \/ \E o \in Summaries(prob) : FinalizeSummary(o)

Spec == Init /\ [][Next]_vars

-----------------------------------------------------------------------------
(* Properties *)

\* No checker, of any type, and no sum of groups reaches the value by which
\* FinalizeSummary marks a group without testdata.
SentinelUnreachable ==
  /\ \A i \in Tds : r[i].score < kInfScore
  /\ -kInfScore < res.total_score /\ res.total_score < kInfScore

\* A program is told TLE only for time: over all stages, measured or as a
\* checker corrected it, it used more than the limit, or it lasted longer than
\* what was left.  The limit of a stage (RunExecute), its margin, the rounding
\* by kTimeMultiplier and the check of FinalizeExecute fit together.
TleMeansTime ==
  \A i \in Tds : phase[i] = "ran" /\ r[i].verdict = TLE =>
    \/ r[i].time > Td(i).time
    \/ ToUs(used[i].u.wall) > Max({Td(i).time - used[i].before, 0})

\* The stages share one limit: a program that the sandbox lets end has used no
\* more than the limit and one margin, over all stages (or what a checker says
\* that the stages before used).
StagesShareLimit ==
  \A i \in Tds : phase[i] = "ran" /\ ~TimeKill(used[i].u, used[i].opt) =>
    r[i].time <= Max({Td(i).time, used[i].before}) + kCpuMargin

\* The verdict that a checker's output leaves, read number by number, is one of
\* those that Verdicts (and JudgeQueue with it) allows for that output.
VerdictsCovered ==
  [][\A i \in Tds : phase[i] = "checked" /\ phase'[i] # "checked" =>
       \E v \in ReadSpecjudgeResult(prob, LastStage(i), r[i].verdict, out[i].verdict) :
         r'[i].verdict = IF LastStage(i) /\ v = NUL THEN WA ELSE v]_vars

\* The groups that a verdict has failed, and the score of a group all of whose
\* testdata were judged: the least of those that count.
Failed(g) == \E i \in InGroup(g) : r[i].verdict \notin {NUL, AC}

Whole(g) ==
  LET scores == {r[i].score : i \in {j \in InGroup(g) : ~Td(j).ignore_verdict}}
  IN  IF scores = {} THEN Full ELSE Min(scores)

\* "skip a group of testdata if any of them got non-AC" (skip_group) touches no
\* other group: in whichever order testdata are judged and skipped, one that is
\* left without a verdict has groups, all of them failed; a group that has not
\* failed scores the least of all its testdata; and one that has failed scores no
\* more than any of its testdata that ran (not a fixed score: with partial scores
\* it depends on which were skipped, and whether td_results reaches to them).
SkipSparesPassing ==
  res.done /\ Summaries(prob) = {Nothing} /\ res.verdict < CE =>
    /\ \A i \in Tds : r[i].verdict = NUL =>
         Td(i).td_groups # {} /\ \A g \in Td(i).td_groups : Failed(g)
    /\ \A g \in DOMAIN prob.group_score :
         IF Failed(g)
         THEN \A i \in InGroup(g) :
                r[i].verdict # NUL /\ ~Td(i).ignore_verdict => SubtaskScore(g) <= r[i].score
         ELSE SubtaskScore(g) = Whole(g)
=============================================================================
