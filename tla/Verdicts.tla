------------------------------ MODULE Verdicts ------------------------------
(***************************************************************************)
(* The verdict enumeration of include/tioj/submission.h and the verdict    *)
(* part of the Finalize* functions of src/tioj/submission.cpp.  A verdict  *)
(* is its enumerator's value, since the code compares and maximises those. *)
(* What a checker or a summary program prints is data: its operators give  *)
(* the SET of verdicts the code can be left with, from the set "printed"   *)
(* of verdicts that the program's output may name.                         *)
(***************************************************************************)
EXTENDS Integers

NUL == 0
AC  == 1
WA  == 2
TLE == 3
MLE == 4
OLE == 5
RE  == 6
SIG == 7
JRE == 8
EE  == 9
CE  == 10
CLE == 11
JCE == 12
JE  == 13

Verdict == NUL .. JE

\* AbrToVerdict(_, true): a runtime verdict, or NUL when the name is unknown.
RuntimeVerdict == {v \in Verdict : v < CE}

\* What FinalizeExecute can assign (the if-chain on the cjail result).
ExecuteVerdict == {NUL, TLE, MLE, OLE, RE, SIG, EE}

MaxVerdict(v, w) == IF v < w THEN w ELSE v

(***************************************************************************)
(* FinalizeCompile.  "error" is timekill = -1 (the sandbox did not run),   *)
(* "limit" a time or memory kill, "fail" a bad status or a missing output. *)
(***************************************************************************)
CompileOutcome == {"ok", "fail", "limit", "error"}

FinalizeCompileVerdict(subtask, verdict, outcome) ==
  CASE outcome = "ok"    -> verdict
    [] outcome = "error" -> JE
    [] OTHER             -> MaxVerdict(verdict, IF subtask # "USERPROG" THEN JCE
                                                ELSE IF outcome = "limit" THEN CLE
                                                ELSE CE)

-----------------------------------------------------------------------------
SpecjudgeType ==
  {"NORMAL", "SPECJUDGE_OLD", "SPECJUDGE_NEW", "SKIP", "SPECJUDGE_POLYGON", "SPECJUDGE_KATTIS"}

\* else: continue (the verdict is kept)
SetACOrContinue(last_stage, verdict) == IF last_stage THEN AC ELSE verdict

\* "specjudge failed unexpectedly", which is always the case of type SKIP
\* because its empty siginfo has si_code # CLD_EXITED.
SpecjudgeFailedVerdict(sub, verdict) ==
  IF verdict # NUL THEN verdict ELSE IF sub.specjudge_re_as_wa THEN WA ELSE JRE

ReadOldSpecjudgeResult(last_stage, verdict, printed) ==
  {WA, SetACOrContinue(last_stage, verdict)} \cup printed

ReadNewSpecjudgeResult(verdict, printed) == {verdict} \cup printed

\* A score below 100 is WA before the overrides: exit code 0 reaches 100 in the
\* last stage only, codes 7 (points) and 50.. by the points they carry.
ReadPolygonSpecjudgeResult(last_stage, verdict, printed) ==
  {WA, SetACOrContinue(last_stage, verdict)} \cup printed

\* Exit code 42 of a non-last stage: continue, or AC if there is no nextpass.in.
ReadKattisSpecjudgeResult(last_stage, verdict, printed) ==
  {WA, AC, SetACOrContinue(last_stage, verdict)} \cup printed

ReadSpecjudgeResult(sub, last_stage, verdict, printed) ==
  {SpecjudgeFailedVerdict(sub, verdict)} \cup
  CASE sub.specjudge_type = "SKIP"              -> {}
    [] sub.specjudge_type = "SPECJUDGE_OLD"     ->
         ReadOldSpecjudgeResult(last_stage, verdict, printed)
    [] sub.specjudge_type = "SPECJUDGE_POLYGON" ->
         ReadPolygonSpecjudgeResult(last_stage, verdict, printed)
    [] sub.specjudge_type = "SPECJUDGE_KATTIS"  ->
         ReadKattisSpecjudgeResult(last_stage, verdict, printed)
    [] OTHER                                    ->
         ReadNewSpecjudgeResult(verdict, printed)

\* FinalizeSummary with a summary program: JRE when it failed or its output is
\* no JSON, else the verdict it names (an unknown name is WA), or none.
ReadSummaryResult(verdict, printed) ==
  {JRE, verdict} \cup {IF v = NUL THEN WA ELSE v : v \in printed}
=============================================================================
