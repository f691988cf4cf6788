---------------------------- MODULE MCJudgeQueue ----------------------------
(* Small instances of JudgeQueue. *)
EXTENDS JudgeQueue

Item(ignore, groups) == [ignore_verdict |-> ignore, td_groups |-> groups]

\* A plain submission: one stage, one testdatum, the default checker.
Plain(sid, priority) ==
  [sid |-> sid, priority |-> priority, stages |-> 1, problem_prog_stages |-> {},
   specjudge_type |-> "NORMAL", summary_type |-> "NONE", judge_between_stages |-> FALSE,
   judge_abnormally_terminated |-> FALSE, specjudge_re_as_wa |-> TRUE, skip_group |-> FALSE,
   report_intermediate_stage |-> FALSE, testdata |-> <<Item(FALSE, {0})>>]

\* Three stages judged in between, the second one run by the problem's program.
Staged(sid, type) ==
  [Plain(sid, 0) EXCEPT !.stages = 3, !.problem_prog_stages = {1}, !.specjudge_type = type,
                        !.judge_between_stages = TRUE, !.judge_abnormally_terminated = TRUE]

\* Two stages judged once, with a summary program.
Summarised(sid) ==
  [Plain(sid, 1) EXCEPT !.stages = 2, !.summary_type = "CUSTOM",
                        !.specjudge_type = "SPECJUDGE_OLD", !.specjudge_re_as_wa = FALSE]

Skipping(sid) ==
  [Plain(sid, 0) EXCEPT !.stages = 2, !.judge_between_stages = TRUE, !.specjudge_type = "SKIP",
                        !.report_intermediate_stage = TRUE]

Grouped(sid, testdata) ==
  [Plain(sid, 0) EXCEPT !.skip_group = TRUE, !.testdata = testdata]

\* Submission ids above every internal id: fresh judges of a long-lived server.
StagedSubmissions == {Staged(11, "SPECJUDGE_NEW"), Summarised(11), Skipping(12)}

\* Overlapping groups under skip_group, and an ignored testdatum without it.
GroupedSubmissions ==
  {Grouped(11, <<Item(FALSE, {0}), Item(FALSE, {0, 1}), Item(FALSE, {1})>>),
   [Plain(12, 1) EXCEPT !.testdata = <<Item(TRUE, {0}), Item(FALSE, {})>>,
                        !.specjudge_type = "SPECJUDGE_NEW", !.judge_abnormally_terminated = TRUE]}

\* Every assignment of up to three testdata to two groups.
ASSUME OrderCorrect ==
  \A n \in 0 .. 3 : \A groups \in [1 .. n -> SUBSET {0, 1}] :
    LET sub == Grouped(11, [td \in 1 .. n |-> Item(FALSE, groups[td])])
    IN  GroupsTriedInTurn(sub) /\ {TdOrder(sub)[td] : td \in 1 .. n} = 0 .. n - 1

\* Both, one kind at a time.
AllSubmissions == StagedSubmissions \cup GroupedSubmissions

OneKind ==
  {pushed[i] : i \in DOMAIN pushed} \in (SUBSET StagedSubmissions \cup SUBSET GroupedSubmissions)

\* Rejudges with another priority, and a problem without testdata.
RejudgedSubmissions ==
  {Plain(11, 0), Plain(11, 1), [Plain(12, 0) EXCEPT !.testdata = <<>>, !.summary_type = "CUSTOM"]}

\* Submission ids in the range of the internal ids: a judge of a young server.
YoungServerSubmissions == {Plain(1, 0), Plain(2, 0)}
=============================================================================
