----------------------------- MODULE JudgeQueue -----------------------------
(***************************************************************************)
(* The judging core of src/tioj/submission.cpp: PushSubmission, called by  *)
(* the threads that receive submissions, and WorkLoop, which dispatches    *)
(* the ready tasks of all submissions to at most kMaxParallel sandboxes.   *)
(* Both work under task_mtx; WorkLoop lets go of it only while it waits    *)
(* for a submission (task_cv) or for a sandbox (WaitTask), so a step of    *)
(* this module is one critical section, or one iteration of the loop.      *)
(*                                                                         *)
(* Abstracted: scores, times, messages and the contents of files.  A task  *)
(* that is dispatched does run: RunTask's error return is not modelled.    *)
(***************************************************************************)
EXTENDS TaskGraph, Verdicts

CONSTANTS
  Submissions,        \* the submissions the server may send (records, see below)
  MaxPush,            \* bound: how many times PushSubmission is called
  kMaxParallel,       \* main.cpp: parallel sandboxes
  max_queue,          \* PushSubmission's argument; 0 = no limit
  CompileOutcomes,    \* what compiling, executing, checking and summarising
  ExecuteVerdicts,    \*   may come to in this instance
  JudgeVerdicts,
  SummaryVerdicts

TestdataItem == [ignore_verdict : BOOLEAN, td_groups : SUBSET Nat]

Submission ==
  [sid : Nat, priority : Int, stages : Int, problem_prog_stages : SUBSET Nat,
   specjudge_type : SpecjudgeType, summary_type : {"NONE", "CUSTOM"},
   judge_between_stages : BOOLEAN, judge_abnormally_terminated : BOOLEAN,
   specjudge_re_as_wa : BOOLEAN, skip_group : BOOLEAN, report_intermediate_stage : BOOLEAN,
   testdata : Seq(TestdataItem)]

ASSUME BoundsAssumption ==
  /\ MaxPush \in Nat
  /\ kMaxParallel \in Nat \ {0}
  /\ max_queue \in Nat

ASSUME OutcomesAssumption ==
  /\ CompileOutcomes \subseteq CompileOutcome
  /\ ExecuteVerdicts \subseteq ExecuteVerdict
  /\ JudgeVerdicts \subseteq RuntimeVerdict
  /\ SummaryVerdicts \subseteq Verdict

\* DealOneSubmission rejects a stage outside 0 .. stages - 1.
ASSUME SubmissionsAssumption ==
  /\ Submissions \subseteq Submission
  /\ \A sub \in Submissions :
       /\ sub.problem_prog_stages \subseteq Stages(sub)
       /\ \A td \in Tds(sub) : IsFiniteSet(sub.testdata[td].td_groups)

VARIABLES
  pc,                 \* where WorkLoop is: "idle" and "waiting" are outside task_mtx
  pushed,             \* every submission pushed; the index is its internal id
  task_list,          \* live task -> its current indegree
  task_queue,         \* live tasks with indegree 0 that are not dispatched
  running,            \* dispatched tasks (handle_map, task_running)
  submission_list,    \* internal id -> SubmissionResult
  submission_id_map,  \* submission id -> internal id
  cancelled_list,     \* internal ids
  cancelled_group,    \* pairs <<internal id, group>>
  compiled,           \* CompileBoxOutput files: <<internal id, subtask>>
  outputs,            \* ExecuteBoxFinalOutput files: <<internal id, td, stage>>
  reports             \* what the reporter callbacks were called with

vars == <<pc, pushed, task_list, task_queue, running, submission_list, submission_id_map,
          cancelled_list, cancelled_group, compiled, outputs, reports>>

graph  == <<task_list, task_queue, running>>
cancel == <<submission_id_map, cancelled_list, cancelled_group>>
files  == <<compiled, outputs>>

Ids      == 1 .. Len(pushed)
Sub(id)  == pushed[id]
Active   == DOMAIN submission_list
TaskOf   == UNION {TasksOf(id, Sub(id)) : id \in Ids}

NewTdResult == [verdict |-> NUL, skip_stage |-> FALSE]
NewResult   == [verdict |-> NUL, td_results |-> <<>>]

TdResult == [verdict : Verdict, skip_stage : BOOLEAN]
Result   == [verdict : Verdict, td_results : Seq(TdResult)]

CompilingReport(id)         == [type |-> "compiling", id |-> id]
ScoringReport(id, td, stage) == [type |-> "scoring", id |-> id, td |-> td, stage |-> stage]
OverallReport(id, result)   == [type |-> "overall", id |-> id, result |-> result]
FinalizedReport(id)         == [type |-> "finalized", id |-> id]

\* ReportCEMessage for USERPROG, ReportJCEMessage for PROBPROG and SPECJUDGE.
MessageReport(id, subtask)  == [type |-> "message", id |-> id, subtask |-> subtask]

Init ==
  /\ pc = "idle"
  /\ pushed = <<>>
  /\ task_list = <<>>
  /\ task_queue = {}
  /\ running = {}
  /\ submission_list = <<>>
  /\ submission_id_map = <<>>
  /\ cancelled_list = {}
  /\ cancelled_group = {}
  /\ compiled = {}
  /\ outputs = {}
  /\ reports = {}

-----------------------------------------------------------------------------
(* The graph of live tasks. *)

Edge(t, u) == t.id = u.id /\ Link(Sub(t.id), t, u)

\* TaskEntry::operator<
td_order == [sub \in Submissions |-> TdOrder(sub)]

TaskOrder(t) == IF t.type \in {"EXECUTE", "SCORING"} THEN td_order[Sub(t.id)][t.td] ELSE 0

Less(t, u) ==
  LET p == Sub(t.id).priority
      q == Sub(u.id).priority
  IN  \/ p < q
      \/ p = q /\ t.id > u.id
      \/ p = q /\ t.id = u.id /\ TaskOrder(t) > TaskOrder(u)

\* task_queue.top(); the heap may return any of several equal tasks.
Top(t) == t \in task_queue /\ \A u \in task_queue : ~Less(t, u)

\* Mutant: a successor is queued whatever its indegree.
RemoveTaskEarly(t) ==
  /\ task_list' = [u \in DOMAIN task_list \ {t} |->
                     IF Edge(t, u) THEN task_list[u] - 1 ELSE task_list[u]]
  /\ task_queue' = (task_queue \ {t}) \cup {u \in DOMAIN task_list : Edge(t, u)}
  /\ running' = running \ {t}

\* Mutant: handle_map keeps the handle of a task that ended.
RemoveTaskKeepsHandle(t) ==
  /\ task_list' = [u \in DOMAIN task_list \ {t} |->
                     IF Edge(t, u) THEN task_list[u] - 1 ELSE task_list[u]]
  /\ task_queue' = (task_queue \ {t}) \cup
                   {u \in DOMAIN task_list : Edge(t, u) /\ task_list[u] = 1}
  /\ UNCHANGED running

\* Remove(): the successors that become ready enter the queue.
RemoveTask(t) ==
  /\ task_list' = [u \in DOMAIN task_list \ {t} |->
                     IF Edge(t, u) THEN task_list[u] - 1 ELSE task_list[u]]
  /\ task_queue' = (task_queue \ {t}) \cup
                   {u \in DOMAIN task_list : Edge(t, u) /\ task_list[u] = 1}
  /\ running' = running \ {t}

\* RunTask
Run(t) ==
  /\ task_queue' = task_queue \ {t}
  /\ running' = running \cup {t}
  /\ UNCHANGED task_list

-----------------------------------------------------------------------------
(* PushSubmission *)

InsertTaskList(id, sub) ==
  LET new      == TasksOf(id, sub)
      indeg(t) == InitialIndeg(id, sub, t)
  IN  /\ task_list' = [t \in DOMAIN task_list \cup new |->
                         IF t \in new THEN indeg(t) ELSE task_list[t]]
      /\ task_queue' = task_queue \cup {t \in new : indeg(t) = 0}
      /\ UNCHANGED running

\* Mutant: the entry is overwritten, the judging it named goes on.
InsertSubmissionIdOnly(sid, id) ==
  /\ submission_id_map' = [s \in DOMAIN submission_id_map \cup {sid} |->
                             IF s = sid THEN id ELSE submission_id_map[s]]
  /\ UNCHANGED cancelled_list

\* If the same submission is already judging, mark it as cancelled.
InsertSubmissionId(sid, id) ==
  /\ submission_id_map' = [s \in DOMAIN submission_id_map \cup {sid} |->
                             IF s = sid THEN id ELSE submission_id_map[s]]
  /\ cancelled_list' = cancelled_list \cup
                       {submission_id_map[s] : s \in DOMAIN submission_id_map \cap {sid}}

QueueFull == max_queue > 0 /\ Cardinality(Active) >= max_queue

PushSubmission(sub) ==
  LET id == Len(pushed) + 1 IN
  /\ pc \in {"idle", "waiting"}
  /\ Len(pushed) < MaxPush
  /\ ~QueueFull
  /\ pushed' = Append(pushed, sub)
  /\ InsertTaskList(id, sub)
  /\ submission_list' = [i \in Active \cup {id} |->
                           IF i = id THEN NewResult ELSE submission_list[i]]
  /\ InsertSubmissionId(sub.sid, id)
  /\ UNCHANGED <<pc, cancelled_group, files, reports>>

-----------------------------------------------------------------------------
(* What the Setup* functions look at. *)

\* Mutant: one cancelled group is enough.
IsCancelledByAny(t) ==
  \/ t.id \in cancelled_list
  \/ \E g \in Sub(t.id).testdata[t.td].td_groups : <<t.id, g>> \in cancelled_group

IsCancelled(t) ==
  LET groups == Sub(t.id).testdata[t.td].td_groups
  IN  \/ t.id \in cancelled_list
      \/ /\ groups # {}
         /\ \A g \in groups : <<t.id, g>> \in cancelled_group

Td(t)        == submission_list[t.id].td_results[t.td]
IsLast(t)    == t.stage = LastStage(Sub(t.id))
OutputOf(t)  == <<t.id, t.td, t.stage>>
PrevOutput(t) == <<t.id, t.td, t.stage - 1>>

\* SetupExecute's early returns; the testdatum's result is not read in stage 0.
SkipExecute(t) ==
  \/ submission_list[t.id].verdict # NUL
  \/ IsCancelled(t)
  \/ t.stage > 0 /\ (Td(t).skip_stage \/ Td(t).verdict # NUL)

\* SetupScoring's silent early returns.
SkipScoring(t) ==
  \/ submission_list[t.id].verdict # NUL
  \/ IsCancelled(t)
  \/ Td(t).skip_stage

\* Already TLE/MLE/etc: finalized without invoking the judge.
JudgeNotInvoked(t) == Td(t).verdict # NUL /\ ~Sub(t.id).judge_abnormally_terminated

\* Mutant: the loop stops one testdatum short.
OverallVerdictShort(id) ==
  LET result == submission_list[id]
      tds    == {i \in DOMAIN result.td_results :
                   i < Len(result.td_results) /\ ~Sub(id).testdata[i].ignore_verdict}
  IN  IF result.verdict # NUL THEN result.verdict
      ELSE Max({AC} \cup {result.td_results[i].verdict : i \in tds})

\* SetupSummary: the max over the testdata judged, AC if there is none.
OverallVerdict(id) ==
  LET result == submission_list[id]
      tds    == {i \in DOMAIN result.td_results : ~Sub(id).testdata[i].ignore_verdict}
  IN  IF result.verdict # NUL THEN result.verdict
      ELSE Max({AC} \cup {result.td_results[i].verdict : i \in tds})

-----------------------------------------------------------------------------
(* The Finalize* functions, all but the removal of the task. *)

\* The message of a failed compilation is reported of a cancelled submission too.
FinalizeCompile(t, outcome) ==
  /\ submission_list' = [submission_list EXCEPT ![t.id].verdict =
                           FinalizeCompileVerdict(t.subtask, @, outcome)]
  /\ compiled' = IF outcome = "ok" THEN compiled \cup {<<t.id, t.subtask>>} ELSE compiled
  /\ reports' = IF outcome \in {"fail", "limit"} /\ t.subtask # "SUMMARY"
                  THEN reports \cup {MessageReport(t.id, t.subtask)} ELSE reports
  /\ UNCHANGED <<cancel, outputs>>

\* Mutant: td_results.resize(subtask).
ResizeShort(tds, td, verdict) ==
  [i \in 1 .. (IF td - 1 > Len(tds) THEN td - 1 ELSE Len(tds)) |->
     LET old == IF i <= Len(tds) THEN tds[i] ELSE NewTdResult
     IN  IF i = td THEN [old EXCEPT !.verdict = verdict] ELSE old]

\* td_results.resize(subtask + 1), then the testdatum's verdict.
ResizeAndSet(tds, td, verdict) ==
  [i \in 1 .. (IF td > Len(tds) THEN td ELSE Len(tds)) |->
     LET old == IF i <= Len(tds) THEN tds[i] ELSE NewTdResult
     IN  IF i = td THEN [old EXCEPT !.verdict = verdict] ELSE old]

FinalizeExecute(t, verdict) ==
  /\ submission_list' = [submission_list EXCEPT ![t.id].td_results =
                           ResizeAndSet(@, t.td, verdict)]
  /\ outputs' = (outputs \cup {OutputOf(t)}) \ {PrevOutput(t)}
  /\ UNCHANGED <<cancel, compiled, reports>>

\* Mutant: the output stays in the checker's box.
FinalizeScoringKeepsFile(t, skipped, skip_stage, outs) ==
  IF IsLast(t) THEN outs \ {OutputOf(t)} ELSE outs

\* The output goes back to where the next stage takes its input from.
FinalizeScoringFiles(t, skipped, skip_stage, outs) ==
  IF IsLast(t) THEN outs \ {OutputOf(t)}
  ELSE IF skipped \/ skip_stage \/ Sub(t.id).specjudge_type = "SKIP" THEN outs
  ELSE outs \cup {OutputOf(t)}

\* verdict: after ReadSpecjudgeResult; outs: the output files it starts from.
FinalizeScoring(t, verdict, skipped, outs) ==
  LET final      == IF IsLast(t) /\ verdict = NUL THEN WA ELSE verdict
      skip_stage == Td(t).skip_stage \/ (~IsLast(t) /\ verdict # NUL)
  IN  /\ submission_list' = [submission_list EXCEPT ![t.id].td_results[t.td] =
                               [verdict |-> final, skip_stage |-> skip_stage]]
      /\ cancelled_group' =
           IF Sub(t.id).skip_group /\ final \notin {NUL, AC}
             THEN cancelled_group \cup ({t.id} \X Sub(t.id).testdata[t.td].td_groups)
             ELSE cancelled_group
      /\ outputs' = FinalizeScoringFiles(t, skipped, skip_stage, outs)
      /\ reports' = IF /\ t.id \notin cancelled_list
                       /\ Sub(t.id).report_intermediate_stage \/ IsLast(t) \/ skip_stage
                      THEN reports \cup {ScoringReport(t.id, t.td, t.stage)} ELSE reports
      /\ UNCHANGED <<submission_id_map, cancelled_list, compiled>>

\* submission_id_map.erase(id), with the INTERNAL id as the key.
EraseSubmissionId(id) ==
  submission_id_map' = [s \in DOMAIN submission_id_map \ {id} |-> submission_id_map[s]]

\* Mutant: the compiled programs are left behind.
FinalizeSummaryKeepsFiles(t, verdict) ==
  LET id == t.id IN
  /\ submission_list' = [i \in Active \ {id} |-> submission_list[i]]
  /\ EraseSubmissionId(id)
  /\ cancelled_list' = cancelled_list \ {id}
  /\ cancelled_group' = {c \in cancelled_group : c[1] # id}
  /\ outputs' = {f \in outputs : f[1] # id}
  /\ reports' = reports \cup {FinalizedReport(id)} \cup
                IF id \in cancelled_list THEN {}
                ELSE {OverallReport(id, [submission_list[id] EXCEPT !.verdict = verdict])}
  /\ UNCHANGED compiled

FinalizeSummaryReporting(t, verdict, silent) ==
  LET id == t.id IN
  /\ submission_list' = [i \in Active \ {id} |-> submission_list[i]]
  /\ EraseSubmissionId(id)
  /\ cancelled_list' = cancelled_list \ {id}
  /\ cancelled_group' = {c \in cancelled_group : c[1] # id}
  /\ compiled' = {f \in compiled : f[1] # id}
  /\ outputs' = {f \in outputs : f[1] # id}
  /\ reports' = reports \cup {FinalizedReport(id)} \cup
                IF silent THEN {}
                ELSE {OverallReport(id, [submission_list[id] EXCEPT !.verdict = verdict])}

\* Mutant: silent when any submission is cancelled.
FinalizeSummaryAnyCancelled(t, verdict) ==
  FinalizeSummaryReporting(t, verdict, cancelled_list # {})

\* Mutant: a cancelled submission is reported.
FinalizeSummaryAlways(t, verdict) == FinalizeSummaryReporting(t, verdict, FALSE)

FinalizeSummary(t, verdict) ==
  LET id == t.id IN
  /\ submission_list' = [i \in Active \ {id} |-> submission_list[i]]
  /\ EraseSubmissionId(id)
  /\ cancelled_list' = cancelled_list \ {id}
  /\ cancelled_group' = {c \in cancelled_group : c[1] # id}
  /\ compiled' = {f \in compiled : f[1] # id}
  /\ outputs' = {f \in outputs : f[1] # id}
  /\ reports' = reports \cup {FinalizedReport(id)} \cup
                IF id \in cancelled_list THEN {}
                ELSE {OverallReport(id, [submission_list[id] EXCEPT !.verdict = verdict])}

-----------------------------------------------------------------------------
(* WorkLoop *)

\* task_cv.wait returns
Wake ==
  /\ pc = "idle"
  /\ task_queue # {}
  /\ pc' = "loop"
  /\ UNCHANGED <<pushed, graph, submission_list, cancel, files, reports>>

CanDispatch(t, type) ==
  /\ pc = "loop"
  /\ Cardinality(running) < kMaxParallel
  /\ Top(t)
  /\ t.type = type

DispatchCompile(t) ==
  /\ CanDispatch(t, "COMPILE")
  /\ \/ /\ t.id \in cancelled_list
        /\ RemoveTask(t)
        /\ UNCHANGED reports
     \/ /\ t.id \notin cancelled_list
        /\ Run(t)
        /\ reports' = IF t.subtask = "USERPROG" THEN reports \cup {CompilingReport(t.id)} ELSE reports
  /\ UNCHANGED <<pc, pushed, submission_list, cancel, files>>

DispatchExecute(t) ==
  /\ CanDispatch(t, "EXECUTE")
  /\ IF SkipExecute(t)
       THEN RemoveTask(t) /\ UNCHANGED outputs
       ELSE Run(t) /\ outputs' = outputs \ {PrevOutput(t)}
  /\ UNCHANGED <<pc, pushed, submission_list, cancel, compiled, reports>>

\* The four ways out of SetupScoring.
DispatchScoring(t) ==
  /\ CanDispatch(t, "SCORING")
  /\ IF SkipScoring(t)
       THEN RemoveTask(t) /\ UNCHANGED <<submission_list, cancel, files, reports>>
       ELSE \/ /\ JudgeNotInvoked(t)
               /\ FinalizeScoring(t, Td(t).verdict, TRUE, outputs)
               /\ RemoveTask(t)
            \/ /\ ~JudgeNotInvoked(t)
               /\ Sub(t.id).specjudge_type = "SKIP"
               /\ FinalizeScoring(t, SpecjudgeFailedVerdict(Sub(t.id), Td(t).verdict), FALSE,
                                  outputs \ {OutputOf(t)})
               /\ RemoveTask(t)
            \/ /\ ~JudgeNotInvoked(t)
               /\ Sub(t.id).specjudge_type # "SKIP"
               /\ Run(t)
               /\ outputs' = outputs \ {OutputOf(t)}
               /\ UNCHANGED <<submission_list, cancel, compiled, reports>>
  /\ UNCHANGED <<pc, pushed>>

\* Nothing here looks at cancelled_list: a cancelled submission is summarised.
DispatchSummary(t) ==
  LET verdict == OverallVerdict(t.id)
      skipped == Sub(t.id).summary_type = "NONE" \/ verdict = JCE
  IN  /\ CanDispatch(t, "SUMMARY")
      /\ \/ skipped /\ FinalizeSummary(t, verdict) /\ RemoveTask(t)
         \/ /\ ~skipped
            /\ submission_list' = [submission_list EXCEPT ![t.id].verdict = verdict]
            /\ compiled' = compiled \ {<<t.id, "SUMMARY">>}
            /\ Run(t)
            /\ UNCHANGED <<cancel, outputs, reports>>
      /\ UNCHANGED <<pc, pushed>>

\* No slot or nothing ready: unlock and wait for a sandbox.
BeginWait ==
  /\ pc = "loop"
  /\ running # {}
  /\ task_queue = {} \/ Cardinality(running) >= kMaxParallel
  /\ pc' = "waiting"
  /\ UNCHANGED <<pushed, graph, submission_list, cancel, files, reports>>

\* WaitTask returns t: lock, finalize, remove.
TaskEnds(t, type) ==
  /\ pc = "waiting"
  /\ t \in running
  /\ t.type = type
  /\ pc' = "loop"
  /\ RemoveTask(t)
  /\ UNCHANGED pushed

CompileEnds(t) ==
  /\ TaskEnds(t, "COMPILE")
  /\ \E outcome \in CompileOutcomes : FinalizeCompile(t, outcome)

ExecuteEnds(t) ==
  /\ TaskEnds(t, "EXECUTE")
  /\ \E verdict \in ExecuteVerdicts : FinalizeExecute(t, verdict)

ScoringEnds(t) ==
  /\ TaskEnds(t, "SCORING")
  /\ \E verdict \in ReadSpecjudgeResult(Sub(t.id), IsLast(t), Td(t).verdict, JudgeVerdicts) :
       FinalizeScoring(t, verdict, FALSE, outputs)

SummaryEnds(t) ==
  /\ TaskEnds(t, "SUMMARY")
  /\ \E verdict \in ReadSummaryResult(submission_list[t.id].verdict, SummaryVerdicts) :
       FinalizeSummary(t, verdict)

LoopEnds ==
  /\ pc = "loop"
  /\ running = {}
  /\ task_queue = {}
  /\ pc' = "idle"
  /\ UNCHANGED <<pushed, graph, submission_list, cancel, files, reports>>

Dispatch ==
  \E t \in task_queue :
    DispatchCompile(t) \/ DispatchExecute(t) \/ DispatchScoring(t) \/ DispatchSummary(t)

Finish ==
  \E t \in running : CompileEnds(t) \/ ExecuteEnds(t) \/ ScoringEnds(t) \/ SummaryEnds(t)

WorkLoop == Wake \/ Dispatch \/ BeginWait \/ Finish \/ LoopEnds

Next == (\E sub \in Submissions : PushSubmission(sub)) \/ WorkLoop

Spec == Init /\ [][Next]_vars

\* The worker thread keeps running and every sandbox is killed at its wall time.
FairSpec == Spec /\ WF_vars(WorkLoop)

-----------------------------------------------------------------------------
(* Properties *)

Live == DOMAIN task_list

\* Types of all the state of submission.cpp that is modelled.
TypeOK ==
  /\ pc \in {"idle", "loop", "waiting"}
  /\ pushed \in Seq(Submissions)
  /\ Live \subseteq TaskOf
  /\ task_list \in [Live -> Nat]
  /\ task_queue \subseteq Live
  /\ running \subseteq Live
  /\ Active \subseteq Ids
  /\ submission_list \in [Active -> Result]
  /\ DOMAIN submission_id_map \subseteq Nat
  /\ submission_id_map \in [DOMAIN submission_id_map -> Ids]
  /\ cancelled_list \subseteq Ids
  /\ cancelled_group \subseteq Ids \X Nat
  /\ compiled \subseteq Ids \X CompileSubtask
  /\ outputs \subseteq Ids \X Nat \X Int

LivePreds(t) == {u \in Live : Edge(u, t)}

\* "Any tasks with indeg = 0 will be pushed into task_queue": an indegree counts
\* the live predecessors, and the tasks of indegree 0 are exactly the queued and
\* the running ones, so that no task is run early, twice or never (Link, Remove,
\* InsertTaskList, DispatchTask).
ReadyTasksQueued ==
  /\ \A t \in Live : task_list[t] = Cardinality(LivePreds(t))
  /\ task_queue \cup running = {t \in Live : task_list[t] = 0}
  /\ task_queue \cap running = {}

\* A submission is summarised, and erased, after the last of its tasks: the
\* submission_list.at of DispatchTask and FinalizeTask never throws, and the
\* task_list[nxt] of Remove never makes an entry up.
SummaryIsLast ==
  /\ \A t \in Live : t.id \in Active
  /\ \A id \in Active : SummaryTask(id) \in Live
  /\ \A t \in Live : \A u \in TasksOf(t.id, Sub(t.id)) : Edge(t, u) => u \in Live

\* Place of a task in the chain of its testdatum.
Position(t) == 2 * t.stage + (IF t.type = "EXECUTE" THEN 0 ELSE 1)

SameTd(t, u) ==
  /\ t.type \in {"EXECUTE", "SCORING"}
  /\ u.type \in {"EXECUTE", "SCORING"}
  /\ t.td = u.td

\* The tasks of a testdatum end in the order of its stages, the skipped ones too:
\* behind a live one all are live, so that no stage overtakes an earlier one.
StagesInOrder ==
  \A t \in Live : \A u \in TasksOf(t.id, Sub(t.id)) :
    SameTd(t, u) /\ Position(t) <= Position(u) => u \in Live

\* The compiled program a dispatched task was set up with.
ProgramOf(t) ==
  IF t.type = "SCORING" THEN "SPECJUDGE"
  ELSE IF t.stage \in Sub(t.id).problem_prog_stages THEN "PROBPROG" ELSE "USERPROG"

\* No program is run, and no output checked, before the compilation it needs has
\* succeeded, although PushSubmission links a program to the first user only.
ProgramReady ==
  \A t \in running :
    \/ t.type = "EXECUTE"
    \/ t.type = "SCORING" /\ Sub(t.id).specjudge_type # "NORMAL"
    => <<t.id, ProgramOf(t)>> \in compiled

\* A stage that SetupExecute sets up finds the output of the stage before, which
\* SetupScoring may have moved to the checker's box; without it fs::permissions
\* throws in the worker thread.
StageInputExists ==
  \A t \in task_queue :
    t.type = "EXECUTE" /\ t.stage > 0 /\ ~SkipExecute(t) => PrevOutput(t) \in outputs

\* td_results, resized by FinalizeExecute only, has the entry that the next Setup
\* of the testdatum reads: a skipped execution skips what follows it too.
TdResultsInBounds ==
  \A t \in task_queue :
    /\ \/ t.type = "SCORING"
       \/ t.type = "EXECUTE" /\ t.stage > 0
    /\ submission_list[t.id].verdict = NUL
    /\ ~IsCancelled(t)
    => t.td \in DOMAIN submission_list[t.id].td_results

-----------------------------------------------------------------------------
Failed(v) == v \notin {NUL, AC}

VerdictOf(result, td) ==
  IF td \in DOMAIN result.td_results THEN result.td_results[td].verdict ELSE NUL

\* An overall result computed by SetupSummary from testdata that were run.
RunResult(r) == r.type = "overall" /\ Sub(r.id).summary_type = "NONE" /\ r.result.verdict < CE

\* skip_group, "skip a group of testdata if any of them got non-AC": a testdatum
\* without a verdict in the final report has only groups that failed.
UnjudgedMeansGroupFailed ==
  \A r \in reports : RunResult(r) =>
    LET sub == Sub(r.id) IN
    \A td \in Tds(sub) : VerdictOf(r.result, td) = NUL =>
      /\ sub.skip_group
      /\ \A g \in sub.testdata[td].td_groups :
           \E k \in Tds(sub) : g \in sub.testdata[k].td_groups /\ Failed(VerdictOf(r.result, k))

\* "the max of every subtasks would be the final result", ignore_verdict being
\* "ignore this testdata in overall verdict calculation": Accepted is reported
\* only when every testdatum that counts was judged and accepted.
AcceptedMeansAllAccepted ==
  \A r \in reports : RunResult(r) /\ r.result.verdict = AC =>
    \A td \in Tds(Sub(r.id)) :
      Sub(r.id).testdata[td].ignore_verdict \/ VerdictOf(r.result, td) = AC

\* The submission was not pushed again (rejudged) since.
Newest(id) == \A later \in id + 1 .. Len(pushed) : Sub(later).sid # Sub(id).sid

\* The calls that send the server something of a judging: server_reporter leaves
\* out the messages ("ReportOverallResult will send the message"), and its
\* ReportFinalized only asks for another submission.
SentToServer(r) == r.type \in {"compiling", "scoring", "overall"}

\* "if the same submission is already judging, mark it as cancelled" and
\* "cancelled, don't send anything to server": of a judging that a rejudge has
\* superseded nothing is sent, although its tasks go on, are finalized, and call
\* ReportCEMessage, ReportJCEMessage and ReportFinalized all the same.
NoStaleReport == [][\A r \in reports' \ reports : SentToServer(r) => Newest(r.id)]_vars

\* At most one judging of a submission is not cancelled.
OneJudgingPerSubmission ==
  \A i, j \in Active \ cancelled_list : Sub(i).sid = Sub(j).sid => i = j

\* When WorkLoop goes back to sleep every submission was finalized and nothing of
\* it is left behind: tasks, files, cancelled groups.
IdleMeansDone ==
  pc = "idle" /\ task_queue = {} =>
    Live = {} /\ Active = {} /\ compiled = {} /\ outputs = {} /\ cancelled_group = {}

Answered(id) ==
  \/ \E r \in reports : r.type = "overall" /\ r.id = id
  \/ ~Newest(id)

\* Every push is finalized (ReportFinalized, which makes the server fill the slot),
\* and ends in an overall report unless a rejudge supersedes it, whatever the
\* order in which sandboxes end and submissions arrive.
EveryPushAnswered ==
  \A id \in 1 .. MaxPush :
    (id \in Ids) ~> (id \in Ids /\ Answered(id) /\ FinalizedReport(id) \in reports)

-----------------------------------------------------------------------------
OverallReported == {r.id : r \in {q \in reports : q.type = "overall"}}

Service == INSTANCE JudgeService WITH
  Sids       <- {sub.sid : sub \in Submissions},
  accepted   <- [id \in Ids |-> Sub(id).sid],
  active     <- Active,
  superseded <- cancelled_list \cap Active,
  answered   <- OverallReported

\* The queue keeps the promise of JudgeService: its submission_list,
\* cancelled_list and overall reports are active, superseded and answered.
ImplementsService == Service!ServiceSpec
=============================================================================
