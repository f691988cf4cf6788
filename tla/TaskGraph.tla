----------------------------- MODULE TaskGraph -----------------------------
(***************************************************************************)
(* The dependency graph that PushSubmission (src/tioj/submission.cpp)      *)
(* builds for one submission, and the order its testdata are tried in.     *)
(* A task is identified by the submission's internal id and its Task       *)
(* record; testdata are numbered from 1 (from 0 in the code), stages from  *)
(* 0 as in the code.                                                       *)
(***************************************************************************)
EXTENDS Integers, Sequences, FiniteSets, FiniteSetsExt, SequencesExt

CompileSubtask == {"USERPROG", "PROBPROG", "SPECJUDGE", "SUMMARY"}

CompileTask(id, subtask)   == [id |-> id, type |-> "COMPILE", subtask |-> subtask]
ExecuteTask(id, td, stage) == [id |-> id, type |-> "EXECUTE", td |-> td, stage |-> stage]
ScoringTask(id, td, stage) == [id |-> id, type |-> "SCORING", td |-> td, stage |-> stage]
SummaryTask(id)            == [id |-> id, type |-> "SUMMARY"]

-----------------------------------------------------------------------------
kMaxStages == 32

\* sub.stages = std::min(std::max(1, sub.stages), 32)
NumStages(sub) ==
  IF sub.stages < 1 THEN 1 ELSE IF sub.stages > kMaxStages THEN kMaxStages ELSE sub.stages

Stages(sub)    == 0 .. NumStages(sub) - 1
LastStage(sub) == NumStages(sub) - 1
Tds(sub)       == 1 .. Len(sub.testdata)

\* Scored after every stage, or only after the last one.
ScoringStages(sub) == IF sub.judge_between_stages THEN Stages(sub) ELSE {LastStage(sub)}

NonProbStages(sub) == Stages(sub) \ sub.problem_prog_stages

Compiles(sub) ==
  {s \in CompileSubtask :
     \/ s = "USERPROG"  /\ NonProbStages(sub) # {}
     \/ s = "PROBPROG"  /\ sub.problem_prog_stages # {}
     \/ s = "SPECJUDGE" /\ sub.specjudge_type # "NORMAL"
     \/ s = "SUMMARY"   /\ sub.summary_type = "CUSTOM"}

CompileTasks(id, sub) == {CompileTask(id, s) : s \in Compiles(sub)}
ExecuteTasks(id, sub) == {ExecuteTask(id, td, j) : td \in Tds(sub), j \in Stages(sub)}
ScoringTasks(id, sub) == {ScoringTask(id, td, j) : td \in Tds(sub), j \in ScoringStages(sub)}

TasksOf(id, sub) ==
  CompileTasks(id, sub) \cup ExecuteTasks(id, sub) \cup ScoringTasks(id, sub) \cup {SummaryTask(id)}

(***************************************************************************)
(* Link(t, u): u must wait for t.  A program is linked only to the first   *)
(* task of each testdatum that needs it: the later ones follow from the    *)
(* chain of the testdatum.                                                 *)
(***************************************************************************)
\* Mutant: the checker is awaited by the last scoring only.
LinkCompileLate(sub, t, u) ==
  \/ u.type = "EXECUTE" /\ t.subtask = "USERPROG" /\ u.stage = Min(NonProbStages(sub))
  \/ u.type = "EXECUTE" /\ t.subtask = "PROBPROG" /\ u.stage = Min(sub.problem_prog_stages)
  \/ u.type = "SCORING" /\ t.subtask = "SPECJUDGE" /\ u.stage = LastStage(sub)
  \/ u.type = "SUMMARY" /\ (t.subtask = "SUMMARY" \/ Tds(sub) = {})

LinkCompile(sub, t, u) ==
  \/ u.type = "EXECUTE" /\ t.subtask = "USERPROG" /\ u.stage = Min(NonProbStages(sub))
  \/ u.type = "EXECUTE" /\ t.subtask = "PROBPROG" /\ u.stage = Min(sub.problem_prog_stages)
  \/ u.type = "SCORING" /\ t.subtask = "SPECJUDGE" /\ u.stage = Min(ScoringStages(sub))
  \/ u.type = "SUMMARY" /\ (t.subtask = "SUMMARY" \/ Tds(sub) = {})

\* Mutant: executes[i].front() instead of back().
LinkExecuteFront(sub, t, u) ==
  \/ /\ u.type = "SCORING" /\ t.td = u.td
     /\ t.stage = (IF sub.judge_between_stages THEN u.stage ELSE 0)
  \/ u.type = "EXECUTE" /\ ~sub.judge_between_stages /\ t.td = u.td /\ u.stage = t.stage + 1

LinkExecute(sub, t, u) ==
  \/ u.type = "SCORING" /\ t.td = u.td /\ t.stage = u.stage
  \/ u.type = "EXECUTE" /\ ~sub.judge_between_stages /\ t.td = u.td /\ u.stage = t.stage + 1

\* Mutant: the summary waits for the first scoring of each testdatum.
LinkScoringFirst(sub, t, u) ==
  \/ u.type = "EXECUTE" /\ t.td = u.td /\ u.stage = t.stage + 1
  \/ u.type = "SUMMARY" /\ t.stage = Min(ScoringStages(sub))

LinkScoring(sub, t, u) ==
  \/ u.type = "EXECUTE" /\ t.td = u.td /\ u.stage = t.stage + 1
  \/ u.type = "SUMMARY" /\ t.stage = LastStage(sub)

Link(sub, t, u) ==
  \/ t.type = "COMPILE" /\ LinkCompile(sub, t, u)
  \/ t.type = "EXECUTE" /\ LinkExecute(sub, t, u)
  \/ t.type = "SCORING" /\ LinkScoring(sub, t, u)

\* Indegree of u in the freshly built graph.
InitialIndeg(id, sub, u) == Cardinality({t \in TasksOf(id, sub) : Link(sub, t, u)})

-----------------------------------------------------------------------------
(***************************************************************************)
(* td_order: with skip_group, testdata are put greedily into layers (more  *)
(* groups first; each in the first layer that lacks one of its groups) and *)
(* tried layer by layer.                                                   *)
(***************************************************************************)
\* The number of elements of S before x: its index when S is sorted by R.
Place(S, R, x) == Cardinality({y \in S : <<y, x>> \in R})

\* stable_sort, more groups first
MoreGroups(sub) ==
  LET size(td) == Cardinality(sub.testdata[td].td_groups)
  IN  {e \in Tds(sub) \X Tds(sub) : size(e[1]) > size(e[2]) \/ (size(e[1]) = size(e[2]) /\ e[1] < e[2])}

ScanOrder(sub) ==
  [j \in Tds(sub) |-> CHOOSE td \in Tds(sub) : Place(Tds(sub), MoreGroups(sub), td) = j - 1]

\* acc.layers: the groups in each layer so far, acc.layer: td_layer.  The
\* code's lower_bound is this minimum because the layers are nested.
PlaceInLayer(sub, acc, td) ==
  LET groups == sub.testdata[td].td_groups
      pos    == Min({p \in DOMAIN acc.layers : ~(groups \subseteq acc.layers[p])}
                      \cup {Len(acc.layers) + 1})
      layers == IF pos > Len(acc.layers) THEN Append(acc.layers, {}) ELSE acc.layers
  IN  [layers |-> [layers EXCEPT ![pos] = @ \cup groups],
       layer  |-> [acc.layer EXCEPT ![td] = pos]]

\* After each round of the loop; 0 is the layer of those not yet scanned.
Layering(sub) ==
  LET acc[k \in 0 .. Len(sub.testdata)] ==
        IF k = 0 THEN [layers |-> <<>>, layer |-> [td \in Tds(sub) |-> 0]]
        ELSE PlaceInLayer(sub, acc[k - 1], ScanOrder(sub)[k])
  IN  acc

TdLayer(sub) == Layering(sub)[Len(sub.testdata)].layer

\* stable_sort, by layers
Earlier(sub) ==
  LET layer == TdLayer(sub)
  IN  {e \in Tds(sub) \X Tds(sub) : layer[e[1]] < layer[e[2]] \/ (layer[e[1]] = layer[e[2]] /\ e[1] < e[2])}

TdOrder(sub) ==
  [td \in Tds(sub) |-> IF sub.skip_group THEN Place(Tds(sub), Earlier(sub), td) ELSE td - 1]

\* "it tries to fill each layer with as many groups as possible before
\* proceeding to the next layer": the groups of a testdatum have all been tried
\* once in every layer before its own.
GroupsTriedInTurn(sub) ==
  \A td \in Tds(sub) : \A g \in sub.testdata[td].td_groups, p \in 1 .. TdLayer(sub)[td] - 1 :
    \E k \in Tds(sub) :
      /\ TdLayer(sub)[k] = p
      /\ g \in sub.testdata[k].td_groups
      /\ sub.skip_group => TdOrder(sub)[k] < TdOrder(sub)[td]
=============================================================================
