-------------------------- MODULE JudgeQueueProofs --------------------------
(***************************************************************************)
(* The dependency graph of JudgeQueue is right for every set of            *)
(* submissions, every number of pushes and of sandboxes.                   *)
(*                                                                         *)
(* GraphInv joins ReadyTasksQueued, SummaryIsLast and StagesInOrder, none  *)
(* of which is inductive alone: that Remove(summary) leaves no task behind *)
(* needs the chain of every live task to be live up to its end, which is   *)
(* linked to the summary (ChainEnd, CompileSuccessor), and that a removal  *)
(* keeps that chain needs an indegree of 0 to mean that no predecessor is  *)
(* live.                                                                   *)
(*                                                                         *)
(* On top of it stand type correctness (DataInv), what cancellation        *)
(* guarantees when no submission id of the server is also an internal id   *)
(* (MapInv), and under the same assumption that JudgeQueue implements the  *)
(* safety part of JudgeService (ServiceSteps).                             *)
(*                                                                         *)
(* The last section is about the order in which testdata are tried.        *)
(***************************************************************************)
EXTENDS JudgeQueue, FiniteSetTheorems, WellFoundedInduction, TLAPS

\* Every task of a submission carries its internal id and is of one of four shapes.
LEMMA TaskShapes ==
  ASSUME NEW id, NEW sub, NEW t \in TasksOf(id, sub)
  PROVE  /\ t.id = id
         /\ \/ t.type = "COMPILE" /\ t.subtask \in Compiles(sub) /\ t = CompileTask(id, t.subtask)
            \/ /\ t.type = "EXECUTE" /\ t.td \in Tds(sub) /\ t.stage \in Stages(sub)
               /\ t = ExecuteTask(id, t.td, t.stage)
            \/ /\ t.type = "SCORING" /\ t.td \in Tds(sub) /\ t.stage \in ScoringStages(sub)
               /\ t = ScoringTask(id, t.td, t.stage)
            \/ t.type = "SUMMARY" /\ t = SummaryTask(id)
  BY DEF TasksOf, CompileTasks, ExecuteTasks, ScoringTasks,
         CompileTask, ExecuteTask, ScoringTask, SummaryTask

\* The converse: a task of each shape is one of the submission.
LEMMA TaskMembership ==
  ASSUME NEW id, NEW sub
  PROVE  /\ \A s \in Compiles(sub) : CompileTask(id, s) \in TasksOf(id, sub)
         /\ \A td \in Tds(sub), j \in Stages(sub) : ExecuteTask(id, td, j) \in TasksOf(id, sub)
         /\ \A td \in Tds(sub), j \in ScoringStages(sub) : ScoringTask(id, td, j) \in TasksOf(id, sub)
         /\ SummaryTask(id) \in TasksOf(id, sub)
  BY DEF TasksOf, CompileTasks, ExecuteTasks, ScoringTasks

\* Stages and testdata are nonempty intervals of naturals, by the clamp to 1 .. 32.
LEMMA StagesType ==
  ASSUME NEW sub \in Submissions
  PROVE  /\ NumStages(sub) \in Nat /\ NumStages(sub) >= 1
         /\ LastStage(sub) \in Stages(sub)
         /\ Stages(sub) \subseteq Nat
         /\ ScoringStages(sub) \subseteq Stages(sub)
         /\ LastStage(sub) \in ScoringStages(sub)
         /\ Len(sub.testdata) \in Nat
         /\ Tds(sub) \subseteq Nat
  <1>1. sub.stages \in Int /\ sub.testdata \in Seq(TestdataItem)
    BY SubmissionsAssumption DEF Submission
  <1>2. NumStages(sub) \in Nat /\ NumStages(sub) >= 1
    BY <1>1 DEF NumStages, kMaxStages
  <1> QED
    BY <1>1, <1>2 DEF LastStage, Stages, ScoringStages, Tds

\* A submission has finitely many tasks.
LEMMA TasksFinite ==
  ASSUME NEW id, NEW sub \in Submissions
  PROVE  IsFiniteSet(TasksOf(id, sub))
  <1>1. IsFiniteSet(CompileTasks(id, sub))
    <2>1. IsFiniteSet(CompileSubtask)
      <3>1. CompileSubtask = (({"USERPROG"} \cup {"PROBPROG"}) \cup {"SPECJUDGE"}) \cup {"SUMMARY"}
        BY DEF CompileSubtask
      <3>2. IsFiniteSet({"USERPROG"}) /\ IsFiniteSet({"PROBPROG"})
            /\ IsFiniteSet({"SPECJUDGE"}) /\ IsFiniteSet({"SUMMARY"})
        BY FS_Singleton
      <3> HIDE DEF CompileSubtask
      <3>3. IsFiniteSet({"USERPROG"} \cup {"PROBPROG"})
        BY <3>2, FS_Union
      <3>4. IsFiniteSet(({"USERPROG"} \cup {"PROBPROG"}) \cup {"SPECJUDGE"})
        BY <3>2, <3>3, FS_Union
      <3> QED
        BY <3>1, <3>2, <3>4, FS_Union
    <2>2. IsFiniteSet(Compiles(sub))
      BY <2>1, FS_Subset DEF Compiles
    <2> DEFINE f == [s \in Compiles(sub) |-> CompileTask(id, s)]
    <2>3. f \in Surjection(Compiles(sub), CompileTasks(id, sub))
      BY DEF Surjection, CompileTasks
    <2> HIDE DEF f
    <2> QED
      BY <2>2, <2>3, FS_Surjection
  <1>2. IsFiniteSet(Tds(sub) \X Stages(sub)) /\ IsFiniteSet(Tds(sub) \X ScoringStages(sub))
    <2>1. IsFiniteSet(Tds(sub)) /\ IsFiniteSet(Stages(sub))
      <3>1. Len(sub.testdata) \in Int /\ NumStages(sub) - 1 \in Int /\ 0 \in Int /\ 1 \in Int
        BY StagesType
      <3>2. IsFiniteSet(1 .. Len(sub.testdata))
        BY <3>1, FS_Interval
      <3>3. IsFiniteSet(0 .. NumStages(sub) - 1)
        BY <3>1, FS_Interval
      <3> QED
        BY <3>2, <3>3 DEF Tds, Stages
    <2>2. IsFiniteSet(ScoringStages(sub))
      BY <2>1, StagesType, FS_Subset
    <2> QED
      BY <2>1, <2>2, FS_Product
  <1>3. IsFiniteSet(ExecuteTasks(id, sub))
    <2> DEFINE f == [p \in Tds(sub) \X Stages(sub) |-> ExecuteTask(id, p[1], p[2])]
    <2>1. f \in Surjection(Tds(sub) \X Stages(sub), ExecuteTasks(id, sub))
      <3>1. f \in [Tds(sub) \X Stages(sub) -> ExecuteTasks(id, sub)]
        BY DEF ExecuteTasks
      <3>2. ASSUME NEW t \in ExecuteTasks(id, sub)
            PROVE  \E p \in Tds(sub) \X Stages(sub) : f[p] = t
        <4>1. PICK td \in Tds(sub), j \in Stages(sub) : t = ExecuteTask(id, td, j)
          BY DEF ExecuteTasks
        <4>2. <<td, j>> \in Tds(sub) \X Stages(sub) /\ f[<<td, j>>] = t
          BY <4>1
        <4> QED
          BY <4>2
      <3> QED
        BY <3>1, <3>2 DEF Surjection
    <2> HIDE DEF f
    <2> QED
      BY <2>1, <1>2, FS_Surjection
  <1>4. IsFiniteSet(ScoringTasks(id, sub))
    <2> DEFINE f == [p \in Tds(sub) \X ScoringStages(sub) |-> ScoringTask(id, p[1], p[2])]
    <2>1. f \in Surjection(Tds(sub) \X ScoringStages(sub), ScoringTasks(id, sub))
      <3>1. f \in [Tds(sub) \X ScoringStages(sub) -> ScoringTasks(id, sub)]
        BY DEF ScoringTasks
      <3>2. ASSUME NEW t \in ScoringTasks(id, sub)
            PROVE  \E p \in Tds(sub) \X ScoringStages(sub) : f[p] = t
        <4>1. PICK td \in Tds(sub), j \in ScoringStages(sub) : t = ScoringTask(id, td, j)
          BY DEF ScoringTasks
        <4>2. <<td, j>> \in Tds(sub) \X ScoringStages(sub) /\ f[<<td, j>>] = t
          BY <4>1
        <4> QED
          BY <4>2
      <3> QED
        BY <3>1, <3>2 DEF Surjection
    <2> HIDE DEF f
    <2> QED
      BY <2>1, <1>2, FS_Surjection
  <1> QED
    BY <1>1, <1>3, <1>4, FS_Union, FS_Singleton DEF TasksOf

-----------------------------------------------------------------------------
(* The shape of the graph. *)

\* The minimum that PushSubmission's loops look for exists.
LEMMA MinIsElement ==
  ASSUME NEW S, S \subseteq Nat, S # {}
  PROVE  Min(S) \in S /\ \A y \in S : Min(S) <= y
  <1> DEFINE R == {ss \in Nat \X Nat : ss[1] < ss[2]}
  <1>1. IsWellFoundedOn(R, Nat)
    BY NatLessThanWellFounded DEF OpToRel
  <1> HIDE DEF R
  <1>2. \E x \in S : \A y \in S : ~(<<y, x>> \in R)
    BY <1>1, WFMin
  <1>3. \E x \in S : \A y \in S : x <= y
    <2>1. PICK x \in S : \A y \in S : ~(<<y, x>> \in R)
      BY <1>2
    <2>2. ASSUME NEW y \in S, y < x
          PROVE  <<y, x>> \in R
      <3>1. <<y, x>> \in Nat \X Nat
        OBVIOUS
      <3> QED
        BY <2>2, <3>1 DEF R
    <2>3. ASSUME NEW y \in S
          PROVE  x <= y
      <3>1. ~(y < x)
        BY <2>1, <2>2
      <3>2. x \in Nat /\ y \in Nat
        OBVIOUS
      <3> QED
        BY <3>1, <3>2
    <2> QED
      BY <2>3
  <1> QED
    BY <1>3 DEF Min

\* No task waits for itself.
LEMMA LinkIrreflexive ==
  ASSUME NEW sub \in Submissions, NEW id, NEW t \in TasksOf(id, sub)
  PROVE  ~Link(sub, t, t)
  <1>1. CASE t.type \in {"EXECUTE", "SCORING"}
    <2>1. t.stage \in Nat
      BY <1>1, TaskShapes, StagesType
    <2> QED
      BY <1>1, <2>1 DEF Link, LinkCompile, LinkExecute, LinkScoring
  <1>2. CASE t.type \in {"COMPILE", "SUMMARY"}
    BY <1>2 DEF Link, LinkCompile, LinkExecute, LinkScoring
  <1> QED
    BY <1>1, <1>2, TaskShapes

\* Positions in a chain are naturals.
LEMMA PositionType ==
  ASSUME NEW sub \in Submissions, NEW id, NEW t \in TasksOf(id, sub),
         t.type \in {"EXECUTE", "SCORING"}
  PROVE  Position(t) \in Nat /\ t.stage \in Stages(sub) /\ t.td \in Tds(sub)
         /\ Position(t) <= 2 * LastStage(sub) + 1
  <1>1. t.stage \in Stages(sub) /\ t.td \in Tds(sub)
    BY TaskShapes, StagesType
  <1> QED
    BY <1>1, StagesType DEF Position, Stages, LastStage

\* Between two tasks of a testdatum's chain the second has a predecessor that is
\* not before the first.
LEMMA ChainPredecessor ==
  ASSUME NEW sub \in Submissions, NEW id,
         NEW t \in TasksOf(id, sub), NEW u \in TasksOf(id, sub),
         SameTd(t, u), Position(t) < Position(u)
  PROVE  \E w \in TasksOf(id, sub) :
           Link(sub, w, u) /\ SameTd(t, w) /\ Position(t) <= Position(w)
  <1>1. /\ t.type \in {"EXECUTE", "SCORING"} /\ u.type \in {"EXECUTE", "SCORING"}
        /\ t.td = u.td /\ t.td \in Tds(sub)
        /\ t.stage \in Stages(sub) /\ u.stage \in Stages(sub)
        /\ t.stage \in Nat /\ u.stage \in Nat
    BY PositionType, StagesType DEF SameTd
  <1>2. CASE u.type = "SCORING"
    <2> DEFINE w == ExecuteTask(id, t.td, u.stage)
    <2>1. w \in TasksOf(id, sub)
      BY <1>1, TaskMembership
    <2>2. w.type = "EXECUTE" /\ w.td = t.td /\ w.stage = u.stage
      BY DEF ExecuteTask
    <2> HIDE DEF w
    <2>3. Link(sub, w, u) /\ SameTd(t, w)
      BY <1>1, <1>2, <2>2 DEF Link, LinkExecute, SameTd
    <2>4. Position(t) <= Position(w)
      BY <1>1, <1>2, <2>2 DEF Position
    <2> QED
      BY <2>1, <2>3, <2>4
  <1>3. CASE u.type = "EXECUTE" /\ sub.judge_between_stages
    <2> DEFINE w == ScoringTask(id, t.td, u.stage - 1)
    <2>1. u.stage >= 1
      BY <1>1, <1>3 DEF Position
    <2>2. u.stage - 1 \in ScoringStages(sub)
      BY <1>1, <1>3, <2>1, StagesType DEF ScoringStages, Stages
    <2>3. w \in TasksOf(id, sub)
      BY <1>1, <2>2, TaskMembership
    <2>4. w.type = "SCORING" /\ w.td = t.td /\ w.stage = u.stage - 1
      BY DEF ScoringTask
    <2> HIDE DEF w
    <2>5. Link(sub, w, u) /\ SameTd(t, w)
      BY <1>1, <1>3, <2>4 DEF Link, LinkScoring, SameTd
    <2>6. Position(t) <= Position(w)
      BY <1>1, <1>3, <2>4 DEF Position
    <2> QED
      BY <2>3, <2>5, <2>6
  <1>4. CASE u.type = "EXECUTE" /\ ~sub.judge_between_stages
    <2> DEFINE w == ExecuteTask(id, t.td, u.stage - 1)
    <2>1. u.stage >= 1
      BY <1>1, <1>4 DEF Position
    <2>2. u.stage - 1 \in Stages(sub)
      BY <1>1, <2>1, StagesType DEF Stages
    <2>3. t.type = "EXECUTE"
      <3>1. t.type = "SCORING" => t.stage = LastStage(sub)
        <4>1. t.type = "SCORING" => t.stage \in ScoringStages(sub)
          BY TaskShapes
        <4>2. ScoringStages(sub) = {LastStage(sub)}
          BY <1>4 DEF ScoringStages
        <4> QED
          BY <4>1, <4>2
      <3>2. u.stage <= LastStage(sub) /\ LastStage(sub) \in Nat
        BY <1>1, StagesType DEF Stages, LastStage
      <3> QED
        BY <3>1, <3>2, <1>1, <1>4 DEF Position
    <2>4. w \in TasksOf(id, sub)
      BY <1>1, <2>2, TaskMembership
    <2>5. w.type = "EXECUTE" /\ w.td = t.td /\ w.stage = u.stage - 1
      BY DEF ExecuteTask
    <2> HIDE DEF w
    <2>6. Link(sub, w, u) /\ SameTd(t, w)
      BY <1>1, <1>4, <2>5 DEF Link, LinkExecute, SameTd
    <2>7. Position(t) <= Position(w)
      BY <1>1, <1>4, <2>3, <2>5 DEF Position
    <2> QED
      BY <2>4, <2>6, <2>7
  <1> QED
    BY <1>1, <1>2, <1>3, <1>4

\* The last task of a testdatum's chain is its last scoring, which the summary
\* waits for.
LEMMA ChainEnd ==
  ASSUME NEW sub \in Submissions, NEW id, NEW t \in TasksOf(id, sub),
         t.type \in {"EXECUTE", "SCORING"}
  PROVE  \E w \in TasksOf(id, sub) :
           SameTd(t, w) /\ Position(t) <= Position(w) /\ Link(sub, w, SummaryTask(id))
  <1> DEFINE w == ScoringTask(id, t.td, LastStage(sub))
  <1>1. w \in TasksOf(id, sub)
    BY PositionType, StagesType, TaskMembership
  <1>2. w.type = "SCORING" /\ w.td = t.td /\ w.stage = LastStage(sub)
    BY DEF ScoringTask
  <1> HIDE DEF w
  <1>3. SameTd(t, w)
    BY <1>2 DEF SameTd
  <1>4. Position(t) <= Position(w)
    BY <1>2, PositionType, StagesType DEF Position
  <1>5. Link(sub, w, SummaryTask(id))
    BY <1>2 DEF Link, LinkScoring, SummaryTask
  <1> QED
    BY <1>1, <1>3, <1>4, <1>5

\* A compilation is waited for by the summary or by a task of some testdatum.
LEMMA CompileSuccessor ==
  ASSUME NEW sub \in Submissions, NEW id, NEW t \in TasksOf(id, sub), t.type = "COMPILE"
  PROVE  \/ Link(sub, t, SummaryTask(id))
         \/ \E u \in TasksOf(id, sub) : u.type \in {"EXECUTE", "SCORING"} /\ Link(sub, t, u)
  <1>1. t.subtask \in Compiles(sub)
    BY TaskShapes
  <1>2. CASE Tds(sub) = {} \/ t.subtask = "SUMMARY"
    BY <1>2 DEF Link, LinkCompile, SummaryTask
  <1>3. ASSUME NEW td \in Tds(sub), t.subtask = "USERPROG"
        PROVE  \E u \in TasksOf(id, sub) : u.type \in {"EXECUTE", "SCORING"} /\ Link(sub, t, u)
    <2> DEFINE u == ExecuteTask(id, td, Min(NonProbStages(sub)))
    <2>1. Min(NonProbStages(sub)) \in Stages(sub)
      BY <1>1, <1>3, MinIsElement, StagesType DEF Compiles, NonProbStages
    <2>2. u \in TasksOf(id, sub)
      BY <2>1, TaskMembership
    <2>3. u.type = "EXECUTE" /\ u.stage = Min(NonProbStages(sub))
      BY DEF ExecuteTask
    <2> HIDE DEF u
    <2> QED
      BY <1>3, <2>2, <2>3 DEF Link, LinkCompile
  <1>4. ASSUME NEW td \in Tds(sub), t.subtask = "PROBPROG"
        PROVE  \E u \in TasksOf(id, sub) : u.type \in {"EXECUTE", "SCORING"} /\ Link(sub, t, u)
    <2> DEFINE u == ExecuteTask(id, td, Min(sub.problem_prog_stages))
    <2>1. Min(sub.problem_prog_stages) \in Stages(sub)
      BY <1>1, <1>4, MinIsElement, StagesType, SubmissionsAssumption DEF Compiles
    <2>2. u \in TasksOf(id, sub)
      BY <2>1, TaskMembership
    <2>3. u.type = "EXECUTE" /\ u.stage = Min(sub.problem_prog_stages)
      BY DEF ExecuteTask
    <2> HIDE DEF u
    <2> QED
      BY <1>4, <2>2, <2>3 DEF Link, LinkCompile
  <1>5. ASSUME NEW td \in Tds(sub), t.subtask = "SPECJUDGE"
        PROVE  \E u \in TasksOf(id, sub) : u.type \in {"EXECUTE", "SCORING"} /\ Link(sub, t, u)
    <2> DEFINE u == ScoringTask(id, td, Min(ScoringStages(sub)))
    <2>1. Min(ScoringStages(sub)) \in ScoringStages(sub)
      BY MinIsElement, StagesType
    <2>2. u \in TasksOf(id, sub)
      BY <2>1, TaskMembership
    <2>3. u.type = "SCORING" /\ u.stage = Min(ScoringStages(sub))
      BY DEF ScoringTask
    <2> HIDE DEF u
    <2> QED
      BY <1>5, <2>2, <2>3 DEF Link, LinkCompile
  <1> QED
    BY <1>1, <1>2, <1>3, <1>4, <1>5 DEF Compiles, CompileSubtask

\* A task of a testdatum is known by its position.
LEMMA PositionInjective ==
  ASSUME NEW sub \in Submissions, NEW id,
         NEW t \in TasksOf(id, sub), NEW u \in TasksOf(id, sub),
         SameTd(t, u), Position(t) = Position(u)
  PROVE  t = u
  <1>1. t.stage \in Nat /\ u.stage \in Nat
    BY PositionType, StagesType DEF SameTd
  <1>2. t.type = u.type /\ t.stage = u.stage /\ t.td = u.td
    BY <1>1 DEF Position, SameTd
  <1> QED
    BY <1>2, TaskShapes DEF SameTd

-----------------------------------------------------------------------------
(* The inductive invariant of the graph. *)

GraphInv ==
  /\ pushed \in Seq(Submissions)
  /\ Live \subseteq TaskOf
  /\ IsFiniteSet(Live)
  /\ task_list \in [Live -> Nat]
  /\ Active \subseteq Ids
  /\ ReadyTasksQueued
  /\ SummaryIsLast
  /\ StagesInOrder

\* A live task is one of a submission that was pushed.
LEMMA LiveTask ==
  ASSUME pushed \in Seq(Submissions), Live \subseteq TaskOf, NEW t \in Live
  PROVE  /\ t.id \in Ids
         /\ Sub(t.id) \in Submissions
         /\ t \in TasksOf(t.id, Sub(t.id))
  <1>1. PICK id \in Ids : t \in TasksOf(id, Sub(id))
    BY DEF TaskOf
  <1>2. t.id = id
    BY <1>1, TaskShapes
  <1>3. Sub(id) \in Submissions
    BY DEF Ids, Sub
  <1> QED
    BY <1>1, <1>2, <1>3

\* A task of indegree 0 has no live predecessor.
LEMMA ReadyTask ==
  ASSUME GraphInv, NEW t \in task_queue \cup running
  PROVE  t \in Live /\ task_list[t] = 0 /\ LivePreds(t) = {}
  <1>1. t \in Live /\ task_list[t] = 0 /\ Cardinality(LivePreds(t)) = 0
    BY DEF GraphInv, ReadyTasksQueued
  <1>2. IsFiniteSet(LivePreds(t))
    BY FS_Subset DEF GraphInv, LivePreds
  <1> QED
    BY <1>1, <1>2, FS_EmptySet

\* When the summary is ready it is the only live task of its submission.
LEMMA SummaryAlone ==
  ASSUME GraphInv, NEW t \in task_queue \cup running, t.type = "SUMMARY",
         NEW u \in Live, u.id = t.id
  PROVE  u = t
  <1>1. /\ t \in Live /\ LivePreds(t) = {}
        /\ t.id \in Ids /\ Sub(t.id) \in Submissions
        /\ t \in TasksOf(t.id, Sub(t.id)) /\ u \in TasksOf(t.id, Sub(t.id))
    BY ReadyTask, LiveTask DEF GraphInv
  <1>2. t = SummaryTask(t.id)
    BY <1>1, TaskShapes
  <1>3. ASSUME NEW w \in Live, w \in TasksOf(t.id, Sub(t.id)),
               w.type \in {"EXECUTE", "SCORING"}
        PROVE  FALSE
    <2>1. w.id = t.id
      BY <1>3, TaskShapes
    <2>2. PICK x \in TasksOf(t.id, Sub(t.id)) :
            SameTd(w, x) /\ Position(w) <= Position(x) /\ Link(Sub(t.id), x, SummaryTask(t.id))
      BY <1>1, <1>3, ChainEnd
    <2>3. x \in Live
      BY <1>3, <2>1, <2>2 DEF GraphInv, StagesInOrder
    <2>4. x.id = t.id
      BY <2>2, TaskShapes
    <2>5. Edge(x, t)
      BY <1>2, <2>2, <2>4 DEF Edge
    <2> QED
      BY <1>1, <2>3, <2>5 DEF LivePreds
  <1>4. ASSUME u.type = "COMPILE" PROVE FALSE
    <2>1. ~Edge(u, t)
      BY <1>1 DEF LivePreds
    <2>2. ~Link(Sub(t.id), u, SummaryTask(t.id))
      BY <1>2, <2>1 DEF Edge
    <2>3. PICK w \in TasksOf(t.id, Sub(t.id)) :
            w.type \in {"EXECUTE", "SCORING"} /\ Link(Sub(t.id), u, w)
      BY <1>1, <1>4, <2>2, CompileSuccessor
    <2>4. w.id = t.id
      BY TaskShapes
    <2>5. w \in Live
      BY <2>3, <2>4 DEF GraphInv, SummaryIsLast, Edge
    <2> QED
      BY <1>3, <2>3, <2>5
  <1> QED
    BY <1>1, <1>2, <1>3, <1>4, TaskShapes

\* Remove() of a ready task keeps the graph consistent; it is the submission's
\* summary exactly when the submission is erased with it.
LEMMA RemoveKeepsGraph ==
  ASSUME GraphInv, NEW t \in task_queue \cup running, RemoveTask(t), pushed' = pushed,
         Active' = IF t.type = "SUMMARY" THEN Active \ {t.id} ELSE Active
  PROVE  GraphInv'
  <1>1. t \in Live /\ task_list[t] = 0 /\ LivePreds(t) = {}
    BY ReadyTask
  <1>2. /\ Live' = Live \ {t}
        /\ \A u \in Live' : task_list'[u] = IF Edge(t, u) THEN task_list[u] - 1 ELSE task_list[u]
        /\ task_list' = [u \in Live' |-> task_list'[u]]
    BY DEF RemoveTask, Live
  <1>3. Ids' = Ids /\ TaskOf' = TaskOf /\ \A id : Sub(id)' = Sub(id)
    BY DEF Ids, TaskOf, Sub
  <1>4. \A u, w : Edge(u, w)' <=> Edge(u, w)
    BY DEF Edge, Sub
  <1>5. \A u \in Live : u.id \in Ids /\ Sub(u.id) \in Submissions /\ u \in TasksOf(u.id, Sub(u.id))
    BY LiveTask DEF GraphInv
  <1>6. pushed' \in Seq(Submissions) /\ Live' \subseteq TaskOf' /\ IsFiniteSet(Live')
        /\ Active' \subseteq Ids'
    BY <1>2, <1>3, FS_RemoveElement DEF GraphInv
  <1>7. ASSUME NEW u \in Live'
        PROVE  task_list'[u] \in Nat /\ task_list'[u] = Cardinality(LivePreds(u)')
    <2>1. LivePreds(u)' = LivePreds(u) \ {t}
      BY <1>2, <1>4 DEF LivePreds
    <2>2. IsFiniteSet(LivePreds(u))
      BY FS_Subset DEF GraphInv, LivePreds
    <2>3. t \in LivePreds(u) <=> Edge(t, u)
      BY <1>1 DEF LivePreds
    <2>4. task_list[u] = Cardinality(LivePreds(u)) /\ task_list[u] \in Nat
      BY <1>2 DEF GraphInv, ReadyTasksQueued
    <2>5. /\ Cardinality(LivePreds(u) \ {t}) =
               IF t \in LivePreds(u) THEN Cardinality(LivePreds(u)) - 1 ELSE Cardinality(LivePreds(u))
          /\ IsFiniteSet(LivePreds(u) \ {t})
      BY <2>2, FS_RemoveElement
    <2>6. Cardinality(LivePreds(u) \ {t}) \in Nat
      BY <2>5, FS_CardinalityType
    <2> QED
      BY <1>2, <2>1, <2>3, <2>4, <2>5, <2>6
  <1>8. task_list' \in [Live' -> Nat]
    BY <1>2, <1>7
  <1>9. ReadyTasksQueued'
    <2>1. ~Edge(t, t)
      BY <1>1, <1>5, LinkIrreflexive DEF Edge
    <2>2. ASSUME NEW u \in Live, Edge(t, u)
          PROVE  u \notin task_queue /\ u \notin running /\ task_list[u] \in Nat
      BY <1>1, <2>2, ReadyTask DEF LivePreds, GraphInv
    <2>3. \A u \in Live : task_list[u] \in Nat
      BY DEF GraphInv
    <2>4. /\ task_queue \cup running = {u \in Live : task_list[u] = 0}
          /\ task_queue \cap running = {}
      BY DEF GraphInv, ReadyTasksQueued
    <2>5. /\ task_queue' = (task_queue \ {t}) \cup {u \in Live : Edge(t, u) /\ task_list[u] = 1}
          /\ running' = running \ {t}
      BY DEF RemoveTask, Live
    <2>6. task_queue' \cap running' = {}
      BY <2>2, <2>4, <2>5
    <2>7. task_queue' \cup running' = {u \in Live' : task_list'[u] = 0}
      BY <1>2, <2>1, <2>2, <2>3, <2>4, <2>5
    <2> QED
      BY <1>7, <2>6, <2>7 DEF ReadyTasksQueued
  <1>10. SummaryIsLast'
    <2>1. ASSUME NEW u \in Live' PROVE u.id \in Active'
      <3>1. u \in Live /\ u # t /\ u.id \in Active
        BY <1>2 DEF GraphInv, SummaryIsLast
      <3>2. t.type = "SUMMARY" => u.id # t.id
        BY <3>1, SummaryAlone
      <3> QED
        BY <3>1, <3>2
    <2>2. ASSUME NEW id \in Active' PROVE SummaryTask(id) \in Live'
      <3>1. id \in Active /\ SummaryTask(id) \in Live /\ (t.type = "SUMMARY" => id # t.id)
        BY DEF GraphInv, SummaryIsLast
      <3>2. SummaryTask(id).type = "SUMMARY" /\ SummaryTask(id).id = id
        BY DEF SummaryTask
      <3> QED
        BY <1>2, <3>1, <3>2
    <2>3. ASSUME NEW u \in Live', NEW w \in TasksOf(u.id, Sub(u.id)'), Edge(u, w)'
          PROVE  w \in Live'
      <3>1. u \in Live /\ Edge(u, w) /\ w \in TasksOf(u.id, Sub(u.id))
        BY <1>2, <1>3, <1>4, <2>3
      <3>2. w \in Live
        BY <3>1 DEF GraphInv, SummaryIsLast
      <3> QED
        BY <1>1, <1>2, <3>1, <3>2 DEF LivePreds
    <2> QED
      BY <2>1, <2>2, <2>3 DEF SummaryIsLast
  <1>11. StagesInOrder'
    <2>1. ASSUME NEW u \in Live', NEW w \in TasksOf(u.id, Sub(u.id)'),
                 SameTd(u, w), Position(u) <= Position(w)
          PROVE  w \in Live'
      <3>1. /\ u \in Live /\ u # t /\ w \in TasksOf(u.id, Sub(u.id))
            /\ u \in TasksOf(u.id, Sub(u.id)) /\ Sub(u.id) \in Submissions
        BY <1>2, <1>3, <1>5
      <3>2. w \in Live
        BY <2>1, <3>1 DEF GraphInv, StagesInOrder
      <3>3. ASSUME w = t PROVE FALSE
        <4>1. Position(u) # Position(w)
          BY <2>1, <3>1, <3>3, PositionInjective
        <4>2. Position(u) \in Nat /\ Position(w) \in Nat
          BY <2>1, <3>1, PositionType DEF SameTd
        <4>3. Position(u) < Position(w)
          BY <2>1, <4>1, <4>2
        <4>4. PICK x \in TasksOf(u.id, Sub(u.id)) :
                Link(Sub(u.id), x, w) /\ SameTd(u, x) /\ Position(u) <= Position(x)
          BY <2>1, <3>1, <4>3, ChainPredecessor
        <4>5. x \in Live
          BY <3>1, <4>4 DEF GraphInv, StagesInOrder
        <4>6. x.id = u.id /\ w.id = u.id
          BY <3>1, TaskShapes
        <4>7. Edge(x, t)
          BY <3>3, <4>4, <4>6 DEF Edge
        <4> QED
          BY <1>1, <4>5, <4>7 DEF LivePreds
      <3> QED
        BY <1>2, <3>2, <3>3
    <2>2. \A u, w : (SameTd(u, w)' <=> SameTd(u, w)) /\ Position(u)' = Position(u)
      BY DEF SameTd, Position
    <2> QED
      BY <2>1, <2>2 DEF StagesInOrder
  <1> QED
    BY <1>6, <1>8, <1>9, <1>10, <1>11 DEF GraphInv

\* RunTask moves a ready task from the queue to the running ones.
LEMMA RunKeepsGraph ==
  ASSUME GraphInv, NEW t \in task_queue, Run(t), pushed' = pushed, Active' = Active
  PROVE  GraphInv'
  <1>1. Live' = Live /\ task_list' = task_list /\ Ids' = Ids /\ TaskOf' = TaskOf
        /\ \A id : Sub(id)' = Sub(id)
    BY DEF Run, Live, Ids, TaskOf, Sub
  <1>2. \A u : LivePreds(u)' = LivePreds(u)
    BY <1>1 DEF LivePreds, Edge
  <1>3. /\ task_queue' \cup running' = task_queue \cup running
        /\ task_queue' \cap running' = {}
    BY DEF Run, GraphInv, ReadyTasksQueued
  <1>4. ReadyTasksQueued'
    BY <1>1, <1>2, <1>3 DEF GraphInv, ReadyTasksQueued
  <1>5. SummaryIsLast'
    BY <1>1 DEF GraphInv, SummaryIsLast, Edge
  <1>6. StagesInOrder'
    BY <1>1 DEF GraphInv, StagesInOrder, SameTd, Position
  <1> QED
    BY <1>1, <1>4, <1>5, <1>6 DEF GraphInv

\* PushSubmission adds a graph that is consistent and apart from the others.
LEMMA PushKeepsGraph ==
  ASSUME GraphInv, NEW sub \in Submissions, NEW id, id = Len(pushed) + 1,
         pushed' = Append(pushed, sub), InsertTaskList(id, sub), Active' = Active \cup {id}
  PROVE  GraphInv'
  <1> DEFINE new == TasksOf(id, sub)
  <1>1. /\ pushed' \in Seq(Submissions) /\ id \in Nat /\ id \notin Ids /\ Ids' = Ids \cup {id}
        /\ \A i \in Ids : Sub(i)' = Sub(i)
        /\ Sub(id)' = sub
    BY DEF GraphInv, Ids, Sub
  <1>2. \A u \in Live : u.id \in Ids /\ Sub(u.id) \in Submissions /\ u \in TasksOf(u.id, Sub(u.id))
    BY LiveTask DEF GraphInv
  <1>3. \A u \in new : u.id = id
    BY TaskShapes
  <1>4. Live \cap new = {}
    BY <1>1, <1>2, <1>3
  <1>5. /\ Live' = Live \cup new
        /\ \A u \in Live : task_list'[u] = task_list[u]
        /\ \A u \in new : task_list'[u] = InitialIndeg(id, sub, u)
        /\ task_list' = [u \in Live' |-> task_list'[u]]
    BY <1>4 DEF InsertTaskList, Live
  <1> HIDE DEF new
  <1>6. Live' \subseteq TaskOf'
    <2>1. ASSUME NEW u \in Live PROVE u \in TaskOf'
      <3>1. u.id \in Ids' /\ u \in TasksOf(u.id, Sub(u.id)')
        BY <1>1, <1>2
      <3> QED
        BY <3>1 DEF TaskOf
    <2>2. ASSUME NEW u \in new PROVE u \in TaskOf'
      BY <1>1, <2>2 DEF TaskOf, new
    <2> QED
      BY <1>5, <2>1, <2>2
  <1>7. IsFiniteSet(new) /\ IsFiniteSet(Live')
    BY <1>5, TasksFinite, FS_Union DEF GraphInv, new
  <1>8. ASSUME NEW u \in Live
        PROVE  LivePreds(u)' = LivePreds(u)
    <2>1. \A w \in Live : Edge(w, u)' <=> Edge(w, u)
      BY <1>1, <1>2 DEF Edge
    <2>2. \A w \in new : ~Edge(w, u)'
      BY <1>1, <1>2, <1>3 DEF Edge
    <2> QED
      BY <1>5, <2>1, <2>2 DEF LivePreds
  <1>9. ASSUME NEW u \in new
        PROVE  LivePreds(u)' = {w \in new : Link(sub, w, u)}
    <2>1. \A w \in new : Edge(w, u)' <=> Link(sub, w, u)
      BY <1>1, <1>3 DEF Edge
    <2>2. \A w \in Live : ~Edge(w, u)'
      BY <1>1, <1>2, <1>3 DEF Edge
    <2> QED
      BY <1>5, <2>1, <2>2 DEF LivePreds
  <1>10. ASSUME NEW u \in Live'
         PROVE  task_list'[u] \in Nat /\ task_list'[u] = Cardinality(LivePreds(u)')
    <2>1. CASE u \in Live
      BY <1>5, <1>8, <2>1 DEF GraphInv, ReadyTasksQueued
    <2>2. CASE u \in new
      <3>1. task_list'[u] = Cardinality({w \in new : Link(sub, w, u)})
        BY <1>5, <2>2 DEF InitialIndeg, new
      <3>2. IsFiniteSet({w \in new : Link(sub, w, u)})
        BY <1>7, FS_Subset
      <3> QED
        BY <1>9, <2>2, <3>1, <3>2, FS_CardinalityType
    <2> QED
      BY <1>5, <2>1, <2>2
  <1>11. task_list' \in [Live' -> Nat]
    BY <1>5, <1>10
  <1>12. ReadyTasksQueued'
    <2>1. /\ task_queue' = task_queue \cup {u \in new : task_list'[u] = 0}
          /\ running' = running
      BY <1>5 DEF InsertTaskList, new
    <2>2. /\ task_queue \cup running = {u \in Live : task_list[u] = 0}
          /\ task_queue \cap running = {}
      BY DEF GraphInv, ReadyTasksQueued
    <2>3. task_queue' \cup running' = {u \in Live' : task_list'[u] = 0}
      BY <1>5, <2>1, <2>2
    <2>4. task_queue' \cap running' = {}
      BY <1>4, <2>1, <2>2
    <2> QED
      BY <1>10, <2>3, <2>4 DEF ReadyTasksQueued
  <1>13. SummaryIsLast'
    <2>1. \A u \in Live' : u.id \in Active'
      BY <1>3, <1>5 DEF GraphInv, SummaryIsLast
    <2>2. \A i \in Active' : SummaryTask(i) \in Live'
      BY <1>5, TaskMembership DEF GraphInv, SummaryIsLast, new
    <2>3. ASSUME NEW u \in Live', NEW w \in TasksOf(u.id, Sub(u.id)'), Edge(u, w)'
          PROVE  w \in Live'
      <3>1. CASE u \in Live
        <4>1. w \in TasksOf(u.id, Sub(u.id)) /\ Edge(u, w)
          BY <1>1, <1>2, <2>3, <3>1 DEF Edge
        <4> QED
          BY <1>5, <3>1, <4>1 DEF GraphInv, SummaryIsLast
      <3>2. CASE u \in new
        BY <1>1, <1>3, <1>5, <2>3, <3>2 DEF new
      <3> QED
        BY <1>5, <3>1, <3>2
    <2> QED
      BY <2>1, <2>2, <2>3 DEF SummaryIsLast
  <1>14. StagesInOrder'
    <2>1. ASSUME NEW u \in Live', NEW w \in TasksOf(u.id, Sub(u.id)'),
                 SameTd(u, w), Position(u) <= Position(w)
          PROVE  w \in Live'
      <3>1. CASE u \in Live
        BY <1>1, <1>2, <1>5, <2>1, <3>1 DEF GraphInv, StagesInOrder
      <3>2. CASE u \in new
        BY <1>1, <1>3, <1>5, <2>1, <3>2 DEF new
      <3> QED
        BY <1>5, <3>1, <3>2
    <2>2. \A u, w : (SameTd(u, w)' <=> SameTd(u, w)) /\ Position(u)' = Position(u)
      BY DEF SameTd, Position
    <2> QED
      BY <2>1, <2>2 DEF StagesInOrder
  <1>15. Active' \subseteq Ids'
    BY <1>1 DEF GraphInv
  <1> QED
    BY <1>1, <1>6, <1>7, <1>11, <1>12, <1>13, <1>14, <1>15 DEF GraphInv

\* A step that touches neither the graph nor the list of submissions.
LEMMA StutterKeepsGraph ==
  ASSUME GraphInv, UNCHANGED <<pushed, graph>>, Active' = Active
  PROVE  GraphInv'
  <1>1. Live' = Live /\ task_list' = task_list /\ task_queue' = task_queue /\ running' = running
        /\ pushed' = pushed /\ Ids' = Ids /\ TaskOf' = TaskOf /\ \A id : Sub(id)' = Sub(id)
    BY DEF graph, Live, Ids, TaskOf, Sub
  <1>2. \A u : LivePreds(u)' = LivePreds(u)
    BY <1>1 DEF LivePreds, Edge
  <1>3. ReadyTasksQueued'
    BY <1>1, <1>2 DEF GraphInv, ReadyTasksQueued
  <1>4. SummaryIsLast'
    BY <1>1 DEF GraphInv, SummaryIsLast, Edge
  <1>5. StagesInOrder'
    BY <1>1 DEF GraphInv, StagesInOrder, SameTd, Position
  <1> QED
    BY <1>1, <1>3, <1>4, <1>5 DEF GraphInv

-----------------------------------------------------------------------------
(* The graph invariant holds in every behaviour. *)

\* At the start there is no task and no submission.
LEMMA InitGraph == Init => GraphInv
  <1> SUFFICES ASSUME Init PROVE GraphInv
    OBVIOUS
  <1>1. Live = {} /\ Active = {} /\ pushed = <<>> /\ task_queue = {} /\ running = {}
    BY DEF Init, Live, Active
  <1>2. IsFiniteSet(Live)
    BY <1>1, FS_EmptySet
  <1>3. task_list \in [Live -> Nat]
    BY DEF Init, Live
  <1> QED
    BY <1>1, <1>2, <1>3 DEF GraphInv, ReadyTasksQueued, SummaryIsLast, StagesInOrder

\* Every step keeps the graph: a push adds to it, each way a task can end is a Remove,
\* each way it can start a RunTask, and the rest leaves it alone.
LEMMA NextGraph == GraphInv /\ [Next]_vars => GraphInv'
  <1> SUFFICES ASSUME GraphInv, [Next]_vars PROVE GraphInv'
    OBVIOUS
  <1>1. ASSUME NEW sub \in Submissions, PushSubmission(sub) PROVE GraphInv'
    <2>1. Active' = Active \cup {Len(pushed) + 1}
      BY <1>1 DEF PushSubmission, Active
    <2> QED
      BY <1>1, <2>1, PushKeepsGraph DEF PushSubmission
  <1>2. CASE Wake
    BY <1>2, StutterKeepsGraph DEF Wake, Active
  <1>3. ASSUME NEW t \in task_queue, DispatchCompile(t) PROVE GraphInv'
    <2>1. pushed' = pushed /\ Active' = Active /\ t.type = "COMPILE"
          /\ (RemoveTask(t) \/ Run(t))
      BY <1>3 DEF DispatchCompile, CanDispatch, Active
    <2> QED
      BY <2>1, RemoveKeepsGraph, RunKeepsGraph
  <1>4. ASSUME NEW t \in task_queue, DispatchExecute(t) PROVE GraphInv'
    <2>1. pushed' = pushed /\ Active' = Active /\ t.type = "EXECUTE"
          /\ (RemoveTask(t) \/ Run(t))
      BY <1>4 DEF DispatchExecute, CanDispatch, Active
    <2> QED
      BY <2>1, RemoveKeepsGraph, RunKeepsGraph
  <1>5. ASSUME NEW t \in task_queue, DispatchScoring(t) PROVE GraphInv'
    <2>1. pushed' = pushed /\ Active' = Active /\ t.type = "SCORING"
          /\ (RemoveTask(t) \/ Run(t))
      BY <1>5 DEF DispatchScoring, CanDispatch, FinalizeScoring, Active
    <2> QED
      BY <2>1, RemoveKeepsGraph, RunKeepsGraph
  <1>6. ASSUME NEW t \in task_queue, DispatchSummary(t) PROVE GraphInv'
    <2>1. pushed' = pushed /\ t.type = "SUMMARY"
          /\ \/ RemoveTask(t) /\ Active' = Active \ {t.id}
             \/ Run(t) /\ Active' = Active
      BY <1>6 DEF DispatchSummary, CanDispatch, FinalizeSummary, Active
    <2> QED
      BY <2>1, RemoveKeepsGraph, RunKeepsGraph
  <1>7. CASE BeginWait
    BY <1>7, StutterKeepsGraph DEF BeginWait, Active
  <1>8. ASSUME NEW t \in running, CompileEnds(t) PROVE GraphInv'
    <2>1. pushed' = pushed /\ Active' = Active /\ t.type = "COMPILE" /\ RemoveTask(t)
      BY <1>8 DEF CompileEnds, TaskEnds, FinalizeCompile, Active
    <2> QED
      BY <2>1, RemoveKeepsGraph
  <1>9. ASSUME NEW t \in running, ExecuteEnds(t) PROVE GraphInv'
    <2>1. pushed' = pushed /\ Active' = Active /\ t.type = "EXECUTE" /\ RemoveTask(t)
      BY <1>9 DEF ExecuteEnds, TaskEnds, FinalizeExecute, Active
    <2> QED
      BY <2>1, RemoveKeepsGraph
  <1>10. ASSUME NEW t \in running, ScoringEnds(t) PROVE GraphInv'
    <2>1. pushed' = pushed /\ Active' = Active /\ t.type = "SCORING" /\ RemoveTask(t)
      BY <1>10 DEF ScoringEnds, TaskEnds, FinalizeScoring, Active
    <2> QED
      BY <2>1, RemoveKeepsGraph
  <1>11. ASSUME NEW t \in running, SummaryEnds(t) PROVE GraphInv'
    <2>1. pushed' = pushed /\ Active' = Active \ {t.id} /\ t.type = "SUMMARY" /\ RemoveTask(t)
      BY <1>11 DEF SummaryEnds, TaskEnds, FinalizeSummary, Active
    <2> QED
      BY <2>1, RemoveKeepsGraph
  <1>12. CASE LoopEnds
    BY <1>12, StutterKeepsGraph DEF LoopEnds, Active
  <1>13. CASE UNCHANGED vars
    BY <1>13, StutterKeepsGraph DEF vars, graph, Active
  <1> QED
    BY <1>1, <1>2, <1>3, <1>4, <1>5, <1>6, <1>7, <1>8, <1>9, <1>10, <1>11, <1>12, <1>13
    DEF Next, WorkLoop, Dispatch, Finish

\* GraphInv is an invariant of the judging core.
LEMMA GraphCorrect == Spec => []GraphInv
  BY InitGraph, NextGraph, PTL DEF Spec

\* No task of any submission is run early, twice or never, for any number of
\* submissions, testdata, stages and sandboxes.
THEOREM ReadyTasksQueuedAlways == Spec => []ReadyTasksQueued
  <1>1. GraphInv => ReadyTasksQueued
    BY DEF GraphInv
  <1> QED
    BY <1>1, GraphCorrect, PTL

\* A submission outlives all its tasks.
THEOREM SummaryIsLastAlways == Spec => []SummaryIsLast
  <1>1. GraphInv => SummaryIsLast
    BY DEF GraphInv
  <1> QED
    BY <1>1, GraphCorrect, PTL

\* The stages of a testdatum end in order.
THEOREM StagesInOrderAlways == Spec => []StagesInOrder
  <1>1. GraphInv => StagesInOrder
    BY DEF GraphInv
  <1> QED
    BY <1>1, GraphCorrect, PTL

-----------------------------------------------------------------------------
(* Types, reports, and the promise of JudgeService. *)

DataInv ==
  /\ pc \in {"idle", "loop", "waiting"}
  /\ submission_list \in [Active -> Result]
  /\ DOMAIN submission_id_map \subseteq Nat
  /\ submission_id_map \in [DOMAIN submission_id_map -> Ids]
  /\ cancelled_list \subseteq Ids
  /\ cancelled_group \subseteq Ids \X Nat
  /\ compiled \subseteq Ids \X CompileSubtask
  /\ outputs \subseteq Ids \X Nat \X Int

\* The verdict part of each Finalize function stays in the enumeration.
LEMMA VerdictType ==
  /\ NUL \in Verdict /\ AC \in Verdict /\ WA \in Verdict /\ JRE \in Verdict
  /\ \A s, v, o : v \in Verdict => FinalizeCompileVerdict(s, v, o) \in Verdict
  /\ \A sub, v : v \in Verdict => SpecjudgeFailedVerdict(sub, v) \in Verdict
  /\ \A sub, last, v : v \in Verdict =>
       ReadSpecjudgeResult(sub, last, v, JudgeVerdicts) \subseteq Verdict
  /\ \A v : v \in Verdict => ReadSummaryResult(v, SummaryVerdicts) \subseteq Verdict
  /\ ExecuteVerdicts \subseteq Verdict
  <1> USE DEF Verdict, NUL, AC, WA, TLE, MLE, OLE, RE, SIG, JRE, EE, CE, CLE, JCE, JE
  <1>1. JudgeVerdicts \subseteq Verdict /\ SummaryVerdicts \subseteq Verdict
        /\ ExecuteVerdicts \subseteq Verdict
    BY OutcomesAssumption DEF RuntimeVerdict, ExecuteVerdict
  <1>2. \A s, v, o : v \in Verdict => FinalizeCompileVerdict(s, v, o) \in Verdict
    BY DEF FinalizeCompileVerdict, MaxVerdict
  <1>3. \A sub, v : v \in Verdict => SpecjudgeFailedVerdict(sub, v) \in Verdict
    BY DEF SpecjudgeFailedVerdict
  <1>4. ASSUME NEW sub, NEW last, NEW v \in Verdict
        PROVE  ReadSpecjudgeResult(sub, last, v, JudgeVerdicts) \subseteq Verdict
    <2>1. SetACOrContinue(last, v) \in Verdict
      BY DEF SetACOrContinue
    <2>2. WA \in Verdict /\ AC \in Verdict
      OBVIOUS
    <2> HIDE DEF Verdict, WA, AC
    <2>3. ReadOldSpecjudgeResult(last, v, JudgeVerdicts) \subseteq Verdict
      BY <1>1, <2>1, <2>2 DEF ReadOldSpecjudgeResult
    <2>4. ReadPolygonSpecjudgeResult(last, v, JudgeVerdicts) \subseteq Verdict
      BY <1>1, <2>1, <2>2 DEF ReadPolygonSpecjudgeResult
    <2>5. ReadKattisSpecjudgeResult(last, v, JudgeVerdicts) \subseteq Verdict
      BY <1>1, <2>1, <2>2 DEF ReadKattisSpecjudgeResult
    <2>6. ReadNewSpecjudgeResult(v, JudgeVerdicts) \subseteq Verdict
      BY <1>1 DEF ReadNewSpecjudgeResult
    <2> QED
      BY <1>3, <2>3, <2>4, <2>5, <2>6 DEF ReadSpecjudgeResult
  <1>5. \A v : v \in Verdict => ReadSummaryResult(v, SummaryVerdicts) \subseteq Verdict
    BY <1>1 DEF ReadSummaryResult
  <1> QED
    BY <1>1, <1>2, <1>3, <1>4, <1>5

\* A nonempty set of verdicts has its maximum.
LEMMA MaxIsVerdict ==
  ASSUME NEW S, S \subseteq Verdict, S # {}
  PROVE  Max(S) \in Verdict /\ \A y \in S : Max(S) >= y
  <1> DEFINE T == {n \in Nat : 13 - n \in S}
  <1>1. S \subseteq 0 .. 13
    BY DEF Verdict, NUL, JE
  <1>2. T \subseteq Nat /\ T # {}
    <2>1. PICK x : x \in S
      OBVIOUS
    <2>2. x \in 0 .. 13 /\ 13 - x \in Nat /\ 13 - (13 - x) = x
      BY <1>1, <2>1
    <2> QED
      BY <2>1, <2>2
  <1> HIDE DEF T
  <1>3. Min(T) \in T /\ \A y \in T : Min(T) <= y
    BY <1>2, MinIsElement
  <1>4. 13 - Min(T) \in S
    BY <1>3 DEF T
  <1>5. ASSUME NEW y \in S PROVE 13 - Min(T) >= y
    <2>1. y \in 0 .. 13 /\ 13 - y \in Nat /\ 13 - (13 - y) = y
      BY <1>1
    <2>2. 13 - y \in T
      BY <2>1 DEF T
    <2>3. Min(T) <= 13 - y /\ Min(T) \in Nat
      BY <1>2, <1>3, <2>2
    <2> QED
      BY <2>1, <2>3
  <1> QED
    BY <1>4, <1>5 DEF Max

\* SetupSummary's verdict is one.
LEMMA OverallVerdictType ==
  ASSUME DataInv, NEW id \in Active
  PROVE  OverallVerdict(id) \in Verdict
  <1> DEFINE result == submission_list[id]
             tds    == {i \in DOMAIN result.td_results : ~Sub(id).testdata[i].ignore_verdict}
             S      == {AC} \cup {result.td_results[i].verdict : i \in tds}
  <1>1. result \in Result
    BY DEF DataInv
  <1>2. result.verdict \in Verdict /\ \A i \in tds : result.td_results[i].verdict \in Verdict
    <2>1. result.verdict \in Verdict /\ result.td_results \in Seq(TdResult)
      BY <1>1 DEF Result
    <2>2. \A i \in DOMAIN result.td_results : result.td_results[i] \in TdResult
      BY <2>1
    <2> QED
      BY <2>1, <2>2 DEF TdResult
  <1>3. S \subseteq Verdict /\ S # {}
    BY <1>2, VerdictType
  <1>4. OverallVerdict(id) = IF result.verdict # NUL THEN result.verdict ELSE Max(S)
    BY DEF OverallVerdict
  <1> HIDE DEF S, result
  <1> QED
    BY <1>2, <1>3, <1>4, MaxIsVerdict

-----------------------------------------------------------------------------
(* Type correctness *)

\* A submission's task has its submission's result to work on.
LEMMA TaskContext ==
  ASSUME GraphInv, NEW t \in task_queue \cup running
  PROVE  /\ t.id \in Ids /\ t.id \in Active /\ Sub(t.id) \in Submissions
         /\ t \in TasksOf(t.id, Sub(t.id))
         /\ t.type = "COMPILE" => t.subtask \in CompileSubtask
         /\ t.type \in {"EXECUTE", "SCORING"} => t.td \in Nat /\ t.stage \in Nat
  <1>1. t \in Live
    BY ReadyTask
  <1>2. t.id \in Ids /\ t.id \in Active /\ Sub(t.id) \in Submissions
        /\ t \in TasksOf(t.id, Sub(t.id))
    BY <1>1, LiveTask DEF GraphInv, SummaryIsLast
  <1>3. t.type = "COMPILE" => t.subtask \in CompileSubtask
    BY <1>2, TaskShapes DEF Compiles
  <1>4. t.type \in {"EXECUTE", "SCORING"} => t.td \in Nat /\ t.stage \in Nat
    BY <1>2, PositionType, StagesType
  <1> QED
    BY <1>2, <1>3, <1>4

\* Changing one submission's result keeps the type of the list.
LEMMA ResultUpdate ==
  ASSUME DataInv, NEW id \in Active, NEW r \in Result
  PROVE  [submission_list EXCEPT ![id] = r] \in [Active -> Result]
  BY DEF DataInv

\* FinalizeCompile keeps the types of the results and of the compiled programs.
LEMMA CompileData ==
  ASSUME GraphInv, DataInv, NEW t \in running, t.type = "COMPILE", NEW o \in CompileOutcomes,
         FinalizeCompile(t, o)
  PROVE  submission_list' \in [Active -> Result] /\ compiled' \subseteq Ids \X CompileSubtask
  <1>1. t.id \in Ids /\ t.id \in Active /\ t.subtask \in CompileSubtask
    BY TaskContext
  <1>2. submission_list[t.id] \in Result
    BY <1>1 DEF DataInv
  <1> DEFINE v == FinalizeCompileVerdict(t.subtask, submission_list[t.id].verdict, o)
             r == [submission_list[t.id] EXCEPT !.verdict = v]
  <1>3. v \in Verdict
    BY <1>2, VerdictType DEF Result
  <1>4. r \in Result
    BY <1>2, <1>3 DEF Result
  <1>5. submission_list' = [submission_list EXCEPT ![t.id] = r]
    BY DEF FinalizeCompile
  <1> HIDE DEF r
  <1>6. submission_list' \in [Active -> Result]
    BY <1>1, <1>4, <1>5, ResultUpdate
  <1>7. compiled' \subseteq Ids \X CompileSubtask
    BY <1>1 DEF FinalizeCompile, DataInv
  <1> QED
    BY <1>6, <1>7

\* td_results stays a sequence when FinalizeExecute resizes it.
LEMMA ResizeType ==
  ASSUME NEW tds \in Seq(TdResult), NEW td \in Nat, NEW v \in Verdict
  PROVE  ResizeAndSet(tds, td, v) \in Seq(TdResult)
  <1> DEFINE n == IF td > Len(tds) THEN td ELSE Len(tds)
             old(i) == IF i <= Len(tds) THEN tds[i] ELSE NewTdResult
             e(i) == IF i = td THEN [old(i) EXCEPT !.verdict = v] ELSE old(i)
  <1>1. n \in Nat
    OBVIOUS
  <1>2. ASSUME NEW i \in 1 .. n PROVE e(i) \in TdResult
    <2>1. NewTdResult \in TdResult
      BY VerdictType DEF NewTdResult, TdResult
    <2>2. i <= Len(tds) => tds[i] \in TdResult
      BY <1>1
    <2>3. old(i) \in TdResult
      BY <2>1, <2>2
    <2> HIDE DEF old
    <2>4. [old(i) EXCEPT !.verdict = v] \in TdResult
      BY <2>3 DEF TdResult
    <2> QED
      BY <2>3, <2>4
  <1>3. ResizeAndSet(tds, td, v) = [i \in 1 .. n |-> e(i)]
    BY DEF ResizeAndSet
  <1> HIDE DEF n, e
  <1>4. [i \in 1 .. n |-> e(i)] \in Seq(TdResult)
    BY <1>1, <1>2
  <1> QED
    BY <1>3, <1>4

\* FinalizeExecute keeps the types of the results and of the output files.
LEMMA ExecuteData ==
  ASSUME GraphInv, DataInv, NEW t \in running, t.type = "EXECUTE", NEW v \in ExecuteVerdicts,
         FinalizeExecute(t, v)
  PROVE  submission_list' \in [Active -> Result] /\ outputs' \subseteq Ids \X Nat \X Int
  <1>1. t.id \in Ids /\ t.id \in Active /\ t.td \in Nat /\ t.stage \in Nat
    BY TaskContext
  <1>2. submission_list[t.id] \in Result
    BY <1>1 DEF DataInv
  <1> DEFINE tds == ResizeAndSet(submission_list[t.id].td_results, t.td, v)
             r   == [submission_list[t.id] EXCEPT !.td_results = tds]
  <1>3. tds \in Seq(TdResult)
    BY <1>1, <1>2, VerdictType, ResizeType DEF Result
  <1>4. submission_list' = [submission_list EXCEPT ![t.id] = r]
    BY DEF FinalizeExecute
  <1> HIDE DEF tds
  <1>5. r \in Result
    BY <1>2, <1>3 DEF Result
  <1> HIDE DEF r
  <1>6. submission_list' \in [Active -> Result]
    BY <1>1, <1>4, <1>5, ResultUpdate
  <1>7. OutputOf(t) \in Ids \X Nat \X Int
    BY <1>1 DEF OutputOf
  <1>8. outputs' \subseteq Ids \X Nat \X Int
    BY <1>7 DEF FinalizeExecute, DataInv
  <1> QED
    BY <1>6, <1>8

\* An entry outside td_results would not be written.
LEMMA ScoringData ==
  ASSUME GraphInv, DataInv, NEW t \in task_queue \cup running, t.type = "SCORING", NEW v,
         Td(t).verdict \in Verdict => v \in Verdict,
         NEW skipped, NEW outs \in SUBSET outputs, FinalizeScoring(t, v, skipped, outs)
  PROVE  /\ submission_list' \in [Active -> Result]
         /\ outputs' \subseteq Ids \X Nat \X Int
         /\ cancelled_group' \subseteq Ids \X Nat
  <1>1. t.id \in Ids /\ t.id \in Active /\ t.td \in Nat /\ t.stage \in Nat
        /\ Sub(t.id) \in Submissions /\ t \in TasksOf(t.id, Sub(t.id))
    BY TaskContext
  <1>2. submission_list[t.id] \in Result
    BY <1>1 DEF DataInv
  <1> DEFINE final == IF IsLast(t) /\ v = NUL THEN WA ELSE v
             skip  == Td(t).skip_stage \/ (~IsLast(t) /\ v # NUL)
             entry == [verdict |-> final, skip_stage |-> skip]
             tds   == [submission_list[t.id].td_results EXCEPT ![t.td] = entry]
             r     == [submission_list[t.id] EXCEPT !.td_results = tds]
  <1>3. submission_list[t.id].td_results \in Seq(TdResult)
    BY <1>2 DEF Result
  <1>4. tds \in Seq(TdResult)
    <2>1. CASE t.td \in DOMAIN submission_list[t.id].td_results
      <3>1. Td(t) \in TdResult
        BY <1>3, <2>1 DEF Td
      <3>2. v \in Verdict
        BY <3>1 DEF TdResult
      <3>3. final \in Verdict /\ skip \in BOOLEAN
        BY <3>2, VerdictType
      <3> HIDE DEF final, skip
      <3>4. entry \in TdResult
        BY <3>3 DEF TdResult
      <3> HIDE DEF entry
      <3>5. Len(tds) = Len(submission_list[t.id].td_results) /\ tds \in Seq(TdResult)
        BY <1>3, <2>1, <3>4
      <3> QED
        BY <3>5
    <2>2. CASE t.td \notin DOMAIN submission_list[t.id].td_results
      <3>1. tds = submission_list[t.id].td_results
        BY <1>3, <2>2
      <3> QED
        BY <1>3, <3>1
    <2> QED
      BY <2>1, <2>2
  <1>5. submission_list' = [submission_list EXCEPT ![t.id] = r]
    BY DEF FinalizeScoring
  <1> HIDE DEF tds
  <1>6. r \in Result
    BY <1>2, <1>4 DEF Result
  <1> HIDE DEF r
  <1>7. submission_list' \in [Active -> Result]
    BY <1>1, <1>5, <1>6, ResultUpdate
  <1>8. OutputOf(t) \in Ids \X Nat \X Int
    BY <1>1 DEF OutputOf
  <1>9. outputs' \subseteq Ids \X Nat \X Int
    BY <1>8 DEF FinalizeScoring, FinalizeScoringFiles, DataInv
  <1>10. Sub(t.id).testdata[t.td].td_groups \subseteq Nat
    <2>1. Sub(t.id).testdata \in Seq(TestdataItem) /\ t.td \in 1 .. Len(Sub(t.id).testdata)
      BY <1>1, PositionType, SubmissionsAssumption DEF Submission, Tds
    <2>2. Sub(t.id).testdata[t.td] \in TestdataItem
      BY <2>1
    <2> QED
      BY <2>2 DEF TestdataItem
  <1>11. cancelled_group' \subseteq Ids \X Nat
    BY <1>1, <1>10 DEF FinalizeScoring, DataInv
  <1> QED
    BY <1>7, <1>9, <1>11

\* FinalizeSummary erases the submission, and keeps the type of what is left.
LEMMA SummaryData ==
  ASSUME DataInv, NEW t, NEW v, FinalizeSummary(t, v)
  PROVE  /\ Active' = Active \ {t.id} /\ submission_list' \in [Active' -> Result]
         /\ DOMAIN submission_id_map' \subseteq Nat
         /\ submission_id_map' \in [DOMAIN submission_id_map' -> Ids]
         /\ cancelled_list' \subseteq Ids /\ cancelled_group' \subseteq Ids \X Nat
         /\ compiled' \subseteq Ids \X CompileSubtask /\ outputs' \subseteq Ids \X Nat \X Int
  BY DEF FinalizeSummary, EraseSubmissionId, DataInv, Active

\* The initial state is typed.
LEMMA InitData == Init => DataInv
  BY DEF Init, DataInv, Active

\* Every step keeps the types, given that the tasks it works on are real (GraphInv).
LEMMA NextData == GraphInv /\ DataInv /\ [Next]_vars => DataInv'
  <1> SUFFICES ASSUME GraphInv, DataInv, [Next]_vars PROVE DataInv'
    OBVIOUS
  <1>0. pushed' = pushed => Ids' = Ids
    BY DEF Ids
  <1>1. ASSUME NEW sub \in Submissions, PushSubmission(sub) PROVE DataInv'
    <2> DEFINE id == Len(pushed) + 1
    <2>1. id \in Nat /\ Ids' = Ids \cup {id} /\ Active' = Active \cup {id}
      BY <1>1 DEF PushSubmission, Ids, Active, GraphInv
    <2>2. NewResult \in Result
      BY VerdictType DEF NewResult, Result
    <2>3. submission_list' \in [Active' -> Result]
      BY <1>1, <2>1, <2>2 DEF PushSubmission, DataInv, Active
    <2>4. sub.sid \in Nat
      BY SubmissionsAssumption DEF Submission
    <2>5. /\ DOMAIN submission_id_map' \subseteq Nat
          /\ submission_id_map' \in [DOMAIN submission_id_map' -> Ids']
      BY <1>1, <2>1, <2>4 DEF PushSubmission, InsertSubmissionId, DataInv
    <2>6. cancelled_list' \subseteq Ids'
      BY <1>1, <2>1 DEF PushSubmission, InsertSubmissionId, DataInv
    <2>7. /\ pc' \in {"idle", "loop", "waiting"}
          /\ cancelled_group' \subseteq Ids' \X Nat
          /\ compiled' \subseteq Ids' \X CompileSubtask
          /\ outputs' \subseteq Ids' \X Nat \X Int
      BY <1>1, <2>1 DEF PushSubmission, DataInv, files
    <2> QED
      BY <2>3, <2>5, <2>6, <2>7 DEF DataInv
  <1>2. CASE Wake
    BY <1>0, <1>2 DEF Wake, DataInv, Active, cancel, files
  <1>3. ASSUME NEW t \in task_queue, DispatchCompile(t) PROVE DataInv'
    BY <1>0, <1>3 DEF DispatchCompile, DataInv, Active, cancel, files
  <1>4. ASSUME NEW t \in task_queue, DispatchExecute(t) PROVE DataInv'
    <2>1. outputs' \subseteq outputs /\ Ids' = Ids
      BY <1>0, <1>4 DEF DispatchExecute
    <2> QED
      BY <1>4, <2>1 DEF DispatchExecute, DataInv, Active, cancel
  <1>5. ASSUME NEW t \in task_queue, DispatchScoring(t) PROVE DataInv'
    <2>0. pc' = pc /\ Ids' = Ids /\ t.type = "SCORING"
      BY <1>0, <1>5 DEF DispatchScoring, CanDispatch
    <2>1. \/ /\ UNCHANGED <<submission_list, cancel, compiled>>
             /\ outputs' \subseteq outputs
          \/ FinalizeScoring(t, Td(t).verdict, TRUE, outputs)
          \/ FinalizeScoring(t, SpecjudgeFailedVerdict(Sub(t.id), Td(t).verdict), FALSE,
                             outputs \ {OutputOf(t)})
      BY <1>5 DEF DispatchScoring, files
    <2>2. CASE UNCHANGED <<submission_list, cancel, compiled>> /\ outputs' \subseteq outputs
      BY <2>0, <2>2 DEF DataInv, Active, cancel
    <2>3. ASSUME NEW v, Td(t).verdict \in Verdict => v \in Verdict,
                 NEW skipped, NEW outs \in SUBSET outputs, FinalizeScoring(t, v, skipped, outs)
          PROVE  DataInv'
      <3>1. Active' = Active
        BY <2>3 DEF FinalizeScoring, Active
      <3>2. /\ submission_list' \in [Active -> Result]
            /\ outputs' \subseteq Ids \X Nat \X Int
            /\ cancelled_group' \subseteq Ids \X Nat
        BY <2>0, <2>3, ScoringData
      <3>3. UNCHANGED <<submission_id_map, cancelled_list, compiled>>
        BY <2>3 DEF FinalizeScoring
      <3> QED
        BY <2>0, <3>1, <3>2, <3>3 DEF DataInv
    <2> QED
      BY <2>1, <2>2, <2>3, VerdictType
  <1>6. ASSUME NEW t \in task_queue, DispatchSummary(t) PROVE DataInv'
    <2> DEFINE verdict == OverallVerdict(t.id)
    <2>1. pc' = pc /\ Ids' = Ids /\ t.id \in Active
      BY <1>0, <1>6, TaskContext DEF DispatchSummary
    <2>2. verdict \in Verdict
      BY <2>1, OverallVerdictType
    <2> HIDE DEF verdict
    <2>3. \/ FinalizeSummary(t, verdict)
          \/ /\ submission_list' = [submission_list EXCEPT ![t.id].verdict = verdict]
             /\ compiled' \subseteq compiled
             /\ UNCHANGED <<cancel, outputs>>
      BY <1>6 DEF DispatchSummary, verdict
    <2>4. CASE FinalizeSummary(t, verdict)
      BY <2>1, <2>4, SummaryData DEF DataInv
    <2>5. CASE /\ submission_list' = [submission_list EXCEPT ![t.id].verdict = verdict]
               /\ compiled' \subseteq compiled
               /\ UNCHANGED <<cancel, outputs>>
      <3> DEFINE r == [submission_list[t.id] EXCEPT !.verdict = verdict]
      <3>1. r \in Result
        BY <2>1, <2>2 DEF DataInv, Result
      <3>2. submission_list' = [submission_list EXCEPT ![t.id] = r]
        BY <2>5
      <3> HIDE DEF r
      <3>3. submission_list' \in [Active -> Result] /\ Active' = Active
        BY <2>1, <3>1, <3>2, ResultUpdate DEF Active
      <3> QED
        BY <2>1, <2>5, <3>3 DEF DataInv, cancel
    <2> QED
      BY <2>3, <2>4, <2>5
  <1>7. CASE BeginWait
    BY <1>0, <1>7 DEF BeginWait, DataInv, Active, cancel, files
  <1>8. ASSUME NEW t \in running, CompileEnds(t) PROVE DataInv'
    <2>1. PICK o \in CompileOutcomes : FinalizeCompile(t, o)
      BY <1>8 DEF CompileEnds
    <2>2. pc' = "loop" /\ Ids' = Ids /\ t.type = "COMPILE"
      BY <1>0, <1>8 DEF CompileEnds, TaskEnds
    <2>3. submission_list' \in [Active -> Result] /\ compiled' \subseteq Ids \X CompileSubtask
      BY <2>1, <2>2, CompileData
    <2>4. Active' = Active /\ UNCHANGED <<cancel, outputs>>
      BY <2>1 DEF FinalizeCompile, Active
    <2> QED
      BY <2>2, <2>3, <2>4 DEF DataInv, cancel
  <1>9. ASSUME NEW t \in running, ExecuteEnds(t) PROVE DataInv'
    <2>1. PICK v \in ExecuteVerdicts : FinalizeExecute(t, v)
      BY <1>9 DEF ExecuteEnds
    <2>2. pc' = "loop" /\ Ids' = Ids /\ t.type = "EXECUTE"
      BY <1>0, <1>9 DEF ExecuteEnds, TaskEnds
    <2>3. submission_list' \in [Active -> Result] /\ outputs' \subseteq Ids \X Nat \X Int
      BY <2>1, <2>2, ExecuteData
    <2>4. Active' = Active /\ UNCHANGED <<cancel, compiled>>
      BY <2>1 DEF FinalizeExecute, Active
    <2> QED
      BY <2>2, <2>3, <2>4 DEF DataInv, cancel
  <1>10. ASSUME NEW t \in running, ScoringEnds(t) PROVE DataInv'
    <2>1. PICK v \in ReadSpecjudgeResult(Sub(t.id), IsLast(t), Td(t).verdict, JudgeVerdicts) :
            FinalizeScoring(t, v, FALSE, outputs)
      BY <1>10 DEF ScoringEnds
    <2>2. pc' = "loop" /\ Ids' = Ids /\ t.type = "SCORING"
      BY <1>0, <1>10 DEF ScoringEnds, TaskEnds
    <2>3. Td(t).verdict \in Verdict => v \in Verdict
      BY <2>1, VerdictType
    <2>4. /\ submission_list' \in [Active -> Result]
          /\ outputs' \subseteq Ids \X Nat \X Int
          /\ cancelled_group' \subseteq Ids \X Nat
      BY <2>1, <2>2, <2>3, ScoringData
    <2>5. Active' = Active /\ UNCHANGED <<submission_id_map, cancelled_list, compiled>>
      BY <2>1 DEF FinalizeScoring, Active
    <2> QED
      BY <2>2, <2>4, <2>5 DEF DataInv
  <1>11. ASSUME NEW t \in running, SummaryEnds(t) PROVE DataInv'
    <2>1. PICK v : FinalizeSummary(t, v)
      BY <1>11 DEF SummaryEnds
    <2>2. pc' = "loop" /\ Ids' = Ids
      BY <1>0, <1>11 DEF SummaryEnds, TaskEnds
    <2> QED
      BY <2>1, <2>2, SummaryData DEF DataInv
  <1>12. CASE LoopEnds
    BY <1>0, <1>12 DEF LoopEnds, DataInv, Active, cancel, files
  <1>13. CASE UNCHANGED vars
    BY <1>0, <1>13 DEF vars, DataInv, Active
  <1> QED
    BY <1>1, <1>2, <1>3, <1>4, <1>5, <1>6, <1>7, <1>8, <1>9, <1>10, <1>11, <1>12, <1>13
    DEF Next, WorkLoop, Dispatch, Finish

\* Every piece of the judge's state keeps its type, whatever is pushed.
THEOREM TypeCorrect == Spec => []TypeOK
  <1>1. Init => GraphInv /\ DataInv
    BY InitGraph, InitData
  <1>2. GraphInv /\ DataInv /\ [Next]_vars => (GraphInv /\ DataInv)'
    BY NextGraph, NextData
  <1>3. GraphInv /\ DataInv => TypeOK
    BY DEF GraphInv, DataInv, TypeOK, ReadyTasksQueued
  <1> QED
    BY <1>1, <1>2, <1>3, PTL DEF Spec

-----------------------------------------------------------------------------
(* Cancellation *)

\* No submission id of the server is an internal id of this run of the judge.
DisjointIds == \A sub \in Submissions : sub.sid \notin 1 .. MaxPush

\* submission_id_map leads to the one judging of a submission that still counts.
MapInv ==
  /\ Len(pushed) <= MaxPush
  /\ \A id \in Active \ cancelled_list :
       /\ Sub(id).sid \in DOMAIN submission_id_map
       /\ submission_id_map[Sub(id).sid] = id
       /\ Newest(id)

\* What erases a submission: its summary.
LEMMA SummaryKeepsMap ==
  ASSUME DisjointIds, GraphInv, MapInv, NEW t \in task_queue \cup running, NEW v,
         FinalizeSummary(t, v), pushed' = pushed
  PROVE  MapInv'
  <1>1. t.id \in Ids /\ t.id \in 1 .. MaxPush
    BY TaskContext, BoundsAssumption DEF Ids, MapInv, GraphInv
  <1>2. Active' \ cancelled_list' \subseteq Active \ cancelled_list
    BY DEF FinalizeSummary, Active
  <1>3. \A id \in Active : Sub(id) \in Submissions
    BY DEF GraphInv, Ids, Sub
  <1>4. \A id \in Active : Sub(id).sid # t.id
    BY <1>1, <1>3 DEF DisjointIds
  <1>5. \A s \in DOMAIN submission_id_map :
          s # t.id => s \in DOMAIN submission_id_map' /\ submission_id_map'[s] = submission_id_map[s]
    BY DEF FinalizeSummary, EraseSubmissionId
  <1>6. \A id : Sub(id)' = Sub(id) /\ (Newest(id)' <=> Newest(id))
    BY DEF Sub, Newest
  <1> QED
    BY <1>2, <1>4, <1>5, <1>6 DEF MapInv

\* Nothing else touches the map, the list of cancelled judgings or the submissions.
LEMMA OtherKeepsMap ==
  ASSUME MapInv, UNCHANGED <<pushed, submission_id_map, cancelled_list>>, Active' = Active
  PROVE  MapInv'
  <1>1. \A id : Sub(id)' = Sub(id) /\ (Newest(id)' <=> Newest(id))
    BY DEF Sub, Newest
  <1> QED
    BY <1>1 DEF MapInv

\* A push enters the new judging in the map and cancels the one it finds there.
LEMMA PushKeepsMap ==
  ASSUME GraphInv, DataInv, MapInv, NEW sub \in Submissions, PushSubmission(sub),
         NEW new, new = Len(pushed) + 1
  PROVE  MapInv'
  <1>1. /\ Len(pushed) \in Nat /\ Len(pushed') = Len(pushed) + 1 /\ Len(pushed') <= MaxPush
        /\ new \notin Ids /\ Active' = Active \cup {new} /\ Active \subseteq Ids
        /\ Sub(new)' = sub /\ \A id \in Ids : Sub(id)' = Sub(id)
        /\ Ids \subseteq Nat /\ \A id \in Ids : id <= Len(pushed)
    BY BoundsAssumption DEF PushSubmission, GraphInv, Ids, Sub, Active
  <1>2. /\ sub.sid \in DOMAIN submission_id_map' /\ submission_id_map'[sub.sid] = new
        /\ \A s \in DOMAIN submission_id_map : s # sub.sid =>
             s \in DOMAIN submission_id_map' /\ submission_id_map'[s] = submission_id_map[s]
        /\ sub.sid \in DOMAIN submission_id_map => submission_id_map[sub.sid] \in cancelled_list'
        /\ cancelled_list \subseteq cancelled_list'
    BY DEF PushSubmission, InsertSubmissionId
  <1>3. ASSUME NEW id \in Active' \ cancelled_list'
        PROVE  /\ Sub(id)'.sid \in DOMAIN submission_id_map'
               /\ submission_id_map'[Sub(id)'.sid] = id
               /\ Newest(id)'
    <2>1. CASE id = new
      <3>1. Newest(id)'
        BY <1>1, <2>1 DEF Newest
      <3> QED
        BY <1>1, <1>2, <2>1, <3>1
    <2>2. CASE id # new
      <3>1. id \in Active \ cancelled_list /\ id \in Ids /\ Sub(id)' = Sub(id)
        BY <1>1, <1>2, <1>3, <2>2
      <3>2. /\ Sub(id).sid \in DOMAIN submission_id_map
            /\ submission_id_map[Sub(id).sid] = id
            /\ Newest(id)
        BY <3>1 DEF MapInv
      <3>3. Sub(id).sid # sub.sid
        BY <1>2, <1>3, <3>2
      <3>4. ASSUME NEW later \in id + 1 .. Len(pushed')
            PROVE  Sub(later)'.sid # Sub(id)'.sid
        <4>1. CASE later = new
          BY <1>1, <3>1, <3>3, <4>1
        <4>2. CASE later # new
          <5>1. id \in Nat /\ later \in id + 1 .. Len(pushed) /\ later \in Ids
            BY <1>1, <3>1, <3>4, <4>2 DEF Ids
          <5> QED
            BY <1>1, <3>1, <3>2, <5>1 DEF Newest
        <4> QED
          BY <4>1, <4>2
      <3>5. Newest(id)'
        BY <3>4 DEF Newest
      <3> QED
        BY <1>2, <3>1, <3>2, <3>3, <3>5
    <2> QED
      BY <2>1, <2>2
  <1> QED
    BY <1>1, <1>3 DEF MapInv

\* The steps of the worker: the cancellation state, and whom it reports about.
LEMMA WorkLoopCancel ==
  ASSUME GraphInv, DataInv, WorkLoop
  PROVE  /\ pushed' = pushed
         /\ \/ UNCHANGED <<submission_id_map, cancelled_list>> /\ Active' = Active
            \/ \E t \in task_queue \cup running : \E v : FinalizeSummary(t, v)
         /\ \A r \in reports' \ reports : SentToServer(r) => r.id \in Active \ cancelled_list
  <1>1. CASE Wake \/ BeginWait \/ LoopEnds
    BY <1>1 DEF Wake, BeginWait, LoopEnds, Active, cancel
  <1>2. ASSUME NEW t \in task_queue,
               DispatchCompile(t) \/ DispatchExecute(t)
        PROVE  /\ UNCHANGED <<pushed, submission_id_map, cancelled_list>> /\ Active' = Active
               /\ \A r \in reports' \ reports : SentToServer(r) => r.id \in Active \ cancelled_list
    <2>1. t.id \in Active
      BY TaskContext
    <2>2. CompilingReport(t.id).id = t.id
      BY DEF CompilingReport
    <2> QED
      BY <1>2, <2>1, <2>2 DEF DispatchCompile, DispatchExecute, Active, cancel
  <1>3. ASSUME NEW t \in task_queue \cup running, NEW v, NEW skipped, NEW outs,
               FinalizeScoring(t, v, skipped, outs)
        PROVE  /\ UNCHANGED <<submission_id_map, cancelled_list>> /\ Active' = Active
               /\ \A r \in reports' \ reports : SentToServer(r) => r.id \in Active \ cancelled_list
    <2>1. t.id \in Active
      BY TaskContext
    <2>2. ScoringReport(t.id, t.td, t.stage).id = t.id
      BY DEF ScoringReport
    <2> QED
      BY <1>3, <2>1, <2>2 DEF FinalizeScoring, Active
  <1>4. ASSUME NEW t \in task_queue, DispatchScoring(t)
        PROVE  /\ UNCHANGED <<pushed, submission_id_map, cancelled_list>> /\ Active' = Active
               /\ \A r \in reports' \ reports : SentToServer(r) => r.id \in Active \ cancelled_list
    <2>1. pushed' = pushed
      BY <1>4 DEF DispatchScoring
    <2>2. \/ UNCHANGED <<submission_list, cancel, reports>>
          \/ \E v, skipped, outs : FinalizeScoring(t, v, skipped, outs)
      BY <1>4 DEF DispatchScoring
    <2> QED
      BY <1>3, <2>1, <2>2 DEF Active, cancel
  <1>5. ASSUME NEW t \in task_queue \cup running, NEW v, FinalizeSummary(t, v)
        PROVE  \A r \in reports' \ reports : SentToServer(r) => r.id \in Active \ cancelled_list
    <2>1. t.id \in Active
      BY TaskContext
    <2> DEFINE o == OverallReport(t.id, [submission_list[t.id] EXCEPT !.verdict = v])
    <2>2. o.id = t.id
      BY DEF OverallReport
    <2>3. \A r \in reports' \ reports :
            r = FinalizedReport(t.id) \/ (r = o /\ t.id \notin cancelled_list)
      BY <1>5 DEF FinalizeSummary
    <2>4. ~SentToServer(FinalizedReport(t.id))
      BY DEF SentToServer, FinalizedReport
    <2> HIDE DEF o
    <2> QED
      BY <2>1, <2>2, <2>3, <2>4
  <1>6. ASSUME NEW t \in task_queue, DispatchSummary(t)
        PROVE  /\ pushed' = pushed
               /\ \/ UNCHANGED <<submission_id_map, cancelled_list, reports>> /\ Active' = Active
                  \/ \E v : FinalizeSummary(t, v)
    BY <1>6 DEF DispatchSummary, Active, cancel
  <1>7. ASSUME NEW t \in running, CompileEnds(t) \/ ExecuteEnds(t)
        PROVE  /\ UNCHANGED <<pushed, submission_id_map, cancelled_list>>
               /\ Active' = Active
               /\ \A r \in reports' \ reports : ~SentToServer(r)
    <2>1. ~SentToServer(MessageReport(t.id, t.subtask))
      BY DEF SentToServer, MessageReport
    <2>2. \A r \in reports' \ reports : r = MessageReport(t.id, t.subtask)
      BY <1>7 DEF CompileEnds, ExecuteEnds, FinalizeCompile, FinalizeExecute
    <2>3. UNCHANGED <<pushed, submission_id_map, cancelled_list>> /\ Active' = Active
      BY <1>7 DEF CompileEnds, ExecuteEnds, TaskEnds, FinalizeCompile, FinalizeExecute, Active, cancel
    <2> QED
      BY <2>1, <2>2, <2>3
  <1>8. ASSUME NEW t \in running, ScoringEnds(t)
        PROVE  pushed' = pushed /\ \E v, skipped, outs : FinalizeScoring(t, v, skipped, outs)
    BY <1>8 DEF ScoringEnds, TaskEnds
  <1>9. ASSUME NEW t \in running, SummaryEnds(t)
        PROVE  pushed' = pushed /\ \E v : FinalizeSummary(t, v)
    BY <1>9 DEF SummaryEnds, TaskEnds
  <1>10. CASE Dispatch
    <2>1. PICK t \in task_queue : \/ DispatchCompile(t) \/ DispatchExecute(t)
                                  \/ DispatchScoring(t) \/ DispatchSummary(t)
      BY <1>10 DEF Dispatch
    <2> QED
      BY <1>2, <1>4, <1>5, <1>6, <2>1
  <1>11. CASE Finish
    <2>1. PICK t \in running : \/ CompileEnds(t) \/ ExecuteEnds(t)
                               \/ ScoringEnds(t) \/ SummaryEnds(t)
      BY <1>11 DEF Finish
    <2> QED
      BY <1>3, <1>5, <1>7, <1>8, <1>9, <2>1
  <1> QED
    BY <1>1, <1>10, <1>11 DEF WorkLoop

\* Every step keeps the map right.
LEMMA NextMap ==
  ASSUME DisjointIds
  PROVE  GraphInv /\ DataInv /\ MapInv /\ [Next]_vars => MapInv'
  <1> SUFFICES ASSUME GraphInv, DataInv, MapInv, [Next]_vars PROVE MapInv'
    OBVIOUS
  <1>1. CASE WorkLoop
    BY <1>1, WorkLoopCancel, OtherKeepsMap, SummaryKeepsMap
  <1>2. CASE UNCHANGED vars
    BY <1>2, OtherKeepsMap DEF vars, Active
  <1> QED
    BY <1>1, <1>2, PushKeepsMap DEF Next

\* With disjoint ids the map is right for ever: MapInv is an invariant.
LEMMA MapCorrect ==
  ASSUME DisjointIds
  PROVE  Spec => [](GraphInv /\ DataInv /\ MapInv)
  <1>1. Init => MapInv
    BY BoundsAssumption DEF Init, MapInv, Active
  <1>2. Init => GraphInv /\ DataInv /\ MapInv
    BY <1>1, InitGraph, InitData
  <1>3. GraphInv /\ DataInv /\ MapInv /\ [Next]_vars => (GraphInv /\ DataInv /\ MapInv)'
    BY NextGraph, NextData, NextMap
  <1> QED
    BY <1>2, <1>3, PTL DEF Spec

\* With disjoint ids at most one judging of a submission is not cancelled.
THEOREM OneJudging ==
  ASSUME DisjointIds
  PROVE  Spec => []OneJudgingPerSubmission
  <1>1. GraphInv /\ DataInv /\ MapInv => OneJudgingPerSubmission
    BY DEF MapInv, OneJudgingPerSubmission
  <1> QED
    BY <1>1, MapCorrect, PTL

\* With disjoint ids nothing of a judging that a rejudge superseded is sent to the
\* server, whatever its compilations, executions and checks still come to.
THEOREM NoStaleReports ==
  ASSUME DisjointIds
  PROVE  Spec => NoStaleReport
  <1>1. GraphInv /\ DataInv /\ MapInv /\ [Next]_vars
          => [\A r \in reports' \ reports : SentToServer(r) => Newest(r.id)]_vars
    <2> SUFFICES ASSUME GraphInv, DataInv, MapInv, Next
                 PROVE  \A r \in reports' \ reports : SentToServer(r) => Newest(r.id)
      OBVIOUS
    <2>1. CASE WorkLoop
      BY <2>1, WorkLoopCancel DEF MapInv
    <2>2. ASSUME NEW sub \in Submissions, PushSubmission(sub)
          PROVE  \A r \in reports' \ reports : SentToServer(r) => Newest(r.id)
      BY <2>2 DEF PushSubmission
    <2> QED
      BY <2>1, <2>2 DEF Next
  <1> QED
    BY <1>1, MapCorrect, PTL DEF Spec, NoStaleReport

-----------------------------------------------------------------------------
(* The steps of the judging core are steps of JudgeService. *)

\* The map leads to a judging of the submission it was asked about.
MapSound == \A s \in DOMAIN submission_id_map : Sub(submission_id_map[s]).sid = s

\* A push makes the only new entry, and erasing one keeps the others.
LEMMA NextMapSound == GraphInv /\ DataInv /\ MapSound /\ [Next]_vars => MapSound'
  <1> SUFFICES ASSUME GraphInv, DataInv, MapSound, [Next]_vars PROVE MapSound'
    OBVIOUS
  <1>1. ASSUME pushed' = pushed,
               \A s \in DOMAIN submission_id_map' :
                 /\ s \in DOMAIN submission_id_map
                 /\ submission_id_map'[s] = submission_id_map[s]
        PROVE  MapSound'
    BY <1>1 DEF MapSound, Sub
  <1>2. ASSUME NEW t, NEW v, FinalizeSummary(t, v), pushed' = pushed PROVE MapSound'
    BY <1>1, <1>2 DEF FinalizeSummary, EraseSubmissionId
  <1>3. ASSUME NEW sub \in Submissions, PushSubmission(sub), NEW new, new = Len(pushed) + 1
        PROVE  MapSound'
    <2>1. /\ Sub(new)' = sub
          /\ \A id \in Ids : Sub(id)' = Sub(id)
      BY <1>3 DEF PushSubmission, GraphInv, Ids, Sub
    <2>2. \A s \in DOMAIN submission_id_map' :
            \/ s = sub.sid /\ submission_id_map'[s] = new
            \/ /\ s \in DOMAIN submission_id_map /\ submission_id_map'[s] = submission_id_map[s]
               /\ submission_id_map[s] \in Ids
      BY <1>3 DEF PushSubmission, InsertSubmissionId, DataInv
    <2>3. ASSUME NEW s \in DOMAIN submission_id_map', NEW i, i = submission_id_map'[s]
          PROVE  Sub(i)'.sid = s
      BY <2>1, <2>2, <2>3 DEF MapSound
    <2> QED
      BY <2>3 DEF MapSound, Sub
  <1>4. CASE WorkLoop
    <2>1. CASE UNCHANGED submission_id_map
      BY <1>1, <1>4, <2>1, WorkLoopCancel
    <2> QED
      BY <1>2, <1>4, <2>1, WorkLoopCancel
  <1>5. CASE UNCHANGED vars
    BY <1>1, <1>5 DEF vars
  <1> QED
    BY <1>3, <1>4, <1>5 DEF Next

\* The abstract sequence of accepted judgings.
LEMMA AcceptedSeq ==
  ASSUME pushed \in Seq(Submissions)
  PROVE  /\ Len([id \in Ids |-> Sub(id).sid]) = Len(pushed)
         /\ [id \in Ids |-> Sub(id).sid] \in Seq({sub.sid : sub \in Submissions})
  BY DEF Ids, Sub

\* PushSubmission accepts a judging, and cancels exactly the ones it supersedes.
LEMMA PushAccepts ==
  ASSUME GraphInv, DataInv, MapInv, MapSound, NEW sub \in Submissions, PushSubmission(sub),
         NEW new, new = Len(pushed) + 1
  PROVE  Service!Accept(sub.sid)
  <1> DEFINE acc == [id \in Ids |-> Sub(id).sid]
  <1>1. /\ Len(pushed) \in Nat /\ Len(pushed) < MaxPush /\ new \notin Ids /\ new \in Nat
        /\ Ids = 1 .. Len(pushed) /\ Ids' = 1 .. new
        /\ Active' = Active \cup {new} /\ Active \subseteq Ids
        /\ Sub(new)' = sub /\ \A id \in Ids : Sub(id)' = Sub(id)
    BY DEF PushSubmission, GraphInv, Ids, Sub, Active
  <1>2. Len(acc) = Len(pushed) /\ acc \in Seq({s.sid : s \in Submissions})
    BY AcceptedSeq DEF GraphInv
  <1>3. acc' = Append(acc, sub.sid)
    <2>1. acc' = [id \in 1 .. new |-> IF id = new THEN sub.sid ELSE Sub(id).sid]
      BY <1>1
    <2>2. Append(acc, sub.sid) = [id \in 1 .. new |-> IF id = new THEN sub.sid ELSE acc[id]]
      BY <1>1, <1>2
    <2> QED
      BY <1>1, <2>1, <2>2
  <1>4. cancelled_list' \cap Active' =
          (cancelled_list \cap Active) \cup {id \in Active : acc[id] = sub.sid}
    <2>1. cancelled_list' = cancelled_list \cup
                            {submission_id_map[s] : s \in DOMAIN submission_id_map \cap {sub.sid}}
      BY DEF PushSubmission, InsertSubmissionId
    <2>2. new \notin cancelled_list'
      BY <1>1, <2>1 DEF DataInv
    <2>3. \A id \in Active : acc[id] = Sub(id).sid
      BY <1>1
    <2>4. ASSUME NEW id \in Active, id \in cancelled_list' \ cancelled_list
          PROVE  acc[id] = sub.sid
      BY <2>1, <2>3, <2>4 DEF MapSound
    <2>5. ASSUME NEW id \in Active \ cancelled_list, acc[id] = sub.sid
          PROVE  id \in cancelled_list'
      BY <2>1, <2>3, <2>5 DEF MapInv
    <2>6. cancelled_list \subseteq cancelled_list'
      BY <2>1
    <2> QED
      BY <1>1, <2>2, <2>4, <2>5, <2>6
  <1>5. OverallReported' = OverallReported
    BY DEF PushSubmission, OverallReported
  <1> HIDE DEF acc
  <1> QED
    BY <1>1, <1>2, <1>3, <1>4, <1>5 DEF Service!Accept, acc

\* FinalizeSummary retires a judging, and answers it unless it was superseded.
LEMMA SummaryRetires ==
  ASSUME GraphInv, NEW t \in task_queue \cup running, NEW v, FinalizeSummary(t, v),
         pushed' = pushed
  PROVE  Service!Retire(t.id)
  <1>1. t.id \in Active
    BY TaskContext
  <1>2. Active' = Active \ {t.id} /\ cancelled_list' = cancelled_list \ {t.id}
    BY DEF FinalizeSummary, Active
  <1> DEFINE o == OverallReport(t.id, [submission_list[t.id] EXCEPT !.verdict = v])
  <1>3. o.id = t.id /\ o.type = "overall"
    BY DEF OverallReport
  <1>4. reports' = reports \cup {FinalizedReport(t.id)} \cup
                   IF t.id \in cancelled_list THEN {} ELSE {o}
    BY DEF FinalizeSummary
  <1>8. FinalizedReport(t.id).type # "overall"
    BY DEF FinalizedReport
  <1> HIDE DEF o
  <1>5. OverallReported' = IF t.id \in cancelled_list \cap Active THEN OverallReported
                           ELSE OverallReported \cup {t.id}
    BY <1>1, <1>3, <1>4, <1>8 DEF OverallReported
  <1>6. [id \in Ids |-> Sub(id).sid]' = [id \in Ids |-> Sub(id).sid]
    BY DEF Ids, Sub
  <1>7. cancelled_list' \cap Active' = (cancelled_list \cap Active) \ {t.id}
    BY <1>2
  <1> QED
    BY <1>1, <1>2, <1>5, <1>6, <1>7 DEF Service!Retire

\* All other steps of the worker are invisible to JudgeService.
LEMMA OtherStutters ==
  ASSUME UNCHANGED <<pushed, cancelled_list>>, Active' = Active,
         OverallReported' = OverallReported
  PROVE  UNCHANGED Service!svars
  <1>1. [id \in Ids |-> Sub(id).sid]' = [id \in Ids |-> Sub(id).sid]
    BY DEF Ids, Sub
  <1> QED
    BY <1>1 DEF Service!svars

\* An overall report is made by FinalizeSummary, of a submission that is not
\* cancelled: with SetupSummary's verdict, or after a summary program ran.
LEMMA NewOverall ==
  ASSUME GraphInv, WorkLoop, NEW r \in reports' \ reports, r.type = "overall"
  PROVE  \E t \in task_queue \cup running : \E v :
           /\ t.type = "SUMMARY" /\ t.id \notin cancelled_list /\ FinalizeSummary(t, v)
           /\ v = OverallVerdict(t.id) \/ t \in running
           /\ r = OverallReport(t.id, [submission_list[t.id] EXCEPT !.verdict = v])
  <1>1. \A id, td, stage : CompilingReport(id).type = "compiling"
                          /\ ScoringReport(id, td, stage).type = "scoring"
                          /\ FinalizedReport(id).type = "finalized"
    BY DEF CompilingReport, ScoringReport, FinalizedReport
  <1>2. ASSUME NEW t, NEW v, FinalizeSummary(t, v)
        PROVE  /\ t.id \notin cancelled_list
               /\ r = OverallReport(t.id, [submission_list[t.id] EXCEPT !.verdict = v])
    BY <1>1, <1>2 DEF FinalizeSummary
  <1>3. ASSUME NEW t, NEW v, NEW skipped, NEW outs, FinalizeScoring(t, v, skipped, outs)
        PROVE  FALSE
    BY <1>1, <1>3 DEF FinalizeScoring
  <1>4. CASE Wake \/ BeginWait \/ LoopEnds
    BY <1>4 DEF Wake, BeginWait, LoopEnds
  <1>5. ASSUME NEW t \in task_queue, DispatchCompile(t) \/ DispatchExecute(t) PROVE FALSE
    BY <1>1, <1>5 DEF DispatchCompile, DispatchExecute
  <1>6. ASSUME NEW t \in task_queue, DispatchScoring(t) PROVE FALSE
    BY <1>3, <1>6 DEF DispatchScoring
  <1>7. ASSUME NEW t \in running, CompileEnds(t) \/ ExecuteEnds(t) PROVE FALSE
    <2>1. MessageReport(t.id, t.subtask).type = "message"
      BY DEF MessageReport
    <2>2. r = MessageReport(t.id, t.subtask)
      BY <1>7 DEF CompileEnds, ExecuteEnds, FinalizeCompile, FinalizeExecute
    <2> QED
      BY <2>1, <2>2
  <1>8. ASSUME NEW t \in running, ScoringEnds(t) PROVE FALSE
    BY <1>3, <1>8 DEF ScoringEnds
  <1>9. ASSUME NEW t \in task_queue, DispatchSummary(t)
        PROVE  t.type = "SUMMARY" /\ FinalizeSummary(t, OverallVerdict(t.id))
    BY <1>9 DEF DispatchSummary, CanDispatch
  <1>10. ASSUME NEW t \in running, SummaryEnds(t)
         PROVE  t.type = "SUMMARY" /\ \E v : FinalizeSummary(t, v)
    BY <1>10 DEF SummaryEnds, TaskEnds
  <1> QED
    BY <1>2, <1>4, <1>5, <1>6, <1>7, <1>8, <1>9, <1>10 DEF WorkLoop, Dispatch, Finish

\* A report once made is never taken back.
LEMMA ReportsGrow ==
  ASSUME WorkLoop
  PROVE  reports \subseteq reports'
  <1>1. CASE Wake \/ BeginWait \/ LoopEnds
    BY <1>1 DEF Wake, BeginWait, LoopEnds
  <1>2. CASE Dispatch
    <2>1. PICK t \in task_queue : \/ DispatchCompile(t) \/ DispatchExecute(t)
                                  \/ DispatchScoring(t) \/ DispatchSummary(t)
      BY <1>2 DEF Dispatch
    <2>2. \A v, skipped, outs : FinalizeScoring(t, v, skipped, outs) => reports \subseteq reports'
      BY DEF FinalizeScoring
    <2>3. \A v : FinalizeSummary(t, v) => reports \subseteq reports'
      BY DEF FinalizeSummary
    <2> QED
      BY <2>1, <2>2, <2>3 DEF DispatchCompile, DispatchExecute, DispatchScoring, DispatchSummary
  <1>3. CASE Finish
    <2>1. PICK t \in running : \/ CompileEnds(t) \/ ExecuteEnds(t)
                               \/ ScoringEnds(t) \/ SummaryEnds(t)
      BY <1>3 DEF Finish
    <2>2. \A v, skipped, outs : FinalizeScoring(t, v, skipped, outs) => reports \subseteq reports'
      BY DEF FinalizeScoring
    <2>3. \A v : FinalizeSummary(t, v) => reports \subseteq reports'
      BY DEF FinalizeSummary
    <2> QED
      BY <2>1, <2>2, <2>3 DEF CompileEnds, ExecuteEnds, ScoringEnds, SummaryEnds,
                              FinalizeCompile, FinalizeExecute
  <1> QED
    BY <1>1, <1>2, <1>3 DEF WorkLoop

\* With disjoint ids every behaviour of the judging core is, seen through Service's
\* mapping, one of JudgeService: a push accepts a judging and voids exactly the ones
\* of the same submission, a summary retires one and answers it unless it was voided,
\* and no other step shows.  The fairness of JudgeService is left to the run.
THEOREM ServiceSteps ==
  ASSUME DisjointIds
  PROVE  Spec => Service!ServiceInit /\ [][Service!ServiceNext]_(Service!svars)
  <1>1. Init => Service!ServiceInit
    <2> SUFFICES ASSUME Init PROVE Service!ServiceInit
      OBVIOUS
    <2>1. Ids = {} /\ Active = {} /\ OverallReported = {}
      BY DEF Init, Ids, Active, OverallReported
    <2>2. [id \in Ids |-> Sub(id).sid] = <<>>
      BY <2>1
    <2> QED
      BY <2>1, <2>2 DEF Service!ServiceInit
  <1>2. GraphInv /\ DataInv /\ MapInv /\ MapSound /\ [Next]_vars
          => [Service!ServiceNext]_(Service!svars)
    <2> SUFFICES ASSUME GraphInv, DataInv, MapInv, MapSound, [Next]_vars
                 PROVE  Service!ServiceNext \/ UNCHANGED Service!svars
      OBVIOUS
    <2>1. ASSUME NEW sub \in Submissions, PushSubmission(sub) PROVE Service!ServiceNext
      BY <2>1, PushAccepts DEF Service!ServiceNext
    <2>2. CASE WorkLoop
      <3>1. ASSUME NEW t \in task_queue \cup running, NEW v, FinalizeSummary(t, v)
            PROVE  Service!ServiceNext
        <4>1. t.id \in Active
          BY TaskContext
        <4>2. Service!Retire(t.id)
          BY <2>2, <3>1, SummaryRetires, WorkLoopCancel
        <4> QED
          BY <4>1, <4>2 DEF Service!ServiceNext
      <3>2. ASSUME ~\E t \in task_queue \cup running : \E v : FinalizeSummary(t, v)
            PROVE  UNCHANGED Service!svars
        <4>1. UNCHANGED <<pushed, cancelled_list>> /\ Active' = Active
          BY <2>2, <3>2, WorkLoopCancel
        <4>2. \A r \in reports' \ reports : r.type # "overall"
          BY <2>2, <3>2, NewOverall
        <4>3. OverallReported' = OverallReported
          BY <2>2, <4>2, ReportsGrow DEF OverallReported
        <4> QED
          BY <4>1, <4>3, OtherStutters
      <3> QED
        BY <3>1, <3>2
    <2>3. CASE UNCHANGED vars
      <3>1. UNCHANGED <<pushed, cancelled_list>> /\ Active' = Active
            /\ OverallReported' = OverallReported
        BY <2>3 DEF vars, Active, OverallReported
      <3> QED
        BY <3>1, OtherStutters
    <2> QED
      BY <2>1, <2>2, <2>3 DEF Next
  <1>3. Init => MapSound
    BY DEF Init, MapSound
  <1> QED
    BY <1>1, <1>2, <1>3, MapCorrect, NextMapSound, PTL DEF Spec
-----------------------------------------------------------------------------
(* The order of testdata *)

\* A strict order of all elements of S.
TotalOrder(S, R) ==
  /\ \A x \in S : <<x, x>> \notin R
  /\ \A x, y, z \in S : <<x, y>> \in R /\ <<y, z>> \in R => <<x, z>> \in R
  /\ \A x, y \in S : x # y => <<x, y>> \in R \/ <<y, x>> \in R

\* The index in a sorted order grows with the order.
LEMMA PlaceGrows ==
  ASSUME NEW S, NEW R, IsFiniteSet(S), TotalOrder(S, R), NEW x \in S, NEW y \in S, <<x, y>> \in R
  PROVE  Place(S, R, x) < Place(S, R, y)
  <1> DEFINE X == {z \in S : <<z, x>> \in R}
             Y == {z \in S : <<z, y>> \in R}
  <1>1. IsFiniteSet(X) /\ IsFiniteSet(Y) /\ Cardinality(X) \in Nat /\ Cardinality(Y) \in Nat
    <2>1. X \in SUBSET S /\ Y \in SUBSET S
      OBVIOUS
    <2> HIDE DEF X, Y
    <2> QED
      BY <2>1, FS_Subset, FS_CardinalityType
  <1>2. X \in SUBSET Y /\ x \in Y /\ x \notin X
    BY DEF TotalOrder
  <1>3. Place(S, R, x) = Cardinality(X) /\ Place(S, R, y) = Cardinality(Y)
    BY DEF Place
  <1> HIDE DEF X, Y
  <1>4. Cardinality(X) <= Cardinality(Y) /\ Cardinality(X) # Cardinality(Y)
    BY <1>1, <1>2, FS_Subset
  <1> QED
    BY <1>1, <1>3, <1>4

\* Every index is that of one element.
LEMMA PlaceBijective ==
  ASSUME NEW S, NEW R, IsFiniteSet(S), TotalOrder(S, R)
  PROVE  [x \in S |-> Place(S, R, x)] \in Bijection(S, 0 .. Cardinality(S) - 1)
  <1> DEFINE n == Cardinality(S)
             T == 0 .. n - 1
             f == [x \in S |-> Place(S, R, x)]
  <1>1. n \in Nat
    BY FS_CardinalityType
  <1>2. ASSUME NEW x \in S PROVE f[x] \in T
    <2> DEFINE X == {z \in S : <<z, x>> \in R}
    <2>1. X \in SUBSET (S \ {x})
      BY DEF TotalOrder
    <2>2. IsFiniteSet(S \ {x}) /\ Cardinality(S \ {x}) = n - 1
      BY FS_RemoveElement
    <2>3. f[x] = Cardinality(X)
      BY DEF Place
    <2> HIDE DEF X, f, n
    <2>4. Cardinality(X) <= n - 1 /\ Cardinality(X) \in Nat
      BY <2>1, <2>2, FS_Subset, FS_CardinalityType
    <2> QED
      BY <1>1, <2>3, <2>4
  <1>3. ASSUME NEW x \in S, NEW y \in S, x # y PROVE f[x] # f[y]
    <2>1. <<x, y>> \in R \/ <<y, x>> \in R
      BY <1>3 DEF TotalOrder
    <2>2. f[x] < f[y] \/ f[y] < f[x]
      BY <2>1, PlaceGrows
    <2>3. f[x] \in T /\ f[y] \in T
      BY <1>2
    <2> HIDE DEF f
    <2> QED
      BY <2>2, <2>3
  <1>4. f \in Injection(S, T)
    <2>1. f \in [S -> T]
      BY <1>2
    <2> HIDE DEF f, T
    <2> QED
      BY <1>3, <2>1 DEF Injection, IsInjective
  <1>5. IsFiniteSet(T) /\ Cardinality(T) = n
    <2> HIDE DEF n
    <2>1. IsFiniteSet(T) /\ Cardinality(T) = IF 0 > n - 1 THEN 0 ELSE (n - 1) - 0 + 1
      BY <1>1, FS_Interval
    <2> QED
      BY <1>1, <2>1
  <1> HIDE DEF f, T, n
  <1>6. f \in Surjection(S, T)
    BY <1>4, <1>5, FS_Injection DEF n
  <1>7. f \in Bijection(S, T)
    BY <1>4, <1>6 DEF Bijection
  <1> QED
    BY <1>7 DEF f, T, n

\* Testdata are numbered from 1.
LEMMA TdsFacts ==
  ASSUME NEW sub \in Submissions
  PROVE  /\ Len(sub.testdata) \in Nat
         /\ Tds(sub) = 1 .. Len(sub.testdata)
         /\ IsFiniteSet(Tds(sub)) /\ Cardinality(Tds(sub)) = Len(sub.testdata)
         /\ \A td \in Tds(sub) : /\ sub.testdata[td].td_groups \in SUBSET Nat
                                 /\ Cardinality(sub.testdata[td].td_groups) \in Nat
  <1>1. sub.testdata \in Seq(TestdataItem)
    BY SubmissionsAssumption DEF Submission
  <1>2. Len(sub.testdata) \in Nat /\ Tds(sub) = 1 .. Len(sub.testdata)
    BY <1>1 DEF Tds
  <1>3. IsFiniteSet(Tds(sub)) /\ Cardinality(Tds(sub)) = Len(sub.testdata)
    <2> DEFINE n == Len(sub.testdata)
    <2> HIDE DEF n
    <2>1. n \in Nat /\ Tds(sub) = 1 .. n
      BY <1>2 DEF n
    <2>2. IsFiniteSet(1 .. n) /\ Cardinality(1 .. n) = IF 1 > n THEN 0 ELSE n - 1 + 1
      BY <2>1, FS_Interval
    <2>3. Cardinality(1 .. n) = n
      BY <2>1, <2>2
    <2> QED
      BY <2>1, <2>2, <2>3 DEF n
  <1>4. ASSUME NEW td \in Tds(sub)
        PROVE  /\ sub.testdata[td].td_groups \in SUBSET Nat
               /\ Cardinality(sub.testdata[td].td_groups) \in Nat
    <2>1. sub.testdata[td] \in TestdataItem
      BY <1>1, <1>2
    <2>2. IsFiniteSet(sub.testdata[td].td_groups)
      BY SubmissionsAssumption
    <2> QED
      BY <2>1, <2>2, FS_CardinalityType DEF TestdataItem
  <1> QED
    BY <1>2, <1>3, <1>4

\* ScanOrder has every testdatum once.
LEMMA ScanOrderBijective ==
  ASSUME NEW sub \in Submissions
  PROVE  /\ ScanOrder(sub) \in [Tds(sub) -> Tds(sub)]
         /\ \A j, k \in Tds(sub) : j # k => ScanOrder(sub)[j] # ScanOrder(sub)[k]
         /\ \A td \in Tds(sub) : \E j \in Tds(sub) : ScanOrder(sub)[j] = td
  <1> DEFINE S == Tds(sub)
             R == MoreGroups(sub)
             n == Len(sub.testdata)
             f == [x \in S |-> Place(S, R, x)]
  <1>1. n \in Nat /\ S = 1 .. n /\ IsFiniteSet(S) /\ Cardinality(S) = n
    BY TdsFacts
  <1>2. TotalOrder(S, R)
    <2> DEFINE size(td) == Cardinality(sub.testdata[td].td_groups)
    <2>1. \A x \in S : size(x) \in Nat /\ x \in Nat
      BY <1>1, TdsFacts
    <2>2. \A x, y \in S : <<x, y>> \in R <=> size(x) > size(y) \/ (size(x) = size(y) /\ x < y)
      BY DEF MoreGroups
    <2> HIDE DEF size, S, R
    <2>3. \A x \in S : <<x, x>> \notin R
      BY <2>1, <2>2
    <2>4. \A x, y, z \in S : <<x, y>> \in R /\ <<y, z>> \in R => <<x, z>> \in R
      BY <2>1, <2>2
    <2>5. \A x, y \in S : x # y => <<x, y>> \in R \/ <<y, x>> \in R
      BY <2>1, <2>2
    <2> QED
      BY <2>3, <2>4, <2>5 DEF TotalOrder
  <1> HIDE DEF R
  <1>3. f \in Bijection(S, 0 .. n - 1)
    BY <1>1, <1>2, PlaceBijective
  <1>4. \A j \in S : \E td \in S : Place(S, R, td) = j - 1
    <2> SUFFICES ASSUME NEW j \in S PROVE \E td \in S : Place(S, R, td) = j - 1
      OBVIOUS
    <2>1. j - 1 \in 0 .. n - 1
      BY <1>1
    <2>2. \E td \in S : f[td] = j - 1
      <3> HIDE DEF f
      <3> QED
        BY <1>3, <2>1 DEF Bijection, Surjection
    <2> QED
      BY <2>2
  <1>5. \A j \in S : ScanOrder(sub)[j] = CHOOSE td \in S : Place(S, R, td) = j - 1
    BY DEF ScanOrder, R
  <1>6. \A j \in S : ScanOrder(sub)[j] \in S /\ Place(S, R, ScanOrder(sub)[j]) = j - 1
    <2> HIDE DEF S
    <2> QED
      BY <1>4, <1>5
  <1>7. DOMAIN ScanOrder(sub) = S /\ ScanOrder(sub) = [j \in S |-> ScanOrder(sub)[j]]
    BY DEF ScanOrder
  <1>8. ASSUME NEW td \in S PROVE \E j \in S : ScanOrder(sub)[j] = td
    <2>1. f[td] = Place(S, R, td) /\ f[td] \in 0 .. n - 1
      <3>1. f[td] \in 0 .. n - 1
        <4> HIDE DEF f
        <4> QED
          BY <1>3 DEF Bijection, Injection
      <3> QED
        BY <3>1
    <2> DEFINE j == f[td] + 1
               u == ScanOrder(sub)[j]
    <2>2. j \in S /\ j - 1 = f[td]
      BY <1>1, <2>1
    <2>3. u \in S /\ Place(S, R, u) = f[td]
      BY <1>6, <2>2
    <2>4. f[u] = f[td]
      BY <2>3
    <2> HIDE DEF f, j, u
    <2>5. u = td
      BY <1>3, <2>3, <2>4 DEF Bijection, Injection, IsInjective
    <2> QED
      BY <2>2, <2>5 DEF u
  <1>9. \A j, k \in S : j # k => ScanOrder(sub)[j] # ScanOrder(sub)[k]
    <2>1. \A j \in S : j \in Int
      BY <1>1
    <2> HIDE DEF S
    <2> QED
      BY <1>6, <2>1
  <1> HIDE DEF S
  <1>10. ScanOrder(sub) \in [S -> S]
    BY <1>6, <1>7
  <1> QED
    BY <1>8, <1>9, <1>10 DEF S

\* Layers of which each has all groups of the next.
Nested(layers) == \A p, q \in DOMAIN layers : p <= q => layers[q] \subseteq layers[p]

\* What holds after k rounds of the loop over testdata.
LayersOk(sub, acc, k) ==
  /\ acc = [layers |-> acc.layers, layer |-> acc.layer]
  /\ acc.layers \in Seq(SUBSET Nat)
  /\ acc.layer \in [Tds(sub) -> 0 .. Len(acc.layers)]
  /\ \A j \in Tds(sub) : acc.layer[ScanOrder(sub)[j]] = 0 <=> j > k
  /\ Nested(acc.layers)
  /\ \A td \in Tds(sub) : acc.layer[td] # 0 => sub.testdata[td].td_groups \subseteq acc.layers[acc.layer[td]]
  /\ \A p \in DOMAIN acc.layers : \A g \in acc.layers[p] :
       \E td \in Tds(sub) : acc.layer[td] = p /\ g \in sub.testdata[td].td_groups

\* A round keeps it.
LEMMA PlaceKeepsLayers ==
  ASSUME NEW sub \in Submissions, NEW acc, NEW k \in Tds(sub), LayersOk(sub, acc, k - 1)
  PROVE  LayersOk(sub, PlaceInLayer(sub, acc, ScanOrder(sub)[k]), k)
  <1> DEFINE x == ScanOrder(sub)[k]
             G == sub.testdata[x].td_groups
             A == acc.layers
             m == Len(A)
             P == {p \in DOMAIN A : ~(G \subseteq A[p])} \cup {m + 1}
             pos == Min(P)
             B == IF pos > m THEN Append(A, {}) ELSE A
             C == [B EXCEPT ![pos] = @ \cup G]
             L == acc.layer
             M == [L EXCEPT ![x] = pos]
             new == PlaceInLayer(sub, acc, x)
  <1>1. new = [layers |-> C, layer |-> M]
    BY DEF PlaceInLayer
  <1>2. /\ A \in Seq(SUBSET Nat) /\ m \in Nat /\ DOMAIN A = 1 .. m
        /\ L \in [Tds(sub) -> 0 .. m]
        /\ x \in Tds(sub) /\ G \in SUBSET Nat
    <2>1. A \in Seq(SUBSET Nat) /\ L \in [Tds(sub) -> 0 .. m]
      BY DEF LayersOk
    <2>2. x \in Tds(sub)
      BY ScanOrderBijective
    <2>3. G \in SUBSET Nat
      <3> HIDE DEF x
      <3> QED
        BY <2>2, TdsFacts
    <2> HIDE DEF A, L, x, G
    <2>4. m \in Nat /\ DOMAIN A = 1 .. m
      BY <2>1
    <2> QED
      BY <2>1, <2>2, <2>3, <2>4
  <1>3. pos \in P /\ \A p \in P : pos <= p
    <2>1. P \subseteq Nat /\ P # {}
      BY <1>2
    <2> HIDE DEF P
    <2> QED
      BY <2>1, MinIsElement
  <1>4. pos \in 1 .. m + 1 /\ \A p \in 1 .. m : p < pos => G \subseteq A[p]
    <2>1. pos \in 1 .. m + 1
      BY <1>2, <1>3
    <2>2. ASSUME NEW p \in 1 .. m, p < pos PROVE G \subseteq A[p]
      <3> HIDE DEF pos
      <3>1. p \notin P
        BY <1>2, <1>3, <2>1, <2>2
      <3> QED
        BY <1>2, <3>1
    <2> QED
      BY <2>1, <2>2
  <1> HIDE DEF pos, P, G, x
  <1>5. /\ C \in Seq(SUBSET Nat) /\ Len(C) \in Nat /\ m <= Len(C) /\ pos \in 1 .. Len(C) /\ DOMAIN C = 1 .. Len(C)
        /\ C[pos] = (IF pos > m THEN G ELSE A[pos] \cup G)
        /\ \A p \in 1 .. Len(C) : p # pos => p \in 1 .. m /\ C[p] = A[p]
    <2>1. CASE pos > m
      <3>1. pos = m + 1
        BY <1>2, <1>4, <2>1
      <3>2. B = Append(A, {}) /\ B \in Seq(SUBSET Nat) /\ Len(B) = m + 1
        BY <1>2, <2>1
      <3>3. B[m + 1] = {} /\ \A p \in 1 .. m : B[p] = A[p]
        BY <1>2, <3>2
      <3>4. DOMAIN B = 1 .. m + 1
        BY <1>2, <3>2
      <3> HIDE DEF A, m, B
      <3>5. pos \in 1 .. m + 1
        BY <1>2, <3>1
      <3>6. C = [p \in 1 .. m + 1 |-> IF p = pos THEN {} \cup G ELSE B[p]]
        BY <3>1, <3>3, <3>4
      <3>7. \A p \in 1 .. m + 1 : p # pos => p \in 1 .. m /\ B[p] \in SUBSET Nat
        BY <1>2, <3>1, <3>2, <3>4
      <3>8. C[pos] = G /\ \A p \in 1 .. m + 1 : p # pos => C[p] = B[p]
        BY <3>5, <3>6
      <3> HIDE DEF C
      <3>9. C \in [1 .. m + 1 -> SUBSET Nat] /\ m + 1 \in Nat
        <4>1. \A p \in 1 .. m + 1 : C[p] \in SUBSET Nat
          BY <1>2, <3>7, <3>8
        <4>2. DOMAIN C = 1 .. m + 1 /\ C = [p \in 1 .. m + 1 |-> C[p]]
          BY <3>6
        <4> QED
          BY <1>2, <4>1, <4>2
      <3>10. C \in Seq(SUBSET Nat) /\ Len(C) = m + 1 /\ DOMAIN C = 1 .. m + 1
        BY <3>9
      <3> QED
        BY <1>2, <2>1, <3>3, <3>5, <3>7, <3>8, <3>10
    <2>2. CASE ~(pos > m)
      <3>1. B = A /\ pos \in 1 .. m
        BY <1>2, <1>4, <2>2
      <3> HIDE DEF A, m, B
      <3>2. B \in Seq(SUBSET Nat) /\ Len(B) = m /\ DOMAIN B = 1 .. m
        BY <1>2, <3>1 DEF m
      <3>3. B[pos] \in SUBSET Nat /\ \A p \in 1 .. m : B[p] \in SUBSET Nat
        BY <3>1, <3>2
      <3>4. B[pos] \cup G \in SUBSET Nat
        BY <1>2, <3>3
      <3>5. C = [p \in 1 .. m |-> IF p = pos THEN B[pos] \cup G ELSE B[p]]
        BY <3>1, <3>2
      <3>6. C[pos] = A[pos] \cup G /\ \A p \in 1 .. m : p # pos => C[p] = A[p]
        BY <3>1, <3>5
      <3>7. C \in [1 .. m -> SUBSET Nat]
        BY <3>3, <3>4, <3>5
      <3> HIDE DEF C
      <3>8. C \in Seq(SUBSET Nat) /\ Len(C) = m /\ DOMAIN C = 1 .. m
        BY <1>2, <3>7
      <3> QED
        BY <1>2, <2>2, <3>1, <3>6, <3>8
    <2> QED
      BY <2>1, <2>2
  <1>6. /\ M \in [Tds(sub) -> 0 .. Len(C)] /\ M[x] = pos
        /\ \A td \in Tds(sub) : td # x => M[td] = L[td]
    <2> HIDE DEF L, C, A, m
    <2>1. pos \in 0 .. Len(C) /\ \A q \in 0 .. m : q \in 0 .. Len(C)
      BY <1>2, <1>5
    <2> QED
      BY <1>2, <2>1
  <1>7. \A j \in Tds(sub) : M[ScanOrder(sub)[j]] = 0 <=> j > k
    <2> SUFFICES ASSUME NEW j \in Tds(sub) PROVE M[ScanOrder(sub)[j]] = 0 <=> j > k
      OBVIOUS
    <2>1. j \in Nat /\ k \in Nat
      BY TdsFacts
    <2>2. CASE j = k
      BY <1>4, <1>6, <2>1, <2>2 DEF x
    <2>3. CASE j # k
      <3>1. ScanOrder(sub)[j] # x /\ ScanOrder(sub)[j] \in Tds(sub)
        BY <2>3, ScanOrderBijective DEF x
      <3>2. L[ScanOrder(sub)[j]] = 0 <=> j > k - 1
        BY DEF LayersOk
      <3> HIDE DEF M, L
      <3>3. M[ScanOrder(sub)[j]] = L[ScanOrder(sub)[j]]
        BY <1>6, <3>1
      <3>4. j > k - 1 <=> j > k
        BY <2>1, <2>3
      <3> QED
        BY <3>2, <3>3, <3>4
    <2> QED
      BY <2>2, <2>3
  <1>8. L[x] = 0
    <2>1. k > k - 1
      BY TdsFacts
    <2> QED
      BY <2>1 DEF LayersOk, x
  <1>9. Nested(C)
    <2> SUFFICES ASSUME NEW p \in 1 .. Len(C), NEW q \in 1 .. Len(C), p < q
                 PROVE  C[q] \subseteq C[p]
      <3>1. \A p, q \in 1 .. Len(C) : p = q \/ p < q \/ ~(p <= q)
        BY <1>5
      <3> QED
        BY <1>5, <3>1 DEF Nested
    <2>1. \A a, b \in 1 .. m : a <= b => A[b] \subseteq A[a]
      BY <1>2 DEF LayersOk, Nested
    <2> HIDE DEF A, m, C
    <2>2. CASE p = pos
      <3>1. q \in 1 .. m /\ C[q] = A[q] /\ pos \in 1 .. m /\ ~(pos > m)
        BY <1>2, <1>5, <2>2
      <3>2. A[q] \subseteq A[pos]
        BY <1>2, <2>1, <2>2, <3>1
      <3> QED
        BY <1>5, <2>2, <3>1, <3>2
    <2>3. CASE q = pos
      <3>1. p \in 1 .. m /\ C[p] = A[p] /\ G \subseteq A[p]
        BY <1>4, <1>5, <2>3
      <3>2. CASE pos > m
        BY <1>5, <2>3, <3>1, <3>2
      <3>3. CASE ~(pos > m)
        <4>1. pos \in 1 .. m /\ A[pos] \subseteq A[p]
          BY <1>2, <1>4, <2>1, <2>3, <3>1, <3>3
        <4> QED
          BY <1>5, <2>3, <3>1, <3>3, <4>1
      <3> QED
        BY <3>2, <3>3
    <2>4. CASE p # pos /\ q # pos
      BY <1>2, <1>5, <2>1, <2>4
    <2> QED
      BY <2>2, <2>3, <2>4
  <1>10. \A td \in Tds(sub) : M[td] # 0 => sub.testdata[td].td_groups \subseteq C[M[td]]
    <2> SUFFICES ASSUME NEW td \in Tds(sub), M[td] # 0
                 PROVE  sub.testdata[td].td_groups \subseteq C[M[td]]
      OBVIOUS
    <2>1. L[td] # 0 => sub.testdata[td].td_groups \subseteq A[L[td]]
      BY DEF LayersOk
    <2>2. L[td] \in 0 .. m
      BY <1>2
    <2> HIDE DEF A, L, m, M, C
    <2>3. CASE td = x
      BY <1>5, <1>6, <2>3 DEF G
    <2>4. CASE td # x
      <3>1. M[td] = L[td] /\ L[td] \in 1 .. m /\ L[td] \in 1 .. Len(C)
        BY <1>2, <1>5, <1>6, <2>2, <2>4
      <3>2. A[L[td]] \subseteq C[L[td]]
        BY <1>2, <1>5, <3>1
      <3> QED
        BY <2>1, <3>1, <3>2
    <2> QED
      BY <2>3, <2>4
  <1>11. \A p \in DOMAIN C : \A g \in C[p] : \E td \in Tds(sub) : M[td] = p /\ g \in sub.testdata[td].td_groups
    <2> SUFFICES ASSUME NEW p \in 1 .. Len(C), NEW g \in C[p]
                 PROVE  \E td \in Tds(sub) : M[td] = p /\ g \in sub.testdata[td].td_groups
      BY <1>5
    <2>1. \A q \in 1 .. m : \A h \in A[q] : \E td \in Tds(sub) : L[td] = q /\ h \in sub.testdata[td].td_groups
      BY <1>2 DEF LayersOk
    <2> HIDE DEF A, L, m, M, C
    <2>2. CASE p = pos /\ g \in G
      BY <1>2, <1>6, <2>2 DEF G
    <2>3. CASE ~(p = pos /\ g \in G)
      <3>1. p \in 1 .. m /\ g \in A[p]
        BY <1>2, <1>5, <2>3
      <3>2. PICK td \in Tds(sub) : L[td] = p /\ g \in sub.testdata[td].td_groups
        BY <2>1, <3>1
      <3>3. td # x
        BY <1>2, <1>8, <3>1, <3>2
      <3> QED
        BY <1>6, <3>2, <3>3
    <2> QED
      BY <2>2, <2>3
  <1> HIDE DEF C, M, new
  <1>12. new.layers = C /\ new.layer = M /\ new = [layers |-> new.layers, layer |-> new.layer]
    BY <1>1
  <1>13. LayersOk(sub, new, k)
    BY <1>5, <1>6, <1>7, <1>9, <1>10, <1>11, <1>12 DEF LayersOk
  <1> QED
    BY <1>13 DEF new, x

\* Induction over the natural numbers, for a set.
LEMMA NatSetInduction ==
  ASSUME NEW S, 0 \in S, \A n \in Nat : n \in S => n + 1 \in S
  PROVE  Nat \subseteq S
  <1> SUFFICES ASSUME Nat \ S # {}
               PROVE  FALSE
    OBVIOUS
  <1> DEFINE R == {ss \in Nat \X Nat : ss[1] < ss[2]}
             Out == Nat \ S
  <1>1. IsWellFoundedOn(R, Nat)
    BY NatLessThanWellFounded DEF OpToRel
  <1>2. Out \subseteq Nat /\ Out # {}
    OBVIOUS
  <1> HIDE DEF R, Out
  <1>3. PICK n \in Out : \A k \in Out : ~(<<k, n>> \in R)
    BY <1>1, <1>2, WFMin
  <1>4. n \in Nat /\ n \notin S /\ n # 0
    BY <1>3 DEF Out
  <1>5. n - 1 \in Nat /\ <<n - 1, n>> \in R
    BY <1>4 DEF R
  <1>6. n - 1 \in S
    BY <1>3, <1>5 DEF Out
  <1>7. (n - 1) + 1 \in S
    BY <1>5, <1>6
  <1> QED
    BY <1>4, <1>7

\* Layering is what its recursive definition says, and LayersOk holds after every
\* round.
LEMMA LayersAlways ==
  ASSUME NEW sub \in Submissions
  PROVE  \A k \in 0 .. Len(sub.testdata) : LayersOk(sub, Layering(sub)[k], k)
  <1> DEFINE n == Len(sub.testdata)
             base == [layers |-> <<>>, layer |-> [td \in Tds(sub) |-> 0]]
             Step(h, k) == IF k = 0 THEN base ELSE PlaceInLayer(sub, h[k - 1], ScanOrder(sub)[k])
             Defined(j) == \E h : h = [k \in 0 .. j |-> Step(h, k)]
             D == {j \in Nat : Defined(j)}
  <1>1. n \in Nat /\ Tds(sub) = 1 .. n
    BY TdsFacts
  <1>2. 0 \in D
    <2> DEFINE h == [k \in 0 .. 0 |-> base]
    <2>1. h = [k \in 0 .. 0 |-> Step(h, k)]
      <3>1. \A k \in 0 .. 0 : k = 0
        OBVIOUS
      <3>2. \A k \in 0 .. 0 : Step(h, k) = base
        BY <3>1
      <3> HIDE DEF Step, base
      <3> QED
        BY <3>2
    <2> HIDE DEF h, Step
    <2> QED
      BY <2>1
  <1>3. ASSUME NEW j \in Nat, j \in D PROVE j + 1 \in D
    <2>1. PICK h : h = [k \in 0 .. j |-> Step(h, k)]
      BY <1>3
    <2> DEFINE f == [k \in 0 .. j + 1 |-> Step(h, k)]
    <2>2. \A k \in 0 .. j : f[k] = h[k]
      <3>1. \A k \in 0 .. j : k \in 0 .. j + 1 /\ h[k] = Step(h, k)
        <4> HIDE DEF Step
        <4> QED
          BY <2>1
      <3> HIDE DEF Step
      <3> QED
        BY <3>1
    <2>3. \A k \in 0 .. j + 1 : Step(f, k) = Step(h, k)
      <3> SUFFICES ASSUME NEW k \in 0 .. j + 1, k # 0 PROVE f[k - 1] = h[k - 1]
        <4> HIDE DEF f
        <4> QED
          OBVIOUS
      <3>1. k - 1 \in 0 .. j
        OBVIOUS
      <3> HIDE DEF f
      <3> QED
        BY <2>2, <3>1
    <2>4. f = [k \in 0 .. j + 1 |-> Step(f, k)]
      <3> DEFINE g == [k \in 0 .. j + 1 |-> Step(f, k)]
      <3>1. \A k \in 0 .. j + 1 : g[k] = Step(h, k)
        <4> HIDE DEF Step, f
        <4> QED
          BY <2>3
      <3> HIDE DEF Step
      <3> QED
        BY <2>3
    <2>5. Defined(j + 1)
      <3> HIDE DEF f, Step
      <3> QED
        BY <2>4
    <2> HIDE DEF Defined
    <2> QED
      BY <2>5
  <1>4. Defined(n)
    <2>1. Nat \subseteq D
      <3> HIDE DEF D
      <3> QED
        BY <1>2, <1>3, NatSetInduction
    <2> HIDE DEF Defined
    <2> QED
      BY <1>1, <2>1
  <1> DEFINE acc == CHOOSE h : h = [k \in 0 .. n |-> Step(h, k)]
  <1>5. acc = [k \in 0 .. n |-> Step(acc, k)]
    <2> HIDE DEF Step
    <2> QED
      BY <1>4
  <1>6. Layering(sub) = acc
    BY DEF Layering
  <1> HIDE DEF acc
  <1>7. \A k \in 0 .. n : acc[k] = Step(acc, k)
    <2> HIDE DEF Step
    <2> QED
      BY <1>5
  <1> DEFINE K == {k \in Nat : k <= n => LayersOk(sub, acc[k], k)}
  <1>8. 0 \in K
    <2>1. acc[0] = base
      BY <1>1, <1>7
    <2>2. LayersOk(sub, base, 0)
      <3>1. base.layers = <<>> /\ base.layer = [td \in Tds(sub) |-> 0] /\ Len(base.layers) = 0 /\ DOMAIN base.layers = {}
        OBVIOUS
      <3>2. \A td \in Tds(sub) : base.layer[td] = 0
        BY <3>1
      <3>3. \A k \in Tds(sub) : k > 0 /\ ScanOrder(sub)[k] \in Tds(sub)
        BY <1>1, ScanOrderBijective
      <3>4. base = [layers |-> base.layers, layer |-> base.layer]
        OBVIOUS
      <3>5. base.layers \in Seq(SUBSET Nat) /\ base.layer \in [Tds(sub) -> 0 .. Len(base.layers)]
        OBVIOUS
      <3> HIDE DEF base
      <3> QED
        BY <3>1, <3>2, <3>3, <3>4, <3>5 DEF LayersOk, Nested
    <2> HIDE DEF base
    <2> QED
      BY <2>1, <2>2
  <1>9. ASSUME NEW k \in Nat, k \in K PROVE k + 1 \in K
    <2> SUFFICES ASSUME k + 1 <= n PROVE LayersOk(sub, acc[k + 1], k + 1)
      OBVIOUS
    <2>1. k + 1 \in Tds(sub) /\ k + 1 \in 0 .. n /\ k + 1 # 0 /\ (k + 1) - 1 = k /\ k <= n
      BY <1>1
    <2>2. LayersOk(sub, acc[k], (k + 1) - 1)
      BY <1>9, <2>1
    <2>3. acc[k + 1] = PlaceInLayer(sub, acc[k], ScanOrder(sub)[k + 1])
      <3>1. acc[k + 1] = Step(acc, k + 1)
        BY <1>7, <2>1
      <3> QED
        BY <2>1, <3>1
    <2> QED
      BY <2>1, <2>2, <2>3, PlaceKeepsLayers
  <1>10. Nat \subseteq K
    <2> HIDE DEF K
    <2> QED
      BY <1>8, <1>9, NatSetInduction
  <1>11. ASSUME NEW k \in 0 .. n PROVE LayersOk(sub, Layering(sub)[k], k)
    BY <1>1, <1>6, <1>10
  <1> QED
    BY <1>11

\* In every round of the loop the layers that have all groups of the testdatum are
\* the first ones, which is what std::lower_bound requires of its range.
THEOREM LowerBoundDefined ==
  ASSUME NEW sub \in Submissions, NEW k \in Tds(sub)
  PROVE  LET layers == Layering(sub)[k - 1].layers
             groups == sub.testdata[ScanOrder(sub)[k]].td_groups
         IN  \A p, q \in DOMAIN layers : p <= q /\ groups \subseteq layers[q] => groups \subseteq layers[p]
  <1>1. k - 1 \in 0 .. Len(sub.testdata)
    BY TdsFacts
  <1>2. Nested(Layering(sub)[k - 1].layers)
    BY <1>1, LayersAlways DEF LayersOk
  <1> QED
    BY <1>2 DEF Nested

\* Every testdatum gets a layer.
LEMMA TdLayerType ==
  ASSUME NEW sub \in Submissions
  PROVE  /\ \A td \in Tds(sub) : TdLayer(sub)[td] \in Nat \ {0}
         /\ TotalOrder(Tds(sub), Earlier(sub))
  <1> DEFINE n == Len(sub.testdata)
             acc == Layering(sub)[n]
             layer == TdLayer(sub)
             S == Tds(sub)
             R == Earlier(sub)
  <1>1. n \in Nat /\ S = 1 .. n
    BY TdsFacts
  <1>2. LayersOk(sub, acc, n)
    BY <1>1, LayersAlways
  <1>3. layer = acc.layer
    BY DEF TdLayer
  <1>4. ASSUME NEW td \in S PROVE layer[td] \in Nat \ {0}
    <2>1. PICK j \in S : ScanOrder(sub)[j] = td
      BY ScanOrderBijective
    <2>2. ~(j > n)
      BY <1>1
    <2>3. acc.layer[td] # 0 /\ acc.layer[td] \in 0 .. Len(acc.layers)
      BY <1>2, <2>1, <2>2 DEF LayersOk
    <2> QED
      BY <1>3, <2>3
  <1>5. \A x, y \in S : <<x, y>> \in R <=> layer[x] < layer[y] \/ (layer[x] = layer[y] /\ x < y)
    BY DEF Earlier
  <1>6. \A x \in S : layer[x] \in Nat /\ x \in Nat
    BY <1>1, <1>4
  <1> HIDE DEF S, R, layer
  <1>7. \A x \in S : <<x, x>> \notin R
    BY <1>5, <1>6
  <1>8. \A x, y, z \in S : <<x, y>> \in R /\ <<y, z>> \in R => <<x, z>> \in R
    BY <1>5, <1>6
  <1>9. \A x, y \in S : x # y => <<x, y>> \in R \/ <<y, x>> \in R
    BY <1>5, <1>6
  <1>10. TotalOrder(S, R)
    BY <1>7, <1>8, <1>9 DEF TotalOrder
  <1> QED
    BY <1>4, <1>10 DEF S, R, layer

\* td_order numbers the testdata of a submission from 0, each once, with and without
\* skip_group: it is the inverse of a sorted order.
THEOREM TdOrderBijective ==
  ASSUME NEW sub \in Submissions
  PROVE  TdOrder(sub) \in Bijection(Tds(sub), 0 .. Len(sub.testdata) - 1)
  <1> DEFINE S == Tds(sub)
             n == Len(sub.testdata)
  <1>1. n \in Nat /\ S = 1 .. n /\ IsFiniteSet(S) /\ Cardinality(S) = n
    BY TdsFacts
  <1>2. CASE sub.skip_group
    <2>1. TdOrder(sub) = [td \in S |-> Place(S, Earlier(sub), td)]
      BY <1>2 DEF TdOrder
    <2> HIDE DEF S, n
    <2>2. [td \in S |-> Place(S, Earlier(sub), td)] \in Bijection(S, 0 .. n - 1)
      BY <1>1, TdLayerType, PlaceBijective DEF S
    <2> QED
      BY <2>1, <2>2 DEF S, n
  <1>3. CASE ~sub.skip_group
    <2> DEFINE f == [td \in S |-> td - 1]
               T == 0 .. n - 1
    <2>1. TdOrder(sub) = f
      BY <1>3 DEF TdOrder
    <2>2. f \in [S -> T] /\ \A x, y \in S : f[x] = f[y] => x = y
      <3> HIDE DEF n
      <3> QED
        BY <1>1
    <2>3. \A t \in T : \E x \in S : f[x] = t
      <3> SUFFICES ASSUME NEW t \in T PROVE \E x \in S : f[x] = t
        OBVIOUS
      <3>1. t + 1 \in S /\ (t + 1) - 1 = t
        BY <1>1
      <3> HIDE DEF S, T
      <3> QED
        BY <3>1
    <2> HIDE DEF f, S, T
    <2>4. f \in Bijection(S, T)
      BY <2>2, <2>3 DEF Bijection, Injection, IsInjective, Surjection
    <2> QED
      BY <2>1, <2>4 DEF S, T
  <1> QED
    BY <1>2, <1>3

\* The heuristic of skip_group does what its comment says: before a testdatum of a
\* later layer is tried, each of its groups has been tried once in every layer before.
THEOREM GroupsTriedInTurnAlways ==
  ASSUME NEW sub \in Submissions
  PROVE  GroupsTriedInTurn(sub)
  <1> DEFINE n == Len(sub.testdata)
             acc == Layering(sub)[n]
             layer == TdLayer(sub)
             S == Tds(sub)
             R == Earlier(sub)
  <1> SUFFICES ASSUME NEW td \in S, NEW g \in sub.testdata[td].td_groups, NEW p \in 1 .. layer[td] - 1
               PROVE  \E k \in S : /\ layer[k] = p
                                   /\ g \in sub.testdata[k].td_groups
                                   /\ sub.skip_group => TdOrder(sub)[k] < TdOrder(sub)[td]
    BY DEF GroupsTriedInTurn
  <1>1. LayersOk(sub, acc, n) /\ layer = acc.layer
    BY TdsFacts, LayersAlways DEF TdLayer
  <1>2. layer[td] \in Nat \ {0} /\ layer[td] \in 0 .. Len(acc.layers) /\ TotalOrder(S, R) /\ IsFiniteSet(S)
    BY <1>1, TdLayerType, TdsFacts DEF LayersOk
  <1>3. DOMAIN acc.layers = 1 .. Len(acc.layers) /\ Len(acc.layers) \in Nat
    BY <1>1 DEF LayersOk
  <1>4. p \in DOMAIN acc.layers /\ layer[td] \in DOMAIN acc.layers /\ p < layer[td] /\ p <= layer[td] /\ layer[td] # 0
    <2> HIDE DEF layer, acc
    <2> QED
      BY <1>2, <1>3
  <1>5. g \in acc.layers[p]
    <2>1. g \in acc.layers[layer[td]]
      BY <1>1, <1>4 DEF LayersOk
    <2> HIDE DEF layer, acc
    <2> QED
      BY <1>1, <1>4, <2>1 DEF LayersOk, Nested
  <1>6. PICK k \in S : layer[k] = p /\ g \in sub.testdata[k].td_groups
    <2> HIDE DEF acc, layer
    <2> QED
      BY <1>1, <1>4, <1>5 DEF LayersOk
  <1>7. <<k, td>> \in R
    BY <1>4, <1>6 DEF Earlier
  <1>8. sub.skip_group => TdOrder(sub)[k] < TdOrder(sub)[td]
    <2>1. Place(S, R, k) < Place(S, R, td)
      <3> HIDE DEF S, R
      <3> QED
        BY <1>2, <1>7, PlaceGrows
    <2> QED
      BY <2>1 DEF TdOrder
  <1> QED
    BY <1>6, <1>8

=============================================================================
