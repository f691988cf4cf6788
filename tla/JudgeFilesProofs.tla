-------------------------- MODULE JudgeFilesProofs --------------------------
(***************************************************************************)
(* What the tasks of JudgeQueue find when they run, and what its reports   *)
(* say: programs are compiled, outputs are where the next stage looks for  *)
(* them, td_results is long enough, nothing is left behind, and a          *)
(* testdatum without a verdict has only groups that failed.                *)
(*                                                                         *)
(* FilesInv says of every submission, and of every testdatum of it (TdOk), *)
(* how the live tasks, the results and the files fit together.  A step of  *)
(* the worker concerns one testdatum at most; for all the others TdFrame   *)
(* holds and TdOk carries over (FrameKeepsTd).  For that one, GraphInv     *)
(* gives that the tasks before the one at hand are gone and those behind   *)
(* it are live (ChainSplit).                                               *)
(***************************************************************************)
EXTENDS JudgeQueueProofs

SubVerdict(id) == submission_list[id].verdict
TdResults(id)  == submission_list[id].td_results

\* The result of a testdatum; resize() fills up with new ones.
TdRes(id, td) == IF td \in DOMAIN TdResults(id) THEN TdResults(id)[td] ELSE NewTdResult

\* IsCancelled, of a testdatum.
TdCancelled(id, td) ==
  \/ id \in cancelled_list
  \/ /\ Sub(id).testdata[td].td_groups # {}
     /\ \A g \in Sub(id).testdata[td].td_groups : <<id, g>> \in cancelled_group

\* Nothing of the testdatum will be run any more.
Given(id, td) == SubVerdict(id) # NUL \/ TdCancelled(id, td)

ChainTasks(id, td) ==
  {t \in TasksOf(id, Sub(id)) : t.type \in {"EXECUTE", "SCORING"} /\ t.td = td}

FirstTask(id, td) == ExecuteTask(id, td, 0)
LastTask(id, td)  == ScoringTask(id, td, LastStage(Sub(id)))

\* What the execution of stage j waits for in its chain.
BeforeStage(id, td, j) ==
  IF Sub(id).judge_between_stages THEN ScoringTask(id, td, j - 1) ELSE ExecuteTask(id, td, j - 1)

\* Before the first execution ends there is no result, after it there is one.
TdStarted(id, td) ==
  IF FirstTask(id, td) \in Live THEN TdRes(id, td) = NewTdResult
  ELSE Given(id, td) \/ td \in DOMAIN TdResults(id)

\* A stage that is to run has the output of the stage before.
TdInput(id, td) ==
  \A j \in Stages(Sub(id)) :
    /\ j > 0
    /\ ExecuteTask(id, td, j) \in Live \ running
    /\ BeforeStage(id, td, j) \notin Live
    => \/ Given(id, td)
       \/ TdRes(id, td).skip_stage
       \/ TdRes(id, td).verdict # NUL
       \/ <<id, td, j - 1>> \in outputs

\* Once stages are skipped there is a verdict and nothing runs.
TdSkipped(id, td) ==
  TdRes(id, td).skip_stage => TdRes(id, td).verdict # NUL /\ running \cap ChainTasks(id, td) = {}

\* A checker runs for a result that exists.
TdScored(id, td) ==
  \A t \in running \cap ChainTasks(id, td) : t.type = "SCORING" => td \in DOMAIN TdResults(id)

\* A testdatum whose tasks are all gone was judged or cancelled.
TdDone(id, td) ==
  LastTask(id, td) \notin Live => Given(id, td) \/ TdRes(id, td).verdict # NUL

TdOk(id, td) ==
  /\ TdStarted(id, td)
  /\ TdInput(id, td)
  /\ TdSkipped(id, td)
  /\ TdScored(id, td)
  /\ TdDone(id, td)

\* A program whose compilation is over is there, if it is needed.
CompiledOk(id) ==
  SubVerdict(id) = NUL /\ id \notin cancelled_list =>
    \A s \in Compiles(Sub(id)) \ {"SUMMARY"} : CompileTask(id, s) \in Live \/ <<id, s>> \in compiled

\* ProgramReady, of one submission.
ProgramsOk(id) ==
  \A t \in running :
    /\ t.id = id
    /\ t.type = "EXECUTE" \/ (t.type = "SCORING" /\ Sub(id).specjudge_type # "NORMAL")
    => <<id, ProgramOf(t)>> \in compiled

\* Only compilations give the submission a verdict, unless there is a summary program.
VerdictOk(id) ==
  Sub(id).summary_type = "NONE" =>
    SummaryTask(id) \notin running /\ (SubVerdict(id) = NUL \/ SubVerdict(id) >= CE)

\* A group is cancelled by a testdatum of it that has failed for good.
GroupsOk(id) ==
  \A g \in Nat : <<id, g>> \in cancelled_group =>
    /\ Sub(id).skip_group
    /\ \E k \in Tds(Sub(id)) :
         /\ g \in Sub(id).testdata[k].td_groups
         /\ Failed(TdRes(id, k).verdict)
         /\ TdRes(id, k).skip_stage \/ LastTask(id, k) \notin Live

SubOk(id) ==
  /\ CompiledOk(id)
  /\ ProgramsOk(id)
  /\ VerdictOk(id)
  /\ GroupsOk(id)
  /\ \A td \in Tds(Sub(id)) : TdOk(id, td)

\* The worker sleeps only when nothing runs, and every file is of a submission.
IdleInv ==
  /\ pc = "idle" => running = {}
  /\ \A f \in compiled : f[1] \in Active
  /\ \A f \in outputs : f[1] \in Active
  /\ \A c \in cancelled_group : c[1] \in Active

FilesInv == IdleInv /\ \A id \in Active : SubOk(id)

-----------------------------------------------------------------------------
(* The chain of a testdatum. *)

\* The tasks that TdOk names are tasks of the testdatum's chain.
LEMMA ChainMembers ==
  ASSUME NEW id, Sub(id) \in Submissions, NEW td \in Tds(Sub(id))
  PROVE  /\ FirstTask(id, td) \in ChainTasks(id, td) /\ Position(FirstTask(id, td)) = 0
         /\ LastTask(id, td) \in ChainTasks(id, td)
         /\ \A j \in Stages(Sub(id)) :
              /\ ExecuteTask(id, td, j) \in ChainTasks(id, td)
              /\ Position(ExecuteTask(id, td, j)) = 2 * j
              /\ j > 0 => BeforeStage(id, td, j) \in ChainTasks(id, td)
         /\ \A u \in ChainTasks(id, td) :
              u.id = id /\ Position(u) \in Nat /\ Position(u) <= Position(LastTask(id, td))
  <1>1. /\ LastStage(Sub(id)) \in Nat /\ LastStage(Sub(id)) \in ScoringStages(Sub(id))
        /\ Stages(Sub(id)) \subseteq Nat /\ 0 \in Stages(Sub(id))
    BY StagesType DEF Stages
  <1>2. ASSUME NEW j \in Stages(Sub(id))
        PROVE  /\ ExecuteTask(id, td, j) \in ChainTasks(id, td)
               /\ Position(ExecuteTask(id, td, j)) = 2 * j
    BY <1>1, TaskMembership DEF ChainTasks, ExecuteTask, Position
  <1>3. ASSUME NEW j \in ScoringStages(Sub(id))
        PROVE  /\ ScoringTask(id, td, j) \in ChainTasks(id, td)
               /\ Position(ScoringTask(id, td, j)) = 2 * j + 1
    BY <1>1, TaskMembership DEF ChainTasks, ScoringTask, Position
  <1>4. ASSUME NEW j \in Stages(Sub(id)), j > 0
        PROVE  BeforeStage(id, td, j) \in ChainTasks(id, td)
    <2>1. j - 1 \in Stages(Sub(id))
      BY <1>1, <1>4, StagesType DEF Stages
    <2>2. Sub(id).judge_between_stages => j - 1 \in ScoringStages(Sub(id))
      BY <2>1 DEF ScoringStages
    <2> QED
      BY <1>2, <1>3, <2>1, <2>2 DEF BeforeStage
  <1>5. ASSUME NEW u \in ChainTasks(id, td)
        PROVE  u.id = id /\ Position(u) \in Nat /\ Position(u) <= Position(LastTask(id, td))
    <2>1. u \in TasksOf(id, Sub(id)) /\ u.type \in {"EXECUTE", "SCORING"}
      BY DEF ChainTasks
    <2>2. Position(u) \in Nat /\ Position(u) <= 2 * LastStage(Sub(id)) + 1
      BY <2>1, PositionType
    <2> QED
      BY <1>1, <1>3, <2>1, <2>2, TaskShapes DEF LastTask
  <1>6. Position(FirstTask(id, td)) = 0
    BY <1>1, <1>2 DEF FirstTask
  <1> QED
    BY <1>1, <1>2, <1>3, <1>4, <1>5, <1>6 DEF FirstTask, LastTask

\* When a task of a testdatum is ready or runs, exactly the tasks before it have
\* ended, and no other task of the testdatum is ready or runs.
LEMMA ChainSplit ==
  ASSUME GraphInv, NEW t \in task_queue \cup running, t.type \in {"EXECUTE", "SCORING"},
         NEW u \in ChainTasks(t.id, t.td)
  PROVE  /\ u \in Live <=> Position(t) <= Position(u)
         /\ u \in task_queue \cup running => u = t
  <1>1. /\ t \in Live /\ LivePreds(t) = {} /\ Sub(t.id) \in Submissions
        /\ t \in TasksOf(t.id, Sub(t.id))
    BY ReadyTask, TaskContext
  <1>2. u \in TasksOf(t.id, Sub(t.id)) /\ SameTd(t, u) /\ SameTd(u, t) /\ u.id = t.id
    BY TaskShapes DEF ChainTasks, SameTd
  <1>3. Position(t) \in Nat /\ Position(u) \in Nat
    BY <1>1, <1>2, PositionType DEF SameTd
  <1>4. Position(t) <= Position(u) => u \in Live
    BY <1>1, <1>2 DEF GraphInv, StagesInOrder
  <1>5. ASSUME NEW a \in TasksOf(t.id, Sub(t.id)), NEW b \in TasksOf(t.id, Sub(t.id)),
               SameTd(a, b), a \in Live, LivePreds(b) = {}, Position(a) < Position(b)
        PROVE  FALSE
    <2>1. PICK w \in TasksOf(t.id, Sub(t.id)) :
            Link(Sub(t.id), w, b) /\ SameTd(a, w) /\ Position(a) <= Position(w)
      BY <1>1, <1>5, ChainPredecessor
    <2>2. a.id = t.id /\ b.id = t.id /\ w.id = t.id
      BY TaskShapes
    <2>3. w \in Live
      BY <1>5, <2>1, <2>2 DEF GraphInv, StagesInOrder
    <2> QED
      BY <1>5, <2>1, <2>2, <2>3 DEF LivePreds, Edge
  <1>6. u \in Live => Position(t) <= Position(u)
    BY <1>1, <1>2, <1>3, <1>5
  <1>7. ASSUME u \in task_queue \cup running
        PROVE  u = t
    <2>1. u \in Live /\ LivePreds(u) = {}
      BY <1>7, ReadyTask
    <2>2. Position(u) <= Position(t)
      BY <1>1, <1>2, <1>3, <1>5, <2>1
    <2>3. Position(u) = Position(t)
      BY <1>3, <1>6, <2>1, <2>2
    <2> QED
      BY <1>1, <1>2, <2>3, PositionInjective
  <1> QED
    BY <1>4, <1>6, <1>7

\* Nothing of the chain lies between the execution of a stage and what it waits for.
LEMMA StageIsNext ==
  ASSUME GraphInv, NEW t \in task_queue \cup running, t.type \in {"EXECUTE", "SCORING"},
         NEW j \in Stages(Sub(t.id)), j > 0,
         ExecuteTask(t.id, t.td, j) \in Live, BeforeStage(t.id, t.td, j) \notin Live
  PROVE  t = ExecuteTask(t.id, t.td, j)
  <1> DEFINE e == ExecuteTask(t.id, t.td, j)
             b == BeforeStage(t.id, t.td, j)
  <1>1. Sub(t.id) \in Submissions /\ t \in TasksOf(t.id, Sub(t.id)) /\ t.td \in Tds(Sub(t.id))
    BY TaskContext, PositionType
  <1>2. e \in ChainTasks(t.id, t.td) /\ b \in ChainTasks(t.id, t.td) /\ Position(e) = 2 * j
        /\ Position(b) \in Nat /\ j \in Nat
    BY <1>1, ChainMembers, StagesType
  <1>3. Position(t) <= Position(e) /\ ~(Position(t) <= Position(b))
    BY <1>2, ChainSplit
  <1>4. Position(t) \in Nat /\ t.stage \in Nat
    BY <1>1, PositionType, TaskContext
  <1>5. Position(t) = Position(e)
    <2>1. CASE Sub(t.id).judge_between_stages
      <3>1. Position(b) = 2 * j - 1
        BY <1>2, <2>1 DEF BeforeStage, ScoringTask, Position
      <3> QED
        BY <1>2, <1>3, <1>4, <3>1
    <2>2. CASE ~Sub(t.id).judge_between_stages
      <3>1. Position(b) = 2 * j - 2
        BY <1>2, <2>2 DEF BeforeStage, ExecuteTask, Position
      <3>2. t.type = "SCORING" => t.stage = LastStage(Sub(t.id))
        <4>1. t.type = "SCORING" => t.stage \in ScoringStages(Sub(t.id))
          BY <1>1, TaskShapes
        <4>2. ScoringStages(Sub(t.id)) = {LastStage(Sub(t.id))}
          BY <2>2 DEF ScoringStages
        <4> QED
          BY <4>1, <4>2
      <3>3. j <= LastStage(Sub(t.id)) /\ LastStage(Sub(t.id)) \in Nat
        BY <1>1, StagesType DEF Stages, LastStage
      <3> QED
        BY <1>2, <1>3, <1>4, <3>1, <3>2, <3>3 DEF Position
    <2> QED
      BY <2>1, <2>2
  <1> HIDE DEF e
  <1>6. SameTd(t, e) /\ e \in TasksOf(t.id, Sub(t.id))
    BY <1>2 DEF ChainTasks, SameTd
  <1>7. t = e
    BY <1>1, <1>5, <1>6, PositionInjective
  <1> QED
    BY <1>7 DEF e

-----------------------------------------------------------------------------
(* What a step leaves alone. *)

\* The step is not about the testdatum.
TdFrame(id, td) ==
  /\ Sub(id)' = Sub(id)
  /\ SubVerdict(id) # NUL => SubVerdict(id)' # NUL
  /\ TdCancelled(id, td) => TdCancelled(id, td)'
  /\ TdRes(id, td)' = TdRes(id, td)
  /\ td \in DOMAIN TdResults(id) => td \in DOMAIN TdResults(id)'
  /\ \A u \in ChainTasks(id, td) : (u \in Live' <=> u \in Live) /\ (u \in running' <=> u \in running)
  /\ \A j : <<id, td, j>> \in outputs => <<id, td, j>> \in outputs'

\* The step is not about the submission, except that a push may cancel it.
SubFrame(id) ==
  /\ Sub(id)' = Sub(id)
  /\ SubVerdict(id)' = SubVerdict(id)
  /\ TdResults(id)' = TdResults(id)
  /\ id \in cancelled_list => id \in cancelled_list'
  /\ \A g : <<id, g>> \in cancelled_group' <=> <<id, g>> \in cancelled_group
  /\ \A s : <<id, s>> \in compiled => <<id, s>> \in compiled'
  /\ \A td, j : <<id, td, j>> \in outputs => <<id, td, j>> \in outputs'
  /\ \A u : u.id = id => (u \in Live' <=> u \in Live) /\ (u \in running' <=> u \in running)

\* What no step touches stays right.
LEMMA FrameKeepsTd ==
  ASSUME NEW id, Sub(id) \in Submissions, NEW td \in Tds(Sub(id)), TdOk(id, td), TdFrame(id, td)
  PROVE  TdOk(id, td)'
  <1>1. /\ FirstTask(id, td)' = FirstTask(id, td) /\ LastTask(id, td)' = LastTask(id, td)
        /\ Stages(Sub(id))' = Stages(Sub(id))
        /\ \A j : BeforeStage(id, td, j)' = BeforeStage(id, td, j)
        /\ ChainTasks(id, td)' = ChainTasks(id, td)
    BY DEF TdFrame, FirstTask, LastTask, BeforeStage, ChainTasks
  <1>2. Given(id, td) => Given(id, td)'
    BY DEF TdFrame, Given
  <1>3. /\ FirstTask(id, td) \in Live' <=> FirstTask(id, td) \in Live
        /\ LastTask(id, td) \in Live' <=> LastTask(id, td) \in Live
    BY ChainMembers DEF TdFrame
  <1>4. TdRes(id, td)' = TdRes(id, td)
    BY DEF TdFrame
  <1>5. TdStarted(id, td)'
    BY <1>1, <1>2, <1>3, <1>4 DEF TdOk, TdStarted, TdFrame
  <1>6. TdInput(id, td)'
    <2> SUFFICES ASSUME NEW j \in Stages(Sub(id)), j > 0,
                        ExecuteTask(id, td, j) \in Live' \ running',
                        BeforeStage(id, td, j) \notin Live'
                 PROVE  \/ Given(id, td)'
                        \/ TdRes(id, td)'.skip_stage
                        \/ TdRes(id, td)'.verdict # NUL
                        \/ <<id, td, j - 1>> \in outputs'
      BY <1>1 DEF TdInput
    <2>1. ExecuteTask(id, td, j) \in Live \ running /\ BeforeStage(id, td, j) \notin Live
      BY ChainMembers DEF TdFrame
    <2>2. \/ Given(id, td) \/ TdRes(id, td).skip_stage \/ TdRes(id, td).verdict # NUL
          \/ <<id, td, j - 1>> \in outputs
      BY <2>1 DEF TdOk, TdInput
    <2> QED
      BY <1>2, <1>4, <2>2 DEF TdFrame
  <1>7. running' \cap ChainTasks(id, td) = running \cap ChainTasks(id, td)
    BY DEF TdFrame
  <1>8. TdSkipped(id, td)' /\ TdScored(id, td)'
    BY <1>1, <1>4, <1>7 DEF TdOk, TdSkipped, TdScored, TdFrame
  <1>9. TdDone(id, td)'
    BY <1>1, <1>2, <1>3, <1>4 DEF TdOk, TdDone
  <1> QED
    BY <1>5, <1>6, <1>8, <1>9 DEF TdOk

\* A submission that a step is not about stays right.
LEMMA SubFrameKeeps ==
  ASSUME NEW id, Sub(id) \in Submissions, SubOk(id), SubFrame(id)
  PROVE  SubOk(id)'
  <1>1. \A td : TdRes(id, td)' = TdRes(id, td)
    BY DEF SubFrame, TdRes
  <1>2. ASSUME NEW td \in Tds(Sub(id)) PROVE TdOk(id, td)'
    <2>1. TdCancelled(id, td) => TdCancelled(id, td)'
      BY DEF SubFrame, TdCancelled
    <2>2. \A u \in ChainTasks(id, td) : u.id = id
      BY ChainMembers
    <2>3. TdFrame(id, td)
      BY <1>1, <2>1, <2>2 DEF SubFrame, TdFrame
    <2> QED
      BY <2>3, FrameKeepsTd DEF SubOk
  <1>3. CompiledOk(id)'
    <2>1. \A s : CompileTask(id, s).id = id
      BY DEF CompileTask
    <2> QED
      BY <2>1 DEF SubOk, CompiledOk, SubFrame
  <1>4. ProgramsOk(id)'
    <2>1. \A t : t.id = id => ProgramOf(t)' = ProgramOf(t)
      BY DEF SubFrame, ProgramOf
    <2> QED
      BY <2>1 DEF SubOk, ProgramsOk, SubFrame
  <1>5. VerdictOk(id)'
    <2>1. SummaryTask(id).id = id
      BY DEF SummaryTask
    <2> QED
      BY <2>1 DEF SubOk, VerdictOk, SubFrame
  <1>6. GroupsOk(id)'
    <2>1. \A k : LastTask(id, k)' = LastTask(id, k) /\ LastTask(id, k).id = id
      BY DEF SubFrame, LastTask, ScoringTask
    <2>2. \A v : Failed(v)' <=> Failed(v)
      BY DEF Failed
    <2> SUFFICES ASSUME NEW g \in Nat, <<id, g>> \in cancelled_group'
                 PROVE  /\ Sub(id)'.skip_group
                        /\ \E k \in Tds(Sub(id))' :
                             /\ g \in Sub(id)'.testdata[k].td_groups
                             /\ Failed(TdRes(id, k)'.verdict)
                             /\ TdRes(id, k)'.skip_stage \/ LastTask(id, k)' \notin Live'
      BY <2>2 DEF GroupsOk
    <2>3. /\ Sub(id).skip_group
          /\ \E k \in Tds(Sub(id)) :
               /\ g \in Sub(id).testdata[k].td_groups
               /\ Failed(TdRes(id, k).verdict)
               /\ TdRes(id, k).skip_stage \/ LastTask(id, k) \notin Live
      BY DEF SubOk, GroupsOk, SubFrame
    <2>4. Sub(id)' = Sub(id) /\ Tds(Sub(id))' = Tds(Sub(id))
          /\ \A k : LastTask(id, k) \in Live' <=> LastTask(id, k) \in Live
      BY <2>1 DEF SubFrame
    <2> QED
      BY <1>1, <2>1, <2>3, <2>4
  <1>7. Tds(Sub(id))' = Tds(Sub(id))
    BY DEF SubFrame
  <1> QED
    BY <1>2, <1>3, <1>4, <1>5, <1>6, <1>7 DEF SubOk

-----------------------------------------------------------------------------
(* The testdatum that a step is about. *)

\* What a task of a testdatum is about.
LEMMA OwnContext ==
  ASSUME GraphInv, NEW t \in task_queue \cup running, t.type \in {"EXECUTE", "SCORING"}
  PROVE  /\ t.id \in Active /\ Sub(t.id) \in Submissions /\ t.td \in Tds(Sub(t.id))
         /\ t \in Live /\ t \in ChainTasks(t.id, t.td)
         /\ IsCancelled(t) <=> TdCancelled(t.id, t.td)
  <1>1. /\ t.id \in Active /\ Sub(t.id) \in Submissions
        /\ t \in TasksOf(t.id, Sub(t.id)) /\ t \in Live
    BY TaskContext, ReadyTask
  <1>2. t.td \in Tds(Sub(t.id))
    BY <1>1, PositionType
  <1> QED
    BY <1>1, <1>2 DEF ChainTasks, IsCancelled, TdCancelled

\* Behind the first execution of a testdatum that is still to be judged there is a
\* result: the Setup functions do not read past the end of td_results.
LEMMA ResultExists ==
  ASSUME GraphInv, NEW t \in task_queue \cup running, t.type \in {"EXECUTE", "SCORING"},
         TdStarted(t.id, t.td), ~Given(t.id, t.td), t.type = "SCORING" \/ t.stage > 0
  PROVE  t.td \in DOMAIN TdResults(t.id) /\ TdRes(t.id, t.td) = Td(t)
  <1>1. /\ Sub(t.id) \in Submissions /\ t.td \in Tds(Sub(t.id))
        /\ t \in TasksOf(t.id, Sub(t.id))
    BY OwnContext, TaskContext
  <1>2. FirstTask(t.id, t.td) \in ChainTasks(t.id, t.td) /\ Position(FirstTask(t.id, t.td)) = 0
    BY <1>1, ChainMembers
  <1>3. t.stage \in Nat
    BY TaskContext
  <1>4. Position(t) > 0
    BY <1>3 DEF Position
  <1>5. FirstTask(t.id, t.td) \notin Live
    BY <1>2, <1>3, <1>4, ChainSplit DEF Position
  <1> QED
    BY <1>5 DEF TdStarted, TdRes, Td, TdResults

\* Removing a task makes only the stage behind it the next one.
LEMMA AfterRemoval ==
  ASSUME GraphInv, NEW t \in task_queue \cup running, t.type \in {"EXECUTE", "SCORING"},
         NEW j \in Stages(Sub(t.id)), j > 0,
         ExecuteTask(t.id, t.td, j) \in Live \ {t}, BeforeStage(t.id, t.td, j) \notin Live \ {t}
  PROVE  t = BeforeStage(t.id, t.td, j) /\ t.stage = j - 1
  <1>1. t = BeforeStage(t.id, t.td, j)
    BY StageIsNext
  <1> QED
    BY <1>1 DEF BeforeStage, ExecuteTask, ScoringTask

\* The names that TdOk is made of, when the submissions are the same.
LEMMA SameNames ==
  ASSUME NEW id, NEW td, pushed' = pushed
  PROVE  /\ Sub(id)' = Sub(id)
         /\ FirstTask(id, td)' = FirstTask(id, td) /\ LastTask(id, td)' = LastTask(id, td)
         /\ Stages(Sub(id))' = Stages(Sub(id)) /\ Tds(Sub(id))' = Tds(Sub(id))
         /\ \A j : BeforeStage(id, td, j)' = BeforeStage(id, td, j)
         /\ ChainTasks(id, td)' = ChainTasks(id, td)
  BY DEF Sub, FirstTask, LastTask, BeforeStage, ChainTasks

\* RunTask of a task that its Setup function did not skip.
LEMMA OwnRun ==
  ASSUME GraphInv, NEW t \in task_queue, t.type \in {"EXECUTE", "SCORING"},
         TdOk(t.id, t.td), Run(t),
         UNCHANGED <<pushed, submission_list, cancelled_list, cancelled_group>>,
         ~TdRes(t.id, t.td).skip_stage,
         t.type = "SCORING" => t.td \in DOMAIN TdResults(t.id)
  PROVE  TdOk(t.id, t.td)'
  <1>1. /\ Sub(t.id) \in Submissions /\ t.td \in Tds(Sub(t.id)) /\ t \in Live
        /\ t \in ChainTasks(t.id, t.td)
    BY OwnContext
  <1>2. Live' = Live /\ running' = running \cup {t}
    BY DEF Run, Live
  <1>3. /\ TdRes(t.id, t.td)' = TdRes(t.id, t.td) /\ TdResults(t.id)' = TdResults(t.id)
        /\ Given(t.id, t.td)' <=> Given(t.id, t.td)
    BY DEF TdRes, TdResults, Given, TdCancelled, SubVerdict, Sub
  <1>4. /\ FirstTask(t.id, t.td)' = FirstTask(t.id, t.td)
        /\ LastTask(t.id, t.td)' = LastTask(t.id, t.td)
        /\ Stages(Sub(t.id))' = Stages(Sub(t.id))
        /\ \A j : BeforeStage(t.id, t.td, j)' = BeforeStage(t.id, t.td, j)
        /\ ChainTasks(t.id, t.td)' = ChainTasks(t.id, t.td)
    BY SameNames
  <1>5. TdStarted(t.id, t.td)'
    BY <1>2, <1>3, <1>4 DEF TdOk, TdStarted
  <1>6. TdInput(t.id, t.td)'
    <2> SUFFICES ASSUME NEW j \in Stages(Sub(t.id)), j > 0,
                        ExecuteTask(t.id, t.td, j) \in Live' \ running',
                        BeforeStage(t.id, t.td, j) \notin Live'
                 PROVE  FALSE
      BY <1>4 DEF TdInput
    <2>1. t = ExecuteTask(t.id, t.td, j)
      BY <1>2, StageIsNext
    <2> QED
      BY <1>2, <2>1
  <1>7. TdSkipped(t.id, t.td)'
    BY <1>3 DEF TdSkipped
  <1>8. TdScored(t.id, t.td)'
    BY <1>2, <1>3, <1>4 DEF TdOk, TdScored
  <1>9. TdDone(t.id, t.td)'
    BY <1>2, <1>3, <1>4 DEF TdOk, TdDone
  <1> QED
    BY <1>5, <1>6, <1>7, <1>8, <1>9 DEF TdOk

\* Removal of a task that its Setup function skipped.
LEMMA OwnSkip ==
  ASSUME GraphInv, NEW t \in task_queue, t.type \in {"EXECUTE", "SCORING"},
         TdOk(t.id, t.td), RemoveTask(t),
         UNCHANGED <<pushed, submission_list, cancelled_list, cancelled_group>>,
         \/ Given(t.id, t.td)
         \/ /\ t.type = "EXECUTE" /\ t.stage > 0
            /\ TdRes(t.id, t.td).skip_stage \/ TdRes(t.id, t.td).verdict # NUL
         \/ t.type = "SCORING" /\ TdRes(t.id, t.td).skip_stage
  PROVE  TdOk(t.id, t.td)'
  <1>1. /\ Sub(t.id) \in Submissions /\ t.td \in Tds(Sub(t.id)) /\ t \in Live
        /\ t \in ChainTasks(t.id, t.td)
    BY OwnContext
  <1>2. Live' = Live \ {t} /\ running' = running \ {t}
    BY DEF RemoveTask, Live
  <1>3. /\ TdRes(t.id, t.td)' = TdRes(t.id, t.td) /\ TdResults(t.id)' = TdResults(t.id)
        /\ Given(t.id, t.td)' <=> Given(t.id, t.td)
    BY DEF TdRes, TdResults, Given, TdCancelled, SubVerdict, Sub
  <1>4. /\ FirstTask(t.id, t.td)' = FirstTask(t.id, t.td)
        /\ LastTask(t.id, t.td)' = LastTask(t.id, t.td)
        /\ Stages(Sub(t.id))' = Stages(Sub(t.id))
        /\ \A j : BeforeStage(t.id, t.td, j)' = BeforeStage(t.id, t.td, j)
        /\ ChainTasks(t.id, t.td)' = ChainTasks(t.id, t.td)
    BY SameNames
  <1>5. TdStarted(t.id, t.td)'
    <2>1. t = FirstTask(t.id, t.td) => Given(t.id, t.td)
      BY DEF FirstTask, ExecuteTask
    <2> QED
      BY <1>2, <1>3, <1>4, <2>1 DEF TdOk, TdStarted
  <1>6. TdInput(t.id, t.td)'
    <2> SUFFICES ASSUME NEW j \in Stages(Sub(t.id)), j > 0,
                        ExecuteTask(t.id, t.td, j) \in Live' \ running',
                        BeforeStage(t.id, t.td, j) \notin Live'
                 PROVE  \/ Given(t.id, t.td)'
                        \/ TdRes(t.id, t.td)'.skip_stage
                        \/ TdRes(t.id, t.td)'.verdict # NUL
      BY <1>4 DEF TdInput
    <2> QED
      BY <1>3
  <1>7. TdSkipped(t.id, t.td)'
    BY <1>2, <1>3, <1>4 DEF TdOk, TdSkipped
  <1>8. TdScored(t.id, t.td)'
    BY <1>2, <1>3, <1>4 DEF TdOk, TdScored
  <1>9. TdDone(t.id, t.td)'
    <2>1. t = LastTask(t.id, t.td) => Given(t.id, t.td) \/ TdRes(t.id, t.td).skip_stage
      BY DEF LastTask, ScoringTask
    <2>2. t = LastTask(t.id, t.td) => Given(t.id, t.td) \/ TdRes(t.id, t.td).verdict # NUL
      BY <2>1 DEF TdOk, TdSkipped
    <2> QED
      BY <1>2, <1>3, <1>4, <2>2 DEF TdOk, TdDone
  <1> QED
    BY <1>5, <1>6, <1>7, <1>8, <1>9 DEF TdOk

\* A task is finalized: its result is there and its output is where the next stage
\* looks for it, unless there is a verdict.
LEMMA OwnEnds ==
  ASSUME GraphInv, NEW t \in task_queue \cup running, t.type \in {"EXECUTE", "SCORING"},
         TdOk(t.id, t.td), RemoveTask(t), pushed' = pushed,
         t.td \in DOMAIN TdResults(t.id)',
         TdRes(t.id, t.td)'.skip_stage => TdRes(t.id, t.td)'.verdict # NUL,
         t = LastTask(t.id, t.td) => TdRes(t.id, t.td)'.verdict # NUL,
         t # LastTask(t.id, t.td) => TdRes(t.id, t.td)'.verdict # NUL \/ OutputOf(t) \in outputs'
  PROVE  TdOk(t.id, t.td)'
  <1>1. /\ Sub(t.id) \in Submissions /\ t.td \in Tds(Sub(t.id)) /\ t \in Live
        /\ t \in ChainTasks(t.id, t.td)
    BY OwnContext
  <1>2. Live' = Live \ {t} /\ running' = running \ {t}
    BY DEF RemoveTask, Live
  <1>4. /\ FirstTask(t.id, t.td)' = FirstTask(t.id, t.td)
        /\ LastTask(t.id, t.td)' = LastTask(t.id, t.td)
        /\ Stages(Sub(t.id))' = Stages(Sub(t.id))
        /\ \A j : BeforeStage(t.id, t.td, j)' = BeforeStage(t.id, t.td, j)
        /\ ChainTasks(t.id, t.td)' = ChainTasks(t.id, t.td)
    BY SameNames
  <1>5. TdStarted(t.id, t.td)'
    <2>1. FirstTask(t.id, t.td) \in Live => FirstTask(t.id, t.td) = t
      <3>1. /\ FirstTask(t.id, t.td) \in ChainTasks(t.id, t.td)
            /\ Position(FirstTask(t.id, t.td)) = 0 /\ Position(t) \in Nat
        BY <1>1, ChainMembers
      <3>2. FirstTask(t.id, t.td) \in Live => Position(t) = 0
        BY <3>1, ChainSplit
      <3>3. SameTd(t, FirstTask(t.id, t.td))
            /\ FirstTask(t.id, t.td) \in TasksOf(t.id, Sub(t.id)) /\ t \in TasksOf(t.id, Sub(t.id))
        BY <1>1, <3>1 DEF ChainTasks, SameTd
      <3> QED
        BY <1>1, <3>1, <3>2, <3>3, PositionInjective
    <2> QED
      BY <1>2, <1>4, <2>1 DEF TdStarted
  <1>6. TdInput(t.id, t.td)'
    <2> SUFFICES ASSUME NEW j \in Stages(Sub(t.id)), j > 0,
                        ExecuteTask(t.id, t.td, j) \in Live' \ running',
                        BeforeStage(t.id, t.td, j) \notin Live'
                 PROVE  \/ TdRes(t.id, t.td)'.verdict # NUL
                        \/ <<t.id, t.td, j - 1>> \in outputs'
      BY <1>4 DEF TdInput
    <2>1. t = BeforeStage(t.id, t.td, j) /\ t.stage = j - 1
      BY <1>2, AfterRemoval
    <2> QED
      BY <2>1 DEF OutputOf
  <1>7. running' \cap ChainTasks(t.id, t.td) = {}
    BY <1>2, ChainSplit
  <1>8. TdSkipped(t.id, t.td)' /\ TdScored(t.id, t.td)'
    BY <1>4, <1>7 DEF TdSkipped, TdScored
  <1>9. TdDone(t.id, t.td)'
    <2>1. LastTask(t.id, t.td) \in Live
      BY <1>1, ChainMembers, ChainSplit
    <2> QED
      BY <1>2, <1>4, <2>1 DEF TdDone
  <1> QED
    BY <1>5, <1>6, <1>8, <1>9 DEF TdOk

-----------------------------------------------------------------------------
(* The results after each Finalize function. *)

\* Only the submission's own entry, and of td_results only the testdatum's, is written.
OwnWrite(t) ==
  /\ Active' = Active
  /\ SubVerdict(t.id)' = SubVerdict(t.id)
  /\ t.td \in DOMAIN TdResults(t.id)'
  /\ \A td : td \in DOMAIN TdResults(t.id) => td \in DOMAIN TdResults(t.id)'
  /\ \A td : td # t.td => TdRes(t.id, td)' = TdRes(t.id, td)
  /\ \A id \in Active : id # t.id => submission_list'[id] = submission_list[id]

\* FinalizeExecute resizes td_results and sets the verdict of the testdatum.
LEMMA ExecuteResults ==
  ASSUME GraphInv, DataInv, NEW t \in running, t.type = "EXECUTE", NEW v, FinalizeExecute(t, v)
  PROVE  /\ OwnWrite(t)
         /\ TdRes(t.id, t.td)'.verdict = v
         /\ TdRes(t.id, t.td)'.skip_stage = TdRes(t.id, t.td).skip_stage
  <1>1. t.id \in Active /\ t.td \in Nat /\ t.td >= 1
    BY TaskContext, OwnContext DEF Tds
  <1>2. submission_list \in [Active -> Result] /\ submission_list[t.id] \in Result
        /\ submission_list[t.id].td_results \in Seq(TdResult)
    BY <1>1 DEF DataInv, Result
  <1> DEFINE tds == submission_list[t.id].td_results
             new == ResizeAndSet(tds, t.td, v)
  <1>3. /\ submission_list'[t.id].verdict = submission_list[t.id].verdict
        /\ submission_list'[t.id].td_results = new
        /\ Active' = Active
        /\ \A id \in Active : id # t.id => submission_list'[id] = submission_list[id]
    BY <1>1, <1>2 DEF FinalizeExecute, Active, Result
  <1>4. /\ DOMAIN new = 1 .. (IF t.td > Len(tds) THEN t.td ELSE Len(tds))
        /\ \A i \in DOMAIN new : i # t.td =>
             new[i] = IF i <= Len(tds) THEN tds[i] ELSE NewTdResult
        /\ t.td \in DOMAIN new =>
             new[t.td] = [(IF t.td <= Len(tds) THEN tds[t.td] ELSE NewTdResult) EXCEPT !.verdict = v]
    BY DEF ResizeAndSet
  <1>5. Len(tds) \in Nat /\ DOMAIN tds = 1 .. Len(tds)
    BY <1>2
  <1> HIDE DEF new
  <1>6. t.td \in DOMAIN new /\ \A td : td \in DOMAIN tds => td \in DOMAIN new
    BY <1>1, <1>4, <1>5
  <1>7. ASSUME NEW td, td # t.td PROVE TdRes(t.id, td)' = TdRes(t.id, td)
    <2>1. td \in DOMAIN tds => td \in DOMAIN new /\ new[td] = tds[td]
      BY <1>4, <1>5, <1>6, <1>7
    <2>2. td \in DOMAIN new /\ td \notin DOMAIN tds => new[td] = NewTdResult
      BY <1>4, <1>5, <1>7
    <2> QED
      BY <1>3, <2>1, <2>2 DEF TdRes, TdResults, NewTdResult
  <1>8. new[t.td] = [TdRes(t.id, t.td) EXCEPT !.verdict = v]
    BY <1>1, <1>4, <1>5, <1>6 DEF TdRes, TdResults
  <1>9. TdRes(t.id, t.td) \in TdResult
    <2>1. NewTdResult \in TdResult
      BY VerdictType DEF TdResult, NewTdResult
    <2>2. t.td \in DOMAIN tds => tds[t.td] \in TdResult
      BY <1>2
    <2> QED
      BY <2>1, <2>2 DEF TdRes, TdResults
  <1>10. TdRes(t.id, t.td)' = new[t.td]
    BY <1>3, <1>6 DEF TdRes, TdResults
  <1>11. /\ TdRes(t.id, t.td)'.verdict = v
         /\ TdRes(t.id, t.td)'.skip_stage = TdRes(t.id, t.td).skip_stage
    BY <1>8, <1>9, <1>10 DEF TdResult
  <1>12. OwnWrite(t)
    BY <1>3, <1>6, <1>7 DEF OwnWrite, SubVerdict, TdResults
  <1> QED
    BY <1>11, <1>12

\* FinalizeScoring writes the verdict and the mark that the stages end here.
LEMMA ScoringResults ==
  ASSUME GraphInv, DataInv, NEW t \in task_queue \cup running, t.type = "SCORING", NEW v,
         NEW skipped, NEW outs, FinalizeScoring(t, v, skipped, outs),
         t.td \in DOMAIN TdResults(t.id), ~TdRes(t.id, t.td).skip_stage
  PROVE  /\ OwnWrite(t)
         /\ TdRes(t.id, t.td)'.verdict = IF IsLast(t) /\ v = NUL THEN WA ELSE v
         /\ TdRes(t.id, t.td)'.skip_stage <=> ~IsLast(t) /\ v # NUL
  <1>1. t.id \in Active
    BY TaskContext
  <1>2. submission_list \in [Active -> Result] /\ submission_list[t.id] \in Result
        /\ submission_list[t.id].td_results \in Seq(TdResult)
    BY <1>1 DEF DataInv, Result
  <1> DEFINE final == IF IsLast(t) /\ v = NUL THEN WA ELSE v
             skip  == Td(t).skip_stage \/ (~IsLast(t) /\ v # NUL)
             entry == [verdict |-> final, skip_stage |-> skip]
             tds   == submission_list[t.id].td_results
             new   == [tds EXCEPT ![t.td] = entry]
  <1>3. submission_list' = [submission_list EXCEPT ![t.id].td_results[t.td] = entry]
    BY DEF FinalizeScoring
  <1>4. Td(t) = TdRes(t.id, t.td) /\ t.td \in DOMAIN tds
    BY DEF Td, TdRes, TdResults
  <1>5. entry.verdict = final /\ (entry.skip_stage <=> ~IsLast(t) /\ v # NUL)
    BY <1>4
  <1> HIDE DEF entry
  <1>6. /\ submission_list'[t.id].verdict = submission_list[t.id].verdict
        /\ submission_list'[t.id].td_results = new
        /\ Active' = Active
        /\ \A id \in Active : id # t.id => submission_list'[id] = submission_list[id]
    BY <1>1, <1>2, <1>3 DEF Active, Result
  <1>7. /\ DOMAIN new = DOMAIN tds /\ new[t.td] = entry
        /\ \A i \in DOMAIN tds : i # t.td => new[i] = tds[i]
    BY <1>2, <1>4
  <1> HIDE DEF new
  <1>8. ASSUME NEW td, td # t.td PROVE TdRes(t.id, td)' = TdRes(t.id, td)
    BY <1>6, <1>7, <1>8 DEF TdRes, TdResults, NewTdResult
  <1>9. TdRes(t.id, t.td)' = entry
    BY <1>4, <1>6, <1>7 DEF TdRes, TdResults
  <1>10. OwnWrite(t)
    BY <1>4, <1>6, <1>7, <1>8 DEF OwnWrite, SubVerdict, TdResults
  <1> QED
    BY <1>5, <1>9, <1>10

-----------------------------------------------------------------------------
(* The submission that a step is about. *)

\* The program that a task is set up with was compiled: the compilation is linked
\* to the first user, which is not behind the task in the chain.
LEMMA ProgramCompiled ==
  ASSUME GraphInv, NEW t \in task_queue, t.type \in {"EXECUTE", "SCORING"}, CompiledOk(t.id),
         SubVerdict(t.id) = NUL, t.id \notin cancelled_list,
         t.type = "SCORING" => Sub(t.id).specjudge_type # "NORMAL"
  PROVE  <<t.id, ProgramOf(t)>> \in compiled
  <1>1. /\ Sub(t.id) \in Submissions /\ t \in TasksOf(t.id, Sub(t.id)) /\ t.td \in Tds(Sub(t.id))
        /\ LivePreds(t) = {} /\ t.stage \in Stages(Sub(t.id)) /\ t.stage \in Nat
    BY TaskContext, OwnContext, PositionType, ReadyTask
  <1>2. ASSUME NEW s \in Compiles(Sub(t.id)), NEW u \in ChainTasks(t.id, t.td),
               Link(Sub(t.id), CompileTask(t.id, s), u), Position(u) <= Position(t)
        PROVE  CompileTask(t.id, s) \notin Live
    <2>1. u \in TasksOf(t.id, Sub(t.id)) /\ u.id = t.id /\ CompileTask(t.id, s).id = t.id
          /\ SameTd(t, u)
      BY TaskShapes DEF ChainTasks, CompileTask, SameTd
    <2>2. Edge(CompileTask(t.id, s), u)
      BY <1>2, <2>1 DEF Edge
    <2>3. CompileTask(t.id, s) \in Live => u \in Live
      BY <2>1, <2>2 DEF GraphInv, SummaryIsLast
    <2>4. u \in Live => u = t
      <3>1. u \in Live => Position(t) <= Position(u)
        BY ChainSplit
      <3>2. Position(t) \in Nat /\ Position(u) \in Nat
        BY <1>1, <2>1, PositionType DEF SameTd
      <3>3. Position(t) = Position(u) => t = u
        BY <1>1, <2>1, PositionInjective
      <3> QED
        BY <1>2, <3>1, <3>2, <3>3
    <2> QED
      BY <1>1, <2>2, <2>3, <2>4 DEF LivePreds
  <1>3. ASSUME NEW s \in Compiles(Sub(t.id)), s # "SUMMARY", CompileTask(t.id, s) \notin Live
        PROVE  <<t.id, s>> \in compiled
    BY <1>3 DEF CompiledOk
  <1>4. CASE t.type = "EXECUTE" /\ t.stage \in Sub(t.id).problem_prog_stages
    <2> DEFINE m == Min(Sub(t.id).problem_prog_stages)
               u == ExecuteTask(t.id, t.td, m)
    <2>1. m \in Stages(Sub(t.id)) /\ m <= t.stage /\ m \in Nat
      BY <1>1, <1>4, MinIsElement, StagesType, SubmissionsAssumption
    <2>2. "PROBPROG" \in Compiles(Sub(t.id))
      BY <1>4 DEF Compiles, CompileSubtask
    <2>3. u.type = "EXECUTE" /\ u.stage = m
      BY DEF ExecuteTask
    <2>4. u \in ChainTasks(t.id, t.td) /\ Position(u) = 2 * m
      BY <1>1, <2>1, ChainMembers
    <2> HIDE DEF u
    <2>5. Link(Sub(t.id), CompileTask(t.id, "PROBPROG"), u)
      BY <2>3 DEF Link, LinkCompile, CompileTask
    <2>6. Position(u) <= Position(t)
      BY <1>1, <1>4, <2>1, <2>4 DEF Position
    <2> QED
      BY <1>2, <1>3, <1>4, <2>2, <2>4, <2>5, <2>6 DEF ProgramOf
  <1>5. CASE t.type = "EXECUTE" /\ t.stage \notin Sub(t.id).problem_prog_stages
    <2> DEFINE m == Min(NonProbStages(Sub(t.id)))
               u == ExecuteTask(t.id, t.td, m)
    <2>0. t.stage \in NonProbStages(Sub(t.id)) /\ NonProbStages(Sub(t.id)) \subseteq Nat
      BY <1>1, <1>5, StagesType DEF NonProbStages
    <2>1. m \in Stages(Sub(t.id)) /\ m <= t.stage /\ m \in Nat
      BY <2>0, MinIsElement DEF NonProbStages
    <2>2. "USERPROG" \in Compiles(Sub(t.id))
      BY <2>0 DEF Compiles, CompileSubtask
    <2>3. u.type = "EXECUTE" /\ u.stage = m
      BY DEF ExecuteTask
    <2>4. u \in ChainTasks(t.id, t.td) /\ Position(u) = 2 * m
      BY <1>1, <2>1, ChainMembers
    <2> HIDE DEF u
    <2>5. Link(Sub(t.id), CompileTask(t.id, "USERPROG"), u)
      BY <2>3 DEF Link, LinkCompile, CompileTask
    <2>6. Position(u) <= Position(t)
      BY <1>1, <1>5, <2>1, <2>4 DEF Position
    <2> QED
      BY <1>2, <1>3, <1>5, <2>2, <2>4, <2>5, <2>6 DEF ProgramOf
  <1>6. CASE t.type = "SCORING"
    <2> DEFINE m == Min(ScoringStages(Sub(t.id)))
               u == ScoringTask(t.id, t.td, m)
    <2>0. t.stage \in ScoringStages(Sub(t.id)) /\ ScoringStages(Sub(t.id)) \subseteq Nat
      BY <1>1, <1>6, StagesType, TaskShapes
    <2>1. m \in ScoringStages(Sub(t.id)) /\ m <= t.stage /\ m \in Nat
      BY <2>0, MinIsElement
    <2>2. "SPECJUDGE" \in Compiles(Sub(t.id))
      BY <1>6 DEF Compiles, CompileSubtask
    <2>3. u.type = "SCORING" /\ u.stage = m /\ u.td = t.td
      BY DEF ScoringTask
    <2>4. u \in ChainTasks(t.id, t.td)
      BY <1>1, <2>1, <2>3, TaskMembership DEF ChainTasks
    <2> HIDE DEF u
    <2>5. Link(Sub(t.id), CompileTask(t.id, "SPECJUDGE"), u)
      BY <2>3 DEF Link, LinkCompile, CompileTask
    <2>6. Position(u) <= Position(t)
      BY <1>1, <1>6, <2>1, <2>3 DEF Position
    <2> QED
      BY <1>2, <1>3, <1>6, <2>2, <2>4, <2>5, <2>6 DEF ProgramOf
  <1> QED
    BY <1>4, <1>5, <1>6

\* A group that was cancelled stays explained, and a new one is explained by the
\* testdatum that fails.
LEMMA OwnGroups ==
  ASSUME GraphInv, NEW t \in task_queue \cup running, t.type \in {"EXECUTE", "SCORING"},
         GroupsOk(t.id), pushed' = pushed, Live' \subseteq Live,
         \A td : td # t.td => TdRes(t.id, td)' = TdRes(t.id, td),
         TdRes(t.id, t.td)' = TdRes(t.id, t.td) \/ ~TdRes(t.id, t.td).skip_stage,
         \A g \in Nat : <<t.id, g>> \in cancelled_group' =>
           \/ <<t.id, g>> \in cancelled_group
           \/ /\ Sub(t.id).skip_group /\ g \in Sub(t.id).testdata[t.td].td_groups
              /\ Failed(TdRes(t.id, t.td)'.verdict)
              /\ TdRes(t.id, t.td)'.skip_stage \/ LastTask(t.id, t.td) \notin Live'
  PROVE  GroupsOk(t.id)'
  <1>1. Sub(t.id) \in Submissions /\ t.td \in Tds(Sub(t.id))
        /\ t \in ChainTasks(t.id, t.td)
    BY OwnContext
  <1>2. LastTask(t.id, t.td) \in Live
    BY <1>1, ChainMembers, ChainSplit
  <1>3. /\ Sub(t.id)' = Sub(t.id) /\ Tds(Sub(t.id))' = Tds(Sub(t.id))
        /\ \A k : LastTask(t.id, k)' = LastTask(t.id, k)
    BY DEF Sub, LastTask
  <1>4. ASSUME NEW g \in Nat, <<t.id, g>> \in cancelled_group'
        PROVE  /\ Sub(t.id).skip_group
               /\ \E k \in Tds(Sub(t.id)) :
                    /\ g \in Sub(t.id).testdata[k].td_groups
                    /\ Failed(TdRes(t.id, k)'.verdict)
                    /\ TdRes(t.id, k)'.skip_stage \/ LastTask(t.id, k) \notin Live'
    <2>1. CASE <<t.id, g>> \in cancelled_group
      <3>1. Sub(t.id).skip_group
        BY <2>1 DEF GroupsOk
      <3>2. PICK k \in Tds(Sub(t.id)) :
              /\ g \in Sub(t.id).testdata[k].td_groups
              /\ Failed(TdRes(t.id, k).verdict)
              /\ TdRes(t.id, k).skip_stage \/ LastTask(t.id, k) \notin Live
        BY <2>1 DEF GroupsOk
      <3>3. TdRes(t.id, k)' = TdRes(t.id, k)
        BY <1>2, <3>2
      <3> QED
        BY <3>1, <3>2, <3>3
    <2>2. CASE /\ Sub(t.id).skip_group /\ g \in Sub(t.id).testdata[t.td].td_groups
               /\ Failed(TdRes(t.id, t.td)'.verdict)
               /\ TdRes(t.id, t.td)'.skip_stage \/ LastTask(t.id, t.td) \notin Live'
      BY <1>1, <2>2
    <2> QED
      BY <1>4, <2>1, <2>2
  <1>5. \A v : Failed(v)' <=> Failed(v)
    BY DEF Failed
  <1> QED
    BY <1>3, <1>4, <1>5 DEF GroupsOk

\* The whole submission, when one of its testdata has made a step.
LEMMA OwnSub ==
  ASSUME GraphInv, NEW t \in task_queue \cup running, t.type \in {"EXECUTE", "SCORING"},
         SubOk(t.id), pushed' = pushed, RemoveTask(t) \/ Run(t),
         UNCHANGED <<cancelled_list, compiled>>, cancelled_group \subseteq cancelled_group',
         SubVerdict(t.id)' = SubVerdict(t.id),
         \A td : td \in DOMAIN TdResults(t.id) => td \in DOMAIN TdResults(t.id)',
         \A td : td # t.td => TdRes(t.id, td)' = TdRes(t.id, td),
         \A td, j : td # t.td /\ <<t.id, td, j>> \in outputs => <<t.id, td, j>> \in outputs',
         Run(t) => \/ t.type = "SCORING" /\ Sub(t.id).specjudge_type = "NORMAL"
                   \/ <<t.id, ProgramOf(t)>> \in compiled,
         TdOk(t.id, t.td)', GroupsOk(t.id)'
  PROVE  SubOk(t.id)'
  <1>1. Sub(t.id) \in Submissions /\ Sub(t.id)' = Sub(t.id)
        /\ Tds(Sub(t.id))' = Tds(Sub(t.id))
    BY OwnContext DEF Sub
  <1>2. \A u : u # t => (u \in Live' <=> u \in Live) /\ (u \in running' <=> u \in running)
    BY DEF RemoveTask, Run, Live
  <1>3. ASSUME NEW td \in Tds(Sub(t.id)), td # t.td PROVE TdOk(t.id, td)'
    <2>1. \A u \in ChainTasks(t.id, td) : u # t
      BY <1>3 DEF ChainTasks
    <2>2. TdCancelled(t.id, td) => TdCancelled(t.id, td)'
      BY <1>1 DEF TdCancelled
    <2>3. TdFrame(t.id, td)
      BY <1>1, <1>2, <1>3, <2>1, <2>2 DEF TdFrame
    <2> QED
      BY <1>1, <2>3, FrameKeepsTd DEF SubOk
  <1>4. CompiledOk(t.id)'
    <2>1. \A s : CompileTask(t.id, s) # t
      BY DEF CompileTask
    <2> QED
      BY <1>1, <1>2, <2>1 DEF SubOk, CompiledOk
  <1>5. ProgramsOk(t.id)'
    <2>1. \A u : u.id = t.id => ProgramOf(u)' = ProgramOf(u)
      BY <1>1 DEF ProgramOf
    <2>2. \A u \in running' : u \in running \/ (u = t /\ Run(t))
      BY DEF RemoveTask, Run
    <2>3. ASSUME NEW u \in running', u.id = t.id,
                 u.type = "EXECUTE" \/ (u.type = "SCORING" /\ Sub(t.id).specjudge_type # "NORMAL")
          PROVE  <<t.id, ProgramOf(u)>> \in compiled
      BY <2>2, <2>3 DEF SubOk, ProgramsOk
    <2> QED
      BY <1>1, <2>1, <2>3 DEF ProgramsOk
  <1>6. VerdictOk(t.id)'
    <2>1. SummaryTask(t.id) # t
      BY DEF SummaryTask
    <2> QED
      BY <1>1, <1>2, <2>1 DEF SubOk, VerdictOk
  <1> QED
    BY <1>1, <1>3, <1>4, <1>5, <1>6 DEF SubOk

\* A task that its Setup function skips leaves its submission right.
LEMMA SkipOk ==
  ASSUME GraphInv, NEW t \in task_queue, t.type \in {"EXECUTE", "SCORING"}, SubOk(t.id),
         RemoveTask(t),
         UNCHANGED <<pushed, submission_list, cancelled_list, cancelled_group, compiled, outputs>>,
         t.type = "EXECUTE" => SkipExecute(t), t.type = "SCORING" => SkipScoring(t)
  PROVE  SubOk(t.id)'
  <1>1. Sub(t.id) \in Submissions /\ t.td \in Tds(Sub(t.id))
        /\ (IsCancelled(t) <=> TdCancelled(t.id, t.td))
    BY OwnContext
  <1>2. TdOk(t.id, t.td)
    BY <1>1 DEF SubOk
  <1>3. \/ Given(t.id, t.td)
        \/ /\ t.type = "EXECUTE" /\ t.stage > 0
           /\ TdRes(t.id, t.td).skip_stage \/ TdRes(t.id, t.td).verdict # NUL
        \/ t.type = "SCORING" /\ TdRes(t.id, t.td).skip_stage
    <2> SUFFICES ASSUME ~Given(t.id, t.td)
                 PROVE  \/ /\ t.type = "EXECUTE" /\ t.stage > 0
                           /\ TdRes(t.id, t.td).skip_stage \/ TdRes(t.id, t.td).verdict # NUL
                        \/ t.type = "SCORING" /\ TdRes(t.id, t.td).skip_stage
      OBVIOUS
    <2>1. t.type = "SCORING" \/ t.stage > 0
      BY <1>1 DEF SkipExecute, Given, SubVerdict
    <2>2. TdRes(t.id, t.td) = Td(t)
      BY <1>2, <2>1, ResultExists DEF TdOk
    <2> QED
      BY <1>1, <2>1, <2>2 DEF SkipExecute, SkipScoring, Given, SubVerdict
  <1>4. TdOk(t.id, t.td)'
    BY <1>2, <1>3, OwnSkip
  <1>5. \A td : TdRes(t.id, td)' = TdRes(t.id, td) /\ TdResults(t.id)' = TdResults(t.id)
    BY DEF TdRes, TdResults
  <1>6. SubVerdict(t.id)' = SubVerdict(t.id)
    BY DEF SubVerdict
  <1>7. Live' \subseteq Live /\ ~Run(t)
    <2>1. t \in Live
      BY OwnContext
    <2> QED
      BY <2>1 DEF RemoveTask, Run, Live
  <1>8. GroupsOk(t.id)'
    BY <1>5, <1>7, OwnGroups DEF SubOk
  <1> QED
    BY <1>4, <1>5, <1>6, <1>7, <1>8, OwnSub

\* A task that is dispatched leaves its submission right.
LEMMA RunOk ==
  ASSUME GraphInv, NEW t \in task_queue, t.type \in {"EXECUTE", "SCORING"}, SubOk(t.id), Run(t),
         UNCHANGED <<pushed, submission_list, cancelled_list, cancelled_group, compiled>>,
         NEW f, outputs' = outputs \ {<<t.id, t.td, f>>},
         t.type = "EXECUTE" => ~SkipExecute(t), t.type = "SCORING" => ~SkipScoring(t)
  PROVE  SubOk(t.id)'
  <1>1. Sub(t.id) \in Submissions /\ t.td \in Tds(Sub(t.id)) /\ t \in Live
        /\ (IsCancelled(t) <=> TdCancelled(t.id, t.td))
    BY OwnContext
  <1>2. TdOk(t.id, t.td)
    BY <1>1 DEF SubOk
  <1>3. ~Given(t.id, t.td)
    BY <1>1 DEF SkipExecute, SkipScoring, Given, SubVerdict
  <1>4. /\ ~TdRes(t.id, t.td).skip_stage
        /\ t.type = "SCORING" => t.td \in DOMAIN TdResults(t.id)
    <2>1. CASE t.type = "SCORING" \/ t.stage > 0
      <3>1. t.td \in DOMAIN TdResults(t.id) /\ TdRes(t.id, t.td) = Td(t)
        BY <1>2, <1>3, <2>1, ResultExists DEF TdOk
      <3> QED
        BY <2>1, <3>1 DEF SkipExecute, SkipScoring
    <2>2. CASE t.type = "EXECUTE" /\ ~(t.stage > 0)
      <3>1. t.stage \in Nat /\ t \in TasksOf(t.id, Sub(t.id))
        BY TaskContext
      <3>2. t = FirstTask(t.id, t.td)
        BY <2>2, <3>1, TaskShapes DEF FirstTask
      <3>3. TdRes(t.id, t.td) = NewTdResult
        BY <1>1, <1>2, <3>2 DEF TdOk, TdStarted
      <3> QED
        BY <2>2, <3>3 DEF NewTdResult
    <2> QED
      BY <2>1, <2>2
  <1>5. TdOk(t.id, t.td)'
    BY <1>2, <1>4, OwnRun
  <1>6. \A td : TdRes(t.id, td)' = TdRes(t.id, td) /\ TdResults(t.id)' = TdResults(t.id)
    BY DEF TdRes, TdResults
  <1>7. SubVerdict(t.id)' = SubVerdict(t.id)
    BY DEF SubVerdict
  <1>8. Live' \subseteq Live
    BY DEF Run, Live
  <1>9. GroupsOk(t.id)'
    BY <1>6, <1>8, OwnGroups DEF SubOk
  <1>10. \/ t.type = "SCORING" /\ Sub(t.id).specjudge_type = "NORMAL"
         \/ <<t.id, ProgramOf(t)>> \in compiled
    BY <1>3, ProgramCompiled DEF Given, TdCancelled, SubOk
  <1>11. \A td, j : td # t.td /\ <<t.id, td, j>> \in outputs => <<t.id, td, j>> \in outputs'
    OBVIOUS
  <1> QED
    BY <1>5, <1>6, <1>7, <1>9, <1>10, <1>11, OwnSub

\* FinalizeExecute leaves the submission right.
LEMMA ExecuteEndsOk ==
  ASSUME GraphInv, DataInv, NEW t \in running, t.type = "EXECUTE", SubOk(t.id), RemoveTask(t),
         pushed' = pushed, NEW v, FinalizeExecute(t, v)
  PROVE  SubOk(t.id)'
  <1>1. Sub(t.id) \in Submissions /\ t.td \in Tds(Sub(t.id)) /\ t \in Live
        /\ t \in ChainTasks(t.id, t.td) /\ t.stage \in Nat
    BY OwnContext, TaskContext
  <1>2. TdOk(t.id, t.td)
    BY <1>1 DEF SubOk
  <1>3. ~TdRes(t.id, t.td).skip_stage
    BY <1>1, <1>2 DEF TdOk, TdSkipped
  <1>4. /\ OwnWrite(t)
        /\ TdRes(t.id, t.td)'.verdict = v
        /\ TdRes(t.id, t.td)'.skip_stage = TdRes(t.id, t.td).skip_stage
    BY ExecuteResults
  <1>5. OutputOf(t) \in outputs'
    BY <1>1 DEF FinalizeExecute, OutputOf, PrevOutput
  <1>6. t # LastTask(t.id, t.td)
    BY DEF LastTask, ScoringTask
  <1>7. TdOk(t.id, t.td)'
    BY <1>2, <1>3, <1>4, <1>5, <1>6, OwnEnds DEF OwnWrite
  <1>8. Live' \subseteq Live /\ ~Run(t)
    BY <1>1 DEF RemoveTask, Run, Live
  <1>9. cancelled_group' = cancelled_group /\ cancelled_list' = cancelled_list /\ compiled' = compiled
    BY DEF FinalizeExecute, cancel
  <1>10. GroupsOk(t.id)'
    BY <1>3, <1>4, <1>8, <1>9, OwnGroups DEF SubOk, OwnWrite
  <1>11. \A td, j : td # t.td /\ <<t.id, td, j>> \in outputs => <<t.id, td, j>> \in outputs'
    BY DEF FinalizeExecute, PrevOutput
  <1> QED
    BY <1>4, <1>7, <1>8, <1>9, <1>10, <1>11, OwnSub DEF OwnWrite

\* FinalizeScoring leaves the submission right, if the output of a stage that is to
\* be followed by another is put back.
LEMMA ScoringFinalOk ==
  ASSUME GraphInv, DataInv, NEW t \in task_queue \cup running, t.type = "SCORING", SubOk(t.id),
         RemoveTask(t), pushed' = pushed, NEW v, NEW skipped, NEW outs,
         FinalizeScoring(t, v, skipped, outs),
         outs = outputs \/ outs = outputs \ {OutputOf(t)},
         t.td \in DOMAIN TdResults(t.id), ~TdRes(t.id, t.td).skip_stage,
         v = NUL => ~skipped /\ Sub(t.id).specjudge_type # "SKIP"
  PROVE  SubOk(t.id)'
  <1>1. Sub(t.id) \in Submissions /\ t.td \in Tds(Sub(t.id)) /\ t \in Live
        /\ t \in ChainTasks(t.id, t.td) /\ t \in TasksOf(t.id, Sub(t.id))
    BY OwnContext, TaskContext
  <1>2. TdOk(t.id, t.td)
    BY <1>1 DEF SubOk
  <1>3. /\ OwnWrite(t)
        /\ TdRes(t.id, t.td)'.verdict = IF IsLast(t) /\ v = NUL THEN WA ELSE v
        /\ TdRes(t.id, t.td)'.skip_stage <=> ~IsLast(t) /\ v # NUL
    BY ScoringResults
  <1>4. t = LastTask(t.id, t.td) <=> IsLast(t)
    BY <1>1, TaskShapes DEF LastTask, IsLast, ScoringTask
  <1>5. ASSUME ~IsLast(t), v = NUL PROVE OutputOf(t) \in outputs'
    <2>1. Td(t) = TdRes(t.id, t.td)
      BY DEF Td, TdRes, TdResults
    <2>2. ~(Td(t).skip_stage \/ (~IsLast(t) /\ v # NUL))
      BY <1>5, <2>1
    <2>3. outputs' = outs \cup {OutputOf(t)}
      BY <1>5, <2>2 DEF FinalizeScoring, FinalizeScoringFiles
    <2> QED
      BY <2>3
  <1>6. WA # NUL
    BY DEF WA, NUL
  <1>7. TdOk(t.id, t.td)'
    BY <1>2, <1>3, <1>4, <1>5, <1>6, OwnEnds DEF OwnWrite
  <1>8. Live' = Live \ {t} /\ ~Run(t)
    BY <1>1 DEF RemoveTask, Run, Live
  <1>9. cancelled_list' = cancelled_list /\ compiled' = compiled
        /\ cancelled_group \subseteq cancelled_group'
    BY DEF FinalizeScoring
  <1>10. ASSUME NEW g \in Nat, <<t.id, g>> \in cancelled_group', <<t.id, g>> \notin cancelled_group
         PROVE  /\ Sub(t.id).skip_group /\ g \in Sub(t.id).testdata[t.td].td_groups
                /\ Failed(TdRes(t.id, t.td)'.verdict)
                /\ TdRes(t.id, t.td)'.skip_stage \/ LastTask(t.id, t.td) \notin Live'
    <2> DEFINE final == IF IsLast(t) /\ v = NUL THEN WA ELSE v
    <2>1. /\ Sub(t.id).skip_group /\ final \notin {NUL, AC}
          /\ g \in Sub(t.id).testdata[t.td].td_groups
      BY <1>10 DEF FinalizeScoring
    <2>2. ~IsLast(t) => v # NUL
      BY <2>1
    <2> QED
      BY <1>3, <1>4, <1>8, <2>1, <2>2 DEF Failed
  <1>11. GroupsOk(t.id)'
    BY <1>3, <1>8, <1>10, OwnGroups DEF SubOk, OwnWrite
  <1>12. \A td, j : td # t.td /\ <<t.id, td, j>> \in outputs => <<t.id, td, j>> \in outputs'
    BY DEF FinalizeScoring, FinalizeScoringFiles, OutputOf
  <1> QED
    BY <1>3, <1>7, <1>8, <1>9, <1>11, <1>12, OwnSub DEF OwnWrite

\* The four ways out of SetupScoring.
LEMMA DispatchScoringOk ==
  ASSUME GraphInv, DataInv, NEW t \in task_queue, SubOk(t.id), DispatchScoring(t)
  PROVE  SubOk(t.id)'
  <1>1. t.type = "SCORING" /\ pushed' = pushed
    BY DEF DispatchScoring, CanDispatch
  <1>2. Sub(t.id) \in Submissions /\ t.td \in Tds(Sub(t.id))
        /\ (IsCancelled(t) <=> TdCancelled(t.id, t.td))
    BY <1>1, OwnContext
  <1>3. CASE SkipScoring(t)
    <2>1. RemoveTask(t) /\ UNCHANGED <<submission_list, cancel, files>>
      BY <1>3 DEF DispatchScoring
    <2> QED
      BY <1>1, <1>3, <2>1, SkipOk DEF cancel, files
  <1>4. CASE ~SkipScoring(t)
    <2>1. TdStarted(t.id, t.td) /\ ~Given(t.id, t.td)
      BY <1>2, <1>4 DEF SubOk, TdOk, SkipScoring, Given, SubVerdict
    <2>2. t.td \in DOMAIN TdResults(t.id) /\ TdRes(t.id, t.td) = Td(t)
      BY <1>1, <2>1, ResultExists
    <2>3. ~TdRes(t.id, t.td).skip_stage
      BY <1>4, <2>2 DEF SkipScoring
    <2>4. CASE JudgeNotInvoked(t) /\ FinalizeScoring(t, Td(t).verdict, TRUE, outputs) /\ RemoveTask(t)
      <3>1. Td(t).verdict # NUL
        BY <2>4 DEF JudgeNotInvoked
      <3> QED
        BY <1>1, <2>2, <2>3, <2>4, <3>1, ScoringFinalOk
    <2>5. CASE /\ FinalizeScoring(t, SpecjudgeFailedVerdict(Sub(t.id), Td(t).verdict), FALSE,
                                  outputs \ {OutputOf(t)})
               /\ RemoveTask(t)
      <3>1. SpecjudgeFailedVerdict(Sub(t.id), Td(t).verdict) # NUL
        BY DEF SpecjudgeFailedVerdict, WA, JRE, NUL
      <3> QED
        BY <1>1, <2>2, <2>3, <2>5, <3>1, ScoringFinalOk
    <2>6. CASE /\ Run(t) /\ outputs' = outputs \ {OutputOf(t)}
               /\ UNCHANGED <<submission_list, cancel, compiled, reports>>
      <3>1. OutputOf(t) = <<t.id, t.td, t.stage>>
        BY DEF OutputOf
      <3> QED
        BY <1>1, <1>4, <2>6, <3>1, RunOk DEF cancel
    <2> QED
      BY <1>4, <2>4, <2>5, <2>6 DEF DispatchScoring
  <1> QED
    BY <1>3, <1>4

\* SetupExecute skips the task or runs it.
LEMMA DispatchExecuteOk ==
  ASSUME GraphInv, NEW t \in task_queue, SubOk(t.id), DispatchExecute(t)
  PROVE  SubOk(t.id)'
  <1>1. t.type = "EXECUTE" /\ UNCHANGED <<pushed, submission_list, cancel, compiled>>
    BY DEF DispatchExecute, CanDispatch
  <1>2. CASE SkipExecute(t)
    BY <1>1, <1>2, SkipOk DEF DispatchExecute, cancel
  <1>3. CASE ~SkipExecute(t)
    BY <1>1, <1>3, RunOk DEF DispatchExecute, cancel, PrevOutput
  <1> QED
    BY <1>2, <1>3

\* A checker that ended: without a verdict it was not of type SKIP.
LEMMA ScoringEndsOk ==
  ASSUME GraphInv, DataInv, NEW t \in running, SubOk(t.id), ScoringEnds(t)
  PROVE  SubOk(t.id)'
  <1>1. t.type = "SCORING" /\ pushed' = pushed /\ RemoveTask(t)
    BY DEF ScoringEnds, TaskEnds
  <1>2. PICK v \in ReadSpecjudgeResult(Sub(t.id), IsLast(t), Td(t).verdict, JudgeVerdicts) :
          FinalizeScoring(t, v, FALSE, outputs)
    BY DEF ScoringEnds
  <1>3. t.td \in Tds(Sub(t.id)) /\ t \in ChainTasks(t.id, t.td)
    BY <1>1, OwnContext
  <1>4. t.td \in DOMAIN TdResults(t.id) /\ ~TdRes(t.id, t.td).skip_stage
    BY <1>1, <1>3 DEF SubOk, TdOk, TdScored, TdSkipped
  <1>5. Sub(t.id).specjudge_type = "SKIP" => v # NUL
    <2>1. Sub(t.id).specjudge_type = "SKIP" => v = SpecjudgeFailedVerdict(Sub(t.id), Td(t).verdict)
      BY <1>2 DEF ReadSpecjudgeResult
    <2>2. SpecjudgeFailedVerdict(Sub(t.id), Td(t).verdict) # NUL
      BY DEF SpecjudgeFailedVerdict, WA, JRE, NUL
    <2> QED
      BY <2>1, <2>2
  <1> QED
    BY <1>1, <1>2, <1>4, <1>5, ScoringFinalOk

\* A compilation that is cancelled, starts or ends.
LEMMA CompileOk ==
  ASSUME GraphInv, DataInv, NEW t \in task_queue \cup running, t.type = "COMPILE", SubOk(t.id),
         UNCHANGED <<pushed, cancelled_list, cancelled_group, outputs>>,
         TdResults(t.id)' = TdResults(t.id),
         compiled \subseteq compiled',
         \/ Run(t) /\ SubVerdict(t.id)' = SubVerdict(t.id)
         \/ /\ RemoveTask(t)
            /\ \/ t.id \in cancelled_list /\ SubVerdict(t.id)' = SubVerdict(t.id)
               \/ <<t.id, t.subtask>> \in compiled' /\ SubVerdict(t.id)' = SubVerdict(t.id)
               \/ SubVerdict(t.id)' >= CE /\ SubVerdict(t.id)' # NUL
  PROVE  SubOk(t.id)'
  <1>1. /\ Sub(t.id) \in Submissions /\ Sub(t.id)' = Sub(t.id)
        /\ t \in TasksOf(t.id, Sub(t.id)) /\ Tds(Sub(t.id))' = Tds(Sub(t.id))
    BY TaskContext DEF Sub
  <1>2. \A u : u # t => (u \in Live' <=> u \in Live) /\ (u \in running' <=> u \in running)
    BY DEF RemoveTask, Run, Live
  <1>3. \A td : TdRes(t.id, td)' = TdRes(t.id, td)
    BY DEF TdRes, NewTdResult
  <1>4. ASSUME NEW td \in Tds(Sub(t.id)) PROVE TdOk(t.id, td)'
    <2>1. \A u \in ChainTasks(t.id, td) : u # t
      BY DEF ChainTasks
    <2>2. TdCancelled(t.id, td) => TdCancelled(t.id, td)'
      BY <1>1 DEF TdCancelled
    <2>3. TdFrame(t.id, td)
      BY <1>1, <1>2, <1>3, <2>1, <2>2 DEF TdFrame
    <2> QED
      BY <1>1, <2>3, FrameKeepsTd DEF SubOk
  <1>5. CompiledOk(t.id)'
    <2> SUFFICES ASSUME SubVerdict(t.id)' = NUL, t.id \notin cancelled_list,
                        NEW s \in Compiles(Sub(t.id)) \ {"SUMMARY"}
                 PROVE  CompileTask(t.id, s) \in Live' \/ <<t.id, s>> \in compiled'
      BY <1>1 DEF CompiledOk
    <2>1. SubVerdict(t.id) = NUL
      OBVIOUS
    <2>2. CompileTask(t.id, s) \in Live \/ <<t.id, s>> \in compiled
      BY <2>1 DEF SubOk, CompiledOk
    <2>3. CompileTask(t.id, s) = t => s = t.subtask
      BY DEF CompileTask
    <2>4. Run(t) => Live' = Live
      BY DEF Run, Live
    <2> QED
      BY <1>2, <2>2, <2>3, <2>4
  <1>6. ProgramsOk(t.id)'
    <2>1. \A u : u.id = t.id => ProgramOf(u)' = ProgramOf(u)
      BY <1>1 DEF ProgramOf
    <2> QED
      BY <1>1, <1>2, <2>1 DEF SubOk, ProgramsOk
  <1>7. VerdictOk(t.id)'
    <2>1. SummaryTask(t.id) # t
      BY DEF SummaryTask
    <2> QED
      BY <1>1, <1>2, <2>1 DEF SubOk, VerdictOk
  <1>8. GroupsOk(t.id)'
    <2>1. \A k : LastTask(t.id, k)' = LastTask(t.id, k) /\ LastTask(t.id, k) # t
      BY <1>1 DEF LastTask, ScoringTask
    <2>2. \A v : Failed(v)' <=> Failed(v)
      BY DEF Failed
    <2>3. \A k : LastTask(t.id, k) \in Live' <=> LastTask(t.id, k) \in Live
      BY <1>2, <2>1
    <2> QED
      BY <1>1, <1>3, <2>1, <2>2, <2>3 DEF SubOk, GroupsOk
  <1> QED
    BY <1>1, <1>4, <1>5, <1>6, <1>7, <1>8 DEF SubOk

\* A summary program that starts: the submission has a verdict from now on.
LEMMA SummaryRunOk ==
  ASSUME GraphInv, DataInv, NEW t \in task_queue, t.type = "SUMMARY", SubOk(t.id),
         UNCHANGED <<pushed, cancelled_list, cancelled_group, outputs>>, Run(t),
         TdResults(t.id)' = TdResults(t.id),
         SubVerdict(t.id) # NUL => SubVerdict(t.id)' # NUL,
         compiled' = compiled \ {<<t.id, "SUMMARY">>}, Sub(t.id).summary_type # "NONE"
  PROVE  SubOk(t.id)'
  <1>1. /\ Sub(t.id) \in Submissions /\ Sub(t.id)' = Sub(t.id)
        /\ t \in TasksOf(t.id, Sub(t.id)) /\ Tds(Sub(t.id))' = Tds(Sub(t.id))
    BY TaskContext DEF Sub
  <1>2. Live' = Live /\ \A u : u # t => (u \in running' <=> u \in running)
    BY DEF Run, Live
  <1>3. \A td : TdRes(t.id, td)' = TdRes(t.id, td)
    BY DEF TdRes, NewTdResult
  <1>4. ASSUME NEW td \in Tds(Sub(t.id)) PROVE TdOk(t.id, td)'
    <2>1. \A u \in ChainTasks(t.id, td) : u # t
      BY DEF ChainTasks
    <2>2. TdCancelled(t.id, td) => TdCancelled(t.id, td)'
      BY <1>1 DEF TdCancelled
    <2>3. TdFrame(t.id, td)
      BY <1>1, <1>2, <1>3, <2>1, <2>2 DEF TdFrame
    <2> QED
      BY <1>1, <2>3, FrameKeepsTd DEF SubOk
  <1>5. CompiledOk(t.id)'
    BY <1>1, <1>2 DEF SubOk, CompiledOk
  <1>6. ProgramsOk(t.id)'
    <2>1. \A u : u.id = t.id => ProgramOf(u)' = ProgramOf(u) /\ ProgramOf(u) # "SUMMARY"
      BY <1>1 DEF ProgramOf
    <2> QED
      BY <1>1, <1>2, <2>1 DEF SubOk, ProgramsOk
  <1>7. VerdictOk(t.id)'
    BY <1>1 DEF VerdictOk
  <1>8. GroupsOk(t.id)'
    <2>1. \A k : LastTask(t.id, k)' = LastTask(t.id, k)
      BY <1>1 DEF LastTask
    <2>2. \A v : Failed(v)' <=> Failed(v)
      BY DEF Failed
    <2> QED
      BY <1>1, <1>2, <1>3, <2>1, <2>2 DEF SubOk, GroupsOk
  <1> QED
    BY <1>1, <1>4, <1>5, <1>6, <1>7, <1>8 DEF SubOk

-----------------------------------------------------------------------------
(* The invariant is kept by every step. *)

\* A step of the worker about t leaves the other submissions and their files alone.
OthersAlone(t) ==
  /\ RemoveTask(t) \/ Run(t)
  /\ pushed' = pushed
  /\ pc' = "loop"
  /\ Active' \subseteq Active /\ Active \ {t.id} \subseteq Active'
  /\ \A id \in Active : id # t.id => submission_list'[id] = submission_list[id]
  /\ \A id : id # t.id /\ id \in cancelled_list => id \in cancelled_list'
  /\ \A id, g : id # t.id => (<<id, g>> \in cancelled_group' <=> <<id, g>> \in cancelled_group)
  /\ \A id, s : id # t.id /\ <<id, s>> \in compiled => <<id, s>> \in compiled'
  /\ \A id, td, j : id # t.id /\ <<id, td, j>> \in outputs => <<id, td, j>> \in outputs'
  /\ \A f \in compiled' : (f \in compiled /\ f[1] # t.id) \/ (f[1] = t.id /\ t.id \in Active')
  /\ \A f \in outputs' : (f \in outputs /\ f[1] # t.id) \/ (f[1] = t.id /\ t.id \in Active')
  /\ \A c \in cancelled_group' : (c \in cancelled_group /\ c[1] # t.id) \/ (c[1] = t.id /\ t.id \in Active')

\* Such a step keeps the invariant if it keeps it for the submission of t.
LEMMA WorkerKeeps ==
  ASSUME GraphInv, FilesInv, NEW t \in task_queue \cup running, OthersAlone(t),
         t.id \in Active' => SubOk(t.id)'
  PROVE  FilesInv'
  <1>1. IdleInv'
    BY DEF FilesInv, IdleInv, OthersAlone
  <1>2. ASSUME NEW id \in Active', id # t.id PROVE SubOk(id)'
    <2>1. id \in Active /\ SubOk(id) /\ Sub(id) \in Submissions
      BY DEF FilesInv, OthersAlone, GraphInv, Ids, Sub
    <2>2. \A u : u.id = id => (u \in Live' <=> u \in Live) /\ (u \in running' <=> u \in running)
      BY <1>2 DEF OthersAlone, RemoveTask, Run, Live
    <2>3. SubVerdict(id)' = SubVerdict(id) /\ TdResults(id)' = TdResults(id) /\ Sub(id)' = Sub(id)
      BY <1>2, <2>1 DEF OthersAlone, SubVerdict, TdResults, Sub
    <2>4. SubFrame(id)
      BY <1>2, <2>2, <2>3 DEF OthersAlone, SubFrame
    <2> QED
      BY <2>1, <2>4, SubFrameKeeps
  <1> QED
    BY <1>1, <1>2 DEF FilesInv

\* FinalizeScoring and FinalizeSummary write and erase nothing of other submissions.
LEMMA ScoringAlone ==
  ASSUME GraphInv, DataInv, FilesInv, NEW t \in task_queue \cup running, t.type = "SCORING",
         NEW v, NEW skipped, NEW outs, FinalizeScoring(t, v, skipped, outs),
         outs = outputs \/ outs = outputs \ {OutputOf(t)},
         RemoveTask(t), pushed' = pushed, pc' = "loop"
  PROVE  OthersAlone(t)
  <1>1. t.id \in Active
    BY TaskContext
  <1>2. Active' = Active
        /\ \A id \in Active : id # t.id => submission_list'[id] = submission_list[id]
    BY <1>1 DEF FinalizeScoring, Active
  <1>3. /\ cancelled_group \subseteq cancelled_group'
        /\ \A c \in cancelled_group' : c \in cancelled_group \/ c[1] = t.id
        /\ \A id, g : id # t.id => (<<id, g>> \in cancelled_group' <=> <<id, g>> \in cancelled_group)
    BY DEF FinalizeScoring
  <1>4. /\ \A id, td, j : id # t.id /\ <<id, td, j>> \in outputs => <<id, td, j>> \in outputs'
        /\ \A f \in outputs' : f \in outputs \/ f[1] = t.id
    BY DEF FinalizeScoring, FinalizeScoringFiles, OutputOf
  <1>5. compiled' = compiled /\ cancelled_list' = cancelled_list
    BY DEF FinalizeScoring
  <1> QED
    BY <1>1, <1>2, <1>3, <1>4, <1>5 DEF OthersAlone, FilesInv, IdleInv

\* The same of FinalizeSummary, which erases everything of its own.
LEMMA SummaryAloneFiles ==
  ASSUME GraphInv, DataInv, FilesInv, NEW t \in task_queue \cup running, NEW v,
         FinalizeSummary(t, v), RemoveTask(t), pushed' = pushed, pc' = "loop"
  PROVE  OthersAlone(t) /\ t.id \notin Active'
  <1>1. /\ Active' = Active \ {t.id}
        /\ \A id \in Active : id # t.id => submission_list'[id] = submission_list[id]
    BY DEF FinalizeSummary, Active
  <1> QED
    BY <1>1 DEF FinalizeSummary, OthersAlone

\* PushSubmission: all tasks of the new submission are live, it has no file and no result.
LEMMA PushKeepsFiles ==
  ASSUME GraphInv, DataInv, FilesInv, NEW sub \in Submissions, PushSubmission(sub),
         NEW new, new = Len(pushed) + 1
  PROVE  FilesInv'
  <1>1. /\ new \in Nat /\ new \notin Ids /\ Active \subseteq Ids /\ Active' = Active \cup {new}
        /\ Sub(new)' = sub /\ \A id \in Ids : Sub(id)' = Sub(id) /\ Sub(id) \in Submissions
    BY DEF PushSubmission, GraphInv, Ids, Sub, Active
  <1>2. /\ Live' = Live \cup TasksOf(new, sub) /\ running' = running /\ pc' = pc
        /\ cancelled_list \subseteq cancelled_list' /\ cancelled_group' = cancelled_group
        /\ compiled' = compiled /\ outputs' = outputs
    BY DEF PushSubmission, InsertTaskList, InsertSubmissionId, Live, files
  <1>3. \A u \in TasksOf(new, sub) : u.id = new
    BY TaskShapes
  <1>4. \A u \in running : u.id \in Ids
    BY LiveTask, ReadyTask DEF GraphInv
  <1>5. IdleInv'
    BY <1>1, <1>2 DEF FilesInv, IdleInv
  <1>6. ASSUME NEW id \in Active PROVE SubOk(id)'
    <2>1. id \in Ids /\ id # new /\ SubOk(id)
      BY <1>1 DEF FilesInv
    <2>2. \A u : u.id = id => (u \in Live' <=> u \in Live) /\ (u \in running' <=> u \in running)
      BY <1>2, <1>3, <2>1
    <2>3. SubVerdict(id)' = SubVerdict(id) /\ TdResults(id)' = TdResults(id)
      BY <2>1 DEF PushSubmission, SubVerdict, TdResults, Active
    <2>4. SubFrame(id)
      BY <1>1, <1>2, <2>1, <2>2, <2>3 DEF SubFrame
    <2> QED
      BY <1>1, <2>1, <2>4, SubFrameKeeps
  <1>7. SubOk(new)'
    <2>1. SubVerdict(new)' = NUL /\ TdResults(new)' = <<>>
      BY <1>1 DEF PushSubmission, SubVerdict, TdResults, NewResult, Active
    <2>2. \A td : TdRes(new, td)' = NewTdResult
      BY <2>1 DEF TdRes, NewTdResult
    <2>3. ASSUME NEW td \in Tds(sub) PROVE TdOk(new, td)'
      <3>1. /\ ChainTasks(new, td)' \subseteq TasksOf(new, sub)
            /\ running' \cap ChainTasks(new, td)' = {}
        BY <1>1, <1>2, <1>3, <1>4 DEF ChainTasks
      <3>2. FirstTask(new, td)' \in Live' /\ LastTask(new, td)' \in Live'
        <4>1. 0 \in Stages(sub) /\ LastStage(sub) \in ScoringStages(sub)
          BY StagesType DEF Stages
        <4> QED
          BY <1>1, <1>2, <4>1, TaskMembership DEF FirstTask, LastTask
      <3>3. ASSUME NEW j \in Stages(sub), j > 0 PROVE BeforeStage(new, td, j)' \in Live'
        <4>1. j - 1 \in Stages(sub) /\ (sub.judge_between_stages => j - 1 \in ScoringStages(sub))
          BY <3>3, StagesType DEF Stages, ScoringStages
        <4> QED
          BY <1>1, <1>2, <4>1, TaskMembership DEF BeforeStage
      <3>4. TdStarted(new, td)' /\ TdDone(new, td)'
        BY <2>2, <3>2 DEF TdStarted, TdDone
      <3>5. TdInput(new, td)'
        BY <1>1, <3>3 DEF TdInput
      <3>6. TdSkipped(new, td)' /\ TdScored(new, td)'
        BY <2>2, <3>1 DEF TdSkipped, TdScored, NewTdResult
      <3> QED
        BY <3>4, <3>5, <3>6 DEF TdOk
    <2>4. CompiledOk(new)'
      BY <1>1, <1>2, TaskMembership DEF CompiledOk
    <2>5. ProgramsOk(new)'
      BY <1>1, <1>2, <1>4 DEF ProgramsOk
    <2>6. VerdictOk(new)'
      <3>1. SummaryTask(new).id = new
        BY DEF SummaryTask
      <3> QED
        BY <1>1, <1>2, <1>4, <2>1, <3>1 DEF VerdictOk
    <2>7. GroupsOk(new)'
      <3>1. \A g : <<new, g>> \notin cancelled_group'
        BY <1>1, <1>2 DEF FilesInv, IdleInv
      <3> QED
        BY <3>1 DEF GroupsOk
    <2> QED
      BY <1>1, <2>3, <2>4, <2>5, <2>6, <2>7 DEF SubOk
  <1> QED
    BY <1>1, <1>5, <1>6, <1>7 DEF FilesInv

\* A step that moves the worker only.
LEMMA QuietKeepsFiles ==
  ASSUME GraphInv, FilesInv,
         UNCHANGED <<pushed, graph, submission_list, cancelled_list, cancelled_group, files>>,
         pc' = "idle" => pc = "idle" \/ running = {}
  PROVE  FilesInv'
  <1>1. /\ Live' = Live /\ running' = running /\ Active' = Active
        /\ \A id : Sub(id)' = Sub(id) /\ SubVerdict(id)' = SubVerdict(id)
                  /\ TdResults(id)' = TdResults(id)
    BY DEF graph, Live, Active, Sub, SubVerdict, TdResults
  <1>2. ASSUME NEW id \in Active PROVE SubOk(id)'
    <2>1. SubFrame(id)
      BY <1>1 DEF SubFrame, files
    <2>2. Sub(id) \in Submissions /\ SubOk(id)
      BY DEF FilesInv, GraphInv, Ids, Sub
    <2> QED
      BY <2>1, <2>2, SubFrameKeeps
  <1>3. IdleInv'
    BY <1>1 DEF FilesInv, IdleInv, files
  <1> QED
    BY <1>1, <1>2, <1>3 DEF FilesInv

\* FinalizeCompile gives a verdict that is final, or the program.
LEMMA CompileVerdict ==
  ASSUME NEW s, NEW v \in Verdict, NEW o
  PROVE  /\ o = "ok" => FinalizeCompileVerdict(s, v, o) = v
         /\ o # "ok" => FinalizeCompileVerdict(s, v, o) >= CE /\ FinalizeCompileVerdict(s, v, o) # NUL
  BY DEF FinalizeCompileVerdict, MaxVerdict, Verdict, NUL, CE, CLE, JCE, JE

\* Every step of a compilation keeps the invariant.
LEMMA CompileStepFiles ==
  ASSUME GraphInv, DataInv, FilesInv, NEW t \in task_queue \cup running,
         \/ t \in task_queue /\ DispatchCompile(t)
         \/ t \in running /\ CompileEnds(t)
  PROVE  FilesInv'
  <1>1. t.id \in Active /\ SubOk(t.id) /\ submission_list[t.id] \in Result
        /\ submission_list \in [Active -> Result]
    BY TaskContext DEF FilesInv, DataInv
  <1>2. CASE t \in task_queue /\ DispatchCompile(t)
    <2>1. /\ UNCHANGED <<pc, pushed, submission_list, cancel, files>> /\ pc = "loop"
          /\ t.type = "COMPILE"
          /\ (t.id \in cancelled_list /\ RemoveTask(t)) \/ Run(t)
      BY <1>2 DEF DispatchCompile, CanDispatch
    <2>2. SubVerdict(t.id)' = SubVerdict(t.id) /\ TdResults(t.id)' = TdResults(t.id)
      BY <2>1 DEF SubVerdict, TdResults
    <2>3. SubOk(t.id)'
      BY <1>1, <2>1, <2>2, CompileOk DEF cancel, files
    <2>4. Active' = Active
      BY <2>1 DEF Active
    <2>5. OthersAlone(t)
      BY <1>1, <2>1, <2>4 DEF OthersAlone, cancel, files, FilesInv, IdleInv
    <2> QED
      BY <2>3, <2>5, WorkerKeeps
  <1>3. CASE t \in running /\ CompileEnds(t)
    <2>1. /\ pushed' = pushed /\ pc' = "loop" /\ t.type = "COMPILE" /\ RemoveTask(t)
      BY <1>3 DEF CompileEnds, TaskEnds
    <2>2. PICK o \in CompileOutcomes : FinalizeCompile(t, o)
      BY <1>3 DEF CompileEnds
    <2> DEFINE v == FinalizeCompileVerdict(t.subtask, submission_list[t.id].verdict, o)
    <2>3. /\ submission_list' = [submission_list EXCEPT ![t.id].verdict = v]
          /\ UNCHANGED <<cancel, outputs>>
          /\ compiled' = IF o = "ok" THEN compiled \cup {<<t.id, t.subtask>>} ELSE compiled
      BY <2>2 DEF FinalizeCompile
    <2>4. submission_list[t.id].verdict \in Verdict
      BY <1>1 DEF Result
    <2>5. /\ o = "ok" => v = submission_list[t.id].verdict
          /\ o # "ok" => v >= CE /\ v # NUL
      BY <2>4, CompileVerdict
    <2> HIDE DEF v
    <2>6. /\ SubVerdict(t.id)' = v /\ TdResults(t.id)' = TdResults(t.id) /\ Active' = Active
          /\ \A id \in Active : id # t.id => submission_list'[id] = submission_list[id]
      BY <1>1, <2>3 DEF SubVerdict, TdResults, Result, Active
    <2>7. SubOk(t.id)'
      <3>1. \/ <<t.id, t.subtask>> \in compiled' /\ SubVerdict(t.id)' = SubVerdict(t.id)
            \/ SubVerdict(t.id)' >= CE /\ SubVerdict(t.id)' # NUL
        BY <2>3, <2>5, <2>6 DEF SubVerdict
      <3>2. compiled \subseteq compiled' /\ UNCHANGED <<cancelled_list, cancelled_group, outputs>>
        BY <2>3 DEF cancel
      <3> QED
        BY <1>1, <2>1, <2>6, <3>1, <3>2, CompileOk
    <2>8. OthersAlone(t)
      BY <1>1, <2>1, <2>3, <2>6 DEF OthersAlone, cancel, FilesInv, IdleInv
    <2> QED
      BY <2>7, <2>8, WorkerKeeps
  <1> QED
    BY <1>2, <1>3

\* Every step of an execution keeps the invariant.
LEMMA ExecuteStepFiles ==
  ASSUME GraphInv, DataInv, FilesInv, NEW t \in task_queue \cup running,
         \/ t \in task_queue /\ DispatchExecute(t)
         \/ t \in running /\ ExecuteEnds(t)
  PROVE  FilesInv'
  <1>1. t.id \in Active /\ SubOk(t.id)
    BY TaskContext DEF FilesInv
  <1>2. CASE t \in task_queue /\ DispatchExecute(t)
    <2>1. /\ UNCHANGED <<pc, pushed, submission_list, cancel, compiled>> /\ pc = "loop"
          /\ RemoveTask(t) \/ Run(t)
          /\ outputs' = outputs \/ outputs' = outputs \ {PrevOutput(t)}
      BY <1>2 DEF DispatchExecute, CanDispatch
    <2>2. SubOk(t.id)'
      BY <1>1, <1>2, DispatchExecuteOk
    <2>3. /\ \A id, td, j : id # t.id /\ <<id, td, j>> \in outputs => <<id, td, j>> \in outputs'
          /\ \A f \in outputs' : f \in outputs
      BY <2>1 DEF PrevOutput
    <2>4. Active' = Active
      BY <2>1 DEF Active
    <2>5. OthersAlone(t)
      BY <1>1, <2>1, <2>3, <2>4 DEF OthersAlone, cancel, FilesInv, IdleInv
    <2> QED
      BY <2>2, <2>5, WorkerKeeps
  <1>3. CASE t \in running /\ ExecuteEnds(t)
    <2>1. pushed' = pushed /\ pc' = "loop" /\ t.type = "EXECUTE" /\ RemoveTask(t)
      BY <1>3 DEF ExecuteEnds, TaskEnds
    <2>2. PICK v \in ExecuteVerdicts : FinalizeExecute(t, v)
      BY <1>3 DEF ExecuteEnds
    <2>3. SubOk(t.id)'
      BY <1>1, <1>3, <2>1, <2>2, ExecuteEndsOk
    <2>4. OwnWrite(t)
      BY <1>3, <2>1, <2>2, ExecuteResults
    <2>5. /\ \A id, td, j : id # t.id /\ <<id, td, j>> \in outputs => <<id, td, j>> \in outputs'
          /\ \A f \in outputs' : f \in outputs \/ f[1] = t.id
          /\ UNCHANGED <<cancel, compiled>>
      BY <2>2 DEF FinalizeExecute, OutputOf, PrevOutput
    <2>6. OthersAlone(t)
      BY <1>1, <2>1, <2>4, <2>5 DEF OthersAlone, OwnWrite, cancel, FilesInv, IdleInv
    <2> QED
      BY <2>3, <2>6, WorkerKeeps
  <1> QED
    BY <1>2, <1>3

\* Every step of a scoring keeps the invariant.
LEMMA ScoringStepFiles ==
  ASSUME GraphInv, DataInv, FilesInv, NEW t \in task_queue \cup running,
         \/ t \in task_queue /\ DispatchScoring(t)
         \/ t \in running /\ ScoringEnds(t)
  PROVE  FilesInv'
  <1>1. t.id \in Active /\ SubOk(t.id)
    BY TaskContext DEF FilesInv
  <1>2. CASE t \in task_queue /\ DispatchScoring(t)
    <2>1. UNCHANGED <<pc, pushed>> /\ pc = "loop" /\ t.type = "SCORING"
      BY <1>2 DEF DispatchScoring, CanDispatch
    <2>2. SubOk(t.id)'
      BY <1>1, <1>2, DispatchScoringOk
    <2>3. \/ /\ RemoveTask(t) \/ Run(t)
             /\ UNCHANGED <<submission_list, cancel, compiled>>
             /\ outputs' = outputs \/ outputs' = outputs \ {OutputOf(t)}
          \/ /\ RemoveTask(t)
             /\ \E v, skipped, outs : /\ FinalizeScoring(t, v, skipped, outs)
                                      /\ outs = outputs \/ outs = outputs \ {OutputOf(t)}
      BY <1>2 DEF DispatchScoring, files
    <2>4. ASSUME RemoveTask(t) \/ Run(t), UNCHANGED <<submission_list, cancel, compiled>>,
                 outputs' = outputs \/ outputs' = outputs \ {OutputOf(t)}
          PROVE  OthersAlone(t)
      <3>1. /\ \A id, td, j : id # t.id /\ <<id, td, j>> \in outputs => <<id, td, j>> \in outputs'
            /\ \A f \in outputs' : f \in outputs
        BY <2>4 DEF OutputOf
      <3>2. Active' = Active
        BY <2>4 DEF Active
      <3> QED
        BY <1>1, <2>1, <2>4, <3>1, <3>2 DEF OthersAlone, cancel, FilesInv, IdleInv
    <2>5. OthersAlone(t)
      BY <2>1, <2>3, <2>4, ScoringAlone
    <2> QED
      BY <2>2, <2>5, WorkerKeeps
  <1>3. CASE t \in running /\ ScoringEnds(t)
    <2>1. /\ pushed' = pushed /\ pc' = "loop" /\ t.type = "SCORING" /\ RemoveTask(t)
          /\ \E v : FinalizeScoring(t, v, FALSE, outputs)
      BY <1>3 DEF ScoringEnds, TaskEnds
    <2>2. SubOk(t.id)'
      BY <1>1, <1>3, ScoringEndsOk
    <2>3. OthersAlone(t)
      BY <2>1, ScoringAlone
    <2> QED
      BY <2>2, <2>3, WorkerKeeps
  <1> QED
    BY <1>2, <1>3

\* Every step of a summary keeps the invariant.
LEMMA SummaryStepFiles ==
  ASSUME GraphInv, DataInv, FilesInv, NEW t \in task_queue \cup running,
         \/ t \in task_queue /\ DispatchSummary(t)
         \/ t \in running /\ SummaryEnds(t)
  PROVE  FilesInv'
  <1>1. t.id \in Active /\ SubOk(t.id) /\ submission_list[t.id] \in Result
        /\ submission_list \in [Active -> Result]
    BY TaskContext DEF FilesInv, DataInv
  <1>2. ASSUME NEW v, FinalizeSummary(t, v), RemoveTask(t), pushed' = pushed, pc' = "loop"
        PROVE  FilesInv'
    BY <1>2, SummaryAloneFiles, WorkerKeeps
  <1>3. CASE t \in task_queue /\ DispatchSummary(t)
    <2> DEFINE v == OverallVerdict(t.id)
    <2>1. UNCHANGED <<pc, pushed>> /\ pc = "loop" /\ t.type = "SUMMARY"
      BY <1>3 DEF DispatchSummary, CanDispatch
    <2>2. SubVerdict(t.id) # NUL => v = SubVerdict(t.id)
      BY DEF OverallVerdict, SubVerdict
    <2>3. \/ FinalizeSummary(t, v) /\ RemoveTask(t)
          \/ /\ Sub(t.id).summary_type # "NONE"
             /\ submission_list' = [submission_list EXCEPT ![t.id].verdict = v]
             /\ compiled' = compiled \ {<<t.id, "SUMMARY">>}
             /\ Run(t)
             /\ UNCHANGED <<cancel, outputs>>
      BY <1>3 DEF DispatchSummary
    <2> HIDE DEF v
    <2>4. CASE /\ Sub(t.id).summary_type # "NONE"
               /\ submission_list' = [submission_list EXCEPT ![t.id].verdict = v]
               /\ compiled' = compiled \ {<<t.id, "SUMMARY">>}
               /\ Run(t)
               /\ UNCHANGED <<cancel, outputs>>
      <3>1. /\ SubVerdict(t.id)' = v /\ TdResults(t.id)' = TdResults(t.id) /\ Active' = Active
            /\ \A id \in Active : id # t.id => submission_list'[id] = submission_list[id]
        BY <1>1, <2>4 DEF SubVerdict, TdResults, Result, Active
      <3>2. SubOk(t.id)'
        BY <1>1, <1>3, <2>1, <2>2, <2>4, <3>1, SummaryRunOk DEF cancel
      <3>3. OthersAlone(t)
        BY <1>1, <2>1, <2>4, <3>1 DEF OthersAlone, cancel, FilesInv, IdleInv
      <3> QED
        BY <3>2, <3>3, WorkerKeeps
    <2> QED
      BY <1>2, <2>1, <2>3, <2>4
  <1>4. CASE t \in running /\ SummaryEnds(t)
    BY <1>2, <1>4 DEF SummaryEnds, TaskEnds
  <1> QED
    BY <1>3, <1>4

\* Every step keeps the invariant.
LEMMA NextFiles == GraphInv /\ DataInv /\ FilesInv /\ [Next]_vars => FilesInv'
  <1> SUFFICES ASSUME GraphInv, DataInv, FilesInv, [Next]_vars PROVE FilesInv'
    OBVIOUS
  <1>1. ASSUME NEW sub \in Submissions, PushSubmission(sub) PROVE FilesInv'
    BY <1>1, PushKeepsFiles
  <1>2. CASE Wake \/ BeginWait \/ LoopEnds
    BY <1>2, QuietKeepsFiles DEF Wake, BeginWait, LoopEnds, cancel, graph, files
  <1>3. CASE UNCHANGED vars
    BY <1>3, QuietKeepsFiles DEF vars, graph, files
  <1>4. CASE Dispatch
    <2>1. PICK t \in task_queue : \/ DispatchCompile(t) \/ DispatchExecute(t)
                                  \/ DispatchScoring(t) \/ DispatchSummary(t)
      BY <1>4 DEF Dispatch
    <2> QED
      BY <2>1, CompileStepFiles, ExecuteStepFiles, ScoringStepFiles, SummaryStepFiles
  <1>5. CASE Finish
    <2>1. PICK t \in running : \/ CompileEnds(t) \/ ExecuteEnds(t)
                               \/ ScoringEnds(t) \/ SummaryEnds(t)
      BY <1>5 DEF Finish
    <2> QED
      BY <2>1, CompileStepFiles, ExecuteStepFiles, ScoringStepFiles, SummaryStepFiles
  <1> QED
    BY <1>1, <1>2, <1>3, <1>4, <1>5 DEF Next, WorkLoop

\* FilesInv is an invariant of the judging core.
LEMMA FilesCorrect == Spec => [](GraphInv /\ DataInv /\ FilesInv)
  <1>1. Init => FilesInv
    BY DEF Init, FilesInv, IdleInv, Active
  <1>2. Init => GraphInv /\ DataInv /\ FilesInv
    BY <1>1, InitGraph, InitData
  <1>3. GraphInv /\ DataInv /\ FilesInv /\ [Next]_vars => (GraphInv /\ DataInv /\ FilesInv)'
    BY NextGraph, NextData, NextFiles
  <1> QED
    BY <1>2, <1>3, PTL DEF Spec

-----------------------------------------------------------------------------
(* What a task finds when it is set up. *)

\* No program is run and no output checked before the compilation it needs, although
\* PushSubmission links a program to its first user only.
THEOREM ProgramReadyAlways == Spec => []ProgramReady
  <1>1. GraphInv /\ DataInv /\ FilesInv => ProgramReady
    <2> SUFFICES ASSUME GraphInv, FilesInv, NEW t \in running,
                        \/ t.type = "EXECUTE"
                        \/ t.type = "SCORING" /\ Sub(t.id).specjudge_type # "NORMAL"
                 PROVE  <<t.id, ProgramOf(t)>> \in compiled
      BY DEF ProgramReady
    <2>1. SubOk(t.id)
      BY TaskContext DEF FilesInv
    <2> QED
      BY <2>1 DEF SubOk, ProgramsOk
  <1> QED
    BY <1>1, FilesCorrect, PTL

\* A stage that is set up finds the output of the stage before: fs::permissions does
\* not throw in the worker.
THEOREM StageInputExistsAlways == Spec => []StageInputExists
  <1>1. GraphInv /\ DataInv /\ FilesInv => StageInputExists
    <2> SUFFICES ASSUME GraphInv, FilesInv, NEW t \in task_queue,
                        t.type = "EXECUTE", t.stage > 0, ~SkipExecute(t)
                 PROVE  PrevOutput(t) \in outputs
      BY DEF StageInputExists
    <2>1. /\ t.id \in Active /\ Sub(t.id) \in Submissions /\ t.td \in Tds(Sub(t.id))
          /\ t \in TasksOf(t.id, Sub(t.id)) /\ t \in Live
          /\ (IsCancelled(t) <=> TdCancelled(t.id, t.td))
      BY OwnContext, TaskContext
    <2>2. t.stage \in Stages(Sub(t.id)) /\ t = ExecuteTask(t.id, t.td, t.stage) /\ t.stage \in Nat
      BY <2>1, TaskShapes, StagesType
    <2>3. BeforeStage(t.id, t.td, t.stage) \notin Live
      <3>1. BeforeStage(t.id, t.td, t.stage) \in ChainTasks(t.id, t.td)
        BY <2>1, <2>2, ChainMembers
      <3>2. Position(BeforeStage(t.id, t.td, t.stage)) < Position(t)
        BY <2>2 DEF BeforeStage, ScoringTask, ExecuteTask, Position
      <3>3. Position(BeforeStage(t.id, t.td, t.stage)) \in Nat /\ Position(t) \in Nat
        BY <2>1, <3>1, ChainMembers, PositionType
      <3> QED
        BY <3>1, <3>2, <3>3, ChainSplit
    <2>4. t \notin running
      BY DEF GraphInv, ReadyTasksQueued
    <2>5. TdOk(t.id, t.td)
      BY <2>1 DEF FilesInv, SubOk
    <2>6. ~Given(t.id, t.td)
      BY <2>1 DEF SkipExecute, Given, SubVerdict
    <2>7. TdRes(t.id, t.td) = Td(t)
      BY <2>5, <2>6, ResultExists DEF TdOk
    <2>8. ~TdRes(t.id, t.td).skip_stage /\ TdRes(t.id, t.td).verdict = NUL
      BY <2>7 DEF SkipExecute
    <2>9. <<t.id, t.td, t.stage - 1>> \in outputs
      BY <2>1, <2>2, <2>3, <2>4, <2>5, <2>6, <2>8 DEF TdOk, TdInput
    <2> QED
      BY <2>9 DEF PrevOutput
  <1> QED
    BY <1>1, FilesCorrect, PTL

\* td_results has the entry that a Setup function reads.
THEOREM TdResultsInBoundsAlways == Spec => []TdResultsInBounds
  <1>1. GraphInv /\ DataInv /\ FilesInv => TdResultsInBounds
    <2> SUFFICES ASSUME GraphInv, FilesInv, NEW t \in task_queue,
                        t.type = "SCORING" \/ (t.type = "EXECUTE" /\ t.stage > 0),
                        submission_list[t.id].verdict = NUL, ~IsCancelled(t)
                 PROVE  t.td \in DOMAIN submission_list[t.id].td_results
      BY DEF TdResultsInBounds
    <2>1. /\ t.id \in Active /\ t.td \in Tds(Sub(t.id))
          /\ (IsCancelled(t) <=> TdCancelled(t.id, t.td))
      BY OwnContext
    <2>2. TdStarted(t.id, t.td) /\ ~Given(t.id, t.td)
      BY <2>1 DEF FilesInv, SubOk, TdOk, Given, SubVerdict
    <2>3. t.td \in DOMAIN TdResults(t.id)
      BY <2>2, ResultExists
    <2> QED
      BY <2>3 DEF TdResults
  <1> QED
    BY <1>1, FilesCorrect, PTL

-----------------------------------------------------------------------------
(* Nothing is left behind. *)

\* The graph of a submission has layers: every edge leads to a later one.
Rank(t) ==
  IF t.type = "COMPILE" THEN 0
  ELSE IF t.type = "SUMMARY" THEN 2 * LastStage(Sub(t.id)) + 3
  ELSE Position(t) + 1

\* A task has a rank, and the tasks it waits for have a smaller one.
LEMMA RankIncreases ==
  ASSUME pushed \in Seq(Submissions), Live \subseteq TaskOf, NEW t \in Live
  PROVE  Rank(t) \in Nat /\ \A u \in LivePreds(t) : Rank(u) < Rank(t)
  <1>1. ASSUME NEW u \in Live
        PROVE  /\ Rank(u) \in Nat /\ Sub(u.id) \in Submissions
               /\ LastStage(Sub(u.id)) \in Nat
               /\ u.type \in {"COMPILE", "EXECUTE", "SCORING", "SUMMARY"}
               /\ u.type \in {"EXECUTE", "SCORING"} =>
                    u.stage \in Nat /\ Position(u) \in Nat
                    /\ Position(u) <= 2 * LastStage(Sub(u.id)) + 1
    <2>1. Sub(u.id) \in Submissions /\ u \in TasksOf(u.id, Sub(u.id))
      BY LiveTask
    <2>2. LastStage(Sub(u.id)) \in Nat
      BY <2>1, StagesType
    <2>3. u.type \in {"COMPILE", "EXECUTE", "SCORING", "SUMMARY"}
      BY <2>1, TaskShapes
    <2>4. u.type \in {"EXECUTE", "SCORING"} =>
            u.stage \in Nat /\ Position(u) \in Nat /\ Position(u) <= 2 * LastStage(Sub(u.id)) + 1
      BY <2>1, PositionType, StagesType
    <2> QED
      BY <2>1, <2>2, <2>3, <2>4 DEF Rank
  <1>2. ASSUME NEW u \in LivePreds(t) PROVE Rank(u) < Rank(t)
    <2>1. u \in Live /\ u.id = t.id /\ Link(Sub(t.id), u, t)
      BY DEF LivePreds, Edge
    <2>2. CASE u.type = "COMPILE"
      <3>1. t.type # "COMPILE"
        BY <2>1, <2>2 DEF Link, LinkCompile
      <3> QED
        BY <1>1, <2>2, <3>1 DEF Rank
    <2>3. CASE u.type = "EXECUTE"
      <3>1. \/ t.type = "SCORING" /\ t.stage = u.stage
            \/ t.type = "EXECUTE" /\ t.stage = u.stage + 1
        BY <2>1, <2>3 DEF Link, LinkExecute
      <3>2. u.stage \in Nat /\ t.stage \in Nat
        BY <1>1, <2>1, <2>3, <3>1
      <3>3. Rank(u) = 2 * u.stage + 1
        BY <2>3, <3>2 DEF Rank, Position
      <3>4. Rank(t) = 2 * t.stage + 1 \/ (t.type = "SCORING" /\ Rank(t) = 2 * t.stage + 2)
        BY <3>1, <3>2 DEF Rank, Position
      <3>5. t.type = "SCORING" => Rank(t) = 2 * t.stage + 2
        BY <3>2 DEF Rank, Position
      <3> QED
        BY <3>1, <3>2, <3>3, <3>4, <3>5
    <2>4. CASE u.type = "SCORING"
      <3>1. \/ t.type = "EXECUTE" /\ t.stage = u.stage + 1
            \/ t.type = "SUMMARY"
        BY <2>1, <2>4 DEF Link, LinkScoring
      <3>2. t.type = "EXECUTE" /\ t.stage = u.stage + 1 => Rank(u) < Rank(t)
        BY <1>1, <2>1, <2>4 DEF Rank, Position
      <3>3. t.type = "SUMMARY" => Rank(u) < Rank(t)
        <4>1. Rank(u) = Position(u) + 1 /\ Position(u) \in Nat
              /\ Position(u) <= 2 * LastStage(Sub(t.id)) + 1 /\ LastStage(Sub(t.id)) \in Nat
          BY <1>1, <2>1, <2>4 DEF Rank
        <4>2. t.type = "SUMMARY" => Rank(t) = 2 * LastStage(Sub(t.id)) + 3
          BY DEF Rank
        <4> QED
          BY <4>1, <4>2
      <3> QED
        BY <3>1, <3>2, <3>3
    <2>5. u.type # "SUMMARY"
      BY <2>1 DEF Link
    <2> QED
      BY <1>1, <2>1, <2>2, <2>3, <2>4, <2>5
  <1> QED
    BY <1>1, <1>2

\* As long as a task is live, one is ready or runs: no submission is ever stuck.
LEMMA SomeTaskReady ==
  ASSUME GraphInv, Live # {}
  PROVE  task_queue \cup running # {}
  <1> DEFINE S == {Rank(t) : t \in Live}
  <1>1. \A t \in Live : Rank(t) \in Nat /\ \A u \in LivePreds(t) : Rank(u) < Rank(t)
    BY RankIncreases DEF GraphInv
  <1>2. S \subseteq Nat /\ S # {}
    BY <1>1
  <1>3. Min(S) \in S /\ \A y \in S : Min(S) <= y
    BY <1>2, MinIsElement
  <1>4. PICK t \in Live : \A u \in Live : Rank(t) <= Rank(u)
    BY <1>3
  <1> HIDE DEF S
  <1>5. LivePreds(t) = {}
    <2>1. ASSUME NEW u \in LivePreds(t) PROVE FALSE
      <3>1. u \in Live
        BY DEF LivePreds
      <3>2. Rank(u) \in Nat /\ Rank(t) \in Nat /\ Rank(u) < Rank(t) /\ Rank(t) <= Rank(u)
        BY <1>1, <1>4, <3>1
      <3> QED
        BY <3>2
    <2> QED
      BY <2>1
  <1>6. task_list[t] = 0
    BY <1>5, FS_EmptySet DEF GraphInv, ReadyTasksQueued
  <1> QED
    BY <1>6 DEF GraphInv, ReadyTasksQueued

\* A worker that goes to sleep has finalized every submission and left no task, no
\* program, no output and no cancelled group behind.
THEOREM IdleMeansDoneAlways == Spec => []IdleMeansDone
  <1>1. GraphInv /\ DataInv /\ FilesInv => IdleMeansDone
    <2> SUFFICES ASSUME GraphInv, FilesInv, pc = "idle", task_queue = {}
                 PROVE  Live = {} /\ Active = {} /\ compiled = {} /\ outputs = {}
                        /\ cancelled_group = {}
      BY DEF IdleMeansDone
    <2>1. running = {}
      BY DEF FilesInv, IdleInv
    <2>2. Live = {}
      BY <2>1, SomeTaskReady
    <2>3. Active = {}
      BY <2>2 DEF GraphInv, SummaryIsLast
    <2> QED
      BY <2>2, <2>3 DEF FilesInv, IdleInv
  <1> QED
    BY <1>1, FilesCorrect, PTL

-----------------------------------------------------------------------------
(* What the overall reports say. *)

\* A testdatum without a verdict has groups, all of which failed; and Accepted means
\* that no testdatum that counts has failed.
ReportExplained(r) ==
  \A td \in Tds(Sub(r.id)) :
    /\ VerdictOf(r.result, td) = NUL =>
         /\ Sub(r.id).skip_group
         /\ Sub(r.id).testdata[td].td_groups # {}
         /\ \A g \in Sub(r.id).testdata[td].td_groups :
              \E k \in Tds(Sub(r.id)) :
                g \in Sub(r.id).testdata[k].td_groups /\ Failed(VerdictOf(r.result, k))
    /\ r.result.verdict = AC /\ ~Sub(r.id).testdata[td].ignore_verdict =>
         ~Failed(VerdictOf(r.result, td))

ReportsInv ==
  \A r \in reports : r.type = "overall" => r.id \in Ids /\ (RunResult(r) => ReportExplained(r))

\* When a submission without a summary program is reported with a verdict of its
\* testdata, each of them was judged, or all its groups were cancelled.
LEMMA OverallExplained ==
  ASSUME GraphInv, DataInv, FilesInv, NEW t \in task_queue \cup running, t.type = "SUMMARY",
         t.id \notin cancelled_list, NEW v, v = OverallVerdict(t.id) \/ t \in running,
         NEW r, r = OverallReport(t.id, [submission_list[t.id] EXCEPT !.verdict = v]), RunResult(r)
  PROVE  ReportExplained(r)
  <1>1. /\ t.id \in Active /\ Sub(t.id) \in Submissions /\ t \in TasksOf(t.id, Sub(t.id))
        /\ SubOk(t.id) /\ submission_list[t.id] \in Result
    BY TaskContext DEF FilesInv, DataInv
  <1>2. /\ r.id = t.id /\ r.result.verdict = v /\ r.result.td_results = TdResults(t.id)
    BY <1>1 DEF OverallReport, Result, TdResults
  <1>3. Sub(t.id).summary_type = "NONE" /\ v < CE
    BY <1>2 DEF RunResult
  <1>4. t = SummaryTask(t.id)
    BY <1>1, TaskShapes
  <1>5. v = OverallVerdict(t.id) /\ (SubVerdict(t.id) = NUL \/ SubVerdict(t.id) >= CE)
    BY <1>1, <1>3, <1>4 DEF SubOk, VerdictOk
  <1>6. SubVerdict(t.id) = NUL
    <2>1. SubVerdict(t.id) # NUL => v = SubVerdict(t.id)
      BY <1>5 DEF OverallVerdict, SubVerdict
    <2>2. SubVerdict(t.id) \in Int
      BY <1>1 DEF Result, SubVerdict, Verdict, NUL, JE
    <2> QED
      BY <1>3, <1>5, <2>1, <2>2 DEF CE
  <1>7. \A td : VerdictOf(r.result, td) = TdRes(t.id, td).verdict
    BY <1>2 DEF VerdictOf, TdRes, NewTdResult
  <1>8. ASSUME NEW td \in Tds(Sub(t.id)), VerdictOf(r.result, td) = NUL
        PROVE  /\ Sub(t.id).skip_group
               /\ Sub(t.id).testdata[td].td_groups # {}
               /\ \A g \in Sub(t.id).testdata[td].td_groups :
                    \E k \in Tds(Sub(t.id)) :
                      g \in Sub(t.id).testdata[k].td_groups /\ Failed(VerdictOf(r.result, k))
    <2>1. LastTask(t.id, td) \notin Live
      <3>1. LastTask(t.id, td).id = t.id /\ LastTask(t.id, td) # t
        BY DEF LastTask, ScoringTask
      <3> QED
        BY <3>1, SummaryAlone
    <2>2. TdDone(t.id, td)
      BY <1>1 DEF SubOk, TdOk
    <2>3. TdCancelled(t.id, td)
      BY <1>6, <1>7, <1>8, <2>1, <2>2 DEF TdDone, Given
    <2>4. Sub(t.id).testdata[td].td_groups # {}
          /\ \A g \in Sub(t.id).testdata[td].td_groups : <<t.id, g>> \in cancelled_group
      BY <2>3 DEF TdCancelled
    <2>5. Sub(t.id).testdata[td].td_groups \subseteq Nat
      BY <2>4 DEF DataInv
    <2> QED
      BY <1>1, <1>7, <2>4, <2>5 DEF SubOk, GroupsOk
  <1>9. ASSUME NEW td \in Tds(Sub(t.id)), v = AC, ~Sub(t.id).testdata[td].ignore_verdict
        PROVE  ~Failed(VerdictOf(r.result, td))
    <2> DEFINE tds == {i \in DOMAIN TdResults(t.id) : ~Sub(t.id).testdata[i].ignore_verdict}
               S   == {AC} \cup {TdResults(t.id)[i].verdict : i \in tds}
    <2>1. v = Max(S)
      BY <1>5, <1>6 DEF OverallVerdict, SubVerdict, TdResults
    <2>2. S \subseteq Verdict /\ S # {}
      <3>1. \A i \in tds : TdResults(t.id)[i] \in TdResult
        BY <1>1 DEF TdResults, Result
      <3> QED
        BY <3>1, VerdictType DEF TdResult
    <2>3. td \in DOMAIN TdResults(t.id) => VerdictOf(r.result, td) \in S
      BY <1>2, <1>9 DEF VerdictOf
    <2>4. td \notin DOMAIN TdResults(t.id) => VerdictOf(r.result, td) = NUL
      BY <1>2 DEF VerdictOf
    <2> HIDE DEF S
    <2>5. \A y \in S : y <= AC /\ y \in Verdict
      BY <1>9, <2>1, <2>2, MaxIsVerdict DEF AC, Verdict, NUL, JE
    <2>6. \A y \in Verdict : y <= AC => y \in {NUL, AC}
      BY DEF AC, Verdict, NUL, JE
    <2> QED
      BY <2>3, <2>4, <2>5, <2>6 DEF Failed
  <1> QED
    BY <1>2, <1>8, <1>9 DEF ReportExplained

\* Reports keep their sense: the submissions they are about are never changed.
LEMMA NextReports == GraphInv /\ DataInv /\ FilesInv /\ ReportsInv /\ [Next]_vars => ReportsInv'
  <1> SUFFICES ASSUME GraphInv, DataInv, FilesInv, ReportsInv, [Next]_vars PROVE ReportsInv'
    OBVIOUS
  <1>1. ASSUME NEW r, Sub(r.id)' = Sub(r.id)
        PROVE  /\ RunResult(r)' <=> RunResult(r)
               /\ ReportExplained(r)' <=> ReportExplained(r)
    BY <1>1 DEF RunResult, ReportExplained, VerdictOf, Failed
  <1>2. \A id \in Ids : id \in Ids' /\ Sub(id)' = Sub(id)
    <2>1. CASE pushed' = pushed
      BY <2>1 DEF Ids, Sub
    <2>2. ASSUME NEW sub \in Submissions, PushSubmission(sub)
          PROVE  \A id \in Ids : id \in Ids' /\ Sub(id)' = Sub(id)
      BY <2>2 DEF PushSubmission, Ids, Sub, GraphInv
    <2> QED
      BY <2>1, <2>2, WorkLoopCancel DEF Next, vars
  <1>3. ASSUME NEW r \in reports, r.type = "overall"
        PROVE  r.id \in Ids' /\ (RunResult(r)' => ReportExplained(r)')
    <2>1. r.id \in Ids /\ (RunResult(r) => ReportExplained(r))
      BY <1>3 DEF ReportsInv
    <2>2. r.id \in Ids' /\ Sub(r.id)' = Sub(r.id)
      BY <1>2, <2>1
    <2> QED
      BY <1>1, <2>1, <2>2
  <1>4. ASSUME NEW r \in reports' \ reports, r.type = "overall"
        PROVE  r.id \in Ids' /\ (RunResult(r)' => ReportExplained(r)')
    <2>1. WorkLoop
      BY <1>4 DEF Next, PushSubmission, vars
    <2>2. PICK t \in task_queue \cup running : \E v :
            /\ t.type = "SUMMARY" /\ t.id \notin cancelled_list
            /\ v = OverallVerdict(t.id) \/ t \in running
            /\ r = OverallReport(t.id, [submission_list[t.id] EXCEPT !.verdict = v])
      BY <1>4, <2>1, NewOverall
    <2>3. PICK v :
            /\ t.type = "SUMMARY" /\ t.id \notin cancelled_list
            /\ v = OverallVerdict(t.id) \/ t \in running
            /\ r = OverallReport(t.id, [submission_list[t.id] EXCEPT !.verdict = v])
      BY <2>2
    <2>4. r.id = t.id /\ t.id \in Ids
      BY <2>3, TaskContext DEF OverallReport
    <2>5. RunResult(r) => ReportExplained(r)
      BY <2>3, OverallExplained
    <2>6. r.id \in Ids' /\ Sub(r.id)' = Sub(r.id)
      BY <1>2, <2>4
    <2> QED
      BY <1>1, <2>5, <2>6
  <1> QED
    BY <1>3, <1>4 DEF ReportsInv

\* ReportsInv is an invariant.
LEMMA ReportsCorrect == Spec => []ReportsInv
  <1>1. Init => ReportsInv
    BY DEF Init, ReportsInv
  <1> QED
    BY <1>1, FilesCorrect, NextReports, PTL DEF Spec

\* A testdatum without a verdict in a final report has only groups that failed, for
\* every order in which testdata end and groups are cancelled.
THEOREM UnjudgedMeansGroupFailedAlways == Spec => []UnjudgedMeansGroupFailed
  <1>1. ReportsInv => UnjudgedMeansGroupFailed
    BY DEF ReportsInv, UnjudgedMeansGroupFailed, ReportExplained, RunResult
  <1> QED
    BY <1>1, ReportsCorrect, PTL

\* Where skip_group is set, no testdatum whose verdict is ignored is in a group with
\* one that counts.
IgnoredApart ==
  \A sub \in Submissions : sub.skip_group =>
    \A td, k \in Tds(sub) :
      /\ ~sub.testdata[td].ignore_verdict
      /\ sub.testdata[k].ignore_verdict
      => sub.testdata[td].td_groups \cap sub.testdata[k].td_groups = {}

\* Accepted means that every testdatum that counts was judged and accepted, unless
\* an ignored testdatum can cancel the group of one that counts.
THEOREM AcceptedMeansAllAcceptedAlways ==
  ASSUME IgnoredApart
  PROVE  Spec => []AcceptedMeansAllAccepted
  <1>1. GraphInv /\ ReportsInv => AcceptedMeansAllAccepted
    <2> SUFFICES ASSUME GraphInv, ReportsInv, NEW r \in reports, RunResult(r),
                        r.result.verdict = AC, NEW td \in Tds(Sub(r.id)),
                        ~Sub(r.id).testdata[td].ignore_verdict
                 PROVE  VerdictOf(r.result, td) = AC
      BY DEF AcceptedMeansAllAccepted
    <2>1. r.id \in Ids /\ ReportExplained(r)
      BY DEF ReportsInv, RunResult
    <2>2. Sub(r.id) \in Submissions
      BY <2>1 DEF GraphInv, Ids, Sub
    <2>3. \A k \in Tds(Sub(r.id)) :
            ~Sub(r.id).testdata[k].ignore_verdict => ~Failed(VerdictOf(r.result, k))
      BY <2>1 DEF ReportExplained
    <2>4. ASSUME VerdictOf(r.result, td) = NUL PROVE FALSE
      <3>1. /\ Sub(r.id).skip_group
            /\ Sub(r.id).testdata[td].td_groups # {}
            /\ \A g \in Sub(r.id).testdata[td].td_groups :
                 \E k \in Tds(Sub(r.id)) :
                   g \in Sub(r.id).testdata[k].td_groups /\ Failed(VerdictOf(r.result, k))
        BY <2>1, <2>4 DEF ReportExplained
      <3>2. PICK g \in Sub(r.id).testdata[td].td_groups : TRUE
        BY <3>1
      <3>3. PICK k \in Tds(Sub(r.id)) :
              g \in Sub(r.id).testdata[k].td_groups /\ Failed(VerdictOf(r.result, k))
        BY <3>1
      <3>4. Sub(r.id).testdata[k].ignore_verdict
        BY <2>3, <3>3
      <3> QED
        BY <2>2, <3>1, <3>2, <3>3, <3>4 DEF IgnoredApart
    <2> QED
      BY <2>3, <2>4 DEF Failed
  <1> QED
    BY <1>1, GraphCorrect, ReportsCorrect, PTL
=============================================================================
