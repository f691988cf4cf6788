---------------------------- MODULE IntakeProofs ----------------------------
(***************************************************************************)
(* The back-pressure of Intake holds, and no submission is forgotten, for  *)
(* any submissions, any kMaxQueue, both kinds of server and any number of  *)
(* lost frames.                                                            *)
(*                                                                         *)
(* IntakeInv adds to the two properties what they rest on: whoever is past *)
(* the lock guard of OneSubmissionThread holds judge_mtx (MutexInv), and a *)
(* submission that is being finalized has its verdict on its way already   *)
(* (AccountInv), so that erasing it forgets nothing.                       *)
(***************************************************************************)
EXTENDS Intake, FiniteSetTheorems, TLAPS

Inside == {"decide", "fetch", "dealing", "pushed", "failed"}

\* The lock guard of OneSubmissionThread.
MutexInv == \A s \in Subs : thread[s] \in Inside => judge_mtx = s

\* The submissions max_submission_queue_size is about.
Loaded == submission_list \cup {s \in Subs : thread[s] \in {"fetch", "dealing"}}

Answered(s) == \E v \in {WaitingVerdict, "JE", "final"} : <<s, v>> \in outbox

\* AssignedIsAccounted without what the next step may take away.
AccountInv ==
  \A s \in Subs : server[s] = "assigned" =>
    \/ s \in frames \cup lost
    \/ thread[s] \notin {"none", "pushed"}
    \/ s \in submission_list /\ s # finalizing
    \/ Answered(s)

IntakeInv == TypeOK /\ MutexInv /\ QueueBounded /\ AccountInv

\* -1 and 0 are no submission ids.
LEMMA NotSubs == NoSub \notin Subs /\ Nobody \notin Subs
  BY IntakeAssumption DEF NoSub, Nobody

\* A smaller load keeps the bound.
LEMMA SmallerLoad ==
  ASSUME QueueBounded, Loaded' \subseteq Loaded, submission_list \subseteq Subs
  PROVE  QueueBounded'
  <1>1. IsFiniteSet(Loaded)
    BY IntakeAssumption, FS_Subset DEF Loaded
  <1>2. IsFiniteSet(Loaded') /\ Cardinality(Loaded') <= Cardinality(Loaded)
    BY <1>1, FS_Subset
  <1>3. Cardinality(Loaded) \in Nat /\ Cardinality(Loaded') \in Nat
    BY <1>1, <1>2, FS_CardinalityType
  <1> QED
    BY <1>2, <1>3, IntakeAssumption DEF QueueBounded, Loaded

\* The invariant of the intake holds when the judge starts.
LEMMA IntakeInit == Init => IntakeInv
  <1> SUFFICES ASSUME Init PROVE IntakeInv
    OBVIOUS
  <1> USE DEF Init
  <1>1. TypeOK
    <2>1. notified \in BOOLEAN /\ fetch \in BOOLEAN
      OBVIOUS
    <2>2. (finalizing # NoSub) <=> (task_mtx = Worker)
      BY DEF Nobody, Worker
    <2> QED
      BY <2>1, <2>2 DEF TypeOK
  <1>2. MutexInv
    BY DEF MutexInv, Inside
  <1>3. QueueBounded
    <2>1. Loaded = {}
      BY DEF Loaded
    <2> QED
      BY <2>1, FS_EmptySet, IntakeAssumption DEF QueueBounded, Loaded
  <1>4. AccountInv
    BY DEF AccountInv
  <1> QED
    BY <1>1, <1>2, <1>3, <1>4 DEF IntakeInv

\* The types are kept.
LEMMA TypeStep == ASSUME TypeOK, [Next]_vars PROVE TypeOK'
  <1> USE DEF TypeOK, remote, receiver, core, poller
  <1>1. ASSUME NEW s \in Subs, Submit(s) PROVE TypeOK'
    BY <1>1 DEF Submit
  <1>2. CASE AnswerFetch
    BY <1>2 DEF AnswerFetch
  <1>3. ASSUME NEW s \in Subs, NEW v \in Status, TakeVerdict(s, v) PROVE TypeOK'
    BY <1>3 DEF TakeVerdict
  <1>4. CASE OnNotify
    BY <1>4 DEF OnNotify, TryFetchSubmission
  <1>5. ASSUME NEW s \in Subs, OnSubmission(s) \/ DropFrame(s) \/ Malformed(s) PROVE TypeOK'
    BY <1>5 DEF OnSubmission, DropFrame, Malformed, TryFetchSubmission
  <1>6. ASSUME NEW s \in Subs, OneSubmissionThread(s) PROVE TypeOK'
    <2>1. CASE TakeJudgeMtx(s)
      BY <2>1 DEF TakeJudgeMtx
    <2>2. CASE Reject(s)
      BY <2>2 DEF Reject, WaitingVerdict, Status
    <2>3. CASE Receive(s)
      BY <2>3 DEF Receive
    <2>4. CASE FetchNext(s)
      BY <2>4 DEF FetchNext, TryFetchSubmission
    <2>5. CASE Push(s)
      BY <2>5 DEF Push, Status
    <2>6. CASE DealFails(s)
      BY <2>6 DEF DealFails
    <2>7. CASE Leave(s)
      BY <2>7 DEF Leave
    <2>8. CASE LeaveFailed(s)
      BY <2>8 DEF LeaveFailed, TryFetchSubmission, Status
    <2> QED
      BY <1>6, <2>1, <2>2, <2>3, <2>4, <2>5, <2>6, <2>7, <2>8 DEF OneSubmissionThread
  <1>7. ASSUME NEW s \in Subs, FinalizeSummary(s) PROVE TypeOK'
    BY <1>7, NotSubs DEF FinalizeSummary, Status, Worker, Nobody
  <1>8. CASE ReportFinalized
    <2>1. fetch' \in BOOLEAN
      BY <1>8 DEF ReportFinalized, TryFetchSubmission
    <2> QED
      BY <1>8, <2>1, NotSubs DEF ReportFinalized, Worker, Nobody
  <1>9. CASE ServerWorkLoop
    <2>1. CASE PollSize
      <3>1. CurrentSubmissionQueueSize \in Nat
        BY IntakeAssumption, FS_Subset, FS_CardinalityType DEF CurrentSubmissionQueueSize
      <3> QED
        BY <2>1, <3>1 DEF PollSize
    <2>2. CASE PollFetch
      <3>1. fetch' \in BOOLEAN
        BY <2>2 DEF PollFetch, TryFetchSubmission
      <3> QED
        BY <2>2, <3>1 DEF PollFetch
    <2>3. CASE SendQueuedSubmissions
      BY <2>3 DEF SendQueuedSubmissions
    <2> QED
      BY <1>9, <2>1, <2>2, <2>3 DEF ServerWorkLoop
  <1>10. CASE UNCHANGED vars
    BY <1>10 DEF vars
  <1> QED
    BY <1>1, <1>2, <1>3, <1>4, <1>5, <1>6, <1>7, <1>8, <1>9, <1>10 DEF Next, Server, Websocket

\* The mutex is held by whoever is inside.
LEMMA MutexStep == ASSUME TypeOK, MutexInv, [Next]_vars PROVE MutexInv'
  <1> USE DEF MutexInv, Inside, remote, receiver, core, poller
  <1>0. thread \in [Subs -> {"none", "start", "decide", "fetch", "dealing", "pushed", "failed"}]
    BY DEF TypeOK
  <1>1. CASE UNCHANGED <<thread, judge_mtx>>
    BY <1>1
  <1>2. ASSUME NEW s \in Subs, OnSubmission(s) \/ Malformed(s) PROVE MutexInv'
    BY <1>0, <1>2 DEF OnSubmission, Malformed
  <1>3. ASSUME NEW s \in Subs, OneSubmissionThread(s) PROVE MutexInv'
    <2>1. CASE TakeJudgeMtx(s)
      BY <1>0, <2>1, NotSubs DEF TakeJudgeMtx
    <2>2. CASE Receive(s) \/ FetchNext(s) \/ Push(s) \/ DealFails(s)
      BY <1>0, <2>2 DEF Receive, FetchNext, Push, DealFails
    <2>3. CASE Reject(s) \/ Leave(s) \/ LeaveFailed(s)
      BY <1>0, <2>3 DEF Reject, Leave, LeaveFailed
    <2> QED
      BY <1>3, <2>1, <2>2, <2>3 DEF OneSubmissionThread
  <1> QED
    BY <1>1, <1>2, <1>3 DEF Next, Server, Websocket, ServerWorkLoop, vars, Submit, AnswerFetch, TakeVerdict,
       OnNotify, DropFrame, FinalizeSummary, ReportFinalized, SendQueuedSubmissions, PollSize, PollFetch

\* Only Receive adds to the load, and it has judge_mtx to itself: the load is
\* the queue it has just compared with kMaxQueue.
LEMMA QueueStep == ASSUME TypeOK, MutexInv, QueueBounded, [Next]_vars PROVE QueueBounded'
  <1> USE DEF remote, receiver, core, poller
  <1>0. /\ thread \in [Subs -> {"none", "start", "decide", "fetch", "dealing", "pushed", "failed"}]
        /\ submission_list \subseteq Subs
    BY DEF TypeOK
  <1>1. CASE UNCHANGED <<thread, submission_list>>
    BY <1>0, <1>1, SmallerLoad DEF Loaded
  <1>2. ASSUME NEW s \in Subs, OnSubmission(s) \/ Malformed(s) PROVE QueueBounded'
    <2>1. Loaded' \subseteq Loaded
      BY <1>0, <1>2 DEF OnSubmission, Malformed, Loaded
    <2> QED
      BY <1>0, <2>1, SmallerLoad
  <1>3. ASSUME NEW s \in Subs, Receive(s) PROVE QueueBounded'
    <2>1. \A t \in Subs : thread[t] \notin {"fetch", "dealing"}
      BY <1>3, <1>0 DEF Receive, MutexInv, Inside
    <2>2. Loaded' = submission_list \cup {s}
      BY <1>0, <1>3, <2>1 DEF Receive, Loaded
    <2>3. IsFiniteSet(submission_list)
      BY <1>0, IntakeAssumption, FS_Subset
    <2>4. /\ Cardinality(submission_list) \in Nat
          /\ Cardinality(Loaded') \in {Cardinality(submission_list), Cardinality(submission_list) + 1}
      BY <2>2, <2>3, FS_AddElement, FS_CardinalityType
    <2>5. Cardinality(submission_list) < kMaxQueue
      BY <1>3 DEF Receive, CurrentSubmissionQueueSize
    <2> QED
      BY <2>4, <2>5, IntakeAssumption DEF QueueBounded, Loaded
  <1>4. ASSUME NEW s \in Subs,
               \/ TakeJudgeMtx(s) \/ Reject(s) \/ FetchNext(s) \/ Push(s)
               \/ DealFails(s) \/ Leave(s) \/ LeaveFailed(s)
        PROVE  QueueBounded'
    <2>1. Loaded' \subseteq Loaded
      BY <1>0, <1>4 DEF TakeJudgeMtx, Reject, FetchNext, Push, DealFails, Leave, LeaveFailed, Loaded
    <2> QED
      BY <1>0, <2>1, SmallerLoad
  <1>5. CASE ReportFinalized
    <2>1. Loaded' \subseteq Loaded
      BY <1>5 DEF ReportFinalized, Loaded
    <2> QED
      BY <1>0, <2>1, SmallerLoad
  <1> QED
    BY <1>1, <1>2, <1>3, <1>4, <1>5 DEF Next, Server, Websocket, ServerWorkLoop, OneSubmissionThread, vars,
       Submit, AnswerFetch, TakeVerdict, OnNotify, DropFrame, FinalizeSummary, SendQueuedSubmissions,
       PollSize, PollFetch

\* No step takes an assigned submission out of the last place that knows it.
LEMMA AccountStep == ASSUME TypeOK, AccountInv, [Next]_vars PROVE AccountInv'
  <1> USE DEF AccountInv, Answered, remote, receiver, core, poller
  <1>0. /\ thread \in [Subs -> {"none", "start", "decide", "fetch", "dealing", "pushed", "failed"}]
        /\ server \in [Subs -> {"none", "waiting", "assigned", "done"}]
        /\ task_mtx = Nobody => finalizing = NoSub
    BY DEF TypeOK, Nobody, Worker
  <1>1. ASSUME NEW s \in Subs, Submit(s) PROVE AccountInv'
    BY <1>0, <1>1 DEF Submit
  <1>2. CASE AnswerFetch
    BY <1>0, <1>2 DEF AnswerFetch
  <1>3. ASSUME NEW s \in Subs, NEW v \in Status, TakeVerdict(s, v) PROVE AccountInv'
    <2> SUFFICES ASSUME NEW t \in Subs, server'[t] = "assigned"
                 PROVE  \/ t \in frames \cup lost
                        \/ thread[t] \notin {"none", "pushed"}
                        \/ t \in submission_list /\ t # finalizing
                        \/ Answered(t)'
      BY <1>3 DEF TakeVerdict
    <2>1. CASE t # s
      BY <1>0, <1>3, <2>1 DEF TakeVerdict
    <2>2. CASE t = s
      <3>1. v \notin {WaitingVerdict, "JE", "final"} /\ server[t] = "assigned"
        BY <1>0, <1>3, <2>2 DEF TakeVerdict
      <3> QED
        BY <1>3, <2>2, <3>1 DEF TakeVerdict
    <2> QED
      BY <2>1, <2>2
  <1>4. ASSUME NEW s \in Subs, OnSubmission(s) \/ DropFrame(s) \/ Malformed(s) PROVE AccountInv'
    BY <1>0, <1>4 DEF OnSubmission, DropFrame, Malformed
  <1>5. ASSUME NEW s \in Subs, OneSubmissionThread(s) PROVE AccountInv'
    <2>1. CASE TakeJudgeMtx(s) \/ Receive(s) \/ FetchNext(s) \/ DealFails(s)
      BY <1>0, <2>1 DEF TakeJudgeMtx, Receive, FetchNext, DealFails
    <2>2. CASE Reject(s) \/ LeaveFailed(s)
      BY <1>0, <2>2 DEF Reject, LeaveFailed
    <2>3. CASE Push(s)
      <3>1. finalizing = NoSub /\ finalizing' = NoSub /\ s # NoSub
        BY <1>0, <2>3, NotSubs DEF Push
      <3>2. outbox \subseteq outbox'
        BY <2>3 DEF Push
      <3> QED
        BY <1>0, <2>3, <3>1, <3>2 DEF Push
    <2>4. CASE Leave(s)
      BY <1>0, <2>4 DEF Leave
    <2> QED
      BY <1>5, <2>1, <2>2, <2>3, <2>4 DEF OneSubmissionThread
  <1>6. ASSUME NEW s \in Subs, FinalizeSummary(s) PROVE AccountInv'
    BY <1>0, <1>6 DEF FinalizeSummary
  <1>7. CASE ReportFinalized
    BY <1>0, <1>7, NotSubs DEF ReportFinalized
  <1>8. CASE OnNotify \/ ServerWorkLoop \/ UNCHANGED vars
    BY <1>8 DEF OnNotify, ServerWorkLoop, SendQueuedSubmissions, PollSize, PollFetch, vars
  <1> QED
    BY <1>1, <1>2, <1>3, <1>4, <1>5, <1>6, <1>7, <1>8 DEF Next, Server, Websocket

\* The invariant of the intake.
LEMMA IntakeCorrect == Spec => []IntakeInv
  <1>1. IntakeInv /\ [Next]_vars => IntakeInv'
    BY TypeStep, MutexStep, QueueStep, AccountStep DEF IntakeInv
  <1> QED
    BY <1>1, IntakeInit, PTL DEF Spec

\* The state of the intake keeps its types; in particular task_mtx is held exactly
\* while a submission is being finalized.
THEOREM IntakeTypes == Spec => []TypeOK
  BY IntakeCorrect, PTL DEF IntakeInv

\* max_submission_queue_size is kept, for every size and any number of threads.
THEOREM QueueBoundedAlways == Spec => []QueueBounded
  BY IntakeCorrect, PTL DEF IntakeInv

\* A submission given to the judge is never forgotten, whatever fails on the way.
THEOREM AssignedIsAccountedAlways == Spec => []AssignedIsAccounted
  <1>1. IntakeInv => AssignedIsAccounted
    BY DEF IntakeInv, AccountInv, AssignedIsAccounted, Answered
  <1> QED
    BY <1>1, IntakeCorrect, PTL
=============================================================================
