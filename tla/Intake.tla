------------------------------- MODULE Intake -------------------------------
(***************************************************************************)
(* How submissions enter the judge (src/server_io.cpp).  Every submission  *)
(* frame gets a thread of its own, OneSubmissionThread, and judge_mtx lets *)
(* one of them at a time decide, prepare (DealOneSubmission) and push.     *)
(* Fetches are asked for by these threads, by a notification, by the       *)
(* worker when it finishes a submission (ReportFinalized) and every ten    *)
(* seconds by ServerWorkLoop, which also reports what the judge holds.     *)
(*                                                                         *)
(* The judging core is the set submission_list: JudgeQueue shows that what *)
(* is pushed ends.  The request queue is a flag for the fetch, which is    *)
(* unique, and a set of verdicts (RequestQueue has the details).  The      *)
(* server is external: it answers a fetch with one waiting submission and  *)
(* takes back one that the judge turns away.                               *)
(***************************************************************************)
EXTENDS Integers, FiniteSets

CONSTANTS
  Subs,               \* submission ids
  kMaxQueue,          \* max_submission_queue_size
  waiting_to_queued,  \* a server before 3.5.3
  MaxLost             \* bound: frames dropped or malformed

ASSUME IntakeAssumption ==
  /\ Subs \subseteq Nat \ {0}
  /\ IsFiniteSet(Subs)
  /\ kMaxQueue \in Nat \ {0}
  /\ waiting_to_queued \in BOOLEAN
  /\ MaxLost \in Nat

NoSub    == -1
Nobody   == 0
Worker   == -2

\* "queued" is how an older server is told that a submission waits.
WaitingVerdict == IF waiting_to_queued THEN "queued" ELSE "waiting"

Status == {"waiting", "queued", "JE", "final"}

VARIABLES
  server,             \* sub -> where the server has it
  notified,           \* a notification is on its way
  frames,             \* submission frames on their way
  lost,               \* submissions whose frame the judge dropped
  fetch,              \* a fetch_submission request is on its way
  outbox,             \* verdicts on their way: <<sub, verdict>>
  thread,             \* sub -> where its OneSubmissionThread is
  judge_mtx,          \* the submission whose thread holds it, or Nobody
  receiving_submission_id,
  submission_list,    \* the judging core's submissions
  task_mtx,           \* Worker while it finalizes a submission
  finalizing,         \* that submission
  loop,               \* where ServerWorkLoop is
  queue_size          \* its local variable

vars == <<server, notified, frames, lost, fetch, outbox, thread, judge_mtx, receiving_submission_id,
          submission_list, task_mtx, finalizing, loop, queue_size>>

remote   == <<server, notified, frames, lost>>
receiver == <<thread, judge_mtx, receiving_submission_id>>
core     == <<submission_list, task_mtx, finalizing>>
poller   == <<loop, queue_size>>

\* receiving_submission_id is a static std::atomic_int without initializer: 0.
Init ==
  /\ server = [s \in Subs |-> "none"]
  /\ notified = FALSE
  /\ frames = {}
  /\ lost = {}
  /\ fetch = FALSE
  /\ outbox = {}
  /\ thread = [s \in Subs |-> "none"]
  /\ judge_mtx = Nobody
  /\ receiving_submission_id = 0
  /\ submission_list = {}
  /\ task_mtx = Nobody
  /\ finalizing = NoSub
  /\ loop = "sleep"
  /\ queue_size = 0

-----------------------------------------------------------------------------
(* The server (external). *)

Submit(s) ==
  /\ server[s] = "none"
  /\ server' = [server EXCEPT ![s] = "waiting"]
  /\ notified' = TRUE
  /\ UNCHANGED <<frames, lost, fetch, outbox, receiver, core, poller>>

\* A fetch is answered by one submission, or by nothing.
AnswerFetch ==
  /\ fetch
  /\ fetch' = FALSE
  /\ \/ \E s \in Subs :
          /\ server[s] = "waiting"
          /\ server' = [server EXCEPT ![s] = "assigned"]
          /\ frames' = frames \cup {s}
     \/ /\ \A s \in Subs : server[s] # "waiting"
        /\ UNCHANGED <<server, frames>>
  /\ UNCHANGED <<notified, lost, outbox, receiver, core, poller>>

TakeVerdict(s, v) ==
  /\ <<s, v>> \in outbox
  /\ outbox' = outbox \ {<<s, v>>}
  /\ server' = [server EXCEPT ![s] = CASE v = WaitingVerdict -> "waiting"
                                       [] v \in {"JE", "final"} -> "done"
                                       [] OTHER -> @]
  /\ UNCHANGED <<notified, frames, lost, fetch, receiver, core, poller>>

-----------------------------------------------------------------------------
(* The websocket thread: OnMessage. *)

\* PushRequest of a unique request: a second fetch replaces the first.
TryFetchSubmission == fetch' = TRUE

OnNotify ==
  /\ notified
  /\ notified' = FALSE
  /\ TryFetchSubmission
  /\ UNCHANGED <<server, frames, lost, outbox, receiver, core, poller>>

\* A detached thread for each frame.
OnSubmission(s) ==
  /\ s \in frames
  /\ frames' = frames \ {s}
  /\ thread' = [thread EXCEPT ![s] = "start"]
  /\ UNCHANGED <<server, notified, lost, fetch, outbox, judge_mtx, receiving_submission_id, core,
                 poller>>

\* std::system_error: "thread limit reached"
DropFrame(s) ==
  /\ s \in frames
  /\ Cardinality(lost) < MaxLost
  /\ frames' = frames \ {s}
  /\ lost' = lost \cup {s}
  /\ UNCHANGED <<server, notified, fetch, outbox, receiver, core, poller>>

-----------------------------------------------------------------------------
(* OneSubmissionThread *)

\* data.at("submission_id") throws: no verdict can be sent.
Malformed(s) ==
  /\ thread[s] = "start"
  /\ Cardinality(lost) < MaxLost
  /\ thread' = [thread EXCEPT ![s] = "none"]
  /\ lost' = lost \cup {s}
  /\ TryFetchSubmission
  /\ UNCHANGED <<server, notified, frames, outbox, judge_mtx, receiving_submission_id, core, poller>>

\* Mutant: the lock guard is missing.
TakeJudgeMtxShared(s) ==
  /\ thread[s] = "start"
  /\ thread' = [thread EXCEPT ![s] = "decide"]
  /\ judge_mtx' = s
  /\ UNCHANGED <<remote, fetch, outbox, receiving_submission_id, core, poller>>

TakeJudgeMtx(s) ==
  /\ thread[s] = "start"
  /\ judge_mtx = Nobody
  /\ thread' = [thread EXCEPT ![s] = "decide"]
  /\ judge_mtx' = s
  /\ UNCHANGED <<remote, fetch, outbox, receiving_submission_id, core, poller>>

\* It takes task_mtx: a caller waits while the worker finalizes a submission.
CurrentSubmissionQueueSize == Cardinality(submission_list)

\* "optionally reject submission here"
Reject(s) ==
  /\ thread[s] = "decide"
  /\ task_mtx = Nobody
  /\ CurrentSubmissionQueueSize >= kMaxQueue
  /\ outbox' = outbox \cup {<<s, WaitingVerdict>>}
  /\ thread' = [thread EXCEPT ![s] = "none"]
  /\ judge_mtx' = Nobody
  /\ UNCHANGED <<remote, fetch, receiving_submission_id, core, poller>>

Receive(s) ==
  /\ thread[s] = "decide"
  /\ task_mtx = Nobody
  /\ CurrentSubmissionQueueSize < kMaxQueue
  /\ receiving_submission_id' = s
  /\ thread' = [thread EXCEPT ![s] = "fetch"]
  /\ UNCHANGED <<remote, fetch, outbox, judge_mtx, core, poller>>

\* The next one is fetched if there is room for two.
FetchNext(s) ==
  /\ thread[s] = "fetch"
  /\ task_mtx = Nobody
  /\ IF CurrentSubmissionQueueSize + 1 < kMaxQueue THEN TryFetchSubmission ELSE UNCHANGED fetch
  /\ thread' = [thread EXCEPT ![s] = "dealing"]
  /\ UNCHANGED <<remote, outbox, judge_mtx, receiving_submission_id, core, poller>>

\* DealOneSubmission succeeds: PushSubmission without a limit (max_queue = 0).
Push(s) ==
  /\ thread[s] = "dealing"
  /\ task_mtx = Nobody
  /\ submission_list' = submission_list \cup {s}
  /\ outbox' = IF waiting_to_queued THEN outbox ELSE outbox \cup {<<s, "queued">>}
  /\ thread' = [thread EXCEPT ![s] = "pushed"]
  /\ UNCHANGED <<remote, fetch, judge_mtx, receiving_submission_id, task_mtx, finalizing, poller>>

DealFails(s) ==
  /\ thread[s] = "dealing"
  /\ thread' = [thread EXCEPT ![s] = "failed"]
  /\ UNCHANGED <<remote, fetch, outbox, judge_mtx, receiving_submission_id, core, poller>>

Leave(s) ==
  /\ thread[s] = "pushed"
  /\ receiving_submission_id' = NoSub
  /\ thread' = [thread EXCEPT ![s] = "none"]
  /\ judge_mtx' = Nobody
  /\ UNCHANGED <<remote, fetch, outbox, core, poller>>

\* Mutant: no verdict for a submission that cannot be prepared.
LeaveFailedSilent(s) ==
  /\ thread[s] = "failed"
  /\ receiving_submission_id' = NoSub
  /\ TryFetchSubmission
  /\ thread' = [thread EXCEPT ![s] = "none"]
  /\ judge_mtx' = Nobody
  /\ UNCHANGED <<remote, outbox, core, poller>>

LeaveFailed(s) ==
  /\ thread[s] = "failed"
  /\ receiving_submission_id' = NoSub
  /\ outbox' = outbox \cup {<<s, "JE">>}
  /\ TryFetchSubmission
  /\ thread' = [thread EXCEPT ![s] = "none"]
  /\ judge_mtx' = Nobody
  /\ UNCHANGED <<remote, core, poller>>

-----------------------------------------------------------------------------
(* The worker: FinalizeSummary, all of it under task_mtx. *)

\* Mutant: the worker does not lock.
FinalizeSummaryUnlocked(s) ==
  /\ s \in submission_list
  /\ task_mtx = Nobody
  /\ finalizing = NoSub
  /\ finalizing' = s
  /\ outbox' = outbox \cup {<<s, "final">>}
  /\ UNCHANGED <<remote, fetch, receiver, submission_list, task_mtx, poller>>

\* ReportOverallResult
FinalizeSummary(s) ==
  /\ s \in submission_list
  /\ task_mtx = Nobody
  /\ task_mtx' = Worker
  /\ finalizing' = s
  /\ outbox' = outbox \cup {<<s, "final">>}
  /\ UNCHANGED <<remote, fetch, receiver, submission_list, poller>>

\* ReportFinalized with the size before the erasure that follows it.
ReportFinalized ==
  /\ finalizing # NoSub
  /\ IF Cardinality(submission_list) = kMaxQueue THEN TryFetchSubmission ELSE UNCHANGED fetch
  /\ submission_list' = submission_list \ {finalizing}
  /\ task_mtx' = Nobody
  /\ finalizing' = NoSub
  /\ UNCHANGED <<remote, outbox, receiver, poller>>

-----------------------------------------------------------------------------
(* ServerWorkLoop *)

\* A report_queued request.  What it says is left out: nothing here depends on
\* it.  Reading the queue for it takes task_mtx.
SendQueuedSubmissions ==
  /\ loop = "sleep"
  /\ task_mtx = Nobody
  /\ loop' = "size"
  /\ UNCHANGED <<remote, fetch, outbox, receiver, core, queue_size>>

PollSize ==
  /\ loop = "size"
  /\ task_mtx = Nobody
  /\ queue_size' = CurrentSubmissionQueueSize
  /\ loop' = "fetch"
  /\ UNCHANGED <<remote, fetch, outbox, receiver, core>>

\* Mutant: the poll only reports.
PollReportsOnly ==
  /\ loop = "fetch"
  /\ loop' = "sleep"
  /\ queue_size' = 0
  /\ UNCHANGED <<remote, fetch, outbox, receiver, core>>

\* "fetch every 10 seconds anyways"
PollFetch ==
  /\ loop = "fetch"
  /\ IF queue_size < kMaxQueue THEN TryFetchSubmission ELSE UNCHANGED fetch
  /\ loop' = "sleep"
  /\ queue_size' = 0
  /\ UNCHANGED <<remote, outbox, receiver, core>>

-----------------------------------------------------------------------------
Server == AnswerFetch \/ \E s \in Subs, v \in Status : TakeVerdict(s, v)

Websocket == OnNotify \/ \E s \in Subs : OnSubmission(s)

OneSubmissionThread(s) ==
  \/ TakeJudgeMtx(s) \/ Reject(s) \/ Receive(s) \/ FetchNext(s)
  \/ Push(s) \/ DealFails(s) \/ Leave(s) \/ LeaveFailed(s)

ServerWorkLoop == SendQueuedSubmissions \/ PollSize \/ PollFetch

Next ==
  \/ Server \/ Websocket \/ ReportFinalized \/ ServerWorkLoop
  \/ \E s \in Subs :
       Submit(s) \/ DropFrame(s) \/ Malformed(s) \/ OneSubmissionThread(s) \/ FinalizeSummary(s)

Spec == Init /\ [][Next]_vars

\* Every thread is scheduled, the server answers, and what is pushed is judged
\* (JudgeQueue, EveryPushAnswered).  Nothing is assumed of who gets a mutex.
FairSpec ==
  /\ Spec
  /\ WF_vars(AnswerFetch) /\ WF_vars(OnNotify)
  /\ WF_vars(ServerWorkLoop) /\ WF_vars(ReportFinalized)
  /\ \A s \in Subs : WF_vars(OnSubmission(s)) /\ WF_vars(OneSubmissionThread(s)) /\ WF_vars(FinalizeSummary(s))
  /\ \A s \in Subs : WF_vars(\E v \in Status : TakeVerdict(s, v))

-----------------------------------------------------------------------------
(* Properties *)

\* Types of the intake's state.
TypeOK ==
  /\ server \in [Subs -> {"none", "waiting", "assigned", "done"}]
  /\ notified \in BOOLEAN /\ fetch \in BOOLEAN
  /\ frames \subseteq Subs /\ lost \subseteq Subs
  /\ outbox \subseteq Subs \X Status
  /\ thread \in [Subs -> {"none", "start", "decide", "fetch", "dealing", "pushed", "failed"}]
  /\ judge_mtx \in Subs \cup {Nobody}
  /\ receiving_submission_id \in Subs \cup {0, NoSub}
  /\ submission_list \subseteq Subs
  /\ task_mtx \in {Nobody, Worker}
  /\ finalizing \in Subs \cup {NoSub}
  /\ (finalizing # NoSub) <=> (task_mtx = Worker)
  /\ loop \in {"sleep", "size", "fetch"}
  /\ queue_size \in Nat

\* max_submission_queue_size is kept although PushSubmission is called without
\* a limit and long after the check in OneSubmissionThread.
QueueBounded ==
  Cardinality(submission_list \cup {s \in Subs : thread[s] \in {"fetch", "dealing"}}) <= kMaxQueue

\* A submission the server has given to the judge is on its way, in a thread,
\* in the queue, or its verdict is on its way: no path through
\* OneSubmissionThread and FinalizeSummary forgets it.
AssignedIsAccounted ==
  \A s \in Subs : server[s] = "assigned" =>
    \/ s \in frames \cup submission_list \cup lost
    \/ thread[s] # "none"
    \/ \E v \in {WaitingVerdict, "JE", "final"} : <<s, v>> \in outbox

\* Every submission that waits on the server is judged at last (or its frame was
\* dropped).  A fetch follows a finished submission only if the queue was full
\* when it was erased, so that some interleavings leave it to the poll.
EverySubmissionJudged ==
  \A s \in Subs : (server[s] = "waiting") ~> (server[s] = "done" \/ s \in lost)
=============================================================================
