# tioj-judge in TLA+

`tioj-judge` fetches submissions from a TIOJ web server over a websocket, compiles and runs
them in sandboxes, has the outputs checked, and reports verdicts. This directory models the
parts of it that carry its logic: how submissions enter the judge, the testdata on its disk,
the judging core, the pool of sandboxes, the computation of results, the default checker, and
the queue of outgoing requests. TLC checks the models on small instances; TLAPS proves the most
important invariants for every instance.

Paths below are relative to the repository.

## 1. Inventory

The judge is one process. Its threads, and what they share:

| thread | runs | takes |
|---|---|---|
| main | `WorkLoop` (`src/tioj/submission.cpp`), `RunTask`/`WaitAnyResult` (`src/tioj/tasks.cpp`) | `task_mtx`, `td_file_lock` |
| server | `ServerWorkLoop`: report and fetch every 10 s | `task_mtx`, `request_queue_mtx` |
| request | `RequestLoop`: sends all requests | `request_queue_mtx`, `backup_queue_mtx` |
| websocket | `OnOpen`, `OnMessage`, `OnClose`, `OnFail` | both queue mutexes |
| one per submission | `OneSubmissionThread`, `DealOneSubmission`, `PushSubmission` | `judge_mtx`, `task_mtx`, `td_file_lock` |

Sandboxes are child processes; the main thread talks to them through pipes.

| component | state | operations | what makes it correct | module |
|---|---|---|---|---|
| submission intake | `receiving_submission_id`, the queue length, the fetches under way | `OnMessage`, `OneSubmissionThread`, `ReportFinalized`, `ServerWorkLoop` | the queue limit is kept, no submission is forgotten, every one is judged at last | Intake |
| testdata store | files, symlinks, sqlite rows | the update in `DealOneSubmission`, the copies of `SetupScoring` | an accepted submission finds its testdata, whatever was edited, failed or cut off before | TestdataStore |
| judging core | `task_list`, `task_queue`, `handle_map`, `submission_list`, `submission_id_map`, `cancelled_list`, `cancelled_group`, the files passed between tasks | `PushSubmission`, `WorkLoop` with the four `Setup*`/`Finalize*` pairs | each task runs once, after what it needs; a submission outlives its tasks; a rejudge silences the judging it replaces; every submission is answered | JudgeQueue, JudgeService |
| task graph | none (a function of the submission) | the graph and the order of testdata in `PushSubmission` | acyclic, one chain per testdatum, the summary last | TaskGraph |
| verdicts | none | the verdict part of `FinalizeCompile`, `FinalizeExecute`, `Read*Result` | a verdict only gets worse where the code says so | Verdicts |
| score computation | `td_results`, `total_score` | `RunExecute`'s limits, `FinalizeExecute`, the five checker protocols, `FinalizeSummary` | limits, margins and roundings fit together; scores stay in range; skipping touches only groups that have failed | Results |
| sandbox pool | `uid_pool`, `cpuid_pool`, `running`, `finished` | `RunTask`, `Wait`, `WaitAnyResult` | no two sandboxes share a user id or CPU; nothing leaks; every handle is known | TaskPool |
| default checker | two streams | `tools/default-scoring.cpp` | its loops decide the definition of each mode, and end | DefaultScoring |
| outgoing requests | `unsent_timestamps`, `unique_timestamp_map`, `unique_requests`, `request_queue`, `backup_queue` | `PushRequest`, `CheckUniqueRequests`, `RequestLoop`, `ResendBackupRequests` | nothing waits for ever, nothing is lost or sent twice | RequestQueue |
| websocket client | `connected_`, `close_issued_`, `hdl_` | `Connect`, `Send`, `Close`, callbacks | the request loop may use it at any moment | in RequestQueue |
| sandbox options, paths, logger, configuration, HTTP | none, or files only | straight-line code | | not modelled |

How they interact: the websocket client hands submission frames to the intake, which brings the
testdata store up to date and calls `PushSubmission`; the core calls `RunTask` and
`WaitAnyResult`, copies testdata under `td_file_lock`, and calls the reporter's callbacks under
`task_mtx`; the callbacks push requests and fetch new submissions; the request loop sends what
was pushed over the websocket client. What is hard: a rejudge may arrive at any point of a
judging; tasks of several submissions end in any order; a group may be cancelled while its
testdata run; frames are handled in any order and the queue is counted long before it grows; an
update of testdata may fail or be cut off between any two file operations; the connection may
come and go between any two steps of the request loop, which works without its lock while it
sends; `fork` and `pipe` may fail. PROJECT.json lists the hazards with their lines.

## 2. Modules

| module | content |
|---|---|
| Verdicts | the verdict enumeration, and for each function that assigns a verdict the set of those it can leave |
| TaskGraph | the tasks and edges that `PushSubmission` builds; the layering of testdata |
| JudgeQueue | the judging core; extends the two above |
| JudgeService | what the core promises: an abstract specification of four variables |
| MCJudgeQueue | the submissions of the TLC instances |
| Results, MCResults | the numbers of one judging; extends Verdicts |
| TaskPool | the sandboxes and the worker's use of them |
| Intake | frames, intake threads, back-pressure and polling |
| TestdataStore | the testdata of one problem on disk and in the database |
| RequestQueue | the outgoing requests, the request loop and the connection |
| DefaultScoring, MCDefaultScoring | the default checker |
| JudgeQueueProofs | theorems about JudgeQueue: the graph of tasks, types, cancellation, the refinement of JudgeService, and the order of testdata |
| JudgeFilesProofs | the files tasks find and what reports say; extends JudgeQueueProofs |
| TaskPoolProofs, IntakeProofs, RequestQueueProofs, ResultsProofs, TestdataStoreProofs, DefaultScoringProofs | theorems about the module of that name |

The modules share boundaries, not state. JudgeQueue takes verdicts from the sets of Verdicts;
Results computes them from numbers and is shown to stay in those sets (`VerdictsCovered`).
Intake takes from JudgeQueue that what is pushed ends (`EveryPushAnswered`). JudgeQueue takes
from TaskPool that every task is returned (`EveryTaskReturned`). DefaultScoring is the program
whose output Results reads when a problem has no checker of its own.

### JudgeQueue

A step is one critical section of `task_mtx`, or one iteration of the loop inside it. `pc` is
`"idle"` in `task_cv.wait`, `"waiting"` in `WaitTask`, and `"loop"` in between;
`PushSubmission` is possible in the first two only. A task is the record of its submission's
internal id, type, testdatum and stage; `task_list` maps a live task to its indegree, edges are
a relation (`Link`) and not state. `running` stands for `handle_map` and `task_running`.
`Dispatch*` are `DispatchTask` with the corresponding `Setup*`, including the paths that
finalize at once (a cancelled compilation, a skipped stage, a verdict that needs no checker, a
checker of type SKIP, a summary without program); `*Ends` are `FinalizeTask` with the
corresponding `Finalize*`, where the result of the sandbox is chosen from a constant set.
`task_queue.top()` is any maximal task, as the order of equal ones is the heap's.

`compiled` and `outputs` are the files whose absence makes the worker throw: the compiled
programs, and the output of each stage in the place where the next stage looks for it.
`reports` collects the calls of the reporter. Those of `ReportCEMessage`, `ReportJCEMessage` and
`ReportFinalized` are made for a cancelled judging too; `server_reporter` sends nothing about the
submission for them, so `NoStaleReport` is about the other three (`SentToServer`). Internal ids
are the positions in `pushed`:
`GetUniqueSubmissionInternalId` counts from 1, and `judge_mtx` makes numbering and pushing one
step.

Abstracted: scores, times and memory (in Results) and the text of messages; the contents of files; what
programs print, of which only the named verdict is kept.

### Results

One submission after its compilation, with what its programs use and its checker prints chosen
from constant sets. `RunExecute` has the limits of the sandbox for the stage at hand;
`TimeKill` and `OomKill` say what cjail does beyond them. `Execute` is one execution with its
`FinalizeExecute`, `RunChecker` and `CheckerEnds` are the two halves of a scoring,
`FinalizeSummary` the end. Testdata advance in any order. Amounts are scaled: `Unit` is 1'000'000,
`FullPoints` 100, `kMax` the 1'000'000 of `NormalizeScore`; times are small integers, so that
every rounding of `kTimeMultiplier` occurs. Left out: virtual memory (treated like resident
memory), `total_time`, `total_memory`, messages and meta files. A checker
prints each field at most once.

### Intake

`thread[s]` is where the `OneSubmissionThread` of submission `s` is; `judge_mtx` and `task_mtx`
are explicit, as who waits for whom is the point. Between the check of the queue's size, the
second check, and the push the thread takes separate steps, in which the worker may finish
submissions and the poll may fetch. The worker's `FinalizeSummary` holds `task_mtx` over its two
callbacks (`ReportOverallResult`, then `ReportFinalized` with the size before the erasure).
Frames may be dropped ("thread limit reached") or malformed, up to `MaxLost` of them. The
submission list stands for the judging core, a flag and a set for the request queue. The server
is external: it answers a fetch by one waiting submission or nothing, and takes back one that is
returned as waiting. Left out: the content of `report_queued`.

### TestdataStore

`Operations(m)` is the list of file operations that the comparison of the message with the
database calls for, in the order of the code; a step executes the first of them, and
`UpdateFails` (an early return) or `Restart` may happen before any. `UpdateTd` comes last and
never removes rows. `SetupScoring` copies input and answer in one section of `td_file_lock`. The
server (external) adds, changes, removes and swaps testdata; a message carries the list as it
was when sent, a download brings what the server has now. `reordered`, `torn`, `pending` and
`touched` are history. Left out: files of the problem other than testdata, compression, and the
fields that are read from the message into the submission; a message that cannot be parsed
changes nothing here, and is `DealFails` in Intake.

### DefaultScoring

The arguments, then one round of a comparison loop per step. A file is a sequence of characters:
blanks, vertical tabs, newlines and words, a word being one atom. `Lines` is what `getline` makes
of it, and a stream is the lines not yet read, so that `eof()` is emptiness: `getline` sets it
when it returns the last line, which is there, empty, after a final newline too. The lines and
the words of a line are cut out by the positions of their separators (`Nth`, `Select`); that this
is the usual splitting is evaluated by TLC on the files of the instance (`LinesCorrect`).
`StrictCompare` reads blocks of `kBufSize` characters. Numbers are multiples of 1 / `One`, with
infinity and nan, in the files and as the threshold; what `stold` makes of a word is a constant
operator. Left out: the text of messages, and an answer file that cannot be opened.

### TaskPool

The state of `tasks.cpp` and the worker that uses it. A handle is a descriptor; `open` holds
those not yet closed, and `pipe()` may return any other. Which task is dispatched when is left
open: the worker may dispatch while it has a slot, and may wait while something is in flight.
`DispatchFails` is a failing `pipe()` or `fork()` (both leave the pools as they were), after
which the handle is -1. It may happen any number of times (`MaxFailures` bounds it for TLC): a
second -1 overwrites the first in `handle_map`, which the history `forgotten` records, and
`WaitTask` may then look for a -1 that is not there (`WaitUnknown`, which ends in `"crashed"`).

### RequestQueue

Steps are the critical sections of `request_queue_mtx`; between `lck.unlock()` and
`lck.lock()` the loop takes two steps (`Send`, `Backup`) in which the other threads may push,
clear the backup or resend it. The connection's flags change outside the lock (`Connect`,
`Disconnect`), the queue only inside it (`Subscribe`, `FetchOnOpen`, `OnClose`). Time is a
counter of ticks; `SendTime` has the truncation of `long ts`. `Crash` is the dereference of
`end()` in `CheckUniqueRequests`, and `Close` crashes when the handle was reset since
`CanSend`. `SendStatus` is the status of an intake thread that turns a submission away, fails on
it or has queued it; the same submission may have an open judging, whose waiting results it
erases (`dropped`). Left out: `report_queued`, which is the same push as a fetch under another
key.

### JudgeService

Judgings are accepted, superseded by a later one of the same submission, and retired; exactly
those that are not superseded are answered. JudgeQueue implements it with `submission_list`,
`cancelled_list` and the overall reports as `active`, `superseded` and `answered`.

## 3. Runs

`CHECK_DEADLOCK FALSE` is set where the model rightly stops: when the bound on pushes, judgings
or tasks is used up, or the one judging or comparison has ended. In intake and testdata
something can always happen, and deadlock is checked.

| run | instance | shows |
|---|---|---|
| judge_stages | two pushes out of three submissions: three stages judged in between with the problem's program in the middle one; two stages, old checker, summary program; two stages of type SKIP. Or two out of a submission with three testdata in two overlapping groups with `skip_group` and one with an ignored testdatum (`OneKind` keeps the two kinds apart). Two sandboxes | `TypeOK`, `ReadyTasksQueued`, `SummaryIsLast`, `StagesInOrder`, `ProgramReady`, `StageInputExists`, `TdResultsInBounds`, `IdleMeansDone`, `UnjudgedMeansGroupFailed`, `AcceptedMeansAllAccepted`, `NoStaleReport` |
| judge_rejudge | three pushes of a submission with two priorities and of one without testdata, at most two in the queue, one sandbox | `OneJudgingPerSubmission`, `EveryPushAnswered`, `ImplementsService` |
| judge_young | submission ids 1 and 2, three pushes | violates `NoStaleReport` |
| results | two stages with programs around every limit; two stages with everything that each of the five kinds of checker can print, and a summary program; four testdata in overlapping groups and an empty one, with and without `skip_group` and an ignored testdatum | `SentinelUnreachable`, `TleMeansTime`, `StagesShareLimit`, `SkipSparesPassing`, `VerdictsCovered` |
| pool | four tasks, three sandboxes, three uids, two pinned CPUs, four descriptors, up to three failures | `SandboxesApart`, `UidAvailable`, `HandlesKnown`, `EveryTaskReturned` |
| intake | three submissions, a queue of two, one lost frame, a server before 3.5.3 | `TypeOK`, `QueueBounded`, `AssignedIsAccounted`, `EverySubmissionJudged` |
| testdata | two testdata, four edits, three messages, one interruption | `TypeOK`, `AcceptedIsStored`, `RetryRepairs`, `ScoringPair` |
| testdata_order | two testdata, three messages, no interruption | violates `NotDownloadedIsThere` |
| checker | pairs of files of up to three lines in every mode; pairs of lines with numbers in every float mode | `DecidesReference`, `StricterImplies`, `MatchAccepted`, `Ends` |
| requests | one judging of two testdata, one connection, one more fetch or one status of the intake, time from 2.5 to 3 seconds in half-second ticks | `TypeOK`, `WaitingIsTimed`, `OpenResultsKept`, `FinalOnce`, `EveryFinalHanded` |
| requests_timestamps, requests_lost | one connection, no further fetch and no status of the intake | violate `TimedIsWaiting`, `FinalNotLost` |

Why the bounds are enough. Two submissions in flight are what it takes for a rejudge, for a
competition about sandboxes and for a push during the wait; judge_rejudge has three, so that a
cancelled judging can be overtaken twice. Three stages are the least with a stage that is
neither first nor last; two testdata are the least for an out-of-order end, three for groups
that overlap without being equal. In results two stages are enough because a stage sees only
what those before have used in sum; the scale 3/2 of times has both roundings. Three submissions
for a queue of two are the least for one to be turned away while another is between check and
push. Two testdata and four edits allow a testdatum to be removed and the other to move to its
place, three messages an old one between two newer ones. In checker two lines let each file end
first, with and without blank rest, a third separates the blank rest from the content, and
blocks of two characters end at, before and after the end of a file. One key is enough in RequestQueue
because keys share nothing but the queue, in which the subscription and the fetches stand for
the other keys; two testdata are needed for a merge, and the ticks let an interval and a
truncated second pass. In TaskPool four descriptors and three sandboxes let a closed
descriptor be reused while another is collected but not returned; two CPUs make the third child
unpinned; three failures let one overwrite another twice, or once with a child running beside
them. What a bound hides is the reason for the theorems, which have none. Two larger instances pass as
well and are not kept because they only take longer: intake with a server of 3.5.3 or later
(`waiting_to_queued = FALSE`), and requests with two connections and neither
a further fetch nor a status.

Fairness. JudgeQueue: weak fairness of `WorkLoop` as a whole. The main thread runs nothing
else, and a sandbox in it ends because cjail kills it at its wall time. Nothing is assumed of
the threads that push. TaskPool: weak fairness of the worker and of the end of each child, for
the same reason. Intake: weak fairness of each intake thread, of the poll, of the websocket
callbacks, of the two halves of finishing a submission (JudgeQueue's liveness) and of the
server's answers; weak, so nothing says who gets a mutex that several threads want. Nothing is
assumed of frames being kept: the property excepts those dropped. RequestQueue: weak fairness of
the request loop without `Silent`; its wait has a timeout, and no thread keeps the mutex. Nothing
is assumed of the network: `EveryFinalHanded` speaks of handing a result to `Send`, and excepts a
request thread that has died. DefaultScoring: weak fairness of its one thread.

Every property of a passing run is accompanied by a mutant: an operator, defined next to the
one it replaces, that has a plausible mistake and makes the property fail.

## 4. What the runs found

* **Rejudge of a submission whose id is small** (judge_young). `FinalizeSummary` erases
  `submission_id_map` with the internal id as key (`src/tioj/submission.cpp:936`), the map being
  keyed by the submission id. If the two ranges overlap, a running judging loses its entry, its
  rejudge does not cancel it, and both report. If they do not, entries stay for ever, which is
  harmless except for memory. The passing runs use ids above every internal id, and the
  theorems `OneJudging` and `NoStaleReports` assume exactly that.
* **A timestamp without a request** (requests_timestamps), at the line commented "should always
  exist" (`src/server_io.cpp:127`).
* **A lost final result** (requests_lost): the queue is drained without a connection, and the
  backup is cleared by the first message of the next one.
* **Testdata believed to be there** (testdata_order): an older message handled after a newer one
  removes the files of a testdatum whose row in the database stays; the next message with it
  downloads nothing.

Modelling met other behaviour that surprises but contradicts no document, so that no run is
about it:

* Under `skip_group` a failed testdatum cancels its groups even if its own verdict is ignored
  (`src/tioj/submission.cpp:780`); a submission may then be Accepted with testdata unjudged.
  The instances of JudgeQueue have ignored testdata without `skip_group` only, those of Results both.
* A status request of a judging, when sent, erases the map entry that its final result looks for
  (`src/server_io.cpp:309`), so that testdata results are sent after the final one.
* Two failed `RunTask` calls in flight share the handle -1 (`src/tioj/submission.cpp:976`): the
  first task is forgotten and its slot of `task_running` lost, and once nothing else is in flight
  `WaitTask` reads through `end()`. The model does this too; `HandlesKnown` and
  `EveryTaskReturned` say that nothing else loses a task.
* A status that the intake pushes for a submission received again (`src/server_io.cpp:166`, 183,
  651) erases the results of its open judging that wait (`src/server_io.cpp:110`). Unless the
  compilation failed, the final result repeats them; `OpenResultsKept` names it as the only way
  to lose one.
* Under `skip_group` the score of a failed group can depend on the order of testdata when a
  failed one has a partial score: a skipped testdatum counts as 0 only if `td_results` reaches to
  it (`src/tioj/submission.cpp:891`). `SkipSparesPassing` says that other groups do not depend on
  it.
* A testdatum swapped back to where the database has it, after an update that was interrupted
  among the symlinks, is not linked again: the exception `torn` of `AcceptedIsStored`.
* A Kattis checker that accepts an intermediate stage without `nextpass.in` ("immediate success")
  and without a score leaves Accepted with score 0 (`src/tioj/submission.cpp:697`).
* `report_queued` reads the queue before `receiving_submission_id`, so that a submission pushed in
  between is missing from it, and reports id 0 before the first submission
  (`src/server_io.cpp:743`).
* The default checker takes `verbose` after `float-diff` for the subtype and then rejects
  everything; it rejects `nan` and `inf` for themselves, and accepts any finite number for `inf`
  under a relative bound.

## 5. Proofs

| theorem | of | assumes |
|---|---|---|
| `ReadyTasksQueuedAlways`, `SummaryIsLastAlways`, `StagesInOrderAlways` | JudgeQueue | the constants' assumptions only |
| `TypeCorrect` | JudgeQueue | the same |
| `OneJudging`, `NoStaleReports` | JudgeQueue | `DisjointIds`: no submission id is an internal id |
| `ServiceSteps`: the safety part of JudgeQueue implements JudgeService | JudgeQueue | `DisjointIds` |
| `ProgramReadyAlways`, `StageInputExistsAlways`, `TdResultsInBoundsAlways`, `IdleMeansDoneAlways`, `UnjudgedMeansGroupFailedAlways` | JudgeQueue | the constants' assumptions only |
| `AcceptedMeansAllAcceptedAlways` | JudgeQueue | `IgnoredApart`: under `skip_group` no ignored testdatum shares a group with one that counts |
| `LowerBoundDefined`, `TdOrderBijective`, `GroupsTriedInTurnAlways` | TaskGraph | the constants' assumptions only |
| `PoolTypes`, `SandboxesApartAlways`, `HandlesKnownAlways`, `UidAvailableAlways` | TaskPool | the constants' assumptions only |
| `IntakeTypes`, `QueueBoundedAlways`, `AssignedIsAccountedAlways` | Intake | the constants' assumptions only |
| `RequestTypes`, `WaitingIsTimedAlways`, `FinalOnceAlways`, `OpenResultsKeptAlways` | RequestQueue | the same |
| `SentinelUnreachableAlways`, `TleMeansTimeAlways`, `StagesShareLimitAlways`, `SkipSparesPassingAlways`, `VerdictsCoveredAlways` | Results | the same |
| `StoreTypes`, `RetryRepairsAlways`, `ScoringPairAlways`, `AcceptedIsStoredAlways` | TestdataStore | the same |
| `DecidesReferenceAlways`, `StricterImpliesAlways`, `MatchAcceptedAlways` | DefaultScoring | the same |

The constants' assumptions: bounds are natural numbers, there is a sandbox and room for one
submission; outcomes are verdicts the code can produce; the stages of the problem's program
exist, which `DealOneSubmission` checks, and a testdatum has finitely many groups; there are at
least as many uids as sandboxes (`kMaxParallel` <= `kUidPoolSize`, which `main.cpp` does not compare);
submission ids are positive. In Results limits and scores are integers, exit statuses have eight
bits, and a microsecond is never indicated as more than the CPU margin
(`kTimeMultiplier` <= 50'000; 1 by default). In TestdataStore `None` is different from
every value it stands beside, and the testdata ids are finitely many numbers. In DefaultScoring
words are different from separators, infinity, nan and the failed conversion are no numbers, and
blocks are not empty.

The two named hypotheses are not about the model but about the use of the code, and each
excludes something the code gets wrong: without `DisjointIds` run judge_young shows the
violation, and without `IgnoredApart` an ignored testdatum cancels the groups of one that counts
(section 4).

*The graph.* None of the three properties is inductive alone: that a successor of a removed task
is found needs `SummaryIsLast`, that the summary is last needs `StagesInOrder`, and both need to
know that a task of indegree 0 has no live predecessor. `GraphInv` in JudgeQueueProofs is their
conjunction with the types of the graph. Four lemmas about TaskGraph carry it: a task of a
testdatum that is not the first has a predecessor at the place before (`ChainPredecessor`, so
that behind a live task nothing can be ready), the chain ends in a scoring that the summary
waits for (`ChainEnd`), a compilation is waited for by the summary or by some testdatum
(`CompileSuccessor`), and the minimum that picks the first stage exists (`MinIsElement`). Hence
a ready summary is the only live task of its submission (`SummaryAlone`), and `Remove`, `Run`
and `PushSubmission` each preserve the invariant: removing a task without live predecessors
lowers the number of live predecessors of each successor by exactly one.

*Types and reports.* `DataInv` types the results, the cancellation state
and the files, on top of `GraphInv`, which says that the task being finalized belongs to an
active submission. `MapInv` says that for every judging that is active and not cancelled the
map leads from its submission id to it, and that it is the newest. `DisjointIds` is used where
`EraseSubmissionId` must leave the entries of other submissions alone (`SummaryKeepsMap`). A
call that sends something to the server is made only for a judging that is active and not
cancelled, hence the newest; the calls with a message and `ReportFinalized` are made for
cancelled judgings too, and send nothing about the submission.

*The pool.* `PoolInv` in TaskPoolProofs has three parts: `handle_map` is a bijection between
handles and the tasks in flight that were not forgotten, and `task_running` counts both
(`MapInv`); the open descriptors are
those of running and finished children, children hold distinct uids and CPUs, and every uid is
in the pool or with a child (`ChildInv`); the handles are those descriptors, and -1 only after
a failure (`JoinInv`). A second failure moves a task from the map to `forgotten` and keeps the
sum; there are fewer forgotten tasks than failures, since the first failure overwrites none.
`UidAvailable` follows by counting: fewer children run than there are sandboxes, and there are
at least as many uids.

*The intake.* `QueueBounded` counts the queue together with the threads that have passed the
check and not yet pushed; without them it would not be inductive. Only `Receive` adds to that
load, and since it holds `judge_mtx` (`MutexInv`: whoever is past the lock guard holds it) no
other thread is in it, so that the load is the queue it has just compared with `kMaxQueue`.
`AssignedIsAccounted` alone is not inductive either: erasing a finalized submission, or the end of
a thread that has pushed, would seem to forget it. `AccountInv` counts only submissions that are
not being finalized and threads that have not pushed; finalizing puts the verdict on its way
first, in the same critical section.

*The refinement.* `ServiceSteps` shows that `Init` implies the initial predicate of JudgeService
and that every step of `Next` is one of its steps or a stutter, under the mapping of the module.
`MapInv` says which entries of `submission_id_map` are there, `MapSound` that an entry leads to a
judging of its own submission; together they make `PushSubmission` void exactly the judgings of
the same submission. A step of the worker retires a judging exactly when it removes a summary.

*Files.* `FilesInv` in JudgeFilesProofs says of every active submission how its live tasks, its
results and its files fit together, testdatum by testdatum (`TdOk`): a stage that may run and is
not to be skipped has the output of the stage before, the results that exist are those of
executions that have ended, a verdict that ends the testdatum stays. A step concerns at most one
testdatum; for the others `TdFrame` holds and carries `TdOk` over (`FrameKeepsTd`). For that one
`GraphInv` gives that what is before the task at hand is gone and what is behind it is live
(`ChainSplit`). `IdleMeansDone` needs that a live task implies a ready one, which is an argument
by descent: every edge leads to a task of larger `Rank`, so that among the live tasks one of
least rank waits for nothing. The reports are a set that only grows, so `ReportsInv` says of each
what was true when it was made: a testdatum without a verdict has groups, all of which failed.

*The order of testdata.* `Place` is the index of an element in a sorted order; it grows with the
order and so is an injection into as many numbers as there are elements, hence a bijection
(`PlaceBijective`, used for both sorts). The loop that fills the layers keeps `LayersOk`
(`PlaceKeepsLayers`): each layer has all groups of the next, since a testdatum is put behind only
the layers that have all of its groups already; every group of a layer is that of a testdatum in
it. Nestedness is what `std::lower_bound` needs in each round (`LowerBoundDefined`), and why the
model may take the first layer by a minimum; with the second half it gives
`GroupsTriedInTurn`, the comment's "tries to fill each layer with as many groups as possible
before proceeding to the next layer". The loop is a recursive function; that such a function
exists is again an induction over the set of numbers for which it does. TLC evaluates the same
statements for all ways to put up to three testdata into two groups (`OrderCorrect`).

*Requests.* `Types` describes the three tables and the three queues, with who owns a request.
`FinalOnce` becomes `OnceInv`, queue by queue, as a request moves between queues and is copied to
the backup only when it leaves the hand of the loop. For `OpenResultsKept` one lemma (`Carries`)
says of each step that the results of a waiting request are in another one, were handed to
`Send`, or were erased by a status of the intake; the steps of the loop between
unlock and lock need `InHandHanded`.

*Numbers.* `TypeInv` bounds every score below `kInfScore`, through the five checker protocols and
the sum over groups. The sum is a fold, and that it is a number is proved by induction over the
size of the set it runs over. The induction is first-order: `NatSetInduction` speaks of the set of
numbers for which a claim holds, and needs no operator as parameter. `LimitInv` keeps, for the
last execution, the options it ran under, so that a TLE or a survival can be traced to the limits
with their roundings. `GroupInv` says why a testdatum is unjudged and that `td_results`
reaches to whatever has run. Hence a group that has not failed has all its testdata judged and
inside `td_results`, so that `FinalizeSummary` takes the least score of all that count, and in a
failed group the minimum still runs over every testdatum that ran (`SkipSparesPassing`).

*Testdata.* The list of operations of an update is described by its shape and not by its
construction: `Remainder` (ordered by kind, each removal of a symlink followed by both new ones,
no file renamed twice) holds of `Operations(m)` and of every tail of it, which is what a step
leaves. `BaseInv` has the types, the server, the lock and this shape; `WorkInv` says what is done
or still in the list (files to rename, symlinks to set, what `touched` and `pending` record), from
which `RetryRepairs` and `ScoringPair` follow. `AcceptedIsStored` also needs that the rows of the
database are true of every testdatum that may be asked for again (`GoodInv`). That is an invariant
only because testdata do not come back: an id that two messages have is in all messages between
them (`ConvexInv`), so that a testdatum stored and then dropped is not in a later list
(`StoredInv`). `NotDownloadedIsThere` fails exactly where this does, when messages are reordered.

*The checker.* The loops keep `ReadInv` in DefaultScoringProofs: the streams are what is left of
the lines of the two files (or of their characters, in mode strict), and what was read so far
agrees (`Agree(A, U, a, u)`: the first a lines of A and the first u of U are the same where both
files have lines, and blank beyond the shorter one). The two loops move a and u together and then
one of them; every way of returning decides `Agree` of all lines (`Right`). That this is
the comparison of the contents, which forgets the blank lines at the end of each file separately,
is `AgreeIsSameContent`: a blank line is the same only as a blank one (`SameBlank`, `BlankSame`),
so that the last lines that are not blank have the same number. `Nth` is well defined because the
number of elements below k grows by at most one with k and so meets every value on its way
(`NthIsElement`, from `FirstGap`, which takes a least number by well-foundedness and needs no
operator as parameter); between the j-th and the next there is nothing (`NthNext`), which makes
lines free of newlines (`LinesOfFile`) and finds the words of a stripped line where those of the
line are (`WordsOfStripped`).

The proofs corrected the models in one respect: arms of `CASE` in Results and DefaultScoring
overlapped, where TLC takes the first and the semantics leaves open which. They are chains of
`IF` now, as in the code.

DefaultScoring once cut files into lines and words with recursively defined operators on
sequences, about which nothing can be proved for every input; it defines them by positions now.

Every invariant that a run checks is stated by a theorem. Out of the prover's reach, and left to
TLC: liveness under fairness (`EveryPushAnswered`, `EveryFinalHanded`, `EveryTaskReturned`,
`EverySubmissionJudged`, `Ends`, the fairness part of `ImplementsService`). No module uses a
RECURSIVE operator.

## 6. What is left

A composition of Intake with JudgeService in place of its set `submission_list`.

Not modelled:

* Sandbox options and their marshalling to the cjail process (`src/tioj/sandbox*.cpp`, the
  command lines and mounts of `tasks.cpp`): configuration without state, handed to a library. The
  limits among them are in Results.
* Paths and file helpers, logging: names and straight-line I/O.
* HTTP: a download is a step of TestdataStore that succeeds, or fails after its retries.
* Configuration, CPU lists and the lock file (`src/main.cpp`, `src/cpuset.cpp`): parsing. Their
  results are constants; that `max_submission_queue_size` is by default two more than the
  parallelism is not used.
* The tests, which judge one submission at a time and were read for what they say about intended
  behaviour.
