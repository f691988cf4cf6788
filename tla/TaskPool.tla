------------------------------ MODULE TaskPool ------------------------------
(***************************************************************************)
(* The sandboxes of src/tioj/tasks.cpp: RunTask forks a child under a user *)
(* id and a CPU of its own, and returns the read end of its pipe as the    *)
(* handle; Wait collects the children that have answered; WaitAnyResult    *)
(* returns one of them.  The worker is DispatchTask, WaitTask and the loop *)
(* of WorkLoop (src/tioj/submission.cpp); which tasks there are, and when, *)
(* is the matter of JudgeQueue, so that here it may go on dispatching or   *)
(* wait as it pleases.                                                     *)
(*                                                                         *)
(* A descriptor is free for pipe() unless this module holds it; other      *)
(* threads come and go with theirs.  select() is never interrupted.        *)
(***************************************************************************)
EXTENDS Integers, FiniteSets

CONSTANTS
  Uids,           \* kUidBase .. kUidBase + kUidPoolSize - 1
  Cpus,           \* kPinnedCpus
  Fds,            \* descriptors
  kMaxParallel,
  MaxTasks,       \* bound: tasks dispatched
  MaxFailures     \* bound: times pipe() or fork() fails

\* The pool is built for kUidPoolSize sandboxes, and nothing compares
\* kMaxParallel with it.
ASSUME PoolAssumption ==
  /\ IsFiniteSet(Uids)
  /\ kMaxParallel \in Nat \ {0}
  /\ kMaxParallel <= Cardinality(Uids)
  /\ Cpus \subseteq Nat
  /\ Fds \subseteq Nat
  /\ MaxTasks \in Nat
  /\ MaxFailures \in Nat

NoCpu    == -1      \* not pinned
NoHandle == -1      \* the error return of RunTask and of WaitAnyResult

VARIABLES
  uid_pool,
  cpuid_pool,
  running,        \* handle -> the child's uid and cpuid
  finished,       \* handles whose result was read
  open,           \* descriptors that are not closed yet
  answered,       \* running handles whose pipe is readable
  handle_map,     \* handle -> task
  task_running,
  pc,             \* "loop", "wait" in WaitTask, or "crashed"
  dispatched,     \* tasks are numbered in the order they are dispatched
  failures,
  finalized,      \* tasks that WaitTask has returned
  forgotten       \* history: tasks whose entry of handle_map was overwritten

vars == <<uid_pool, cpuid_pool, running, finished, open, answered, handle_map, task_running, pc,
          dispatched, failures, finalized, forgotten>>

pools == <<uid_pool, cpuid_pool, running, finished, open, answered>>

\* InitPools
Init ==
  /\ uid_pool = Uids
  /\ cpuid_pool = Cpus
  /\ running = <<>>
  /\ finished = {}
  /\ open = {}
  /\ answered = {}
  /\ handle_map = <<>>
  /\ task_running = 0
  /\ pc = "loop"
  /\ dispatched = 0
  /\ failures = 0
  /\ finalized = {}
  /\ forgotten = {}

Put(f, x, y) == [z \in DOMAIN f \cup {x} |-> IF z = x THEN y ELSE f[z]]
Without(f, S) == [z \in DOMAIN f \ S |-> f[z]]

\* The CPUs that the next child may get; it is not pinned if none is left.
FreeCpus == IF cpuid_pool = {} THEN {NoCpu} ELSE cpuid_pool

\* Mutant: uid_pool.back() without pop_back().
RunTaskKeepsUid(handle, uid, cpuid) ==
  /\ handle \in Fds \ open
  /\ uid \in uid_pool
  /\ cpuid \in FreeCpus
  /\ cpuid_pool' = cpuid_pool \ {cpuid}
  /\ running' = Put(running, handle, [uid |-> uid, cpuid |-> cpuid])
  /\ open' = open \cup {handle}
  /\ UNCHANGED <<uid_pool, finished, answered>>

RunTask(handle, uid, cpuid) ==
  /\ handle \in Fds \ open
  /\ uid \in uid_pool
  /\ cpuid \in FreeCpus
  /\ uid_pool' = uid_pool \ {uid}
  /\ cpuid_pool' = cpuid_pool \ {cpuid}
  /\ running' = Put(running, handle, [uid |-> uid, cpuid |-> cpuid])
  /\ open' = open \cup {handle}
  /\ UNCHANGED <<finished, answered>>

-----------------------------------------------------------------------------
(* The worker *)

\* The end of DispatchTask: handle_map[handle] = id, whatever was there.
DispatchTask(handle) ==
  /\ pc = "loop"
  /\ task_running < kMaxParallel
  /\ dispatched < MaxTasks
  /\ dispatched' = dispatched + 1
  /\ handle_map' = Put(handle_map, handle, dispatched + 1)
  /\ task_running' = task_running + 1
  /\ forgotten' = forgotten \cup {handle_map[h] : h \in {handle} \cap DOMAIN handle_map}
  /\ UNCHANGED <<pc, finalized>>

DispatchRuns ==
  \E handle \in Fds : \E uid \in uid_pool, cpuid \in FreeCpus :
    /\ DispatchTask(handle)
    /\ RunTask(handle, uid, cpuid)
    /\ UNCHANGED failures

\* pipe() or fork() fails; fork's uid and CPU go back to their pools.
DispatchFails ==
  /\ failures < MaxFailures
  /\ failures' = failures + 1
  /\ DispatchTask(NoHandle)
  /\ UNCHANGED pools

BeginWait ==
  /\ pc = "loop"
  /\ task_running > 0
  /\ pc' = "wait"
  /\ UNCHANGED <<pools, handle_map, task_running, dispatched, failures, finalized, forgotten>>

\* The children leave running; their uids and CPUs go back to the pools.
CollectWith(handles, uids, cpus, opened) ==
  /\ finished' = finished \cup handles
  /\ uid_pool' = uid_pool \cup uids
  /\ cpuid_pool' = cpuid_pool \cup cpus
  /\ running' = Without(running, handles)
  /\ answered' = answered \ handles
  /\ open' = opened

UidsOf(handles) == {running[h].uid : h \in handles}
CpusOf(handles) == {running[h].cpuid : h \in handles} \ {NoCpu}

\* Mutants: the uid does not enter the pool; the handle is closed at once.
CollectLosesUid(handles) == CollectWith(handles, {}, CpusOf(handles), open)
CollectCloses(handles)   == CollectWith(handles, UidsOf(handles), CpusOf(handles), open \ handles)

\* The handle stays open, "because it will release the handle and make it clash".
Collect(handles) == CollectWith(handles, UidsOf(handles), CpusOf(handles), open)

\* select() returns every child that has answered.
Wait ==
  /\ pc = "wait"
  /\ finished = {}
  /\ answered # {}
  /\ Collect(answered)
  /\ UNCHANGED <<handle_map, task_running, pc, dispatched, failures, finalized, forgotten>>

\* WaitTask has a handle: look the task up, FinalizeTask, --task_running.
FinalizeTask(handle) ==
  /\ finalized' = finalized \cup {handle_map[handle]}
  /\ handle_map' = Without(handle_map, {handle})
  /\ task_running' = task_running - 1
  /\ pc' = "loop"
  /\ UNCHANGED <<dispatched, failures, forgotten>>

WaitAnyResult(handle) ==
  /\ pc = "wait"
  /\ handle \in finished
  /\ finished' = finished \ {handle}
  /\ open' = open \ {handle}
  /\ FinalizeTask(handle)
  /\ UNCHANGED <<uid_pool, cpuid_pool, running, answered>>

\* Mutant: no early return; select() blocks on nothing.
WaitNothingBlocks == pc = "wait" /\ DOMAIN running = {} /\ finished = {} /\ UNCHANGED vars

\* Nothing runs and nothing is finished: the task of the last failed RunTask.
WaitNothing ==
  /\ pc = "wait"
  /\ DOMAIN running = {}
  /\ finished = {}
  /\ NoHandle \in DOMAIN handle_map
  /\ FinalizeTask(NoHandle)
  /\ UNCHANGED pools

\* As WaitNothing, and -1 is not in handle_map: WaitTask reads through end().
WaitUnknown ==
  /\ pc = "wait"
  /\ DOMAIN running = {}
  /\ finished = {}
  /\ NoHandle \notin DOMAIN handle_map
  /\ pc' = "crashed"
  /\ UNCHANGED <<pools, handle_map, task_running, dispatched, failures, finalized, forgotten>>

\* The child has its result written, or has died: the pipe is readable.
ChildEnds(handle) ==
  /\ handle \in DOMAIN running \ answered
  /\ answered' = answered \cup {handle}
  /\ UNCHANGED <<uid_pool, cpuid_pool, running, finished, open, handle_map, task_running, pc,
                 dispatched, failures, finalized, forgotten>>

-----------------------------------------------------------------------------
Worker ==
  \/ DispatchRuns \/ DispatchFails \/ BeginWait \/ Wait \/ WaitNothing \/ WaitUnknown
  \/ \E handle \in finished : WaitAnyResult(handle)

Next == Worker \/ \E handle \in DOMAIN running : ChildEnds(handle)

Spec == Init /\ [][Next]_vars

\* The worker thread runs; every sandbox ends at its wall time at the latest.
FairSpec == Spec /\ WF_vars(Worker) /\ \A handle \in Fds : WF_vars(ChildEnds(handle))

-----------------------------------------------------------------------------
(* Properties *)

Pending == 1 .. dispatched

\* Types of the pools, the handles and the worker's counters.
TypeOK ==
  /\ uid_pool \subseteq Uids
  /\ cpuid_pool \subseteq Cpus
  /\ DOMAIN running \subseteq Fds
  /\ running \in [DOMAIN running -> [uid : Uids, cpuid : Cpus \cup {NoCpu}]]
  /\ finished \subseteq Fds
  /\ open \subseteq Fds
  /\ answered \subseteq DOMAIN running
  /\ DOMAIN handle_map \subseteq Fds \cup {NoHandle}
  /\ handle_map \in [DOMAIN handle_map -> Nat]
  /\ task_running \in Nat
  /\ pc \in {"loop", "wait", "crashed"}
  /\ dispatched \in Nat
  /\ failures \in Nat
  /\ finalized \subseteq Nat
  /\ forgotten \subseteq Nat

\* Two sandboxes never run under one user id or on one pinned CPU, and none that
\* is in use is in its pool (RunTask, Wait).
SandboxesApart ==
  \A h \in DOMAIN running :
    /\ running[h].uid \notin uid_pool
    /\ running[h].cpuid \notin cpuid_pool
    /\ \A k \in DOMAIN running \ {h} :
         /\ running[h].uid # running[k].uid
         /\ running[h].cpuid = running[k].cpuid => running[h].cpuid = NoCpu

\* RunTask never takes a uid from an empty pool: user ids are not lost, and a
\* child that is collected but not returned holds a slot and no uid.
UidAvailable == pc = "loop" /\ task_running < kMaxParallel => uid_pool # {}

\* What WaitTask looks up agrees with the pool, however many RunTasks fail: a
\* child that runs or has finished has an entry of handle_map of its own, every
\* task in flight has one or was overwritten under -1 by a later failure (which
\* keeps its slot of task_running for good), and the lookup meets end() only
\* after that.
HandlesKnown ==
  /\ DOMAIN handle_map \ {NoHandle} = DOMAIN running \cup finished
  /\ DOMAIN running \cap finished = {}
  /\ {handle_map[h] : h \in DOMAIN handle_map} = Pending \ (finalized \cup forgotten)
  /\ forgotten \cap finalized = {}
  /\ task_running = Cardinality(DOMAIN handle_map) + Cardinality(forgotten)
  /\ forgotten # {} => Cardinality(forgotten) < failures
  /\ pc = "crashed" => forgotten # {}

\* Every task that is dispatched is returned by WaitTask, its RunTask failed or
\* not, whatever the order in which the children answer; the exceptions are a
\* task that was forgotten and the crash that HandlesKnown leads back to one.
EveryTaskReturned ==
  \A t \in 1 .. MaxTasks :
    (t \in Pending) ~> (t \in finalized \/ t \in forgotten \/ pc = "crashed")
=============================================================================
