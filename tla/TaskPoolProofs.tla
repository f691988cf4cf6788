--------------------------- MODULE TaskPoolProofs ---------------------------
(***************************************************************************)
(* The pools and handles of TaskPool are right for every number of user    *)
(* ids, CPUs, descriptors and sandboxes, and for any number of failed      *)
(* RunTasks, whose handle -1 is that of several tasks.                     *)
(*                                                                         *)
(* PoolInv adds to the properties what they rest on: every user id is in   *)
(* the pool or with a child (UidAvailable counts them), the descriptors    *)
(* held are those of the running and finished children (the handle of a    *)
(* child is new to handle_map, only -1 may be there already), handle_map   *)
(* is injective, and each forgotten task takes a failure of its own        *)
(* besides the one whose task is still under -1.                           *)
(***************************************************************************)
EXTENDS TaskPool, FiniteSetTheorems, TLAPS

InUse == {running[h].uid : h \in DOMAIN running}

\* The worker's side: handle_map and its counters.
MapInv ==
  /\ DOMAIN handle_map \subseteq Fds \cup {NoHandle}
  /\ handle_map \in [DOMAIN handle_map -> Nat]
  /\ IsFiniteSet(DOMAIN handle_map)
  /\ IsFiniteSet(forgotten)
  /\ task_running = Cardinality(DOMAIN handle_map) + Cardinality(forgotten)
  /\ task_running <= kMaxParallel
  /\ pc \in {"loop", "wait", "crashed"}
  /\ pc = "wait" => task_running > 0
  /\ dispatched \in Nat
  /\ finalized \subseteq Pending
  /\ forgotten \subseteq Pending
  /\ forgotten \cap finalized = {}
  /\ {handle_map[h] : h \in DOMAIN handle_map} = Pending \ (finalized \cup forgotten)
  /\ \A h, k \in DOMAIN handle_map : handle_map[h] = handle_map[k] => h = k

\* The pool's side.
ChildInv ==
  /\ uid_pool \subseteq Uids
  /\ cpuid_pool \subseteq Cpus
  /\ DOMAIN running \subseteq Fds
  /\ running \in [DOMAIN running -> [uid : Uids, cpuid : Cpus \cup {NoCpu}]]
  /\ finished \subseteq Fds
  /\ DOMAIN running \cap finished = {}
  /\ open = DOMAIN running \cup finished
  /\ answered \subseteq DOMAIN running
  /\ Uids = uid_pool \cup InUse
  /\ SandboxesApart

\* Where the two meet.
JoinInv ==
  /\ DOMAIN handle_map \ {NoHandle} = DOMAIN running \cup finished
  /\ failures \in Nat
  /\ Cardinality(forgotten) <= failures
  /\ NoHandle \in DOMAIN handle_map => Cardinality(forgotten) < failures
  /\ forgotten # {} => Cardinality(forgotten) < failures
  /\ pc = "crashed" => forgotten # {}

PoolInv == MapInv /\ ChildInv /\ JoinInv

\* -1 is no descriptor.
LEMMA NoHandleFresh == NoHandle \notin Fds
  BY PoolAssumption DEF NoHandle

\* Sizes of the two sets that task_running counts.
LEMMA Sizes ==
  ASSUME MapInv
  PROVE  Cardinality(DOMAIN handle_map) \in Nat /\ Cardinality(forgotten) \in Nat
  BY FS_CardinalityType DEF MapInv

\* DispatchTask enters the next task under its handle; the task that was there
\* is forgotten.
LEMMA DispatchKeepsMap ==
  ASSUME MapInv, NEW handle \in Fds \cup {NoHandle}, DispatchTask(handle)
  PROVE  /\ MapInv'
         /\ DOMAIN handle_map' = DOMAIN handle_map \cup {handle}
         /\ handle \notin DOMAIN handle_map => forgotten' = forgotten
         /\ handle \in DOMAIN handle_map =>
              forgotten' # {} /\ Cardinality(forgotten') = Cardinality(forgotten) + 1
  <1>1. DOMAIN handle_map' = DOMAIN handle_map \cup {handle}
    BY DEF DispatchTask, Put
  <1>2. /\ handle_map'[handle] = dispatched + 1
        /\ \A h \in DOMAIN handle_map \ {handle} : handle_map'[h] = handle_map[h]
    BY DEF DispatchTask, Put
  <1>3. dispatched' = dispatched + 1 /\ dispatched \in Nat /\ dispatched' \in Nat
    BY DEF DispatchTask, MapInv
  <1>4. Pending' = Pending \cup {dispatched + 1} /\ dispatched + 1 \notin Pending
    BY <1>3 DEF Pending
  <1>5. \A h \in DOMAIN handle_map : handle_map[h] \in Pending \ (finalized \cup forgotten)
    BY DEF MapInv
  <1>6. handle_map' \in [DOMAIN handle_map' -> Nat]
    <2>1. \A h \in DOMAIN handle_map' : handle_map'[h] \in Nat
      BY <1>1, <1>2, <1>3 DEF MapInv
    <2>2. handle_map' = [h \in DOMAIN handle_map' |-> handle_map'[h]]
      BY DEF DispatchTask, Put
    <2> QED
      BY <2>1, <2>2
  <1>7. /\ handle \notin DOMAIN handle_map => forgotten' = forgotten
        /\ handle \in DOMAIN handle_map => forgotten' = forgotten \cup {handle_map[handle]}
    BY DEF DispatchTask
  <1>8. finalized' = finalized /\ finalized \subseteq Pending /\ forgotten \subseteq Pending
    BY DEF DispatchTask, MapInv
  <1>9. {handle_map'[h] : h \in DOMAIN handle_map'} = Pending' \ (finalized' \cup forgotten')
    <2>1. {handle_map'[h] : h \in DOMAIN handle_map'}
            = {handle_map[h] : h \in DOMAIN handle_map \ {handle}} \cup {dispatched + 1}
      BY <1>1, <1>2
    <2>2. CASE handle \notin DOMAIN handle_map
      <3>1. {handle_map[h] : h \in DOMAIN handle_map \ {handle}}
              = {handle_map[h] : h \in DOMAIN handle_map}
        BY <2>2
      <3> QED
        BY <2>1, <2>2, <3>1, <1>4, <1>7, <1>8 DEF MapInv
    <2>3. CASE handle \in DOMAIN handle_map
      <3>1. {handle_map[h] : h \in DOMAIN handle_map \ {handle}}
              = {handle_map[h] : h \in DOMAIN handle_map} \ {handle_map[handle]}
        BY <2>3 DEF MapInv
      <3>2. {handle_map[h] : h \in DOMAIN handle_map} = Pending \ (finalized \cup forgotten)
        BY DEF MapInv
      <3>3. forgotten' = forgotten \cup {handle_map[handle]}
            /\ handle_map[handle] \in Pending \ (finalized \cup forgotten)
        BY <2>3, <1>5, <1>7
      <3>4. dispatched + 1 \notin finalized' \cup forgotten'
        BY <3>3, <1>4, <1>8
      <3> QED
        BY <2>1, <3>1, <3>2, <3>3, <3>4, <1>4, <1>8
    <2> QED
      BY <2>2, <2>3
  <1>10. \A h, k \in DOMAIN handle_map' : handle_map'[h] = handle_map'[k] => h = k
    BY <1>1, <1>2, <1>4, <1>5 DEF MapInv
  <1>11. forgotten' \subseteq Pending' /\ forgotten' \cap finalized' = {}
    BY <1>4, <1>5, <1>7, <1>8 DEF MapInv
  <1>12. /\ handle \notin DOMAIN handle_map =>
              /\ IsFiniteSet(DOMAIN handle_map')
              /\ Cardinality(DOMAIN handle_map') = Cardinality(DOMAIN handle_map) + 1
         /\ handle \in DOMAIN handle_map => DOMAIN handle_map' = DOMAIN handle_map
    <2>1. IsFiniteSet(DOMAIN handle_map)
      BY DEF MapInv
    <2>2. handle \in DOMAIN handle_map => DOMAIN handle_map' = DOMAIN handle_map
      BY <1>1
    <2> QED
      BY <1>1, <2>1, <2>2, FS_AddElement
  <1>13. handle \in DOMAIN handle_map =>
           /\ forgotten' # {} /\ IsFiniteSet(forgotten')
           /\ Cardinality(forgotten') = Cardinality(forgotten) + 1
    BY <1>5, <1>7, FS_AddElement DEF MapInv
  <1>14. task_running' = task_running + 1 /\ task_running < kMaxParallel /\ pc' = "loop"
    BY DEF DispatchTask
  <1>15. /\ IsFiniteSet(DOMAIN handle_map') /\ IsFiniteSet(forgotten')
         /\ task_running' = Cardinality(DOMAIN handle_map') + Cardinality(forgotten')
         /\ task_running' <= kMaxParallel
    BY <1>7, <1>12, <1>13, <1>14, Sizes, PoolAssumption DEF MapInv
  <1>16. DOMAIN handle_map' \subseteq Fds \cup {NoHandle} /\ finalized' \subseteq Pending'
    BY <1>1, <1>4, <1>8 DEF MapInv
  <1> QED
    BY <1>1, <1>3, <1>6, <1>7, <1>9, <1>10, <1>11, <1>13, <1>14, <1>15, <1>16 DEF MapInv

\* WaitTask's lookup and erasure, and --task_running.
LEMMA FinalizeKeepsMap ==
  ASSUME MapInv, NEW handle \in DOMAIN handle_map, FinalizeTask(handle)
  PROVE  /\ MapInv'
         /\ DOMAIN handle_map' = DOMAIN handle_map \ {handle}
         /\ forgotten' = forgotten
  <1>1. DOMAIN handle_map' = DOMAIN handle_map \ {handle} /\ forgotten' = forgotten
    BY DEF FinalizeTask, Without
  <1>2. \A h \in DOMAIN handle_map' : handle_map'[h] = handle_map[h]
    BY DEF FinalizeTask, Without
  <1>3. handle_map' \in [DOMAIN handle_map' -> Nat]
    <2>1. \A h \in DOMAIN handle_map' : handle_map'[h] \in Nat
      BY <1>1, <1>2 DEF MapInv
    <2>2. handle_map' = [h \in DOMAIN handle_map' |-> handle_map'[h]]
      BY DEF FinalizeTask, Without
    <2> QED
      BY <2>1, <2>2
  <1>4. Pending' = Pending /\ dispatched' = dispatched
    BY DEF FinalizeTask, Pending
  <1>5. finalized' = finalized \cup {handle_map[handle]}
        /\ handle_map[handle] \in Pending \ forgotten
    BY DEF FinalizeTask, MapInv
  <1>6. {handle_map'[h] : h \in DOMAIN handle_map'} = Pending' \ (finalized' \cup forgotten')
    <2>1. {handle_map'[h] : h \in DOMAIN handle_map'}
            = {handle_map[h] : h \in DOMAIN handle_map} \ {handle_map[handle]}
      BY <1>1, <1>2 DEF MapInv
    <2> QED
      BY <2>1, <1>1, <1>4, <1>5 DEF MapInv
  <1>7. \A h, k \in DOMAIN handle_map' : handle_map'[h] = handle_map'[k] => h = k
    BY <1>1, <1>2 DEF MapInv
  <1>8. /\ IsFiniteSet(DOMAIN handle_map')
        /\ Cardinality(DOMAIN handle_map') = Cardinality(DOMAIN handle_map) - 1
    BY <1>1, FS_RemoveElement DEF MapInv
  <1>9. Cardinality(DOMAIN handle_map) \in Nat /\ Cardinality(forgotten) \in Nat
    BY Sizes
  <1>10. task_running' = task_running - 1 /\ pc' = "loop"
    BY DEF FinalizeTask
  <1>11. /\ task_running' = Cardinality(DOMAIN handle_map') + Cardinality(forgotten')
         /\ task_running' <= kMaxParallel
    BY <1>1, <1>8, <1>9, <1>10, PoolAssumption DEF MapInv
  <1>12. /\ DOMAIN handle_map' \subseteq Fds \cup {NoHandle} /\ finalized' \subseteq Pending'
         /\ forgotten' \subseteq Pending' /\ forgotten' \cap finalized' = {}
    BY <1>1, <1>4, <1>5 DEF MapInv
  <1> QED
    BY <1>1, <1>3, <1>4, <1>6, <1>7, <1>8, <1>10, <1>11, <1>12 DEF MapInv

\* RunTask gives the child a user id and a CPU that no other child has.
LEMMA RunKeepsChildren ==
  ASSUME ChildInv, NEW handle \in Fds, NEW uid \in uid_pool, NEW cpuid \in FreeCpus,
         RunTask(handle, uid, cpuid)
  PROVE  /\ ChildInv'
         /\ DOMAIN running' = DOMAIN running \cup {handle}
         /\ finished' = finished
  <1>1. /\ DOMAIN running' = DOMAIN running \cup {handle}
        /\ handle \notin DOMAIN running /\ handle \notin finished
        /\ running'[handle] = [uid |-> uid, cpuid |-> cpuid]
        /\ \A h \in DOMAIN running : running'[h] = running[h]
    BY DEF RunTask, Put, ChildInv
  <1>2. /\ uid_pool' = uid_pool \ {uid} /\ cpuid_pool' = cpuid_pool \ {cpuid}
        /\ open' = open \cup {handle} /\ finished' = finished /\ answered' = answered
    BY DEF RunTask
  <1>3. uid \in Uids /\ cpuid \in Cpus \cup {NoCpu} /\ (cpuid = NoCpu \/ cpuid \in cpuid_pool)
        /\ NoCpu \notin Cpus
    BY PoolAssumption DEF ChildInv, FreeCpus, NoCpu
  <1>4. running' \in [DOMAIN running' -> [uid : Uids, cpuid : Cpus \cup {NoCpu}]]
    <2>1. \A h \in DOMAIN running' : running'[h] \in [uid : Uids, cpuid : Cpus \cup {NoCpu}]
      BY <1>1, <1>3 DEF ChildInv
    <2>2. running' = [h \in DOMAIN running' |-> running'[h]]
      BY DEF RunTask, Put
    <2> QED
      BY <2>1, <2>2
  <1>5. InUse' = InUse \cup {uid}
    BY <1>1 DEF InUse
  <1>6. Uids = uid_pool' \cup InUse'
    BY <1>2, <1>3, <1>5 DEF ChildInv
  <1>7. SandboxesApart'
    <2>1. \A h \in DOMAIN running :
            /\ running[h].uid \notin uid_pool
            /\ running[h].cpuid \notin cpuid_pool
            /\ running[h].uid # uid
            /\ running[h].cpuid = cpuid => cpuid = NoCpu
      BY <1>3 DEF ChildInv, SandboxesApart
    <2>2. \A h \in DOMAIN running' :
            /\ running'[h].uid \notin uid_pool'
            /\ running'[h].cpuid \notin cpuid_pool'
      BY <1>1, <1>2, <1>3, <2>1
    <2>3. \A h \in DOMAIN running' : \A k \in DOMAIN running' \ {h} :
            /\ running'[h].uid # running'[k].uid
            /\ running'[h].cpuid = running'[k].cpuid => running'[h].cpuid = NoCpu
      BY <1>1, <2>1 DEF ChildInv, SandboxesApart
    <2> QED
      BY <2>2, <2>3 DEF SandboxesApart
  <1> QED
    BY <1>1, <1>2, <1>4, <1>6, <1>7 DEF ChildInv

\* Wait gives back what the collected children had, and nothing else.
LEMMA CollectKeepsChildren ==
  ASSUME ChildInv, NEW handles \in SUBSET DOMAIN running, Collect(handles)
  PROVE  /\ ChildInv'
         /\ DOMAIN running' \cup finished' = DOMAIN running \cup finished
  <1>1. /\ DOMAIN running' = DOMAIN running \ handles
        /\ \A h \in DOMAIN running' : running'[h] = running[h]
    BY DEF Collect, CollectWith, Without
  <1>2. /\ uid_pool' = uid_pool \cup {running[h].uid : h \in handles}
        /\ cpuid_pool' = cpuid_pool \cup ({running[h].cpuid : h \in handles} \ {NoCpu})
        /\ finished' = finished \cup handles /\ answered' = answered \ handles /\ open' = open
    BY DEF Collect, CollectWith, UidsOf, CpusOf
  <1>3. \A h \in DOMAIN running : running[h].uid \in Uids /\ running[h].cpuid \in Cpus \cup {NoCpu}
    BY DEF ChildInv
  <1>4. running' \in [DOMAIN running' -> [uid : Uids, cpuid : Cpus \cup {NoCpu}]]
    <2>1. \A h \in DOMAIN running' : running'[h] \in [uid : Uids, cpuid : Cpus \cup {NoCpu}]
      BY <1>1 DEF ChildInv
    <2>2. running' = [h \in DOMAIN running' |-> running'[h]]
      BY DEF Collect, CollectWith, Without
    <2> QED
      BY <2>1, <2>2
  <1>5. uid_pool' \subseteq Uids /\ cpuid_pool' \subseteq Cpus
    BY <1>2, <1>3 DEF ChildInv
  <1>6. Uids = uid_pool' \cup InUse'
    <2>1. InUse = InUse' \cup {running[h].uid : h \in handles}
      BY <1>1 DEF InUse
    <2> QED
      BY <2>1, <1>2 DEF ChildInv
  <1>7. SandboxesApart'
    <2>1. ASSUME NEW h \in DOMAIN running'
          PROVE  running'[h].uid \notin uid_pool' /\ running'[h].cpuid \notin cpuid_pool'
      <3>1. h \in DOMAIN running /\ h \notin handles /\ running'[h] = running[h]
        BY <1>1
      <3>2. running[h].uid \notin uid_pool /\ running[h].cpuid \notin cpuid_pool
        BY <3>1 DEF ChildInv, SandboxesApart
      <3>3. \A k \in handles : k \in DOMAIN running \ {h}
        BY <3>1
      <3>4. \A k \in handles : /\ running[h].uid # running[k].uid
                               /\ running[h].cpuid = running[k].cpuid => running[h].cpuid = NoCpu
        BY <3>1, <3>3 DEF ChildInv, SandboxesApart
      <3> QED
        BY <3>1, <3>2, <3>4, <1>2
    <2>2. \A h \in DOMAIN running' : \A k \in DOMAIN running' \ {h} :
            /\ running'[h].uid # running'[k].uid
            /\ running'[h].cpuid = running'[k].cpuid => running'[h].cpuid = NoCpu
      BY <1>1 DEF ChildInv, SandboxesApart
    <2> QED
      BY <2>1, <2>2 DEF SandboxesApart
  <1>8. /\ DOMAIN running' \subseteq Fds /\ finished' \subseteq Fds
        /\ DOMAIN running' \cap finished' = {}
        /\ open' = DOMAIN running' \cup finished'
        /\ answered' \subseteq DOMAIN running'
    BY <1>1, <1>2 DEF ChildInv
  <1>9. DOMAIN running' \cup finished' = DOMAIN running \cup finished
    BY <1>1, <1>2
  <1> QED
    BY <1>4, <1>5, <1>6, <1>7, <1>8, <1>9 DEF ChildInv

\* What the pools know of the children does not change with the worker's counters.
LEMMA PoolsUnchanged ==
  ASSUME ChildInv, UNCHANGED pools
  PROVE  ChildInv' /\ DOMAIN running' = DOMAIN running /\ finished' = finished
  BY DEF ChildInv, pools, SandboxesApart, InUse

\* The initial state: all user ids in the pool, no child, no handle.
LEMMA InitPool == Init => PoolInv
  <1> SUFFICES ASSUME Init PROVE PoolInv
    OBVIOUS
  <1>1. DOMAIN handle_map = {} /\ DOMAIN running = {}
    BY DEF Init
  <1>2. Pending = {} /\ {handle_map[h] : h \in DOMAIN handle_map} = {} /\ InUse = {}
    BY <1>1 DEF Init, Pending, InUse
  <1>3. MapInv
    BY <1>1, <1>2, FS_EmptySet, PoolAssumption DEF Init, MapInv
  <1>4. ChildInv
    BY <1>1, <1>2 DEF Init, ChildInv, SandboxesApart
  <1>5. JoinInv
    BY <1>1, FS_EmptySet DEF Init, JoinInv
  <1> QED
    BY <1>3, <1>4, <1>5 DEF PoolInv

\* Every step keeps PoolInv, one case per action.
LEMMA NextPool == PoolInv /\ [Next]_vars => PoolInv'
  <1> SUFFICES ASSUME PoolInv, [Next]_vars PROVE PoolInv'
    OBVIOUS
  <1> USE DEF PoolInv
  <1>1. CASE DispatchRuns
    <2>1. PICK handle \in Fds : \E uid \in uid_pool, cpuid \in FreeCpus :
            DispatchTask(handle) /\ RunTask(handle, uid, cpuid) /\ failures' = failures
      BY <1>1 DEF DispatchRuns
    <2>2. PICK uid \in uid_pool, cpuid \in FreeCpus :
            DispatchTask(handle) /\ RunTask(handle, uid, cpuid) /\ failures' = failures
      BY <2>1
    <2>3. handle \notin DOMAIN handle_map
      BY <2>2, NoHandleFresh DEF RunTask, ChildInv, JoinInv
    <2>4. MapInv' /\ DOMAIN handle_map' = DOMAIN handle_map \cup {handle} /\ forgotten' = forgotten
      BY <2>2, <2>3, DispatchKeepsMap
    <2>5. ChildInv' /\ DOMAIN running' = DOMAIN running \cup {handle} /\ finished' = finished
      BY <2>2, RunKeepsChildren
    <2>6. JoinInv'
      BY <2>2, <2>4, <2>5, NoHandleFresh DEF JoinInv, DispatchTask
    <2> QED
      BY <2>4, <2>5, <2>6
  <1>2. CASE DispatchFails
    <2>1. failures' = failures + 1 /\ failures \in Nat /\ pc' = "loop"
      BY <1>2 DEF DispatchFails, DispatchTask, JoinInv
    <2>2. /\ MapInv'
          /\ DOMAIN handle_map' = DOMAIN handle_map \cup {NoHandle}
          /\ NoHandle \notin DOMAIN handle_map => forgotten' = forgotten
          /\ NoHandle \in DOMAIN handle_map =>
               forgotten' # {} /\ Cardinality(forgotten') = Cardinality(forgotten) + 1
      BY <1>2, DispatchKeepsMap DEF DispatchFails
    <2>3. ChildInv' /\ DOMAIN running' = DOMAIN running /\ finished' = finished
      BY <1>2, PoolsUnchanged DEF DispatchFails
    <2>4. /\ Cardinality(forgotten') <= failures'
          /\ Cardinality(forgotten') < failures'
      BY <2>1, <2>2, Sizes DEF JoinInv
    <2>5. JoinInv'
      BY <2>1, <2>2, <2>3, <2>4 DEF JoinInv
    <2> QED
      BY <2>2, <2>3, <2>5
  <1>3. CASE BeginWait
    <2>1. MapInv'
      BY <1>3 DEF BeginWait, MapInv, Pending
    <2>2. ChildInv' /\ DOMAIN running' = DOMAIN running /\ finished' = finished
      BY <1>3, PoolsUnchanged DEF BeginWait
    <2>3. JoinInv'
      BY <1>3, <2>2 DEF BeginWait, JoinInv
    <2> QED
      BY <2>1, <2>2, <2>3
  <1>4. CASE Wait
    <2>1. MapInv'
      BY <1>4 DEF Wait, MapInv, Pending
    <2>2. ChildInv' /\ DOMAIN running' \cup finished' = DOMAIN running \cup finished
      BY <1>4, CollectKeepsChildren DEF Wait, ChildInv
    <2>3. JoinInv'
      BY <1>4, <2>2 DEF Wait, JoinInv
    <2> QED
      BY <2>1, <2>2, <2>3
  <1>5. CASE WaitNothing
    <2>1. NoHandle \in DOMAIN handle_map
      BY <1>5 DEF WaitNothing
    <2>2. MapInv' /\ DOMAIN handle_map' = DOMAIN handle_map \ {NoHandle} /\ forgotten' = forgotten
      BY <1>5, <2>1, FinalizeKeepsMap DEF WaitNothing
    <2>3. ChildInv' /\ DOMAIN running' = DOMAIN running /\ finished' = finished
      BY <1>5, PoolsUnchanged DEF WaitNothing
    <2>4. JoinInv'
      BY <1>5, <2>2, <2>3 DEF WaitNothing, FinalizeTask, JoinInv
    <2> QED
      BY <2>2, <2>3, <2>4
  <1>9. CASE WaitUnknown
    <2>1. task_running > 0 /\ DOMAIN handle_map = {}
      BY <1>9 DEF WaitUnknown, MapInv, JoinInv
    <2>2. forgotten # {}
      BY <2>1, FS_EmptySet, Sizes DEF MapInv
    <2>3. MapInv'
      BY <1>9 DEF WaitUnknown, MapInv, Pending
    <2>4. ChildInv' /\ DOMAIN running' = DOMAIN running /\ finished' = finished
      BY <1>9, PoolsUnchanged DEF WaitUnknown
    <2>5. JoinInv'
      BY <1>9, <2>2, <2>4 DEF WaitUnknown, JoinInv
    <2> QED
      BY <2>3, <2>4, <2>5
  <1>6. ASSUME NEW handle \in finished, WaitAnyResult(handle) PROVE PoolInv'
    <2>1. handle \in DOMAIN handle_map /\ handle # NoHandle
      BY <1>6, NoHandleFresh DEF JoinInv, ChildInv
    <2>2. MapInv' /\ DOMAIN handle_map' = DOMAIN handle_map \ {handle} /\ forgotten' = forgotten
      BY <1>6, <2>1, FinalizeKeepsMap DEF WaitAnyResult
    <2>3. running' = running /\ finished' = finished \ {handle} /\ handle \notin DOMAIN running
      BY <1>6 DEF WaitAnyResult, ChildInv
    <2>4. ChildInv'
      BY <1>6, <2>3 DEF WaitAnyResult, ChildInv, SandboxesApart, InUse
    <2>5. JoinInv'
      BY <1>6, <2>2, <2>3 DEF WaitAnyResult, FinalizeTask, JoinInv
    <2> QED
      BY <2>2, <2>4, <2>5
  <1>7. ASSUME NEW handle \in DOMAIN running, ChildEnds(handle) PROVE PoolInv'
    <2>1. MapInv'
      BY <1>7 DEF ChildEnds, MapInv, Pending
    <2>2. ChildInv'
      BY <1>7 DEF ChildEnds, ChildInv, SandboxesApart, InUse
    <2>3. JoinInv'
      BY <1>7 DEF ChildEnds, JoinInv
    <2> QED
      BY <2>1, <2>2, <2>3
  <1>8. CASE UNCHANGED vars
    <2>1. MapInv'
      BY <1>8 DEF vars, MapInv, Pending
    <2>2. ChildInv'
      BY <1>8 DEF vars, ChildInv, SandboxesApart, InUse
    <2>3. JoinInv'
      BY <1>8 DEF vars, JoinInv
    <2> QED
      BY <2>1, <2>2, <2>3
  <1> QED
    BY <1>1, <1>2, <1>3, <1>4, <1>5, <1>6, <1>7, <1>8, <1>9 DEF Next, Worker

\* PoolInv is an invariant of the pool.
LEMMA PoolCorrect == Spec => []PoolInv
  <1>1. PoolInv /\ [Next]_vars => PoolInv'
    BY NextPool
  <1> QED
    BY <1>1, InitPool, PTL DEF Spec

\* The state of the pools and of the worker keeps its types.
THEOREM PoolTypes == Spec => []TypeOK
  <1>1. PoolInv => TypeOK
    <2> SUFFICES ASSUME PoolInv PROVE TypeOK
      OBVIOUS
    <2>1. open \subseteq Fds
      BY DEF PoolInv, ChildInv
    <2>2. finalized \subseteq Nat /\ forgotten \subseteq Nat
      BY DEF PoolInv, MapInv, Pending
    <2>3. task_running \in Nat
      BY Sizes DEF PoolInv, MapInv
    <2> QED
      BY <2>1, <2>2, <2>3 DEF PoolInv, MapInv, ChildInv, JoinInv, TypeOK
  <1> QED
    BY <1>1, PoolCorrect, PTL

\* No two sandboxes share a user id or a pinned CPU, for any number of them.
THEOREM SandboxesApartAlways == Spec => []SandboxesApart
  <1>1. PoolInv => SandboxesApart
    BY DEF PoolInv, ChildInv
  <1> QED
    BY <1>1, PoolCorrect, PTL

\* The handle of every task in flight is its own, and is found when it ends.
THEOREM HandlesKnownAlways == Spec => []HandlesKnown
  <1>1. PoolInv => HandlesKnown
    BY DEF PoolInv, MapInv, ChildInv, JoinInv, HandlesKnown
  <1> QED
    BY <1>1, PoolCorrect, PTL

\* The pool of user ids does not run dry below kMaxParallel sandboxes.
THEOREM UidAvailableAlways == Spec => []UidAvailable
  <1>1. PoolInv => UidAvailable
    <2> SUFFICES ASSUME PoolInv, task_running < kMaxParallel, uid_pool = {} PROVE FALSE
      BY DEF UidAvailable
    <2>1. DOMAIN running \subseteq DOMAIN handle_map
      BY DEF PoolInv, JoinInv
    <2>2. /\ IsFiniteSet(DOMAIN running)
          /\ Cardinality(DOMAIN running) <= Cardinality(DOMAIN handle_map)
      BY <2>1, FS_Subset DEF PoolInv, MapInv
    <2> DEFINE uid == [h \in DOMAIN running |-> running[h].uid]
    <2>3. uid \in Surjection(DOMAIN running, Uids)
      <3>1. Uids = InUse
        BY DEF PoolInv, ChildInv
      <3>2. uid \in [DOMAIN running -> Uids]
        BY <3>1 DEF InUse
      <3>3. \A u \in Uids : \E h \in DOMAIN running : uid[h] = u
        BY <3>1 DEF InUse
      <3> QED
        BY <3>2, <3>3 DEF Surjection
    <2> HIDE DEF uid
    <2>4. Cardinality(Uids) <= Cardinality(DOMAIN running)
      BY <2>2, <2>3, FS_Surjection
    <2>5. /\ Cardinality(Uids) \in Nat /\ Cardinality(DOMAIN running) \in Nat
          /\ Cardinality(DOMAIN handle_map) \in Nat /\ Cardinality(forgotten) \in Nat
      BY <2>2, FS_CardinalityType, Sizes, PoolAssumption DEF PoolInv
    <2>6. task_running = Cardinality(DOMAIN handle_map) + Cardinality(forgotten)
      BY DEF PoolInv, MapInv
    <2> QED
      BY <2>2, <2>4, <2>5, <2>6, PoolAssumption
  <1> QED
    BY <1>1, PoolCorrect, PTL
=============================================================================
