---------------------------- MODULE RequestQueue ----------------------------
(***************************************************************************)
(* The outgoing requests of src/server_io.cpp: PushRequest, called by the  *)
(* worker's reporter callbacks, by the threads that receive submissions    *)
(* and by the websocket thread; RequestLoop, which sends them; and the     *)
(* websocket callbacks, which keep a backup of what was sent for the next  *)
(* connection.                                                             *)
(*                                                                         *)
(* Time is counted in ticks, TicksPerSecond to a second.  Of a request's   *)
(* body the testdata results are kept, tagged with the judging they belong *)
(* to; two judgings with one key are a submission and its rejudge.         *)
(***************************************************************************)
EXTENDS Integers, Sequences, FiniteSets, SequencesExt

CONSTANTS
  Keys,                   \* submission ids
  MaxJudgings,            \* bound: judgings of each submission
  MaxTd,                  \* bound: testdata of each judging
  MaxConnections,         \* bound: attempts to connect
  MaxPushes,              \* bound: fetches besides the one of OnOpen, and statuses
  MaxNow,                 \* bound: end of time
  TicksPerSecond,
  kUniqueReqMinInterval   \* in ticks

ASSUME RequestBounds ==
  /\ Keys \subseteq Nat
  /\ {MaxJudgings, MaxTd, MaxConnections, MaxPushes, MaxNow} \subseteq Nat
  /\ {TicksPerSecond, kUniqueReqMinInterval} \subseteq Nat \ {0}

kFinal     == 0         \* the overall result among the testdata results
kFetchKey  == -1
UniqueKeys == Keys \cup {kFetchKey}

Request ==
  [type : {"subscribe", "unique", "force_pop"}, key : UniqueKeys \cup {0},
   action : {"subscribe", "fetch_submission", "td_result", "status", "final"},
   judging : 0 .. MaxJudgings, results : SUBSET ((1 .. MaxJudgings) \X (1 .. MaxTd))]

SubscribeRequest  == [type |-> "subscribe", key |-> 0, action |-> "subscribe",
                      judging |-> 0, results |-> {}]
FetchRequest      == [type |-> "unique", key |-> kFetchKey, action |-> "fetch_submission",
                      judging |-> 0, results |-> {}]
TdRequest(k, n, td) == [type |-> "unique", key |-> k, action |-> "td_result",
                        judging |-> n, results |-> {<<n, td>>}]
StatusRequest(k, n) == [type |-> "force_pop", key |-> k, action |-> "status",
                        judging |-> n, results |-> {}]
FinalRequest(k, n)  == [type |-> "force_pop", key |-> k, action |-> "final",
                        judging |-> n, results |-> {}]

VARIABLES
  unsent_timestamps,      \* set of <<timestamp, key>>
  unique_timestamp_map,   \* key -> timestamp of the last send
  unique_requests,        \* key -> the request that waits
  request_queue,
  backup_queue,
  loop,                   \* where RequestLoop is; "close" is under request_queue_mtx
  inhand,                 \* the request it has taken from the queue
  link,                   \* connected_, and how far OnOpen and OnClose are
  close_issued,           \* close_issued_
  connections,            \* attempts so far
  now,
  judging,                \* key -> the judging in progress and what it reported
  pushes,
  handed,                 \* <<key, judging, testdata result or kFinal>> passed to Send
  delivered,              \* finals that Send accepted, like handed
  dropped                 \* testdata results erased by a status of SendStatus, like handed

vars == <<unsent_timestamps, unique_timestamp_map, unique_requests, request_queue, backup_queue,
          loop, inhand, link, close_issued, connections, now, judging, pushes,
          delivered, handed, dropped>>

uniques == <<unsent_timestamps, unique_timestamp_map, unique_requests>>
history == <<delivered, handed, dropped>>
socket  == <<link, close_issued, connections>>
callers == <<judging, pushes>>

Init ==
  /\ unsent_timestamps = {}
  /\ unique_timestamp_map = <<>>
  /\ unique_requests = <<>>
  /\ request_queue = <<>>
  /\ backup_queue = <<>>
  /\ loop = "wait"
  /\ inhand = <<>>
  /\ link = "down"
  /\ close_issued = FALSE
  /\ connections = 0
  /\ now = 2 * TicksPerSecond + 1
  /\ judging = [k \in Keys |-> [n |-> 0, open |-> FALSE, tds |-> 0, finals |-> {}]]
  /\ pushes = 0
  /\ delivered = {}
  /\ handed = {}
  /\ dropped = {}

Connected == link \in {"opened", "subscribed", "up"}
CanSend   == Connected /\ ~close_issued

\* A thread that wants request_queue_mtx; a crashed judge has no threads.
LockFree == loop \notin {"close", "crashed"}
Running  == loop # "crashed"

-----------------------------------------------------------------------------
(* PushRequest *)

Put(f, key, value) == [k \in DOMAIN f \cup {key} |-> IF k = key THEN value ELSE f[k]]
Drop(f, key)       == [k \in DOMAIN f \ {key} |-> f[k]]

\* Mutant: the new request replaces the one that waits.
MergeReplaces(req, waiting) == req

\* A testdata result takes over the results of the request that waits.
Merge(req, waiting) ==
  IF req.action = "td_result" THEN [req EXCEPT !.results = @ \cup waiting.results] ELSE req

PushUnique(req) ==
  LET key == req.key IN
  /\ \/ /\ key \in DOMAIN unique_requests
        /\ unique_requests' = [unique_requests EXCEPT ![key] = Merge(req, @)]
        /\ UNCHANGED <<unsent_timestamps, unique_timestamp_map>>
     \/ /\ key \notin DOMAIN unique_requests
        /\ key \in DOMAIN unique_timestamp_map
        /\ unsent_timestamps' = unsent_timestamps \cup {<<unique_timestamp_map[key], key>>}
        /\ unique_requests' = Put(unique_requests, key, req)
        /\ UNCHANGED unique_timestamp_map
     \/ /\ key \notin DOMAIN unique_requests
        /\ key \notin DOMAIN unique_timestamp_map
        /\ unsent_timestamps' = unsent_timestamps \cup {<<0, key>>}
        /\ unique_timestamp_map' = Put(unique_timestamp_map, key, 0)
        /\ unique_requests' = Put(unique_requests, key, req)
  /\ UNCHANGED request_queue

\* Mutant: the timestamp is erased, the request is not.
PushForcePopKeepsRequest(req) ==
  LET key == req.key IN
  /\ unsent_timestamps' =
       {e \in unsent_timestamps :
          ~(key \in DOMAIN unique_timestamp_map /\ e = <<unique_timestamp_map[key], key>>)}
  /\ request_queue' = Append(request_queue, req)
  /\ UNCHANGED <<unique_timestamp_map, unique_requests>>

PushForcePop(req) ==
  LET key == req.key IN
  /\ IF key \in DOMAIN unique_timestamp_map
       THEN /\ unsent_timestamps' = unsent_timestamps \ {<<unique_timestamp_map[key], key>>}
            /\ unique_requests' = Drop(unique_requests, key)
       ELSE UNCHANGED <<unsent_timestamps, unique_requests>>
  /\ request_queue' = Append(request_queue, req)
  /\ UNCHANGED unique_timestamp_map

-----------------------------------------------------------------------------
(* The callers: server_reporter, for the judging that PushSubmission did not
   cancel, the threads that receive submissions, and the fetches.  Left out:
   report_queued, a push like a fetch under another key. *)

others == <<backup_queue, loop, inhand, socket, now, history>>

\* ReportStartCompiling of the next judging, which supersedes an open one.
StartJudging(k) ==
  LET n == judging[k].n + 1 IN
  /\ LockFree
  /\ n <= MaxJudgings
  /\ judging' = [judging EXCEPT ![k] = [@ EXCEPT !.n = n, !.open = TRUE, !.tds = 0]]
  /\ PushForcePop(StatusRequest(k, n))
  /\ UNCHANGED <<others, pushes>>

\* ReportScoringResult; testdata are numbered in the order they are reported.
SendResult(k) ==
  LET td == judging[k].tds + 1 IN
  /\ LockFree
  /\ judging[k].open
  /\ td <= MaxTd
  /\ judging' = [judging EXCEPT ![k].tds = td]
  /\ PushUnique(TdRequest(k, judging[k].n, td))
  /\ UNCHANGED <<others, pushes>>

\* ReportOverallResult
SendFinalResult(k) ==
  /\ LockFree
  /\ judging[k].open
  /\ judging' = [judging EXCEPT ![k] =
                    [@ EXCEPT !.open = FALSE, !.finals = judging[k].finals \cup {judging[k].n}]]
  /\ PushForcePop(FinalRequest(k, judging[k].n))
  /\ UNCHANGED <<others, pushes>>

\* The results that a force_pop request with this key erases.
Erased(k) ==
  UNION {unique_requests[i].results :
           i \in {k} \cap DOMAIN unique_timestamp_map \cap DOMAIN unique_requests}

\* OneSubmissionThread turns a submission away or fails, or DealOneSubmission has it
\* queued; an earlier judging of the submission may be open.
SendStatus(k) ==
  /\ LockFree
  /\ pushes < MaxPushes
  /\ pushes' = pushes + 1
  /\ dropped' = dropped \cup {<<k, x[1], x[2]>> : x \in Erased(k)}
  /\ PushForcePop(StatusRequest(k, 0))
  /\ UNCHANGED <<backup_queue, loop, inhand, socket, now, judging, delivered, handed>>

\* By a notification, a finished submission, the 10 seconds of ServerWorkLoop.
TryFetchSubmission ==
  /\ LockFree
  /\ pushes < MaxPushes
  /\ pushes' = pushes + 1
  /\ PushUnique(FetchRequest)
  /\ UNCHANGED <<others, judging>>

-----------------------------------------------------------------------------
(* The websocket thread.  connected_ changes before the callback gets hold of
   request_queue_mtx. *)

sender == <<loop, inhand, now, callers, history>>

Connect ==
  /\ Running
  /\ link = "down"
  /\ connections < MaxConnections
  /\ connections' = connections + 1
  /\ link' = "opened"
  /\ UNCHANGED <<uniques, request_queue, backup_queue, close_issued, sender>>

\* OnOpen: the subscription goes to the front of the queue ...
Subscribe ==
  /\ link = "opened"
  /\ LockFree
  /\ link' = "subscribed"
  /\ request_queue' = <<SubscribeRequest>> \o request_queue
  /\ UNCHANGED <<uniques, backup_queue, close_issued, connections, sender>>

\* ... and a submission is fetched.
FetchOnOpen ==
  /\ link = "subscribed"
  /\ LockFree
  /\ link' = "up"
  /\ PushUnique(FetchRequest)
  /\ UNCHANGED <<backup_queue, close_issued, connections, sender>>

Disconnect ==
  /\ Running
  /\ link = "up"
  /\ link' = "closed"
  /\ close_issued' = FALSE
  /\ UNCHANGED <<uniques, request_queue, backup_queue, connections, sender>>

\* Mutant: the backup is copied, not spliced.
ResendBackupCopies ==
  /\ request_queue' = backup_queue \o request_queue
  /\ UNCHANGED backup_queue

ResendBackupRequests ==
  /\ request_queue' = backup_queue \o request_queue
  /\ backup_queue' = <<>>

\* OnClose: ReconnectThread_
OnClose ==
  /\ link = "closed"
  /\ LockFree
  /\ link' = "down"
  /\ ResendBackupRequests
  /\ UNCHANGED <<uniques, close_issued, connections, sender>>

\* A connection attempt fails: ReconnectThread_ as well.
OnFail ==
  /\ link = "down"
  /\ LockFree
  /\ connections < MaxConnections
  /\ connections' = connections + 1
  /\ ResendBackupRequests
  /\ UNCHANGED <<uniques, link, close_issued, sender>>

\* Mutant: the wrong queue is emptied.
OnMessageClearsRequests ==
  /\ LockFree
  /\ link = "up"
  /\ ~close_issued
  /\ request_queue' = <<>>
  /\ close_issued' \in BOOLEAN
  /\ UNCHANGED <<uniques, backup_queue, link, connections, sender>>

\* Any message, a ping too, empties the backup; a welcome with a version that
\* does not parse closes the connection.
OnMessage ==
  /\ Running
  /\ link = "up"
  /\ ~close_issued
  /\ backup_queue' = <<>>
  /\ close_issued' \in BOOLEAN
  /\ UNCHANGED <<uniques, request_queue, link, connections, sender>>

-----------------------------------------------------------------------------
(* RequestLoop *)

Before(e, f) == e[1] < f[1] \/ (e[1] = f[1] /\ e[2] < f[2])

Due == {e \in unsent_timestamps : e[1] < now - kUniqueReqMinInterval}

\* Every entry's request exists when the loop of CheckUniqueRequests gets to it.
DueExist ==
  /\ \A e \in Due : e[2] \in DOMAIN unique_requests
  /\ \A e, f \in Due : e[2] = f[2] => e = f

\* unsent_timestamps is a std::set: it is gone through in order.
DueOrders ==
  {due \in [1 .. Cardinality(Due) -> Due] :
     /\ ToSet(due) = Due
     /\ \A i, j \in DOMAIN due : i < j => Before(due[i], due[j])}

DueRequests(due) == [i \in DOMAIN due |-> unique_requests[due[i][2]]]

CheckUniqueRequests ==
  /\ unsent_timestamps' = unsent_timestamps \ Due
  /\ unique_requests' = [k \in DOMAIN unique_requests \ {e[2] : e \in Due} |-> unique_requests[k]]

\* long ts = MonotonicTimestamp(), and for a fetch the truncated ts -= 0.3.
Truncated(t)  == t - (t % TicksPerSecond)
SendTime(key) ==
  IF key # kFetchKey THEN Truncated(now)
  ELSE IF Truncated(now) = 0 THEN 0 ELSE Truncated(now) - TicksPerSecond

\* The inner loop up to lck.unlock(), for the front of the given queue.
PopFront(queue) ==
  LET req == Head(queue) IN
  /\ unique_timestamp_map' =
       CASE req.type = "unique"    -> Put(unique_timestamp_map, req.key, SendTime(req.key))
         [] req.type = "force_pop" -> Drop(unique_timestamp_map, req.key)
         [] OTHER                  -> unique_timestamp_map
  /\ request_queue' = Tail(queue)
  /\ inhand' = <<req>>
  /\ loop' = "send"

\* wait_for times out without a connection: what is queued is drained all the same.
TimeOut ==
  /\ loop = "wait"
  /\ ~CanSend
  /\ request_queue # <<>>
  /\ PopFront(request_queue)
  /\ UNCHANGED <<unsent_timestamps, unique_requests, backup_queue, socket, now, callers, history>>

\* wait_for's predicate holds.
Wake ==
  /\ loop = "wait"
  /\ CanSend
  /\ DueExist
  /\ CheckUniqueRequests
  /\ \E due \in DueOrders :
       /\ request_queue \o DueRequests(due) # <<>>
       /\ PopFront(request_queue \o DueRequests(due))
  /\ UNCHANGED <<backup_queue, socket, now, callers, history>>

\* wait_for returns, and the server has been silent for 8 seconds.
Silent ==
  /\ loop = "wait"
  /\ CanSend
  /\ DueExist
  /\ CheckUniqueRequests
  /\ \E due \in DueOrders : request_queue' = request_queue \o DueRequests(due)
  /\ loop' = "close"
  /\ UNCHANGED <<unique_timestamp_map, backup_queue, inhand, socket, now, callers, history>>

\* CheckUniqueRequests dereferences end().
Crash ==
  /\ loop = "wait"
  /\ CanSend
  /\ ~DueExist
  /\ loop' = "crashed"
  /\ UNCHANGED <<uniques, request_queue, backup_queue, inhand, socket, now, callers, history>>

\* cli.Close(): the library throws, out of the thread, when OnClose_ has reset
\* the handle since CanSend was read.
Close ==
  /\ loop = "close"
  /\ loop' = IF Connected THEN "wait" ELSE "crashed"
  /\ close_issued' = (close_issued \/ Connected)
  /\ UNCHANGED <<uniques, request_queue, backup_queue, inhand, link, connections, now, callers, history>>

\* Without request_queue_mtx; the result of Send is not looked at.
Send ==
  LET req    == inhand[1]
      finals == {<<r.key, r.judging, kFinal>> : r \in {q \in {req} : q.action = "final"}}
  IN
  /\ loop = "send"
  /\ loop' = "backup"
  /\ handed' = handed \cup finals \cup {<<req.key, x[1], x[2]>> : x \in req.results}
  /\ delivered' = IF CanSend THEN delivered \cup finals ELSE delivered
  /\ UNCHANGED <<uniques, request_queue, backup_queue, inhand, socket, now, callers, dropped>>

\* Mutant: the request is copied to the backup and kept.
BackupKeepsInHand ==
  /\ loop = "backup"
  /\ loop' = "relock"
  /\ backup_queue' = backup_queue \o inhand
  /\ UNCHANGED <<uniques, request_queue, inhand, socket, now, callers, history>>

Backup ==
  /\ loop = "backup"
  /\ loop' = "relock"
  /\ backup_queue' = backup_queue \o inhand
  /\ inhand' = <<>>
  /\ UNCHANGED <<uniques, request_queue, socket, now, callers, history>>

\* lck.lock(), and the next request or the end of the inner loop.
PopNext ==
  /\ loop = "relock"
  /\ request_queue # <<>>
  /\ PopFront(request_queue)
  /\ UNCHANGED <<unsent_timestamps, unique_requests, backup_queue, socket, now, callers, history>>

Drained ==
  /\ loop = "relock"
  /\ request_queue = <<>>
  /\ loop' = "wait"
  /\ UNCHANGED <<uniques, request_queue, backup_queue, inhand, socket, now, callers, history>>

Tick ==
  /\ Running
  /\ now < MaxNow
  /\ now' = now + 1
  /\ UNCHANGED <<uniques, request_queue, backup_queue, loop, inhand, socket, callers, history>>

-----------------------------------------------------------------------------
Report ==
  \E k \in Keys : StartJudging(k) \/ SendResult(k) \/ SendFinalResult(k)

Receive == TryFetchSubmission \/ \E k \in Keys : SendStatus(k)

Websocket ==
  Connect \/ Subscribe \/ FetchOnOpen \/ Disconnect \/ OnClose \/ OnFail \/ OnMessage

RequestLoop == TimeOut \/ Wake \/ Crash \/ Close \/ Send \/ Backup \/ PopNext \/ Drained

Next == Report \/ Receive \/ Websocket \/ RequestLoop \/ Silent \/ Tick

Spec == Init /\ [][Next]_vars

\* The request thread is always scheduled: its wait has a timeout, and nobody
\* keeps request_queue_mtx.
FairSpec == Spec /\ WF_vars(RequestLoop)

-----------------------------------------------------------------------------
(* Properties *)

InQueue == ToSet(request_queue) \cup ToSet(inhand)

\* Types of the request queues and of the sender's state.
TypeOK ==
  /\ unsent_timestamps \subseteq Int \X UniqueKeys
  /\ DOMAIN unique_timestamp_map \subseteq UniqueKeys
  /\ \A k \in DOMAIN unique_timestamp_map : unique_timestamp_map[k] \in Int
  /\ DOMAIN unique_requests \subseteq UniqueKeys
  /\ \A k \in DOMAIN unique_requests :
       unique_requests[k] \in Request /\ unique_requests[k].key = k
  /\ InQueue \cup ToSet(backup_queue) \subseteq Request
  /\ handed \subseteq Keys \X (1 .. MaxJudgings) \X ({kFinal} \cup 1 .. MaxTd)
  /\ delivered \subseteq handed
  /\ dropped \subseteq Keys \X (1 .. MaxJudgings) \X (1 .. MaxTd)
  /\ loop \in {"wait", "close", "send", "backup", "relock", "crashed"}
  /\ (inhand # <<>>) <=> loop \in {"send", "backup"}
  /\ link \in {"down", "opened", "subscribed", "up", "closed"}
  /\ close_issued \in BOOLEAN

\* A request that waits in unique_requests has a timestamp, without which
\* CheckUniqueRequests would never look at it.
WaitingIsTimed ==
  \A k \in DOMAIN unique_requests : \E e \in unsent_timestamps : e[2] = k

\* "should always exist" (CheckUniqueRequests): a timestamp has its request;
\* otherwise the iterator that is dereferenced is end().
TimedIsWaiting == \A e \in unsent_timestamps : e[2] \in DOMAIN unique_requests

\* Merging, replacing and moving requests (PushRequest, CheckUniqueRequests)
\* loses no testdata result of a judging that is still open: it waits, is
\* queued, was handed to Send, or waited when a thread that receives the same
\* submission again pushed its status, which is the one way to lose it.
OpenResultsKept ==
  \A k \in Keys : judging[k].open =>
    \A td \in 1 .. judging[k].tds :
      \/ <<k, judging[k].n, td>> \in handed \cup dropped
      \/ \E r \in InQueue \cup {unique_requests[i] : i \in DOMAIN unique_requests} :
           r.key = k /\ <<judging[k].n, td>> \in r.results

\* "This function deal with all outgoing messages" (RequestLoop, with the backup
\* that OnClose resends): a final result is in a queue or was accepted by Send.
FinalNotLost ==
  \A k \in Keys : \A n \in judging[k].finals :
    \/ <<k, n, kFinal>> \in delivered
    \/ FinalRequest(k, n) \in InQueue \cup ToSet(backup_queue)

\* Resending moves requests and copies none: wherever a disconnection meets the
\* loop, an overall result is in one place only (RequestLoop, OnMessage,
\* ResendBackupRequests), so that one connection never carries it twice.
FinalOnce ==
  LET all == request_queue \o inhand \o backup_queue IN
  \A i, j \in DOMAIN all : all[i].action = "final" /\ all[i] = all[j] => i = j

\* Every overall result that was pushed is handed to Send, connected or not,
\* unless the request thread dies.
EveryFinalHanded ==
  \A k \in Keys : \A n \in 1 .. MaxJudgings :
    (n \in judging[k].finals) ~> (<<k, n, kFinal>> \in handed \/ ~Running)
=============================================================================
