------------------------- MODULE RequestQueueProofs -------------------------
(***************************************************************************)
(* What RequestQueue keeps, for any submissions, judgings, testdata,       *)
(* connections and times: the types, a timestamp for every request that    *)
(* waits, the results of every judging that is open, and at most one copy  *)
(* of an overall result.                                                   *)
(***************************************************************************)
EXTENDS RequestQueue, FiniteSetTheorems, SequenceTheorems, TLAPS

\* What a queued request says of itself: who sent it, and for an overall result
\* that it was sent.
Owned(r) ==
  /\ r.type = "unique" => r.key \in UniqueKeys
  /\ r.results # {} => r.key \in Keys
  /\ r.action = "final" => r.key \in Keys /\ r.judging \in judging[r.key].finals

\* Of a request that waits under key k.
Waits(r, k) ==
  /\ r \in Request
  /\ r.key = k
  /\ r.action # "final"
  /\ r.results # {} => k \in Keys

\* The tables of the unique requests.
TableInv ==
  /\ unsent_timestamps \subseteq Int \X UniqueKeys
  /\ IsFiniteSet(unsent_timestamps)
  /\ DOMAIN unique_timestamp_map \subseteq UniqueKeys
  /\ \A k \in DOMAIN unique_timestamp_map : unique_timestamp_map[k] \in Int
  /\ DOMAIN unique_requests \subseteq UniqueKeys
  /\ \A k \in DOMAIN unique_requests : Waits(unique_requests[k], k)

\* The three queues.
QueueInv ==
  /\ request_queue \in Seq(Request)
  /\ inhand \in Seq(Request)
  /\ backup_queue \in Seq(Request)
  /\ Len(inhand) = IF loop \in {"send", "backup"} THEN 1 ELSE 0
  /\ \A r \in InQueue \cup ToSet(backup_queue) : Owned(r)

\* A judging: its overall result, and those of the judgings before it, are in finals.
Judging ==
  {j \in [n : 0 .. MaxJudgings, open : BOOLEAN, tds : 0 .. MaxTd, finals : SUBSET (1 .. MaxJudgings)] :
     /\ \A n \in j.finals : n <= j.n
     /\ j.open => j.n > 0 /\ j.n \notin j.finals}

\* The rest of the state.
StateInv ==
  /\ judging \in [Keys -> Judging]
  /\ handed \subseteq Keys \X (1 .. MaxJudgings) \X ({kFinal} \cup 1 .. MaxTd)
  /\ delivered \subseteq handed
  /\ dropped \subseteq Keys \X (1 .. MaxJudgings) \X (1 .. MaxTd)
  /\ loop \in {"wait", "close", "send", "backup", "relock", "crashed"}
  /\ link \in {"down", "opened", "subscribed", "up", "closed"}
  /\ close_issued \in BOOLEAN
  /\ now \in Int

Types == TableInv /\ QueueInv /\ StateInv

-----------------------------------------------------------------------------
(* Requests and sequences of them. *)

\* The requests of the callers are requests.
LEMMA RequestsOfCallers ==
  /\ SubscribeRequest \in Request
  /\ FetchRequest \in Request
  /\ \A k \in Keys, n \in 1 .. MaxJudgings :
       /\ StatusRequest(k, n) \in Request
       /\ FinalRequest(k, n) \in Request
       /\ \A td \in 1 .. MaxTd : TdRequest(k, n, td) \in Request
  /\ \A k \in Keys : StatusRequest(k, 0) \in Request
  BY RequestBounds
  DEF Request, UniqueKeys, SubscribeRequest, FetchRequest, StatusRequest, FinalRequest, TdRequest

\* The elements of a concatenation.
LEMMA ToSetConcat ==
  ASSUME NEW S, NEW s \in Seq(S), NEW t \in Seq(S)
  PROVE  s \o t \in Seq(S) /\ ToSet(s \o t) = ToSet(s) \cup ToSet(t)
  <1>1. s \o t \in Seq(S)
    OBVIOUS
  <1>2. ToSet(s \o t) \subseteq ToSet(s) \cup ToSet(t)
    BY DEF ToSet
  <1>3. ASSUME NEW i \in DOMAIN s PROVE s[i] \in ToSet(s \o t)
    <2>1. i \in DOMAIN (s \o t) /\ (s \o t)[i] = s[i]
      OBVIOUS
    <2> QED
      BY <2>1 DEF ToSet
  <1>4. ASSUME NEW i \in DOMAIN t PROVE t[i] \in ToSet(s \o t)
    <2>1. Len(s) + i \in DOMAIN (s \o t) /\ (s \o t)[Len(s) + i] = t[i]
      OBVIOUS
    <2> QED
      BY <2>1 DEF ToSet
  <1> QED
    BY <1>1, <1>2, <1>3, <1>4 DEF ToSet

\* The elements of a sequence to which one is added.
LEMMA ToSetAppend ==
  ASSUME NEW S, NEW s \in Seq(S), NEW x \in S
  PROVE  Append(s, x) \in Seq(S) /\ ToSet(Append(s, x)) = ToSet(s) \cup {x}
  <1>1. Append(s, x) \in Seq(S)
    OBVIOUS
  <1>2. ToSet(Append(s, x)) \subseteq ToSet(s) \cup {x}
    BY DEF ToSet
  <1>3. ASSUME NEW i \in DOMAIN s PROVE s[i] \in ToSet(Append(s, x))
    <2>1. i \in DOMAIN Append(s, x) /\ Append(s, x)[i] = s[i]
      OBVIOUS
    <2> QED
      BY <2>1 DEF ToSet
  <1>4. x \in ToSet(Append(s, x))
    <2>1. Len(s) + 1 \in DOMAIN Append(s, x) /\ Append(s, x)[Len(s) + 1] = x
      OBVIOUS
    <2> QED
      BY <2>1 DEF ToSet
  <1> QED
    BY <1>1, <1>2, <1>3, <1>4 DEF ToSet

\* The elements of a sequence whose first is taken.
LEMMA ToSetHeadTail ==
  ASSUME NEW S, NEW s \in Seq(S), s # <<>>
  PROVE  /\ Head(s) \in S
         /\ Tail(s) \in Seq(S)
         /\ ToSet(s) = {Head(s)} \cup ToSet(Tail(s))
         /\ ToSet(<<Head(s)>>) = {Head(s)}
  <1>1. Head(s) \in S /\ Tail(s) \in Seq(S)
    OBVIOUS
  <1>2. ASSUME NEW i \in DOMAIN s PROVE s[i] \in {Head(s)} \cup ToSet(Tail(s))
    <2>1. CASE i = 1
      BY <2>1
    <2>2. CASE i # 1
      <3>1. i - 1 \in DOMAIN Tail(s) /\ Tail(s)[i - 1] = s[i]
        BY <2>2
      <3> QED
        BY <3>1 DEF ToSet
    <2> QED
      BY <2>1, <2>2
  <1>3. Head(s) \in ToSet(s)
    <2>1. 1 \in DOMAIN s /\ s[1] = Head(s)
      OBVIOUS
    <2> QED
      BY <2>1 DEF ToSet
  <1>4. ASSUME NEW i \in DOMAIN Tail(s) PROVE Tail(s)[i] \in ToSet(s)
    <2>1. i + 1 \in DOMAIN s /\ Tail(s)[i] = s[i + 1]
      OBVIOUS
    <2> QED
      BY <2>1 DEF ToSet
  <1>5. ToSet(<<Head(s)>>) = {Head(s)}
    BY DEF ToSet
  <1> QED
    BY <1>1, <1>2, <1>3, <1>4, <1>5 DEF ToSet

\* The empty sequence.
LEMMA ToSetEmpty == ASSUME NEW S PROVE <<>> \in Seq(S) /\ ToSet(<<>>) = {}
  BY DEF ToSet

-----------------------------------------------------------------------------
(* The tables. *)

\* Adding and removing one timestamp.
LEMMA FiniteTimestamps ==
  ASSUME NEW S, IsFiniteSet(S), NEW x
  PROVE  IsFiniteSet(S \cup {x}) /\ \A T : T \subseteq S => IsFiniteSet(T)
  BY FS_AddElement, FS_Subset

\* Merging keeps what a request must be.
LEMMA MergeWaits ==
  ASSUME NEW req, NEW w, NEW k, Waits(req, k), Waits(w, k)
  PROVE  Waits(Merge(req, w), k)
  BY DEF Waits, Merge, Request

\* PushRequest of a unique request keeps the tables well formed.
LEMMA PushUniqueTable ==
  ASSUME TableInv, NEW req, req.key \in UniqueKeys, Waits(req, req.key), PushUnique(req)
  PROVE  TableInv'
  <1> DEFINE key == req.key
  <1>1. CASE key \in DOMAIN unique_requests
    <2>1. /\ unique_requests' = [unique_requests EXCEPT ![key] = Merge(req, @)]
          /\ UNCHANGED <<unsent_timestamps, unique_timestamp_map>>
      BY <1>1 DEF PushUnique
    <2>2. Waits(Merge(req, unique_requests[key]), key)
      BY <1>1, MergeWaits DEF TableInv
    <2> HIDE DEF key
    <2> QED
      BY <1>1, <2>1, <2>2 DEF TableInv
  <1>2. CASE key \notin DOMAIN unique_requests
    <2>1. PICK t \in Int : unsent_timestamps' = unsent_timestamps \cup {<<t, key>>}
      BY <1>2 DEF PushUnique, TableInv
    <2>2. /\ unique_timestamp_map' = unique_timestamp_map \/ unique_timestamp_map' = Put(unique_timestamp_map, key, 0)
          /\ unique_requests' = Put(unique_requests, key, req)
      BY <1>2 DEF PushUnique
    <2>3. IsFiniteSet(unsent_timestamps')
      BY <2>1, FiniteTimestamps DEF TableInv
    <2> HIDE DEF key
    <2>4. Waits(req, key) /\ key \in UniqueKeys
      BY DEF key
    <2> QED
      BY <2>1, <2>2, <2>3, <2>4 DEF TableInv, Put
  <1> QED
    BY <1>1, <1>2

\* So does that of a force_pop request, which only takes from them.
LEMMA PushForcePopTable ==
  ASSUME TableInv, NEW req, PushForcePop(req)
  PROVE  TableInv'
  <1>1. unsent_timestamps' \subseteq unsent_timestamps /\ unique_timestamp_map' = unique_timestamp_map
    BY DEF PushForcePop
  <1>2. /\ DOMAIN unique_requests' \subseteq DOMAIN unique_requests
        /\ \A k \in DOMAIN unique_requests' : unique_requests'[k] = unique_requests[k]
    BY DEF PushForcePop, Drop
  <1>3. IsFiniteSet(unsent_timestamps')
    BY <1>1, FiniteTimestamps DEF TableInv
  <1> QED
    BY <1>1, <1>2, <1>3 DEF TableInv

\* CheckUniqueRequests only takes from the tables.
LEMMA CheckUniqueRequestsTable ==
  ASSUME TableInv, CheckUniqueRequests
  PROVE  /\ unsent_timestamps' \subseteq unsent_timestamps
         /\ IsFiniteSet(unsent_timestamps')
         /\ DOMAIN unique_requests' \subseteq DOMAIN unique_requests
         /\ \A k \in DOMAIN unique_requests' : unique_requests'[k] = unique_requests[k]
  BY FiniteTimestamps DEF TableInv, CheckUniqueRequests

\* The requests that CheckUniqueRequests appends are those that were due.
LEMMA DueRequestsAre ==
  ASSUME TableInv, DueExist, NEW due \in DueOrders
  PROVE  /\ DueRequests(due) \in Seq(Request)
         /\ ToSet(DueRequests(due)) = {unique_requests[e[2]] : e \in Due}
         /\ \A r \in ToSet(DueRequests(due)) :
              r.action # "final" /\ (r.results # {} => r.key \in Keys) /\ r.key \in UniqueKeys
  <1> DEFINE n == Cardinality(Due)
             d == DueRequests(due)
  <1>1. Due \subseteq unsent_timestamps /\ IsFiniteSet(Due)
    BY FiniteTimestamps DEF Due, TableInv
  <1>2. n \in Nat
    BY <1>1, FS_CardinalityType
  <1>3. DOMAIN due = 1 .. n /\ \A i \in 1 .. n : due[i] \in Due
    BY DEF DueOrders
  <1>4. Due = {due[i] : i \in 1 .. n}
    BY <1>3 DEF DueOrders, ToSet
  <1> HIDE DEF n
  <1>5. DOMAIN d = 1 .. n /\ \A i \in 1 .. n : d[i] = unique_requests[due[i][2]]
    BY <1>3 DEF DueRequests
  <1>6. \A e \in Due : Waits(unique_requests[e[2]], e[2]) /\ e[2] \in UniqueKeys
    BY <1>1 DEF DueExist, TableInv
  <1>7. \A i \in 1 .. n : d[i] \in Request
    BY <1>3, <1>5, <1>6 DEF Waits
  <1>8. d \in Seq(Request)
    <2>1. d = [i \in 1 .. n |-> unique_requests[due[i][2]]]
      BY <1>3 DEF DueRequests
    <2> HIDE DEF d
    <2>2. d \in [1 .. n -> Request]
      BY <1>5, <1>7, <2>1
    <2> QED
      BY <1>2, <2>2, SeqDef
  <1>9. ToSet(d) = {unique_requests[e[2]] : e \in Due}
    BY <1>3, <1>4, <1>5 DEF ToSet
  <1> QED
    BY <1>6, <1>8, <1>9 DEF Waits

-----------------------------------------------------------------------------
(* The judgings. *)

\* A judging is one of these records, and one that is open has not reported.
LEMMA JudgingFields ==
  ASSUME NEW j \in Judging
  PROVE  /\ j \in [n : 0 .. MaxJudgings, open : BOOLEAN, tds : 0 .. MaxTd,
                   finals : SUBSET (1 .. MaxJudgings)]
         /\ j.n \in 0 .. MaxJudgings /\ j.tds \in 0 .. MaxTd
         /\ j.finals \subseteq 1 .. MaxJudgings
         /\ \A n \in j.finals : n <= j.n
         /\ j.open => j.n \in 1 .. MaxJudgings /\ j.n \notin j.finals
  BY RequestBounds DEF Judging

\* ReportStartCompiling begins the next judging, without results.
LEMMA StartJudgingEffect ==
  ASSUME judging \in [Keys -> Judging], NEW k \in Keys, StartJudging(k)
  PROVE  /\ judging' \in [Keys -> Judging]
         /\ \A i \in Keys \ {k} : judging'[i] = judging[i]
         /\ judging'[k].tds = 0
         /\ judging[k].n + 1 \in 1 .. MaxJudgings
         /\ judging'[k].finals = judging[k].finals
  <1> DEFINE n == judging[k].n + 1
             j == [judging[k] EXCEPT !.n = n, !.open = TRUE, !.tds = 0]
  <1>1. judging[k] \in Judging
    OBVIOUS
  <1>2. n \in 1 .. MaxJudgings
    BY <1>1, JudgingFields, RequestBounds DEF StartJudging
  <1>3. j.n = n /\ j.open = TRUE /\ j.tds = 0 /\ j.finals = judging[k].finals
    BY <1>1, JudgingFields
  <1>4. j \in [n : 0 .. MaxJudgings, open : BOOLEAN, tds : 0 .. MaxTd, finals : SUBSET (1 .. MaxJudgings)]
    <2>1. n \in 0 .. MaxJudgings /\ 0 \in 0 .. MaxTd
      BY <1>2, RequestBounds
    <2> HIDE DEF n
    <2> QED
      BY <1>1, <2>1, JudgingFields
  <1>5. \A m \in judging[k].finals : m \in Int /\ m <= n - 1
    BY <1>1, JudgingFields
  <1>6. j \in Judging
    <2> HIDE DEF j
    <2>1. n > 0 /\ n \notin judging[k].finals /\ \A m \in judging[k].finals : m <= n
      BY <1>2, <1>5
    <2> HIDE DEF n
    <2> QED
      BY <1>3, <1>4, <2>1 DEF Judging
  <1>7. judging' = [judging EXCEPT ![k] = j]
    BY DEF StartJudging
  <1> HIDE DEF j
  <1> QED
    BY <1>2, <1>3, <1>6, <1>7

\* ReportScoringResult numbers the next result of the open judging.
LEMMA SendResultEffect ==
  ASSUME judging \in [Keys -> Judging], NEW k \in Keys, SendResult(k)
  PROVE  /\ judging' \in [Keys -> Judging]
         /\ \A i \in Keys \ {k} : judging'[i] = judging[i]
         /\ judging[k].n \in 1 .. MaxJudgings
         /\ judging[k].tds + 1 \in 1 .. MaxTd
         /\ judging'[k].tds = judging[k].tds + 1
         /\ judging'[k].n = judging[k].n
         /\ judging'[k].finals = judging[k].finals
  <1> DEFINE td == judging[k].tds + 1
             j == [judging[k] EXCEPT !.tds = td]
  <1>1. judging[k] \in Judging /\ judging[k].open
    BY DEF SendResult
  <1>2. judging[k].n \in 1 .. MaxJudgings /\ td \in 1 .. MaxTd
    BY <1>1, JudgingFields, RequestBounds DEF SendResult
  <1>3. /\ j.n = judging[k].n /\ j.open = judging[k].open
        /\ j.tds = td /\ j.finals = judging[k].finals
    BY <1>1, JudgingFields
  <1>4. j \in [n : 0 .. MaxJudgings, open : BOOLEAN, tds : 0 .. MaxTd, finals : SUBSET (1 .. MaxJudgings)]
    BY <1>1, <1>2, JudgingFields, RequestBounds
  <1>5. judging' = [judging EXCEPT ![k] = j]
    BY DEF SendResult
  <1> HIDE DEF j
  <1>6. j \in Judging
    BY <1>1, <1>3, <1>4 DEF Judging
  <1> QED
    BY <1>2, <1>3, <1>5, <1>6

\* ReportOverallResult closes the open judging, whose overall result is new.
LEMMA SendFinalResultEffect ==
  ASSUME judging \in [Keys -> Judging], NEW k \in Keys, SendFinalResult(k)
  PROVE  /\ judging' \in [Keys -> Judging]
         /\ \A i \in Keys \ {k} : judging'[i] = judging[i]
         /\ judging[k].n \in 1 .. MaxJudgings
         /\ judging[k].n \notin judging[k].finals
         /\ judging'[k].open = FALSE
         /\ judging'[k].finals = judging[k].finals \cup {judging[k].n}
  <1> DEFINE n == judging[k].n
             j == [judging[k] EXCEPT !.open = FALSE, !.finals = judging[k].finals \cup {n}]
  <1>1. judging[k] \in Judging /\ judging[k].open
    BY DEF SendFinalResult
  <1>2. n \in 1 .. MaxJudgings /\ n \notin judging[k].finals
    BY <1>1, JudgingFields
  <1>3. /\ j.n = n /\ j.open = FALSE
        /\ j.tds = judging[k].tds /\ j.finals = judging[k].finals \cup {n}
    BY <1>1, JudgingFields
  <1>4. j \in [n : 0 .. MaxJudgings, open : BOOLEAN, tds : 0 .. MaxTd, finals : SUBSET (1 .. MaxJudgings)]
    BY <1>1, <1>2, JudgingFields, RequestBounds
  <1>5. judging' = [judging EXCEPT ![k] = j]
    BY DEF SendFinalResult
  <1>6. \A m \in judging[k].finals : m <= n
    BY <1>1, JudgingFields
  <1> HIDE DEF j
  <1>7. j \in Judging
    BY <1>2, <1>3, <1>4, <1>6 DEF Judging
  <1> QED
    BY <1>2, <1>3, <1>5, <1>7

-----------------------------------------------------------------------------
(* The types. *)

\* An overall result stays one.
LEMMA OwnedGrows ==
  ASSUME NEW r, Owned(r), \A k \in Keys : judging[k].finals \subseteq judging'[k].finals
  PROVE  Owned(r)'
  BY DEF Owned

\* A caller pushes a unique request.
LEMMA PushUniqueTypes ==
  ASSUME Types, NEW req, req.key \in UniqueKeys, Waits(req, req.key), PushUnique(req),
         UNCHANGED <<backup_queue, loop, inhand>>,
         \A k \in Keys : judging[k].finals \subseteq judging'[k].finals
  PROVE  TableInv' /\ QueueInv'
  <1>1. TableInv'
    BY PushUniqueTable DEF Types
  <1>2. request_queue' = request_queue
    BY DEF PushUnique
  <1> QED
    BY <1>1, <1>2, OwnedGrows DEF Types, QueueInv, InQueue

\* A caller pushes a force_pop request.
LEMMA PushForcePopTypes ==
  ASSUME Types, NEW req \in Request, req.type = "force_pop", req.results = {},
         req.action = "final" => req.key \in Keys /\ req.judging \in judging'[req.key].finals,
         PushForcePop(req),
         UNCHANGED <<backup_queue, loop, inhand>>,
         \A k \in Keys : judging[k].finals \subseteq judging'[k].finals
  PROVE  TableInv' /\ QueueInv'
  <1>1. TableInv'
    BY PushForcePopTable DEF Types
  <1>2. request_queue' = Append(request_queue, req)
    BY DEF PushForcePop
  <1>3. request_queue' \in Seq(Request) /\ ToSet(request_queue') = ToSet(request_queue) \cup {req}
    BY <1>2, ToSetAppend DEF Types, QueueInv
  <1>4. Owned(req)'
    BY DEF Owned
  <1> QED
    BY <1>1, <1>3, <1>4, OwnedGrows DEF Types, QueueInv, InQueue

\* The loop takes a request from a queue q.
LEMMA PopFrontTypes ==
  ASSUME Types, NEW q \in Seq(Request), q # <<>>, \A r \in ToSet(q) : Owned(r), PopFront(q),
         loop \notin {"send", "backup"}, UNCHANGED <<backup_queue, judging>>
  PROVE  /\ QueueInv'
         /\ DOMAIN unique_timestamp_map' \subseteq UniqueKeys
         /\ \A k \in DOMAIN unique_timestamp_map' : unique_timestamp_map'[k] \in Int
  <1> DEFINE req == Head(q)
  <1>1. /\ req \in Request /\ Tail(q) \in Seq(Request)
        /\ ToSet(q) = {req} \cup ToSet(Tail(q)) /\ ToSet(<<req>>) = {req}
    BY ToSetHeadTail
  <1>2. request_queue' = Tail(q) /\ inhand' = <<req>> /\ loop' = "send"
    BY DEF PopFront
  <1> HIDE DEF req
  <1>3. InQueue' = ToSet(q)
    BY <1>1, <1>2 DEF InQueue
  <1>4. QueueInv'
    <2>1. inhand' \in Seq(Request) /\ Len(inhand') = 1
      BY <1>1, <1>2
    <2>2. \A r \in ToSet(backup_queue') \cup ToSet(q) : Owned(r)'
      BY OwnedGrows DEF Types, QueueInv
    <2> QED
      BY <1>1, <1>2, <1>3, <2>1, <2>2 DEF Types, QueueInv
  <1>5. \A k : SendTime(k) \in Int
    BY RequestBounds DEF SendTime, Truncated, Types, StateInv
  <1>6. \/ unique_timestamp_map' = Put(unique_timestamp_map, req.key, SendTime(req.key)) /\ req.key \in UniqueKeys
        \/ unique_timestamp_map' = Drop(unique_timestamp_map, req.key)
        \/ unique_timestamp_map' = unique_timestamp_map
    BY <1>1 DEF PopFront, Owned, req
  <1> QED
    BY <1>4, <1>5, <1>6 DEF Put, Drop, Types, TableInv

\* Start-up: empty tables and queues.
LEMMA TypesInit == Init => Types
  <1> SUFFICES ASSUME Init PROVE Types
    OBVIOUS
  <1> USE DEF Init
  <1>1. TableInv
    BY FS_EmptySet DEF TableInv
  <1>2. QueueInv
    BY ToSetEmpty DEF QueueInv, InQueue
  <1>3. [n |-> 0, open |-> FALSE, tds |-> 0, finals |-> {}] \in Judging
    BY RequestBounds DEF Judging
  <1>4. now \in Int
    BY RequestBounds
  <1>5. StateInv
    BY <1>3, <1>4 DEF StateInv
  <1> QED
    BY <1>1, <1>2, <1>5 DEF Types

\* Every step of the callers, the websocket thread and the loop keeps the types.
LEMMA TypesStep == ASSUME Types, [Next]_vars PROVE Types'
  <1> USE DEF socket, history, others, uniques, sender, callers
  <1>0. TableInv /\ QueueInv /\ StateInv
    BY DEF Types
  <1>1. ASSUME NEW k \in Keys, StartJudging(k) PROVE Types'
    <2> DEFINE req == StatusRequest(k, judging[k].n + 1)
    <2>1. /\ judging' \in [Keys -> Judging] /\ req \in Request
          /\ \A i \in Keys : judging[i].finals \subseteq judging'[i].finals
      BY <1>0, <1>1, StartJudgingEffect, RequestsOfCallers DEF StateInv
    <2>2. StateInv'
      BY <1>0, <1>1, <2>1 DEF StartJudging, StateInv
    <2>3. req.type = "force_pop" /\ req.results = {} /\ req.action # "final"
      BY DEF StatusRequest
    <2>4. PushForcePop(req) /\ UNCHANGED <<backup_queue, loop, inhand>>
      BY <1>1 DEF StartJudging
    <2> HIDE DEF req
    <2>5. TableInv' /\ QueueInv'
      BY <2>1, <2>3, <2>4, PushForcePopTypes
    <2> QED
      BY <2>2, <2>5 DEF Types
  <1>2. ASSUME NEW k \in Keys, SendResult(k) PROVE Types'
    <2> DEFINE req == TdRequest(k, judging[k].n, judging[k].tds + 1)
    <2>1. /\ judging' \in [Keys -> Judging] /\ req \in Request
          /\ \A i \in Keys : judging[i].finals \subseteq judging'[i].finals
      BY <1>0, <1>2, SendResultEffect, RequestsOfCallers DEF StateInv
    <2>2. StateInv'
      BY <1>0, <1>2, <2>1 DEF SendResult, StateInv
    <2>3. Waits(req, req.key) /\ req.key = k /\ k \in UniqueKeys
      BY <2>1 DEF Waits, TdRequest, UniqueKeys
    <2>4. PushUnique(req) /\ UNCHANGED <<backup_queue, loop, inhand>>
      BY <1>2 DEF SendResult
    <2> HIDE DEF req
    <2>5. TableInv' /\ QueueInv'
      BY <2>1, <2>3, <2>4, PushUniqueTypes
    <2> QED
      BY <2>2, <2>5 DEF Types
  <1>3. ASSUME NEW k \in Keys, SendFinalResult(k) PROVE Types'
    <2> DEFINE n == judging[k].n
               req == FinalRequest(k, n)
    <2>1. /\ judging' \in [Keys -> Judging] /\ req \in Request
          /\ \A i \in Keys : judging[i].finals \subseteq judging'[i].finals
          /\ n \in judging'[k].finals
      BY <1>0, <1>3, SendFinalResultEffect, RequestsOfCallers DEF StateInv
    <2>2. StateInv'
      BY <1>0, <1>3, <2>1 DEF SendFinalResult, StateInv
    <2>3. /\ req.type = "force_pop" /\ req.results = {}
          /\ req.key = k /\ req.judging = n
      BY DEF FinalRequest
    <2>4. PushForcePop(req) /\ UNCHANGED <<backup_queue, loop, inhand>>
      BY <1>3 DEF SendFinalResult
    <2> HIDE DEF req
    <2>5. TableInv' /\ QueueInv'
      BY <2>1, <2>3, <2>4, PushForcePopTypes
    <2> QED
      BY <2>2, <2>5 DEF Types
  <1>4. CASE TryFetchSubmission \/ FetchOnOpen
    <2>1. PushUnique(FetchRequest) /\ UNCHANGED <<backup_queue, loop, inhand, judging>>
      BY <1>4 DEF TryFetchSubmission, FetchOnOpen
    <2>2. StateInv'
      BY <1>0, <1>4 DEF TryFetchSubmission, FetchOnOpen, StateInv
    <2>3. Waits(FetchRequest, FetchRequest.key) /\ FetchRequest.key \in UniqueKeys
      BY RequestsOfCallers DEF Waits, FetchRequest, UniqueKeys
    <2>4. TableInv' /\ QueueInv'
      BY <2>1, <2>3, PushUniqueTypes
    <2> QED
      BY <2>2, <2>4 DEF Types
  <1>5. CASE Connect \/ Disconnect \/ Crash \/ Close \/ Drained \/ Tick \/ UNCHANGED vars
    <2>1. UNCHANGED <<uniques, request_queue, backup_queue, inhand, judging, history>>
      BY <1>5 DEF Connect, Disconnect, Crash, Close, Drained, Tick, vars
    <2>2. (loop' \in {"send", "backup"}) <=> (loop \in {"send", "backup"})
      BY <1>5 DEF Connect, Disconnect, Crash, Close, Drained, Tick, vars
    <2>3. /\ loop' \in {"wait", "close", "send", "backup", "relock", "crashed"}
          /\ link' \in {"down", "opened", "subscribed", "up", "closed"}
      BY <1>0, <1>5 DEF StateInv, Connect, Disconnect, Crash, Close, Drained, Tick, vars
    <2>4. now' \in Int
      BY <1>0, <1>5 DEF StateInv, Connect, Disconnect, Crash, Close, Drained, Tick, vars
    <2>5. close_issued' \in BOOLEAN
      BY <1>0, <1>5 DEF StateInv, Connect, Disconnect, Crash, Close, Drained, Tick, vars
    <2>6. StateInv'
      BY <1>0, <2>1, <2>3, <2>4, <2>5 DEF StateInv
    <2>7. TableInv' /\ QueueInv'
      BY <1>0, <2>1, <2>2 DEF TableInv, QueueInv, InQueue, Owned, Waits
    <2> QED
      BY <2>6, <2>7 DEF Types
  <1>6. CASE Subscribe
    <2>1. /\ request_queue' = <<SubscribeRequest>> \o request_queue
          /\ UNCHANGED <<uniques, backup_queue, loop, inhand, judging>>
      BY <1>6 DEF Subscribe
    <2>2. <<SubscribeRequest>> \in Seq(Request) /\ ToSet(<<SubscribeRequest>>) = {SubscribeRequest}
      BY RequestsOfCallers DEF ToSet
    <2>3. /\ request_queue' \in Seq(Request)
          /\ ToSet(request_queue') = ToSet(request_queue) \cup {SubscribeRequest}
      <3> DEFINE s == <<SubscribeRequest>>
      <3>1. s \in Seq(Request) /\ ToSet(s) = {SubscribeRequest} /\ request_queue' = s \o request_queue
        BY <2>1, <2>2
      <3> HIDE DEF s
      <3> QED
        BY <1>0, <3>1, ToSetConcat DEF QueueInv
    <2>4. Owned(SubscribeRequest)'
      BY DEF Owned, SubscribeRequest
    <2>5. TableInv' /\ QueueInv'
      BY <1>0, <2>1, <2>3, <2>4, OwnedGrows DEF TableInv, QueueInv, InQueue, Waits
    <2>6. StateInv'
      BY <1>0, <1>6 DEF StateInv, Subscribe
    <2> QED
      BY <2>5, <2>6 DEF Types
  <1>7. CASE OnClose \/ OnFail
    <2>1. /\ request_queue' = backup_queue \o request_queue /\ backup_queue' = <<>>
          /\ UNCHANGED <<uniques, loop, inhand, judging>>
      BY <1>7 DEF OnClose, OnFail, ResendBackupRequests
    <2>2. /\ request_queue' \in Seq(Request)
          /\ ToSet(request_queue') = ToSet(backup_queue) \cup ToSet(request_queue)
      BY <1>0, <2>1, ToSetConcat DEF QueueInv
    <2>3. backup_queue' \in Seq(Request) /\ ToSet(backup_queue') = {}
      BY <2>1, ToSetEmpty
    <2>4. TableInv' /\ QueueInv'
      BY <1>0, <2>1, <2>2, <2>3, OwnedGrows DEF TableInv, QueueInv, InQueue, Waits
    <2>5. StateInv'
      BY <1>0, <1>7 DEF StateInv, OnClose, OnFail
    <2> QED
      BY <2>4, <2>5 DEF Types
  <1>8. CASE OnMessage
    <2>1. backup_queue' = <<>> /\ UNCHANGED <<uniques, request_queue, loop, inhand, judging>>
      BY <1>8 DEF OnMessage
    <2>2. backup_queue' \in Seq(Request) /\ ToSet(backup_queue') = {}
      BY <2>1, ToSetEmpty
    <2>3. TableInv' /\ QueueInv'
      BY <1>0, <2>1, <2>2, OwnedGrows DEF TableInv, QueueInv, InQueue, Waits
    <2>4. StateInv'
      BY <1>0, <1>8 DEF StateInv, OnMessage
    <2> QED
      BY <2>3, <2>4 DEF Types
  <1>9. CASE TimeOut \/ PopNext
    <2>1. /\ PopFront(request_queue) /\ request_queue # <<>> /\ loop \notin {"send", "backup"}
          /\ UNCHANGED <<unsent_timestamps, unique_requests, backup_queue, judging>>
      BY <1>9 DEF TimeOut, PopNext
    <2>2. \A r \in ToSet(request_queue) : Owned(r)
      BY <1>0 DEF QueueInv, InQueue
    <2>3. /\ QueueInv'
          /\ DOMAIN unique_timestamp_map' \subseteq UniqueKeys
          /\ \A k \in DOMAIN unique_timestamp_map' : unique_timestamp_map'[k] \in Int
      BY <1>0, <2>1, <2>2, PopFrontTypes DEF QueueInv
    <2>4. TableInv'
      BY <1>0, <2>1, <2>3 DEF TableInv
    <2>5. StateInv'
      BY <1>0, <1>9 DEF StateInv, TimeOut, PopNext, PopFront
    <2> QED
      BY <2>3, <2>4, <2>5 DEF Types
  <1>10. CASE Wake
    <2>1. PICK due \in DueOrders : /\ request_queue \o DueRequests(due) # <<>>
                                   /\ PopFront(request_queue \o DueRequests(due))
      BY <1>10 DEF Wake
    <2> DEFINE q == request_queue \o DueRequests(due)
    <2>2. /\ DueRequests(due) \in Seq(Request)
          /\ \A r \in ToSet(DueRequests(due)) : Owned(r)
      BY <1>0, <1>10, DueRequestsAre DEF Wake, Owned
    <2>3. q \in Seq(Request) /\ ToSet(q) = ToSet(request_queue) \cup ToSet(DueRequests(due))
      BY <1>0, <2>2, ToSetConcat DEF QueueInv
    <2>4. \A r \in ToSet(q) : Owned(r)
      BY <1>0, <2>2, <2>3 DEF QueueInv, InQueue
    <2>5. q # <<>> /\ PopFront(q) /\ loop \notin {"send", "backup"} /\ UNCHANGED <<backup_queue, judging>>
      BY <1>10, <2>1 DEF Wake
    <2> HIDE DEF q
    <2>6. /\ QueueInv'
          /\ DOMAIN unique_timestamp_map' \subseteq UniqueKeys
          /\ \A k \in DOMAIN unique_timestamp_map' : unique_timestamp_map'[k] \in Int
      BY <2>3, <2>4, <2>5, PopFrontTypes
    <2>7. TableInv'
      BY <1>0, <1>10, <2>6, CheckUniqueRequestsTable DEF TableInv, Wake
    <2>8. StateInv'
      BY <1>0, <1>10, <2>5 DEF StateInv, Wake, PopFront
    <2> QED
      BY <2>6, <2>7, <2>8 DEF Types
  <1>11. CASE Silent
    <2>1. PICK due \in DueOrders : request_queue' = request_queue \o DueRequests(due)
      BY <1>11 DEF Silent
    <2>2. /\ DueRequests(due) \in Seq(Request)
          /\ \A r \in ToSet(DueRequests(due)) : Owned(r)
      BY <1>0, <1>11, DueRequestsAre DEF Silent, Owned
    <2>3. /\ request_queue' \in Seq(Request)
          /\ ToSet(request_queue') = ToSet(request_queue) \cup ToSet(DueRequests(due))
      BY <1>0, <2>1, <2>2, ToSetConcat DEF QueueInv
    <2>4. QueueInv'
      BY <1>0, <1>11, <2>2, <2>3, OwnedGrows DEF QueueInv, InQueue, Silent
    <2>5. TableInv'
      BY <1>0, <1>11, CheckUniqueRequestsTable DEF TableInv, Silent
    <2>6. StateInv'
      BY <1>0, <1>11 DEF StateInv, Silent
    <2> QED
      BY <2>4, <2>5, <2>6 DEF Types
  <1>12. CASE Send
    <2> DEFINE req == inhand[1]
    <2>1. req \in Request /\ Owned(req)
      <3>1. Len(inhand) = 1
        BY <1>0, <1>12 DEF QueueInv, Send
      <3>2. 1 \in DOMAIN inhand /\ req \in Request
        BY <1>0, <3>1 DEF QueueInv
      <3> QED
        BY <1>0, <3>2 DEF QueueInv, InQueue, ToSet
    <2>2. req.results \subseteq (1 .. MaxJudgings) \X (1 .. MaxTd)
      BY <2>1 DEF Request
    <2>3. req.action = "final" => req.key \in Keys /\ req.judging \in 1 .. MaxJudgings
      BY <1>0, <2>1, JudgingFields DEF Owned, StateInv
    <2> DEFINE finals == {<<r.key, r.judging, kFinal>> : r \in {q \in {req} : q.action = "final"}}
               results == {<<req.key, x[1], x[2]>> : x \in req.results}
    <2>4. /\ handed' = handed \cup finals \cup results
          /\ delivered' = delivered \cup finals \/ delivered' = delivered
      BY <1>12 DEF Send
    <2>5. finals \subseteq Keys \X (1 .. MaxJudgings) \X ({kFinal} \cup 1 .. MaxTd)
      BY <2>3
    <2>6. results \subseteq Keys \X (1 .. MaxJudgings) \X ({kFinal} \cup 1 .. MaxTd)
      BY <2>1, <2>2 DEF Owned
    <2> HIDE DEF finals, results, req
    <2>7. StateInv'
      BY <1>0, <1>12, <2>4, <2>5, <2>6 DEF StateInv, Send
    <2>8. TableInv' /\ QueueInv'
      BY <1>0, <1>12 DEF Send, TableInv, QueueInv, InQueue, Owned, Waits
    <2> QED
      BY <2>7, <2>8 DEF Types
  <1>13. CASE Backup
    <2>1. backup_queue' = backup_queue \o inhand /\ inhand' = <<>> /\ UNCHANGED <<uniques, request_queue, judging>>
      BY <1>13 DEF Backup
    <2>2. /\ backup_queue' \in Seq(Request)
          /\ ToSet(backup_queue') = ToSet(backup_queue) \cup ToSet(inhand)
      BY <1>0, <2>1, ToSetConcat DEF QueueInv
    <2>3. inhand' \in Seq(Request) /\ ToSet(inhand') = {} /\ Len(inhand') = 0
      BY <2>1, ToSetEmpty
    <2>4. TableInv' /\ QueueInv'
      BY <1>0, <1>13, <2>1, <2>2, <2>3, OwnedGrows DEF TableInv, QueueInv, InQueue, Waits, Backup
    <2>5. StateInv'
      BY <1>0, <1>13 DEF StateInv, Backup
    <2> QED
      BY <2>4, <2>5 DEF Types
  <1>14. ASSUME NEW k \in Keys, SendStatus(k) PROVE Types'
    <2> DEFINE req == StatusRequest(k, 0)
    <2>1. req.type = "force_pop" /\ req.results = {} /\ req.action # "final"
      BY DEF StatusRequest
    <2>2. req \in Request
      BY RequestsOfCallers
    <2>3. PushForcePop(req) /\ UNCHANGED <<backup_queue, loop, inhand, judging>>
      BY <1>14 DEF SendStatus
    <2> HIDE DEF req
    <2>4. TableInv' /\ QueueInv'
      BY <2>1, <2>2, <2>3, PushForcePopTypes
    <2>5. Erased(k) \subseteq (1 .. MaxJudgings) \X (1 .. MaxTd)
      BY <1>0 DEF Erased, TableInv, Waits, Request
    <2>6. {<<k, x[1], x[2]>> : x \in Erased(k)} \subseteq Keys \X (1 .. MaxJudgings) \X (1 .. MaxTd)
      BY <2>5
    <2>7. StateInv'
      BY <1>0, <1>14, <2>6 DEF StateInv, SendStatus
    <2> QED
      BY <2>4, <2>7 DEF Types
  <1> QED
    BY <1>1, <1>2, <1>3, <1>4, <1>5, <1>6, <1>7, <1>8, <1>9, <1>10, <1>11, <1>12, <1>13, <1>14
    DEF Next, Report, Receive, Websocket, RequestLoop

\* The types hold throughout.
LEMMA TypesAlways == Spec => []Types
  BY TypesInit, TypesStep, PTL DEF Spec

\* The tables, the queues and the sender keep their types: in particular results and
\* overall results are handed to Send for submissions only, and the loop holds a
\* request exactly while it sends.
THEOREM RequestTypes == Spec => []TypeOK
  <1>1. Types => TypeOK
    <2> SUFFICES ASSUME Types PROVE TypeOK
      OBVIOUS
    <2>1. InQueue \cup ToSet(backup_queue) \subseteq Request
      BY DEF Types, QueueInv, InQueue, ToSet
    <2>2. (inhand # <<>>) <=> Len(inhand) # 0
      BY EmptySeq DEF Types, QueueInv
    <2>3. (inhand # <<>>) <=> loop \in {"send", "backup"}
      BY <2>2 DEF Types, QueueInv
    <2> QED
      BY <2>1, <2>3 DEF Types, TableInv, StateInv, Waits, TypeOK
  <1> QED
    BY <1>1, TypesAlways, PTL

-----------------------------------------------------------------------------
(* A request that waits has a timestamp. *)

\* PushRequest erases the timestamp of a key only with its request.
LEMMA PushForcePopTimed ==
  ASSUME WaitingIsTimed, NEW req, PushForcePop(req)
  PROVE  WaitingIsTimed'
  <1>1. CASE req.key \in DOMAIN unique_timestamp_map
    <2>1. /\ unsent_timestamps' = unsent_timestamps \ {<<unique_timestamp_map[req.key], req.key>>}
          /\ DOMAIN unique_requests' = DOMAIN unique_requests \ {req.key}
      BY <1>1 DEF PushForcePop, Drop
    <2>2. ASSUME NEW k \in DOMAIN unique_requests, k # req.key
          PROVE  \E e \in unsent_timestamps' : e[2] = k
      <3>1. PICK e \in unsent_timestamps : e[2] = k
        BY DEF WaitingIsTimed
      <3>2. e # <<unique_timestamp_map[req.key], req.key>>
        BY <2>2, <3>1
      <3> QED
        BY <2>1, <3>1, <3>2
    <2> QED
      BY <2>1, <2>2 DEF WaitingIsTimed
  <1>2. CASE req.key \notin DOMAIN unique_timestamp_map
    BY <1>2 DEF PushForcePop, WaitingIsTimed
  <1> QED
    BY <1>1, <1>2

\* PushRequest files a request that did not wait under the timestamp of its key.
LEMMA PushUniqueTimed ==
  ASSUME WaitingIsTimed, NEW req, PushUnique(req)
  PROVE  WaitingIsTimed'
  <1>1. CASE req.key \in DOMAIN unique_requests
    BY <1>1 DEF PushUnique, WaitingIsTimed
  <1>2. CASE req.key \notin DOMAIN unique_requests
    <2>1. PICK t : unsent_timestamps' = unsent_timestamps \cup {<<t, req.key>>}
      BY <1>2 DEF PushUnique
    <2>2. DOMAIN unique_requests' = DOMAIN unique_requests \cup {req.key}
      BY <1>2 DEF PushUnique, Put
    <2>3. <<t, req.key>> \in unsent_timestamps' /\ <<t, req.key>>[2] = req.key
      BY <2>1
    <2> QED
      BY <2>1, <2>2, <2>3 DEF WaitingIsTimed
  <1> QED
    BY <1>1, <1>2

\* CheckUniqueRequests takes the requests of exactly the timestamps it erases.
LEMMA CheckUniqueRequestsTimed ==
  ASSUME WaitingIsTimed, CheckUniqueRequests
  PROVE  WaitingIsTimed'
  BY DEF WaitingIsTimed, CheckUniqueRequests

\* A request that waits in unique_requests has a timestamp in unsent_timestamps, so
\* that CheckUniqueRequests gets to it: whatever the order in which results, overall
\* results and sends meet.
THEOREM WaitingIsTimedAlways == Spec => []WaitingIsTimed
  <1>1. Init => WaitingIsTimed
    BY DEF Init, WaitingIsTimed
  <1>2. ASSUME WaitingIsTimed, [Next]_vars PROVE WaitingIsTimed'
    <2> USE DEF uniques, callers
    <2>1. ASSUME NEW k \in Keys, StartJudging(k) \/ SendFinalResult(k) \/ SendStatus(k)
          PROVE  WaitingIsTimed'
      BY <1>2, <2>1, PushForcePopTimed DEF StartJudging, SendFinalResult, SendStatus
    <2>2. ASSUME NEW k \in Keys, SendResult(k) PROVE WaitingIsTimed'
      BY <1>2, <2>2, PushUniqueTimed DEF SendResult
    <2>3. CASE TryFetchSubmission \/ FetchOnOpen
      BY <1>2, <2>3, PushUniqueTimed DEF TryFetchSubmission, FetchOnOpen
    <2>4. CASE Wake \/ Silent
      BY <1>2, <2>4, CheckUniqueRequestsTimed DEF Wake, Silent
    <2>5. CASE \/ Connect \/ Subscribe \/ Disconnect \/ OnClose \/ OnFail \/ OnMessage
               \/ TimeOut \/ Crash \/ Close \/ Send \/ Backup \/ PopNext \/ Drained \/ Tick
               \/ UNCHANGED vars
      <3>1. UNCHANGED <<unsent_timestamps, unique_requests>>
        BY <2>5 DEF Connect, Subscribe, Disconnect, OnClose, OnFail, OnMessage, TimeOut, Crash,
                    Close, Send, Backup, PopNext, Drained, Tick, vars
      <3> QED
        BY <1>2, <3>1 DEF WaitingIsTimed
    <2> QED
      BY <1>2, <2>1, <2>2, <2>3, <2>4, <2>5 DEF Next, Report, Receive, Websocket, RequestLoop
  <1> QED
    BY <1>1, <1>2, PTL DEF Spec

-----------------------------------------------------------------------------
(* No copy of an overall result. *)

\* The overall results of a sequence differ, and those of two sets do.
Once(s)     == \A i, j \in DOMAIN s : s[i].action = "final" /\ s[i] = s[j] => i = j
Apart(A, B) == \A r \in A \cap B : r.action # "final"

\* FinalOnce, queue by queue.
OnceInv ==
  /\ Once(request_queue) /\ Once(inhand) /\ Once(backup_queue)
  /\ Apart(ToSet(request_queue), ToSet(inhand))
  /\ Apart(ToSet(request_queue), ToSet(backup_queue))
  /\ Apart(ToSet(inhand), ToSet(backup_queue))

\* The overall results of a concatenation differ when they do in each part and
\* between the parts.
LEMMA OnceConcat ==
  ASSUME NEW s \in Seq(Request), NEW t \in Seq(Request)
  PROVE  Once(s \o t) <=> Once(s) /\ Once(t) /\ Apart(ToSet(s), ToSet(t))
  <1> DEFINE u == s \o t
  <1>1. /\ DOMAIN u = 1 .. Len(s) + Len(t) /\ DOMAIN s = 1 .. Len(s) /\ DOMAIN t = 1 .. Len(t)
        /\ Len(s) \in Nat /\ Len(t) \in Nat
    OBVIOUS
  <1>2. \A i \in DOMAIN s : i \in DOMAIN u /\ u[i] = s[i]
    OBVIOUS
  <1>3. \A i \in DOMAIN t : Len(s) + i \in DOMAIN u /\ u[Len(s) + i] = t[i]
    OBVIOUS
  <1>4. \A i \in DOMAIN u : i \in DOMAIN s \/ (i - Len(s) \in DOMAIN t /\ i = Len(s) + (i - Len(s)))
    BY <1>1
  <1> HIDE DEF u
  <1>5. ASSUME Once(u) PROVE Once(s) /\ Once(t) /\ Apart(ToSet(s), ToSet(t))
    <2>1. Once(s)
      BY <1>2, <1>5 DEF Once
    <2>2. Once(t)
      <3> SUFFICES ASSUME NEW i \in DOMAIN t, NEW j \in DOMAIN t,
                          t[i].action = "final", t[i] = t[j]
                   PROVE  i = j
        BY DEF Once
      <3>1. Len(s) + i = Len(s) + j
        BY <1>3, <1>5 DEF Once
      <3> QED
        BY <1>1, <3>1
    <2>3. ASSUME NEW i \in DOMAIN s, NEW j \in DOMAIN t, s[i] = t[j] PROVE s[i].action # "final"
      <3>1. u[i].action = "final" => i = Len(s) + j
        BY <1>2, <1>3, <1>5, <2>3 DEF Once
      <3>2. i # Len(s) + j
        BY <1>1
      <3> QED
        BY <1>2, <3>1, <3>2
    <2> QED
      BY <2>1, <2>2, <2>3 DEF Apart, ToSet
  <1>6. ASSUME Once(s), Once(t), Apart(ToSet(s), ToSet(t)) PROVE Once(u)
    <2> SUFFICES ASSUME NEW i \in DOMAIN u, NEW j \in DOMAIN u, u[i].action = "final", u[i] = u[j]
                 PROVE  i = j
      BY DEF Once
    <2>1. CASE i \in DOMAIN s /\ j \in DOMAIN s
      BY <1>2, <1>6, <2>1 DEF Once
    <2>2. CASE i \notin DOMAIN s /\ j \notin DOMAIN s
      <3>1. i - Len(s) = j - Len(s)
        BY <1>3, <1>4, <1>6, <2>2 DEF Once
      <3> QED
        BY <1>1, <3>1
    <2>3. \A m \in DOMAIN u : u[m] \in IF m \in DOMAIN s THEN ToSet(s) ELSE ToSet(t)
      BY <1>2, <1>3, <1>4 DEF ToSet
    <2>4. ~(i \in DOMAIN s /\ j \notin DOMAIN s) /\ ~(i \notin DOMAIN s /\ j \in DOMAIN s)
      BY <1>6, <2>3 DEF Apart
    <2> QED
      BY <2>1, <2>2, <2>4
  <1> QED
    BY <1>5, <1>6 DEF u

\* Short sequences, and sequences without an overall result.
LEMMA OnceSmall ==
  /\ Once(<<>>)
  /\ \A x : Once(<<x>>)
  /\ \A s : (\A r \in ToSet(s) : r.action # "final") => Once(s)
  BY DEF Once, ToSet

\* PushRequest appends an overall result that no queue holds yet.
LEMMA OncePushed ==
  ASSUME Types, OnceInv, NEW req \in Request, PushForcePop(req), UNCHANGED <<backup_queue, inhand>>,
         req.action = "final" => req \notin InQueue \cup ToSet(backup_queue)
  PROVE  OnceInv'
  <1> DEFINE s == <<req>>
  <1>1. s \in Seq(Request) /\ ToSet(s) = {req} /\ Once(s)
    BY OnceSmall DEF ToSet
  <1>2. request_queue \in Seq(Request) /\ request_queue' = Append(request_queue, req)
    BY DEF Types, QueueInv, PushForcePop
  <1>3. request_queue' = request_queue \o s
    BY <1>2, AppendIsConcat
  <1> HIDE DEF s
  <1>4. ToSet(request_queue') = ToSet(request_queue) \cup {req}
    BY <1>1, <1>2, <1>3, ToSetConcat
  <1>5. Apart(ToSet(request_queue), ToSet(s))
    BY <1>1 DEF Apart, InQueue
  <1>6. Once(request_queue')
    BY <1>1, <1>2, <1>3, <1>5, OnceConcat DEF OnceInv
  <1> QED
    BY <1>4, <1>6 DEF OnceInv, Apart, InQueue

\* The loop moves a request from a queue to its hand.
LEMMA OncePopped ==
  ASSUME OnceInv, NEW q \in Seq(Request), q # <<>>, PopFront(q), Once(q),
         Apart(ToSet(q), ToSet(backup_queue)), UNCHANGED backup_queue
  PROVE  OnceInv'
  <1> DEFINE s == <<Head(q)>>
             t == Tail(q)
  <1>1. /\ s \in Seq(Request) /\ t \in Seq(Request) /\ ToSet(s) = {Head(q)}
        /\ ToSet(q) = {Head(q)} \cup ToSet(t)
    BY ToSetHeadTail
  <1>2. q = s \o t
    BY HeadTailProperties
  <1>3. request_queue' = t /\ inhand' = s
    BY DEF PopFront
  <1> HIDE DEF s, t
  <1>4. Once(s) /\ Once(t) /\ Apart(ToSet(s), ToSet(t))
    BY <1>1, <1>2, OnceConcat
  <1> QED
    BY <1>1, <1>3, <1>4 DEF OnceInv, Apart

\* No step of any thread makes a second copy of an overall result.
LEMMA OnceStep == ASSUME Types, OnceInv, [Next]_vars PROVE OnceInv'
  <1> USE DEF socket, history, others, uniques, sender, callers
  <1>0. TableInv /\ QueueInv /\ StateInv
    BY DEF Types
  <1>1. ASSUME NEW k \in Keys, StartJudging(k) PROVE OnceInv'
    <2> DEFINE req == StatusRequest(k, judging[k].n + 1)
    <2>1. req \in Request
      BY <1>0, <1>1, StartJudgingEffect, RequestsOfCallers DEF StateInv
    <2>2. req.action # "final"
      BY DEF StatusRequest
    <2>3. PushForcePop(req) /\ UNCHANGED <<backup_queue, inhand>>
      BY <1>1 DEF StartJudging
    <2> HIDE DEF req
    <2> QED
      BY <2>1, <2>2, <2>3, OncePushed
  <1>2. ASSUME NEW k \in Keys, SendFinalResult(k) PROVE OnceInv'
    <2> DEFINE req == FinalRequest(k, judging[k].n)
    <2>1. req \in Request /\ judging[k].n \notin judging[k].finals
      BY <1>0, <1>2, SendFinalResultEffect, RequestsOfCallers DEF StateInv
    <2>2. req.action = "final" /\ req.key = k /\ req.judging = judging[k].n
      BY DEF FinalRequest
    <2>3. PushForcePop(req) /\ UNCHANGED <<backup_queue, inhand>>
      BY <1>2 DEF SendFinalResult
    <2>4. ~Owned(req)
      BY <2>1, <2>2 DEF Owned
    <2> HIDE DEF req
    <2>5. req \notin InQueue \cup ToSet(backup_queue)
      BY <1>0, <2>4 DEF QueueInv
    <2> QED
      BY <2>1, <2>3, <2>5, OncePushed
  <1>3. CASE (\E k \in Keys : SendResult(k)) \/ TryFetchSubmission \/ FetchOnOpen
    BY <1>3 DEF SendResult, TryFetchSubmission, FetchOnOpen, PushUnique, OnceInv
  <1>4. CASE Connect \/ Disconnect \/ Crash \/ Close \/ Drained \/ Tick \/ Send \/ UNCHANGED vars
    <2>1. UNCHANGED <<request_queue, backup_queue, inhand>>
      BY <1>4 DEF Connect, Disconnect, Crash, Close, Drained, Tick, Send, vars
    <2> QED
      BY <2>1 DEF OnceInv
  <1>5. CASE Subscribe
    <2> DEFINE s == <<SubscribeRequest>>
    <2>1. s \in Seq(Request) /\ ToSet(s) = {SubscribeRequest} /\ Once(s)
      BY RequestsOfCallers, OnceSmall DEF ToSet
    <2>2. request_queue' = s \o request_queue /\ UNCHANGED <<backup_queue, inhand>>
      BY <1>5 DEF Subscribe
    <2>3. \A A : Apart(ToSet(s), A)
      BY <2>1 DEF Apart, SubscribeRequest
    <2> HIDE DEF s
    <2>4. Once(request_queue') /\ ToSet(request_queue') = ToSet(s) \cup ToSet(request_queue)
      BY <1>0, <2>1, <2>2, <2>3, OnceConcat, ToSetConcat DEF OnceInv, QueueInv
    <2> QED
      BY <2>2, <2>3, <2>4 DEF OnceInv, Apart
  <1>6. CASE OnClose \/ OnFail
    <2>1. request_queue' = backup_queue \o request_queue /\ backup_queue' = <<>> /\ inhand' = inhand
      BY <1>6 DEF OnClose, OnFail, ResendBackupRequests
    <2>2. Apart(ToSet(backup_queue), ToSet(request_queue))
      BY DEF OnceInv, Apart
    <2>3. Once(request_queue') /\ ToSet(request_queue') = ToSet(backup_queue) \cup ToSet(request_queue)
      BY <1>0, <2>1, <2>2, OnceConcat, ToSetConcat DEF OnceInv, QueueInv
    <2>4. Once(backup_queue') /\ ToSet(backup_queue') = {}
      BY <2>1, OnceSmall, ToSetEmpty
    <2> QED
      BY <2>1, <2>3, <2>4 DEF OnceInv, Apart
  <1>7. CASE OnMessage
    <2>1. backup_queue' = <<>> /\ UNCHANGED <<request_queue, inhand>>
      BY <1>7 DEF OnMessage
    <2>2. Once(backup_queue') /\ ToSet(backup_queue') = {}
      BY <2>1, OnceSmall, ToSetEmpty
    <2> QED
      BY <2>1, <2>2 DEF OnceInv, Apart
  <1>8. CASE TimeOut \/ PopNext
    BY <1>0, <1>8, OncePopped DEF TimeOut, PopNext, QueueInv, OnceInv
  <1>9. ASSUME NEW due \in DueOrders, DueExist
        PROVE  LET q == request_queue \o DueRequests(due) IN
               /\ q \in Seq(Request) /\ Once(q)
               /\ Apart(ToSet(q), ToSet(inhand)) /\ Apart(ToSet(q), ToSet(backup_queue))
    <2> DEFINE d == DueRequests(due)
    <2>1. d \in Seq(Request) /\ \A r \in ToSet(d) : r.action # "final"
      BY <1>0, <1>9, DueRequestsAre
    <2> HIDE DEF d
    <2>2. Once(d) /\ \A A : Apart(A, ToSet(d))
      BY <2>1, OnceSmall DEF Apart
    <2>3. Once(request_queue \o d) /\ ToSet(request_queue \o d) = ToSet(request_queue) \cup ToSet(d)
      BY <1>0, <2>1, <2>2, OnceConcat, ToSetConcat DEF QueueInv, OnceInv
    <2> QED
      BY <1>0, <2>1, <2>3, ToSetConcat DEF QueueInv, OnceInv, Apart, d
  <1>10. CASE Wake
    <2>1. PICK due \in DueOrders : /\ request_queue \o DueRequests(due) # <<>>
                                   /\ PopFront(request_queue \o DueRequests(due))
      BY <1>10 DEF Wake
    <2>2. DueExist /\ UNCHANGED backup_queue
      BY <1>10 DEF Wake
    <2> QED
      BY <1>9, <2>1, <2>2, OncePopped
  <1>11. CASE Silent
    BY <1>9, <1>11 DEF Silent, OnceInv
  <1>12. CASE Backup
    <2>1. backup_queue' = backup_queue \o inhand /\ inhand' = <<>> /\ request_queue' = request_queue
      BY <1>12 DEF Backup
    <2>2. Apart(ToSet(backup_queue), ToSet(inhand))
      BY DEF OnceInv, Apart
    <2>3. Once(backup_queue') /\ ToSet(backup_queue') = ToSet(backup_queue) \cup ToSet(inhand)
      BY <1>0, <2>1, <2>2, OnceConcat, ToSetConcat DEF OnceInv, QueueInv
    <2>4. Once(inhand') /\ ToSet(inhand') = {}
      BY <2>1, OnceSmall, ToSetEmpty
    <2> QED
      BY <2>1, <2>3, <2>4 DEF OnceInv, Apart
  <1>13. ASSUME NEW k \in Keys, SendStatus(k) PROVE OnceInv'
    <2> DEFINE req == StatusRequest(k, 0)
    <2>1. req \in Request /\ req.action # "final"
      BY RequestsOfCallers DEF StatusRequest
    <2>2. PushForcePop(req) /\ UNCHANGED <<backup_queue, inhand>>
      BY <1>13 DEF SendStatus
    <2> HIDE DEF req
    <2> QED
      BY <2>1, <2>2, OncePushed
  <1> QED
    BY <1>1, <1>2, <1>3, <1>4, <1>5, <1>6, <1>7, <1>8, <1>10, <1>11, <1>12, <1>13
    DEF Next, Report, Receive, Websocket, RequestLoop

\* An overall result is in one of the request queue, the loop's hand and the backup,
\* once, however often connections break and the backup is resent: ReconnectThread_
\* and the loop move requests and copy none, and a judging reports it once.
THEOREM FinalOnceAlways == Spec => []FinalOnce
  <1>1. Init => OnceInv
    BY OnceSmall, ToSetEmpty DEF Init, OnceInv, Apart
  <1>2. Types /\ OnceInv => FinalOnce
    <2> SUFFICES ASSUME Types, OnceInv PROVE FinalOnce
      OBVIOUS
    <2>0. request_queue \in Seq(Request) /\ inhand \in Seq(Request) /\ backup_queue \in Seq(Request)
      BY DEF Types, QueueInv
    <2> DEFINE s == request_queue \o inhand
               u == s \o backup_queue
    <2>1. Once(s) /\ s \in Seq(Request) /\ ToSet(s) = ToSet(request_queue) \cup ToSet(inhand)
      BY <2>0, OnceConcat, ToSetConcat DEF OnceInv
    <2> HIDE DEF s
    <2>2. Apart(ToSet(s), ToSet(backup_queue))
      BY <2>1 DEF OnceInv, Apart
    <2>3. Once(u)
      BY <2>0, <2>1, <2>2, OnceConcat DEF OnceInv
    <2> QED
      BY <2>3 DEF FinalOnce, Once, s
  <1> QED
    BY <1>1, <1>2, TypesAlways, OnceStep, PTL DEF Spec

-----------------------------------------------------------------------------
(* The results of an open judging. *)

\* The requests that are queued or wait.
Pending == InQueue \cup {unique_requests[i] : i \in DOMAIN unique_requests}

\* A result that was handed to Send, was erased by a status of SendStatus or is in
\* such a request.
Kept(k, n, td) ==
  \/ <<k, n, td>> \in handed \cup dropped
  \/ \E r \in Pending : r.key = k /\ <<n, td>> \in r.results

\* OpenResultsKept, of one submission.
KeptResults(k) == judging[k].open => \A td \in 1 .. judging[k].tds : Kept(k, judging[k].n, td)

\* What the loop is about to back up was handed to Send.
InHandHanded ==
  loop = "backup" => \A r \in ToSet(inhand) : \A x \in r.results : <<r.key, x[1], x[2]>> \in handed

KeptInv == (\A k \in Keys : KeptResults(k)) /\ InHandHanded

\* The step accounts for the results of the requests of k: another request has
\* them, they were handed to Send or they were erased by a status.
Carries(k) ==
  /\ handed \cup dropped \subseteq handed' \cup dropped'
  /\ \A r \in Pending : r.key = k =>
       \/ \E q \in Pending' : q.key = k /\ r.results \subseteq q.results
       \/ \A x \in r.results : <<k, x[1], x[2]>> \in handed' \cup dropped'

\* A result that is kept stays so.
LEMMA CarriesKeeps ==
  ASSUME NEW k, Carries(k), NEW n, NEW td, Kept(k, n, td)
  PROVE  Kept(k, n, td)'
  <1>1. CASE <<k, n, td>> \in handed \cup dropped
    BY <1>1 DEF Carries, Kept
  <1>2. CASE \E r \in Pending : r.key = k /\ <<n, td>> \in r.results
    <2>1. PICK r \in Pending : r.key = k /\ <<n, td>> \in r.results
      BY <1>2
    <2>2. CASE \E q \in Pending' : q.key = k /\ r.results \subseteq q.results
      BY <2>1, <2>2 DEF Kept
    <2>3. CASE \A x \in r.results : <<k, x[1], x[2]>> \in handed' \cup dropped'
      BY <2>1, <2>3 DEF Kept
    <2> QED
      BY <2>1, <2>2, <2>3 DEF Carries
  <1> QED
    BY <1>1, <1>2 DEF Kept

\* So do the results of a judging that the step does not change.
LEMMA CarriesResults ==
  ASSUME NEW k, Carries(k), judging'[k] = judging[k], KeptResults(k)
  PROVE  KeptResults(k)'
  <1>1. PICK n : n = judging[k].n
    OBVIOUS
  <1>2. SUFFICES ASSUME judging[k].open, NEW td \in 1 .. judging[k].tds PROVE Kept(k, n, td)'
    BY <1>1 DEF KeptResults
  <1>3. Kept(k, n, td)
    BY <1>1, <1>2 DEF KeptResults
  <1> QED
    BY <1>3, CarriesKeeps

\* A force_pop request erases results of its own key only.
LEMMA PushForcePopCarries ==
  ASSUME Types, NEW req \in Request, PushForcePop(req), UNCHANGED <<inhand, handed, dropped>>, NEW k, k # req.key
  PROVE  Carries(k)
  <1>1. ToSet(request_queue) \subseteq ToSet(request_queue')
    BY ToSetAppend DEF Types, QueueInv, PushForcePop
  <1>2. \A i \in DOMAIN unique_requests \ {req.key} :
          i \in DOMAIN unique_requests' /\ unique_requests'[i] = unique_requests[i]
    BY DEF PushForcePop, Drop
  <1>3. \A i \in DOMAIN unique_requests : unique_requests[i].key = k => i # req.key
    BY DEF Types, TableInv, Waits
  <1>4. \A r \in Pending : r.key = k => r \in Pending'
    BY <1>1, <1>2, <1>3 DEF Pending, InQueue
  <1> QED
    BY <1>4 DEF Carries

\* A unique request replaces the one that waits under its own key only.
LEMMA PushUniqueCarries ==
  ASSUME Types, NEW req, PushUnique(req), UNCHANGED <<inhand, handed, dropped>>, NEW k, k # req.key
  PROVE  Carries(k)
  <1>1. request_queue' = request_queue
    BY DEF PushUnique
  <1>2. \A i \in DOMAIN unique_requests \ {req.key} :
          i \in DOMAIN unique_requests' /\ unique_requests'[i] = unique_requests[i]
    BY DEF PushUnique, Put
  <1>3. \A i \in DOMAIN unique_requests : unique_requests[i].key = k => i # req.key
    BY DEF Types, TableInv, Waits
  <1>4. \A r \in Pending : r.key = k => r \in Pending'
    BY <1>1, <1>2, <1>3 DEF Pending, InQueue
  <1> QED
    BY <1>4 DEF Carries

\* A testdata result that is pushed takes over those of its key that wait.
LEMMA PushResultCarries ==
  ASSUME Types, NEW k \in Keys, NEW n, NEW td, PushUnique(TdRequest(k, n, td)), UNCHANGED <<inhand, handed, dropped>>
  PROVE  Carries(k) /\ Kept(k, n, td)'
  <1> DEFINE req == TdRequest(k, n, td)
  <1>1. req.key = k /\ req.action = "td_result" /\ <<n, td>> \in req.results
    BY DEF TdRequest
  <1>2. request_queue' = request_queue
    BY DEF PushUnique
  <1>3. \A i \in DOMAIN unique_requests \ {k} :
          i \in DOMAIN unique_requests' /\ unique_requests'[i] = unique_requests[i]
    BY <1>1 DEF PushUnique, Put
  <1>4. /\ k \in DOMAIN unique_requests'
        /\ unique_requests'[k].key = k /\ <<n, td>> \in unique_requests'[k].results
        /\ k \in DOMAIN unique_requests => unique_requests[k].results \subseteq unique_requests'[k].results
    <2>1. CASE k \in DOMAIN unique_requests
      <3>1. unique_requests' = [unique_requests EXCEPT ![k] = Merge(req, @)]
        BY <1>1, <2>1 DEF PushUnique
      <3>2. unique_requests'[k] = [req EXCEPT !.results = @ \cup unique_requests[k].results]
        BY <1>1, <2>1, <3>1 DEF Merge
      <3>3. /\ unique_requests'[k].key = k
            /\ unique_requests'[k].results = req.results \cup unique_requests[k].results
        BY <3>2 DEF TdRequest
      <3> QED
        BY <1>1, <2>1, <3>1, <3>3
    <2>2. CASE k \notin DOMAIN unique_requests
      <3>1. unique_requests' = Put(unique_requests, k, req)
        BY <1>1, <2>2 DEF PushUnique
      <3> QED
        BY <1>1, <2>2, <3>1 DEF Put
    <2> QED
      BY <2>1, <2>2
  <1> HIDE DEF req
  <1>5. unique_requests'[k] \in Pending'
    BY <1>4 DEF Pending
  <1>6. \A r \in Pending : r \in Pending' \/ (k \in DOMAIN unique_requests /\ r = unique_requests[k])
    BY <1>2, <1>3 DEF Pending, InQueue
  <1>7. Carries(k)
    BY <1>4, <1>5, <1>6 DEF Carries
  <1> QED
    BY <1>4, <1>5, <1>7 DEF Kept

\* CheckUniqueRequests moves the requests that are due to the queue.
LEMMA CheckUniqueRequestsCarries ==
  ASSUME Types, DueExist, CheckUniqueRequests, NEW due \in DueOrders,
         NEW q \in Seq(Request), q = request_queue \o DueRequests(due),
         ToSet(q) \subseteq InQueue', inhand = <<>>, UNCHANGED <<handed, dropped>>, NEW k
  PROVE  Carries(k)
  <1>1. /\ DueRequests(due) \in Seq(Request)
        /\ ToSet(DueRequests(due)) = {unique_requests[e[2]] : e \in Due}
    BY DueRequestsAre DEF Types
  <1>2. ToSet(q) = ToSet(request_queue) \cup {unique_requests[e[2]] : e \in Due}
    BY <1>1, ToSetConcat DEF Types, QueueInv
  <1>3. ToSet(inhand) = {}
    BY ToSetEmpty
  <1>4. \A i \in DOMAIN unique_requests \ {e[2] : e \in Due} :
          i \in DOMAIN unique_requests' /\ unique_requests'[i] = unique_requests[i]
    BY DEF CheckUniqueRequests
  <1>5. Pending \subseteq Pending'
    BY <1>2, <1>3, <1>4 DEF Pending, InQueue
  <1> QED
    BY <1>5 DEF Carries

\* No step of any thread but SendStatus loses a result of an open judging.
LEMMA KeptStep == ASSUME Types, KeptInv, [Next]_vars PROVE KeptInv'
  <1> USE DEF socket, history, others, uniques, sender, callers
  <1>0. /\ TableInv /\ QueueInv /\ StateInv
        /\ InHandHanded /\ \A k \in Keys : KeptResults(k)
    BY DEF Types, KeptInv
  <1>1. ASSUME loop' # "backup" \/ UNCHANGED <<loop, inhand, handed>> PROVE InHandHanded'
    BY <1>0, <1>1 DEF InHandHanded
  <1>2. ASSUME NEW k \in Keys, StartJudging(k) PROVE KeptInv'
    <2> DEFINE req == StatusRequest(k, judging[k].n + 1)
    <2>1. /\ req \in Request /\ judging'[k].tds = 0
          /\ \A i \in Keys \ {k} : judging'[i] = judging[i]
      BY <1>0, <1>2, StartJudgingEffect, RequestsOfCallers DEF StateInv
    <2>2. req.key = k
      BY DEF StatusRequest
    <2>3. PushForcePop(req) /\ UNCHANGED <<loop, inhand, handed, dropped>>
      BY <1>2 DEF StartJudging
    <2> HIDE DEF req
    <2>4. \A i \in Keys \ {k} : KeptResults(i)'
      BY <1>0, <2>1, <2>2, <2>3, PushForcePopCarries, CarriesResults
    <2>5. KeptResults(k)'
      BY <2>1 DEF KeptResults
    <2> QED
      BY <1>1, <2>3, <2>4, <2>5 DEF KeptInv
  <1>3. ASSUME NEW k \in Keys, SendResult(k) PROVE KeptInv'
    <2>1. PICK n, td : n = judging[k].n /\ td = judging[k].tds + 1
      OBVIOUS
    <2>2. /\ judging'[k].tds = td /\ judging'[k].n = n /\ td \in 1 .. MaxTd
          /\ \A i \in Keys \ {k} : judging'[i] = judging[i]
      BY <1>0, <1>3, <2>1, SendResultEffect DEF StateInv
    <2>3. /\ PushUnique(TdRequest(k, n, td)) /\ UNCHANGED <<loop, inhand, handed, dropped>>
          /\ judging[k].open /\ TdRequest(k, n, td).key = k
      BY <1>3, <2>1 DEF SendResult, TdRequest
    <2>4. \A i \in Keys \ {k} : KeptResults(i)'
      BY <1>0, <2>2, <2>3, PushUniqueCarries, CarriesResults
    <2>5. Carries(k) /\ Kept(k, n, td)'
      BY <2>3, PushResultCarries
    <2>6. \A t \in 1 .. judging[k].tds : Kept(k, n, t)
      BY <1>0, <2>1, <2>3 DEF KeptResults
    <2>7. \A t \in 1 .. judging[k].tds : Kept(k, n, t)'
      BY <2>5, <2>6, CarriesKeeps
    <2>8. judging[k].tds \in Nat
      BY <1>0, JudgingFields, RequestBounds DEF StateInv
    <2>9. \A t \in 1 .. td : t = td \/ t \in 1 .. judging[k].tds
      BY <2>1, <2>8
    <2>10. KeptResults(k)'
      BY <2>2, <2>5, <2>7, <2>9 DEF KeptResults
    <2> QED
      BY <1>1, <2>3, <2>4, <2>10 DEF KeptInv
  <1>4. ASSUME NEW k \in Keys, SendFinalResult(k) PROVE KeptInv'
    <2> DEFINE req == FinalRequest(k, judging[k].n)
    <2>1. /\ req \in Request /\ judging'[k].open = FALSE
          /\ \A i \in Keys \ {k} : judging'[i] = judging[i]
      BY <1>0, <1>4, SendFinalResultEffect, RequestsOfCallers DEF StateInv
    <2>2. req.key = k
      BY DEF FinalRequest
    <2>3. PushForcePop(req) /\ UNCHANGED <<loop, inhand, handed, dropped>>
      BY <1>4 DEF SendFinalResult
    <2> HIDE DEF req
    <2>4. \A i \in Keys \ {k} : KeptResults(i)'
      BY <1>0, <2>1, <2>2, <2>3, PushForcePopCarries, CarriesResults
    <2>5. KeptResults(k)'
      BY <2>1 DEF KeptResults
    <2> QED
      BY <1>1, <2>3, <2>4, <2>5 DEF KeptInv
  <1>5. CASE TryFetchSubmission \/ FetchOnOpen
    <2>1. PushUnique(FetchRequest) /\ UNCHANGED <<loop, inhand, handed, dropped, judging>>
      BY <1>5 DEF TryFetchSubmission, FetchOnOpen
    <2>2. \A k \in Keys : k # FetchRequest.key
      BY RequestBounds DEF FetchRequest, kFetchKey
    <2> QED
      BY <1>0, <1>1, <2>1, <2>2, PushUniqueCarries, CarriesResults DEF KeptInv
  <1>6. CASE Connect \/ Disconnect \/ Crash \/ Close \/ Drained \/ Tick \/ OnMessage \/ UNCHANGED vars
    <2>1. UNCHANGED <<request_queue, inhand, unique_requests, judging, handed, dropped>>
      BY <1>6 DEF Connect, Disconnect, Crash, Close, Drained, Tick, OnMessage, vars
    <2>2. loop' # "backup" \/ loop' = loop
      BY <1>6 DEF Connect, Disconnect, Crash, Close, Drained, Tick, OnMessage, vars
    <2>3. \A k : Carries(k)
      BY <2>1 DEF Carries, Pending, InQueue
    <2> QED
      BY <1>0, <1>1, <2>1, <2>2, <2>3, CarriesResults DEF KeptInv
  <1>7. CASE Subscribe \/ OnClose \/ OnFail
    <2>1. PICK s \in Seq(Request) : request_queue' = s \o request_queue
      <3>1. <<SubscribeRequest>> \in Seq(Request) /\ backup_queue \in Seq(Request)
        BY <1>0, RequestsOfCallers DEF QueueInv
      <3>2. \/ request_queue' = <<SubscribeRequest>> \o request_queue
            \/ request_queue' = backup_queue \o request_queue
        BY <1>7 DEF Subscribe, OnClose, OnFail, ResendBackupRequests
      <3> QED
        BY <3>1, <3>2
    <2>2. UNCHANGED <<loop, inhand, unique_requests, judging, handed, dropped>>
      BY <1>7 DEF Subscribe, OnClose, OnFail
    <2>3. ToSet(request_queue) \subseteq ToSet(request_queue')
      BY <1>0, <2>1, ToSetConcat DEF QueueInv
    <2>4. \A k : Carries(k)
      BY <2>2, <2>3 DEF Carries, Pending, InQueue
    <2> QED
      BY <1>0, <1>1, <2>2, <2>4, CarriesResults DEF KeptInv
  <1>8. CASE TimeOut \/ PopNext
    <2>1. /\ request_queue # <<>> /\ PopFront(request_queue) /\ loop \notin {"send", "backup"}
          /\ UNCHANGED <<unique_requests, judging, handed, dropped>>
      BY <1>8 DEF TimeOut, PopNext
    <2>2. ToSet(inhand) = {}
      BY <1>0, <2>1, EmptySeq, ToSetEmpty DEF QueueInv
    <2>3. InQueue' = ToSet(request_queue)
      BY <1>0, <2>1, ToSetHeadTail DEF QueueInv, InQueue, PopFront
    <2>4. \A k : Carries(k)
      BY <2>1, <2>2, <2>3 DEF Carries, Pending, InQueue
    <2>5. loop' = "send"
      BY <2>1 DEF PopFront
    <2> QED
      BY <1>0, <1>1, <2>1, <2>4, <2>5, CarriesResults DEF KeptInv
  <1>9. CASE Wake \/ Silent
    <2>1. /\ DueExist /\ CheckUniqueRequests /\ loop = "wait" /\ loop' \in {"send", "close"}
          /\ UNCHANGED <<judging, handed, dropped>>
      BY <1>9 DEF Wake, Silent, PopFront
    <2>2. PICK due \in DueOrders :
            \/ request_queue \o DueRequests(due) # <<>> /\ PopFront(request_queue \o DueRequests(due))
            \/ request_queue' = request_queue \o DueRequests(due) /\ inhand' = inhand
      BY <1>9 DEF Wake, Silent
    <2>3. PICK q : q = request_queue \o DueRequests(due)
      OBVIOUS
    <2>4. q \in Seq(Request)
      BY <1>0, <2>1, <2>3, DueRequestsAre, ToSetConcat DEF QueueInv
    <2>5. inhand = <<>>
      BY <1>0, <2>1, EmptySeq DEF QueueInv
    <2>6. ToSet(q) \subseteq InQueue'
      <3>1. CASE q # <<>> /\ PopFront(q)
        <4>1. request_queue' = Tail(q) /\ inhand' = <<Head(q)>>
          BY <3>1 DEF PopFront
        <4>2. ToSet(q) = {Head(q)} \cup ToSet(Tail(q)) /\ ToSet(<<Head(q)>>) = {Head(q)}
          BY <2>4, <3>1, ToSetHeadTail
        <4> QED
          BY <4>1, <4>2 DEF InQueue
      <3>2. CASE request_queue' = q
        BY <3>2 DEF InQueue
      <3> QED
        BY <2>2, <2>3, <3>1, <3>2
    <2>7. \A k : Carries(k)
      BY <2>1, <2>3, <2>4, <2>5, <2>6, CheckUniqueRequestsCarries
    <2> QED
      BY <1>0, <1>1, <2>1, <2>7, CarriesResults DEF KeptInv
  <1>10. CASE Send
    <2>1. /\ UNCHANGED <<request_queue, inhand, unique_requests, judging, dropped>> /\ handed \subseteq handed'
          /\ loop = "send" /\ {<<inhand[1].key, x[1], x[2]>> : x \in inhand[1].results} \subseteq handed'
      BY <1>10 DEF Send
    <2>2. \A k : Carries(k)
      BY <2>1 DEF Carries, Pending, InQueue
    <2>3. ToSet(inhand) = {inhand[1]}
      BY <1>0, <2>1 DEF QueueInv, ToSet
    <2>4. InHandHanded'
      BY <2>1, <2>3 DEF InHandHanded
    <2> QED
      BY <1>0, <2>1, <2>2, <2>4, CarriesResults DEF KeptInv
  <1>11. CASE Backup
    <2>1. /\ UNCHANGED <<request_queue, unique_requests, judging, handed, dropped>>
          /\ loop = "backup" /\ loop' = "relock"
      BY <1>11 DEF Backup
    <2>2. \A r \in ToSet(inhand) : \A x \in r.results : <<r.key, x[1], x[2]>> \in handed
      BY <1>0, <2>1 DEF InHandHanded
    <2>3. \A r \in Pending : r \in ToSet(inhand) \/ r \in Pending'
      BY <2>1 DEF Pending, InQueue
    <2>4. \A k : Carries(k)
      BY <2>1, <2>2, <2>3 DEF Carries
    <2> QED
      BY <1>0, <1>1, <2>1, <2>4, CarriesResults DEF KeptInv
  <1>12. ASSUME NEW k \in Keys, SendStatus(k) PROVE KeptInv'
    <2> DEFINE req == StatusRequest(k, 0)
    <2>1. req \in Request /\ req.key = k
      BY RequestsOfCallers DEF StatusRequest
    <2>2. /\ PushForcePop(req) /\ UNCHANGED <<loop, inhand, handed, judging>>
          /\ dropped' = dropped \cup {<<k, x[1], x[2]>> : x \in Erased(k)}
      BY <1>12 DEF SendStatus
    <2> HIDE DEF req
    <2>3. ToSet(request_queue) \subseteq ToSet(request_queue')
      BY <1>0, <2>1, <2>2, ToSetAppend DEF QueueInv, PushForcePop
    <2>4. \A i \in DOMAIN unique_requests :
            \/ i \in DOMAIN unique_requests' /\ unique_requests'[i] = unique_requests[i]
            \/ i = k /\ unique_requests[i].results \subseteq Erased(k)
      BY <2>1, <2>2 DEF PushForcePop, Drop, Erased
    <2>5. \A r \in Pending :
            \/ r \in Pending'
            \/ r.key = k /\ r.results \subseteq Erased(k)
      BY <1>0, <2>2, <2>3, <2>4 DEF Pending, InQueue, TableInv, Waits
    <2>6. \A i : Carries(i)
      BY <2>2, <2>5 DEF Carries
    <2> QED
      BY <1>0, <1>1, <2>2, <2>6, CarriesResults DEF KeptInv
  <1> QED
    BY <1>2, <1>3, <1>4, <1>5, <1>6, <1>7, <1>8, <1>9, <1>10, <1>11, <1>12
    DEF Next, Report, Receive, Websocket, RequestLoop

\* A testdata result of a judging that is still open waits, is queued, or was handed
\* to Send, whatever PushRequest merged and replaced and wherever connections broke;
\* the one way to lose it is the status that SendStatus pushes when the submission
\* is received again, which erases what waits under its key.
THEOREM OpenResultsKeptAlways == Spec => []OpenResultsKept
  <1>1. Init => KeptInv
    BY DEF Init, KeptInv, KeptResults, InHandHanded
  <1>2. KeptInv => OpenResultsKept
    BY DEF KeptInv, KeptResults, Kept, Pending, OpenResultsKept
  <1> QED
    BY <1>1, <1>2, TypesAlways, KeptStep, PTL DEF Spec
=============================================================================
