------------------------ MODULE TestdataStoreProofs ------------------------
(***************************************************************************)
(* What TestdataStore keeps, for any number of testdata, edits, messages   *)
(* and interruptions: the types, pairs of symlinks that belong together    *)
(* whenever the worker may read them, updates that a retry repairs, and    *)
(* for every accepted submission the testdata of its message on the disk.  *)
(***************************************************************************)
EXTENDS TestdataStore, FiniteSetTheorems, SequenceTheorems, TLAPS

IdsOf(td) == {td[i].id : i \in DOMAIN td}

Message == [seq : Nat \ {0}, td : TdList]

\* The server: ids of the list are distinct and exist, versions count edits.
ServerInv ==
  /\ config \in Seq(Ids)
  /\ \A i, j \in DOMAIN config : config[i] = config[j] => i = j
  /\ version \in [Ids -> Nat]
  /\ edits \in 0 .. MaxEdits
  /\ \A d \in Ids : version[d] <= edits
  /\ \A i \in DOMAIN config : version[config[i]] > 0
  /\ sent \in Nat

\* Nothing is newer than the server.
Known(m) ==
  /\ m \in Message
  /\ m.seq <= sent
  /\ \A i \in DOMAIN m.td : m.td[i].timestamp <= version[m.td[i].id]

MessageInv ==
  /\ \A m \in inbox : Known(m) /\ m.seq # newest
  /\ \A m, n \in inbox : m.seq = n.seq => m = n
  /\ newest \in 0 .. sent
  /\ reordered \in BOOLEAN
  /\ msg # None => Known(msg) /\ (~reordered => msg.seq = newest)

DiskInv ==
  /\ pool \in [Ids -> [Kinds -> (0 .. MaxEdits) \cup {None}]]
  /\ tmp \in [Ids -> [Kinds -> (0 .. MaxEdits) \cup {None}]]
  /\ link \in [Pos -> [Kinds -> Ids \cup {None}]]
  /\ db \in [Ids -> Row \cup {None}]
  /\ \A d \in Ids : db[d] # None => db[d].timestamp <= version[d]
  /\ torn \subseteq Pos
  /\ touched \subseteq Pos
  /\ interrupts \in Nat

LockInv ==
  /\ td_file_lock \in {None, "deal", "worker"}
  /\ td_file_lock = "worker" <=> scoring # None
  /\ scoring # None => /\ scoring \in [pos : Pos, in : Ids \cup {None}]
                       /\ scoring.in = link[scoring.pos]["in"]

-----------------------------------------------------------------------------
(* The operations of an update *)

\* The order of the kinds of operations.
Rank(op) ==
  CASE op[1] = "get"    -> 1
    [] op[1] = "lock"   -> 2
    [] op[1] = "rename" -> 3
    [] op[1] = "remove" -> 4
    [] op[1] \in {"unlink", "link"} -> 5
    [] op[1] = "unlock" -> 6
    [] op[1] = "update" -> 7

\* The testdata to download and the positions to change, for a list and what the
\* database has.
Stale(b, td)   == {i \in DOMAIN td : b[td[i].id] = None \/ b[td[i].id].timestamp # td[i].timestamp}
Moved(b, td)   == {i \in DOMAIN td : b[td[i].id] = None \/ b[td[i].id].order # i}
Gone(b, td)    == {d \in Ids : b[d] # None /\ \A i \in DOMAIN td : td[i].id # d}
Behind(b, td)  == {p \in Pos : p > Len(td) /\ \E d \in Ids : b[d] # None /\ b[d].order >= p}
Touches(b, td) == Moved(b, td) \cup Behind(b, td)

OpSet(b, td) ==
  {<<"lock">>, <<"unlock">>, <<"update">>}
  \cup {<<op, td[i].id, f>> : op \in {"get", "rename"}, i \in Stale(b, td), f \in Kinds}
  \cup {<<"remove", d, f>> : d \in Gone(b, td), f \in Kinds}
  \cup {<<"unlink", p, f>> : p \in Touches(b, td), f \in Kinds}
  \cup {<<"link", i, f, td[i].id>> : i \in Moved(b, td), f \in Kinds}

\* What the symlinks of a position are to become, and the operation that does it.
Target(td, p)   == IF p \in DOMAIN td THEN td[p].id ELSE None
Final(td, p, f) == IF p \in DOMAIN td THEN <<"link", p, f, td[p].id>> ELSE <<"unlink", p, f>>

\* Kinds of operations in their order; lock, unlock and update once.
Ordered(s) ==
  \A i, j \in DOMAIN s : i < j => /\ Rank(s[i]) <= Rank(s[j])
                                  /\ Rank(s[i]) \in {2, 6, 7} => Rank(s[i]) < Rank(s[j])

\* A symlink that is removed for another is created later.
Relinks(td, s) ==
  \A k \in DOMAIN s : s[k][1] = "unlink" /\ s[k][2] \in DOMAIN td =>
    \E l \in DOMAIN s : k < l /\ s[l] = Final(td, s[k][2], s[k][3])

\* A symlink is created where one was removed.
Unlinked(s, done) ==
  \A k \in DOMAIN s : s[k][1] = "link" =>
    s[k][2] \in done \/ \E l \in DOMAIN s : l < k /\ s[l][1] = "unlink" /\ s[l][2] = s[k][2]

RenamesOnce(s) == \A i, j \in DOMAIN s : s[i] = s[j] /\ s[i][1] = "rename" => i = j

\* Some operation on the symlinks of a position is left.
Busy(s, p) == \E k \in DOMAIN s : Rank(s[k]) = 5 /\ s[k][2] = p

Todo == ToSet(ops)

\* What is left of a plan when the symlinks of some positions have been removed.
Remainder(O, td, s, done) ==
  /\ s \in Seq(O)
  /\ Ordered(s)
  /\ Relinks(td, s)
  /\ Unlinked(s, done)
  /\ RenamesOnce(s)

\* How far the update is: the operations that are left, and what those that are
\* done have achieved.
PlanInv ==
  msg # None =>
    /\ Remainder(OpSet(db, msg.td), msg.td, ops, touched)
    /\ ops # <<>> => <<"update">> \in Todo
    /\ (\E op \in Todo : Rank(op) <= 6) => <<"unlock">> \in Todo
    /\ td_file_lock = "deal" <=> <<"unlock">> \in Todo /\ <<"lock">> \notin Todo
    /\ <<"lock">> \in Todo => touched = {}

\* What is renamed has been downloaded, and is not older than the message.
FetchInv ==
  msg # None =>
    \A i \in DOMAIN msg.td, f \in Kinds : LET d == msg.td[i].id IN
      <<"rename", d, f>> \in Todo =>
        \/ <<"get", d, f>> \in Todo
        \/ /\ tmp[d][f] # None
           /\ tmp[d][f] >= msg.td[i].timestamp
           /\ db[d] # None => tmp[d][f] >= db[d].timestamp

\* Symlinks are right or will be made right.
LinkInv ==
  msg # None =>
    \A p \in Pos, f \in Kinds :
      p \in touched \/ Busy(ops, p) => Final(msg.td, p, f) \in Todo \/ link[p][f] = Target(msg.td, p)

\* Until the database is updated, what it differs in from the message is done or
\* will be; then it agrees with the message.
DoneInv ==
  msg # None =>
    /\ ops # <<>> =>
         /\ touched \subseteq Touches(db, msg.td)
         /\ \A p \in Touches(db, msg.td) : p \in touched \/ <<"unlink", p, "in">> \in Todo
         /\ \A i \in Stale(db, msg.td), f \in Kinds :
              \/ <<"rename", msg.td[i].id, f>> \in Todo
              \/ pool[msg.td[i].id][f] # None /\ pool[msg.td[i].id][f] >= msg.td[i].timestamp
    /\ ops = <<>> => \A i \in DOMAIN msg.td : db[msg.td[i].id] = [order |-> i, timestamp |-> msg.td[i].timestamp]

\* Between updates.
IdleInv == msg = None => ops = <<>> /\ touched = {} /\ td_file_lock # "deal"

PairInv == \A p \in Pos : p \in touched \/ p \in torn \/ link[p]["in"] = link[p]["out"]

PendingInv ==
  pending # None =>
    /\ pending \in [td : TdList, touched : SUBSET Pos]
    /\ ~Accepted => pending.touched \subseteq Touches(db, pending.td)

-----------------------------------------------------------------------------
(* Messages in the order of sending *)

\* The messages that are on their way or worked on, and those of them that are
\* not older than the newest one that was taken.
Messages == inbox \cup (IF msg = None THEN {} ELSE {msg})
Ahead    == {m \in Messages : m.seq >= newest}

\* A testdatum does not come back: it is in all lists between two that have it.
ConvexInv ==
  /\ \A m1, m2 \in Messages : m1.seq < m2.seq => IdsOf(m1.td) \cap Present \subseteq IdsOf(m2.td)
  /\ \A m1, m2, m3 \in Messages :
       m1.seq < m2.seq /\ m2.seq < m3.seq => IdsOf(m1.td) \cap IdsOf(m3.td) \subseteq IdsOf(m2.td)

Stored(d) == db[d] # None

\* A stored testdatum that a later list has is in all lists before that.
StoredInv ==
  ~reordered => \A d \in Ids : Stored(d) =>
    /\ \A m1, m2 \in Ahead : m1.seq < m2.seq /\ d \in IdsOf(m2.td) => d \in IdsOf(m1.td)
    /\ d \in Present => \A m \in Ahead : d \in IdsOf(m.td)

Alive(d) == d \in Present \/ \E m \in Ahead : d \in IdsOf(m.td)

\* What the database says of a testdatum that may still be asked for is true.
GoodInv ==
  ~reordered => \A d \in Ids : Stored(d) /\ Alive(d) =>
    /\ \A f \in Kinds : pool[d][f] # None /\ pool[d][f] >= db[d].timestamp
    /\ db[d].order \in torn \cup touched \/ \A f \in Kinds : link[db[d].order][f] = d

-----------------------------------------------------------------------------
(* The sequence of operations that DealOneSubmission works out *)

\* A list of testdata: its ids are distinct and its positions are of the problem.
LEMMA TdFacts ==
  ASSUME NEW td \in TdList
  PROVE  /\ Len(td) \in Nat
         /\ td \in Seq([id : Ids, timestamp : 1 .. MaxEdits])
         /\ DOMAIN td = 1 .. Len(td)
         /\ DOMAIN td \subseteq Pos
         /\ \A i \in DOMAIN td : td[i].id \in Ids /\ td[i].timestamp \in 1 .. MaxEdits
         /\ \A i, j \in DOMAIN td : td[i].id = td[j].id => i = j
<1> DEFINE T == [id : Ids, timestamp : 1 .. MaxEdits]
<1>1. Cardinality(Ids) \in Nat
  BY StoreAssumption, FS_CardinalityType
<1>2. PICK n \in 0 .. Cardinality(Ids) : td \in [1 .. n -> T]
  BY <1>1 DEF TdList, BoundedSeq, SeqOf
<1> HIDE DEF T
<1>3. n \in Nat /\ 1 .. n \subseteq Pos
  BY <1>1 DEF Pos
<1>4. td \in Seq(T)
  BY <1>2, <1>3, SeqDef
<1>5. Len(td) = n
  <2>1. Len(td) \in Nat /\ DOMAIN td = 1 .. Len(td)
    BY <1>4, LenProperties
  <2>2. DOMAIN td = 1 .. n
    BY <1>2
  <2>3. Len(td) <= n
    <3>1. Len(td) = 0 \/ Len(td) \in 1 .. Len(td)
      BY <2>1
    <3> QED
      BY <3>1, <2>1, <2>2, <1>3
  <2>4. n <= Len(td)
    <3>1. n = 0 \/ n \in 1 .. n
      BY <1>3
    <3> QED
      BY <3>1, <2>1, <2>2, <1>3
  <2>5. \A a, b \in Nat : a <= b /\ b <= a => a = b
    OBVIOUS
  <2> QED
    BY <2>1, <2>3, <2>4, <2>5, <1>3
<1>6. \A i, j \in DOMAIN td : td[i].id = td[j].id => i = j
  BY DEF TdList
<1> QED
  BY <1>2, <1>3, <1>4, <1>5, <1>6 DEF T

\* The order of a finite set contains every element once.
LEMMA SetToSeqFacts ==
  ASSUME NEW S, IsFiniteSet(S)
  PROVE  /\ SetToSeq(S) \in Seq(S)
         /\ \A x \in S : \E k \in DOMAIN SetToSeq(S) : SetToSeq(S)[k] = x
         /\ \A k, l \in DOMAIN SetToSeq(S) : SetToSeq(S)[k] = SetToSeq(S)[l] => k = l
<1> DEFINE n == Cardinality(S)
           s == SetToSeq(S)
<1>1. n \in Nat /\ ExistsBijection(1 .. n, S)
  BY FS_CardinalityType
<1>2. PICK g \in Bijection(1 .. n, S) : TRUE
  BY <1>1 DEF ExistsBijection
<1>3. g \in [1 .. n -> S] /\ IsInjective(g)
  BY <1>2 DEF Bijection, Injection, IsInjective
<1>4. s \in [1 .. n -> S] /\ IsInjective(s)
  BY <1>3 DEF SetToSeq
<1>5. s \in Injection(1 .. n, S)
  BY <1>4 DEF Injection, IsInjective
<1>6. IsFiniteSet(1 .. n) /\ Cardinality(1 .. n) = n
  BY <1>1, FS_Interval
<1>7. s \in Surjection(1 .. n, S)
  BY <1>5, <1>6, FS_Injection
<1>8. s \in Seq(S)
  BY <1>1, <1>4, SeqDef
<1>9. \A x \in S : \E k \in DOMAIN s : s[k] = x
  BY <1>4, <1>7 DEF Surjection
<1>10. \A k, l \in DOMAIN s : s[k] = s[l] => k = l
  BY <1>4 DEF IsInjective
<1> QED
  BY <1>8, <1>9, <1>10

\* The rank of an operation depends on its kind.
LEMMA RankOf ==
  ASSUME NEW op
  PROVE  /\ op[1] = "get" => Rank(op) = 1
         /\ op[1] = "lock" => Rank(op) = 2
         /\ op[1] = "rename" => Rank(op) = 3
         /\ op[1] = "remove" => Rank(op) = 4
         /\ op[1] = "unlink" => Rank(op) = 5
         /\ op[1] = "link" => Rank(op) = 5
         /\ op[1] = "unlock" => Rank(op) = 6
         /\ op[1] = "update" => Rank(op) = 7
BY DEF Rank

\* What an operation of each kind is.
LEMMA OpForms ==
  ASSUME NEW b, NEW td, NEW op \in OpSet(b, td)
  PROVE  \/ op = <<"lock">> /\ Rank(op) = 2
         \/ op = <<"unlock">> /\ Rank(op) = 6
         \/ op = <<"update">> /\ Rank(op) = 7
         \/ \E i \in Stale(b, td), f \in Kinds : op = <<"get", td[i].id, f>> /\ Rank(op) = 1
         \/ \E i \in Stale(b, td), f \in Kinds : op = <<"rename", td[i].id, f>> /\ Rank(op) = 3
         \/ \E d \in Gone(b, td), f \in Kinds : op = <<"remove", d, f>> /\ Rank(op) = 4
         \/ \E p \in Touches(b, td), f \in Kinds : op = <<"unlink", p, f>> /\ Rank(op) = 5
         \/ \E i \in Moved(b, td), f \in Kinds : op = <<"link", i, f, td[i].id>> /\ Rank(op) = 5
<1>1. CASE op \in {<<"lock">>, <<"unlock">>, <<"update">>}
  BY <1>1 DEF Rank
<1>2. CASE \E x \in {"get", "rename"}, i \in Stale(b, td), f \in Kinds : op = <<x, td[i].id, f>>
  BY <1>2 DEF Rank
<1>3. CASE \E d \in Gone(b, td), f \in Kinds : op = <<"remove", d, f>>
  BY <1>3 DEF Rank
<1>4. CASE \E p \in Touches(b, td), f \in Kinds : op = <<"unlink", p, f>>
  BY <1>4 DEF Rank
<1>5. CASE \E i \in Moved(b, td), f \in Kinds : op = <<"link", i, f, td[i].id>>
  BY <1>5 DEF Rank
<1> QED
  BY <1>1, <1>2, <1>3, <1>4, <1>5 DEF OpSet

\* A plan up to a rank, and a section of one rank.
Plan(O, td, s, hi) ==
  /\ s \in Seq(O)
  /\ \A k \in DOMAIN s : Rank(s[k]) \in 1 .. hi
  /\ Ordered(s)
  /\ Relinks(td, s)
  /\ Unlinked(s, {})
  /\ RenamesOnce(s)

Section(O, td, s, r) ==
  /\ s \in Seq(O)
  /\ \A k \in DOMAIN s : Rank(s[k]) = r
  /\ r \in {1, 3, 4, 5} \/ Len(s) = 1
  /\ Relinks(td, s)
  /\ Unlinked(s, {})
  /\ RenamesOnce(s)

\* A section is put behind a plan.
LEMMA PlanExtended ==
  ASSUME NEW O, NEW td, NEW s, NEW t, NEW hi \in Nat, NEW r \in Nat \ {0},
         Plan(O, td, s, hi), Section(O, td, t, r),
         hi < r \/ (hi = 5 /\ r = 5)
  PROVE  /\ Plan(O, td, s \o t, r)
         /\ ToSet(s \o t) = ToSet(s) \cup ToSet(t)
<1> DEFINE u == s \o t
           n == Len(s)
           m == Len(t)
<1>1. s \in Seq(O) /\ t \in Seq(O)
  BY DEF Plan, Section
<1>2. n \in Nat /\ m \in Nat /\ DOMAIN s = 1 .. n /\ DOMAIN t = 1 .. m
  BY <1>1, LenProperties
<1>3. u \in Seq(O) /\ Len(u) = n + m
  BY <1>1, ConcatProperties
<1>4. DOMAIN u = 1 .. n + m
  BY <1>3, LenProperties
<1>5. \A i \in 1 .. n : i \in DOMAIN s /\ i \in DOMAIN u /\ u[i] = s[i]
  BY <1>1, <1>2, <1>4, ConcatProperties
<1>6. \A i \in 1 .. m : i \in DOMAIN t /\ n + i \in DOMAIN u /\ u[n + i] = t[i]
  BY <1>1, <1>2, <1>4, ConcatProperties
<1>7. \A i \in DOMAIN u : i \in 1 .. n \/ (i - n \in 1 .. m /\ i - n \in DOMAIN t /\ u[i] = t[i - n])
  BY <1>1, <1>2, <1>4, ConcatProperties
<1> HIDE DEF u, n, m
<1>8. \A i \in DOMAIN u : i \in Nat
  BY <1>2, <1>4
<1>9. \A i \in DOMAIN u : Rank(u[i]) \in 1 .. r
  BY <1>5, <1>7 DEF Plan, Section
<1>10. Ordered(u)
  <2> SUFFICES ASSUME NEW i \in DOMAIN u, NEW j \in DOMAIN u, i < j
               PROVE  /\ Rank(u[i]) <= Rank(u[j])
                      /\ Rank(u[i]) \in {2, 6, 7} => Rank(u[i]) < Rank(u[j])
    BY DEF Ordered
  <2>1. CASE i \in 1 .. n /\ j \in 1 .. n
    BY <2>1, <1>5 DEF Plan, Ordered
  <2>2. CASE i \in 1 .. n /\ j \notin 1 .. n
    <3>1. Rank(u[i]) \in 1 .. hi
      BY <2>2, <1>5 DEF Plan
    <3>2. Rank(u[j]) = r
      BY <2>2, <1>7 DEF Section
    <3> QED
      BY <3>1, <3>2
  <2>3. CASE i \notin 1 .. n
    <3>1. i - n \in 1 .. m /\ Rank(u[i]) = r
      BY <2>3, <1>7 DEF Section
    <3>2. j \notin 1 .. n
      BY <2>3, <1>2, <1>8, <3>1
    <3>3. j - n \in 1 .. m /\ Rank(u[j]) = r
      BY <3>2, <1>7 DEF Section
    <3>4. m # 1
      BY <3>1, <3>3, <1>2, <1>8
    <3>5. r \in {1, 3, 4, 5}
      BY <3>4 DEF Section, m
    <3> QED
      BY <3>1, <3>3, <3>5
  <2> QED
    BY <2>1, <2>2, <2>3
<1>11. Relinks(td, u)
  <2> SUFFICES ASSUME NEW k \in DOMAIN u, u[k][1] = "unlink", u[k][2] \in DOMAIN td
               PROVE  \E l \in DOMAIN u : k < l /\ u[l] = Final(td, u[k][2], u[k][3])
    BY DEF Relinks
  <2>1. CASE k \in 1 .. n
    <3>1. PICK l \in DOMAIN s : k < l /\ s[l] = Final(td, s[k][2], s[k][3])
      BY <2>1, <1>5 DEF Plan, Relinks
    <3> QED
      BY <3>1, <2>1, <1>2, <1>5
  <2>2. CASE k \notin 1 .. n
    <3>1. k - n \in DOMAIN t /\ u[k] = t[k - n]
      BY <2>2, <1>7, <1>2
    <3>2. PICK l \in DOMAIN t : k - n < l /\ t[l] = Final(td, t[k - n][2], t[k - n][3])
      BY <3>1 DEF Section, Relinks
    <3>3. n + l \in DOMAIN u /\ u[n + l] = t[l] /\ k < n + l
      BY <3>2, <1>2, <1>6, <1>8
    <3> QED
      BY <3>1, <3>2, <3>3
  <2> QED
    BY <2>1, <2>2
<1>12. Unlinked(u, {})
  <2> SUFFICES ASSUME NEW k \in DOMAIN u, u[k][1] = "link"
               PROVE  \E l \in DOMAIN u : l < k /\ u[l][1] = "unlink" /\ u[l][2] = u[k][2]
    BY DEF Unlinked
  <2>1. CASE k \in 1 .. n
    <3>1. PICK l \in DOMAIN s : l < k /\ s[l][1] = "unlink" /\ s[l][2] = s[k][2]
      BY <2>1, <1>5 DEF Plan, Unlinked
    <3> QED
      BY <3>1, <2>1, <1>2, <1>5
  <2>2. CASE k \notin 1 .. n
    <3>1. k - n \in DOMAIN t /\ u[k] = t[k - n]
      BY <2>2, <1>7, <1>2
    <3>2. PICK l \in DOMAIN t : l < k - n /\ t[l][1] = "unlink" /\ t[l][2] = t[k - n][2]
      BY <3>1 DEF Section, Unlinked
    <3>3. n + l \in DOMAIN u /\ u[n + l] = t[l] /\ n + l < k
      BY <3>2, <1>2, <1>6, <1>8
    <3> QED
      BY <3>1, <3>2, <3>3
  <2> QED
    BY <2>1, <2>2
<1>13. RenamesOnce(u)
  <2> SUFFICES ASSUME NEW i \in DOMAIN u, NEW j \in DOMAIN u, u[i] = u[j], u[i][1] = "rename"
               PROVE  i = j
    BY DEF RenamesOnce
  <2>1. Rank(u[i]) = 3 /\ Rank(u[j]) = 3
    BY DEF Rank
  <2>2. CASE i \in 1 .. n /\ j \in 1 .. n
    BY <2>2, <1>5 DEF Plan, RenamesOnce
  <2>3. CASE i \notin 1 .. n /\ j \notin 1 .. n
    <3>1. /\ i - n \in DOMAIN t /\ u[i] = t[i - n]
          /\ j - n \in DOMAIN t /\ u[j] = t[j - n]
      BY <2>3, <1>7, <1>2
    <3>2. i - n = j - n
      BY <3>1 DEF Section, RenamesOnce
    <3> QED
      BY <3>2, <1>2, <1>8
  <2>4. CASE ~(i \in 1 .. n <=> j \in 1 .. n)
    <3>1. \A k \in 1 .. n : Rank(u[k]) \in 1 .. hi
      BY <1>5 DEF Plan
    <3>2. \A k \in DOMAIN u : k \notin 1 .. n => Rank(u[k]) = r
      BY <1>7 DEF Section
    <3> QED
      BY <2>1, <2>4, <3>1, <3>2
  <2> QED
    BY <2>2, <2>3, <2>4
<1>14. ToSet(u) = ToSet(s) \cup ToSet(t)
  BY <1>2, <1>5, <1>6, <1>7 DEF ToSet
<1>15. Plan(O, td, u, r)
  BY <1>3, <1>9, <1>10, <1>11, <1>12, <1>13 DEF Plan
<1> QED
  BY <1>14, <1>15 DEF u

\* The operation at k is one of the element that k leads to: two for each element.
LEMMA IndexOfTwo ==
  /\ \A n \in Nat : \A k \in 1 .. 2 * n :
       /\ k \in Nat
       /\ ((k - 1) \div 2) + 1 \in 1 .. n
       /\ (k - 1) % 2 \in {0, 1}
       /\ k = 2 * (((k - 1) \div 2) + 1) + ((k - 1) % 2) - 1
  /\ \A n \in Nat : \A i \in 1 .. n : \A e \in {0, 1} :
       /\ 2 * i + e - 1 \in 1 .. 2 * n
       /\ (((2 * i + e - 1) - 1) \div 2) + 1 = i
       /\ ((2 * i + e - 1) - 1) % 2 = e
OBVIOUS

\* Four for each element.
LEMMA IndexOfFour ==
  /\ \A n \in Nat : \A k \in 1 .. 4 * n :
       /\ k \in Nat
       /\ ((k - 1) \div 4) + 1 \in 1 .. n
       /\ (k - 1) % 4 \in 0 .. 3
       /\ k = 4 * (((k - 1) \div 4) + 1) + ((k - 1) % 4) - 3
  /\ \A n \in Nat : \A i \in 1 .. n : \A e \in 0 .. 3 :
       /\ 4 * i + e - 3 \in 1 .. 4 * n
       /\ (((4 * i + e - 3) - 1) \div 4) + 1 = i
       /\ ((4 * i + e - 3) - 1) % 4 = e
OBVIOUS

\* Two operations of rank r for each element of a set: a get, rename, remove or
\* unlink of the input and of the answer.
ArePairs(O, td, S, g, q, op, r) ==
  /\ IsFiniteSet(S)
  /\ g \in [S -> Nat]
  /\ q = [k \in 1 .. 2 * Len(SetToSeq(S)) |-> Both(op, g[SetToSeq(S)[((k - 1) \div 2) + 1]])[((k - 1) % 2) + 1]]
  /\ \A x \in S, f \in Kinds : <<op, g[x], f>> \in O /\ Rank(<<op, g[x], f>>) = r
  /\ op # "link" /\ r \in {1, 3, 4, 5}
  /\ op = "unlink" => \A x \in S : g[x] \notin DOMAIN td
  /\ op = "rename" => \A x, y \in S : g[x] = g[y] => x = y

\* Such pairs are a section, in which nothing is left out.
LEMMA PairsOf ==
  ASSUME NEW O, NEW td, NEW S, NEW g, NEW q, NEW op, NEW r,
         ArePairs(O, td, S, g, q, op, r)
  PROVE  /\ Section(O, td, q, r)
         /\ \A x \in S, f \in Kinds : <<op, g[x], f>> \in ToSet(q)
<1> USE DEF ArePairs
<1> DEFINE s == SetToSeq(S)
<1>a. s \in Seq(S) /\ (\A x \in S : \E k \in DOMAIN s : s[k] = x) /\ (\A k, l \in DOMAIN s : s[k] = s[l] => k = l)
  BY SetToSeqFacts
<1>b. DOMAIN q = 1 .. 2 * Len(s)
  OBVIOUS
<1>c. \A k \in DOMAIN q : q[k] = Both(op, g[s[((k - 1) \div 2) + 1]])[((k - 1) % 2) + 1]
  OBVIOUS
<1>d. q = [k \in 1 .. 2 * Len(s) |-> q[k]]
  OBVIOUS
<1> HIDE DEF s
<1>1. Len(s) \in Nat /\ DOMAIN s = 1 .. Len(s) /\ \A i \in DOMAIN s : s[i] \in S
  BY <1>a, LenProperties, ElementOfSeq
<1> DEFINE el(k) == ((k - 1) \div 2) + 1
           ek(k) == (k - 1) % 2
           fk(k) == IF ek(k) = 0 THEN "in" ELSE "out"
<1>2. \A k \in DOMAIN q : el(k) \in DOMAIN s /\ ek(k) \in {0, 1} /\ k = 2 * el(k) + ek(k) - 1
  BY <1>1, <1>b, IndexOfTwo
<1>3. \A k \in DOMAIN q : q[k] = <<op, g[s[el(k)]], fk(k)>>
  <2> SUFFICES ASSUME NEW k \in DOMAIN q
               PROVE  q[k] = <<op, g[s[el(k)]], fk(k)>>
    OBVIOUS
  <2>1. q[k] = Both(op, g[s[el(k)]])[ek(k) + 1]
    BY <1>c
  <2>2. ek(k) \in {0, 1}
    BY <1>2
  <2> HIDE DEF el, ek
  <2> QED
    BY <2>1, <2>2 DEF Both
<1>4. \A i \in DOMAIN s : /\ 2 * i + 0 - 1 \in DOMAIN q /\ el(2 * i + 0 - 1) = i /\ ek(2 * i + 0 - 1) = 0
                          /\ 2 * i + 1 - 1 \in DOMAIN q /\ el(2 * i + 1 - 1) = i /\ ek(2 * i + 1 - 1) = 1
  BY <1>1, <1>b, IndexOfTwo
<1> HIDE DEF el, ek
<1>5. \A k \in DOMAIN q : s[el(k)] \in S /\ fk(k) \in Kinds
  BY <1>1, <1>2 DEF Kinds
<1>6. \A k, l \in DOMAIN q : el(k) = el(l) /\ fk(k) = fk(l) => k = l
  <2> SUFFICES ASSUME NEW k \in DOMAIN q, NEW l \in DOMAIN q, el(k) = el(l), fk(k) = fk(l)
               PROVE  k = l
    OBVIOUS
  <2>1. ek(k) = ek(l)
    BY <1>2
  <2> QED
    BY <1>2, <2>1
<1> HIDE DEF fk
<1>7. \A k \in DOMAIN q : q[k] \in O /\ Rank(q[k]) = r /\ q[k][1] = op /\ q[k][2] = g[s[el(k)]] /\ q[k][3] = fk(k)
  <2> SUFFICES ASSUME NEW k \in DOMAIN q
               PROVE  q[k] \in O /\ Rank(q[k]) = r /\ q[k][1] = op /\ q[k][2] = g[s[el(k)]] /\ q[k][3] = fk(k)
    OBVIOUS
  <2>1. q[k] = <<op, g[s[el(k)]], fk(k)>>
    BY <1>3
  <2>2. s[el(k)] \in S /\ fk(k) \in Kinds
    BY <1>5
  <2>3. q[k] \in O /\ Rank(q[k]) = r
    <3>1. <<op, g[s[el(k)]], fk(k)>> \in O /\ Rank(<<op, g[s[el(k)]], fk(k)>>) = r
      BY <2>2
    <3> QED
      BY <2>1, <3>1
  <2>4. q[k][1] = op /\ q[k][2] = g[s[el(k)]] /\ q[k][3] = fk(k)
    BY <2>1
  <2> QED
    BY <2>3, <2>4
<1>8. q \in Seq(O)
  <2>1. 2 * Len(s) \in Nat
    BY <1>1
  <2>2. q \in [1 .. 2 * Len(s) -> O]
    BY <1>7, <1>b, <1>d
  <2>3. \A n \in Nat : [1 .. n -> O] \subseteq Seq(O)
    BY SeqDef
  <2> QED
    BY <2>1, <2>2, <2>3, Zenon
<1>9. Relinks(td, q)
  BY <1>5, <1>7 DEF Relinks
<1>10. Unlinked(q, {})
  BY <1>7 DEF Unlinked
<1>11. RenamesOnce(q)
  <2> SUFFICES ASSUME NEW i \in DOMAIN q, NEW j \in DOMAIN q, q[i] = q[j], q[i][1] = "rename"
               PROVE  i = j
    BY DEF RenamesOnce
  <2>1. op = "rename" /\ g[s[el(i)]] = g[s[el(j)]] /\ fk(i) = fk(j)
    <3>1. /\ q[i][1] = op /\ q[i][2] = g[s[el(i)]] /\ q[i][3] = fk(i)
          /\ q[j][2] = g[s[el(j)]] /\ q[j][3] = fk(j)
      BY <1>7, Zenon
    <3> QED
      BY <3>1, Zenon
  <2>2. el(i) = el(j)
    BY <2>1, <1>2, <1>5, <1>a
  <2> QED
    BY <2>1, <2>2, <1>6
<1>12. \A x : (\E k \in DOMAIN q : q[k] = x) => x \in ToSet(q)
  BY DEF ToSet
<1>13. \A i \in DOMAIN s, f \in Kinds : \E k \in DOMAIN q : q[k] = <<op, g[s[i]], f>>
  <2> SUFFICES ASSUME NEW i \in DOMAIN s, NEW f \in Kinds
               PROVE  \E k \in DOMAIN q : q[k] = <<op, g[s[i]], f>>
    OBVIOUS
  <2>1. CASE f = "in"
    <3>1. 2 * i + 0 - 1 \in DOMAIN q /\ el(2 * i + 0 - 1) = i /\ fk(2 * i + 0 - 1) = "in"
      BY <1>4 DEF fk
    <3> QED
      BY <2>1, <3>1, <1>3, Zenon
  <2>2. CASE f = "out"
    <3>1. 2 * i + 1 - 1 \in DOMAIN q /\ el(2 * i + 1 - 1) = i /\ fk(2 * i + 1 - 1) = "out"
      BY <1>4 DEF fk
    <3> QED
      BY <2>2, <3>1, <1>3, Zenon
  <2> QED
    BY <2>1, <2>2 DEF Kinds
<1>14. ASSUME NEW x \in S, NEW f \in Kinds PROVE <<op, g[x], f>> \in ToSet(q)
  <2>1. PICK i \in DOMAIN s : s[i] = x
    BY <1>a
  <2> QED
    BY <2>1, <1>12, <1>13, Zenon
<1> QED
  BY <1>7, <1>8, <1>9, <1>10, <1>11, <1>14 DEF Section

\* The four operations for each position to change: both symlinks are removed and
\* created again.
RelinkOps(td, i) ==
  << <<"unlink", i, "in">>, <<"unlink", i, "out">>, <<"link", i, "in", td[i].id>>, <<"link", i, "out", td[i].id>> >>

\* As a section of the plan, every position is first unlinked, then linked.
LEMMA RelinkSection ==
  ASSUME NEW O, NEW td, NEW S, S \subseteq DOMAIN td, NEW s \in Seq(S), NEW q,
         q = [k \in 1 .. 4 * Len(s) |-> q[k]],
         \A k \in DOMAIN q : q[k] = RelinkOps(td, s[((k - 1) \div 4) + 1])[((k - 1) % 4) + 1],
         \A x \in S, f \in Kinds : <<"unlink", x, f>> \in O /\ <<"link", x, f, td[x].id>> \in O
  PROVE  /\ Section(O, td, q, 5)
         /\ \A i \in DOMAIN s, f \in Kinds : <<"unlink", s[i], f>> \in ToSet(q) /\ <<"link", s[i], f, td[s[i]].id>> \in ToSet(q)
<1>1. Len(s) \in Nat /\ DOMAIN s = 1 .. Len(s) /\ \A i \in DOMAIN s : s[i] \in S
  BY LenProperties, ElementOfSeq
<1> DEFINE el(k) == ((k - 1) \div 4) + 1
           ek(k) == (k - 1) % 4
           at(i, e) == 4 * i + e - 3
<1>2. \A k \in DOMAIN q : k \in Nat /\ el(k) \in DOMAIN s /\ ek(k) \in 0 .. 3 /\ k = at(el(k), ek(k))
  BY <1>1, IndexOfFour
<1>3. \A i \in DOMAIN s : \A e \in 0 .. 3 : at(i, e) \in DOMAIN q /\ el(at(i, e)) = i /\ ek(at(i, e)) = e
  <2>1. DOMAIN q = 1 .. 4 * Len(s)
    OBVIOUS
  <2> SUFFICES ASSUME NEW i \in 1 .. Len(s), NEW e \in 0 .. 3
               PROVE  at(i, e) \in 1 .. 4 * Len(s) /\ el(at(i, e)) = i /\ ek(at(i, e)) = e
    BY <1>1, <2>1
  <2> QED
    BY <1>1, IndexOfFour
<1>4. \A k \in DOMAIN q : q[k] = RelinkOps(td, s[el(k)])[ek(k) + 1]
  OBVIOUS
<1> HIDE DEF el, ek
<1>5. \A i \in DOMAIN s : /\ q[at(i, 0)] = <<"unlink", s[i], "in">>
                          /\ q[at(i, 1)] = <<"unlink", s[i], "out">>
                          /\ q[at(i, 2)] = <<"link", s[i], "in", td[s[i]].id>>
                          /\ q[at(i, 3)] = <<"link", s[i], "out", td[s[i]].id>>
  <2> SUFFICES ASSUME NEW i \in DOMAIN s
               PROVE  /\ q[at(i, 0)] = <<"unlink", s[i], "in">>
                      /\ q[at(i, 1)] = <<"unlink", s[i], "out">>
                      /\ q[at(i, 2)] = <<"link", s[i], "in", td[s[i]].id>>
                      /\ q[at(i, 3)] = <<"link", s[i], "out", td[s[i]].id>>
    OBVIOUS
  <2>1. \A e \in 0 .. 3 : q[at(i, e)] = RelinkOps(td, s[i])[e + 1]
    BY <1>3, <1>4
  <2> HIDE DEF at
  <2>2. /\ q[at(i, 0)] = RelinkOps(td, s[i])[0 + 1]
        /\ q[at(i, 1)] = RelinkOps(td, s[i])[1 + 1]
        /\ q[at(i, 2)] = RelinkOps(td, s[i])[2 + 1]
        /\ q[at(i, 3)] = RelinkOps(td, s[i])[3 + 1]
    BY <2>1
  <2> QED
    BY <2>2 DEF RelinkOps
<1>6. \A i \in DOMAIN s : at(i, 0) < at(i, 2) /\ at(i, 1) < at(i, 3)
  BY <1>1
<1>7. \A k \in DOMAIN q : \E i \in DOMAIN s : k = at(i, 0) \/ k = at(i, 1) \/ k = at(i, 2) \/ k = at(i, 3)
  <2> SUFFICES ASSUME NEW k \in DOMAIN q
               PROVE  \E i \in DOMAIN s : k = at(i, 0) \/ k = at(i, 1) \/ k = at(i, 2) \/ k = at(i, 3)
    OBVIOUS
  <2>1. el(k) \in DOMAIN s /\ ek(k) \in {0, 1, 2, 3} /\ k = at(el(k), ek(k))
    BY <1>2
  <2> QED
    BY <2>1, Zenon
<1> HIDE DEF at
<1>8. \A i \in DOMAIN s : at(i, 0) \in DOMAIN q /\ at(i, 1) \in DOMAIN q /\ at(i, 2) \in DOMAIN q /\ at(i, 3) \in DOMAIN q
  BY <1>3
<1>9. \A k \in DOMAIN q : \E i \in DOMAIN s, f \in Kinds :
        \/ /\ q[k] = <<"unlink", s[i], f>>
           /\ \E l \in DOMAIN q : k < l /\ q[l] = <<"link", s[i], f, td[s[i]].id>>
        \/ /\ q[k] = <<"link", s[i], f, td[s[i]].id>>
           /\ \E l \in DOMAIN q : l < k /\ q[l] = <<"unlink", s[i], f>>
  <2> SUFFICES ASSUME NEW k \in DOMAIN q, NEW i \in DOMAIN s,
                      k = at(i, 0) \/ k = at(i, 1) \/ k = at(i, 2) \/ k = at(i, 3)
               PROVE  \E f \in Kinds :
        \/ /\ q[k] = <<"unlink", s[i], f>>
           /\ \E l \in DOMAIN q : k < l /\ q[l] = <<"link", s[i], f, td[s[i]].id>>
        \/ /\ q[k] = <<"link", s[i], f, td[s[i]].id>>
           /\ \E l \in DOMAIN q : l < k /\ q[l] = <<"unlink", s[i], f>>
    BY <1>7, Zenon
  <2>1. "in" \in Kinds /\ "out" \in Kinds
    BY DEF Kinds
  <2>2. at(i, 0) \in DOMAIN q /\ at(i, 1) \in DOMAIN q /\ at(i, 2) \in DOMAIN q /\ at(i, 3) \in DOMAIN q
    BY <1>8
  <2>3. CASE k = at(i, 0)
    BY <2>1, <2>2, <2>3, <1>5, <1>6, Zenon
  <2>4. CASE k = at(i, 1)
    BY <2>1, <2>2, <2>4, <1>5, <1>6, Zenon
  <2>5. CASE k = at(i, 2)
    BY <2>1, <2>2, <2>5, <1>5, <1>6, Zenon
  <2>6. CASE k = at(i, 3)
    BY <2>1, <2>2, <2>6, <1>5, <1>6, Zenon
  <2> QED
    BY <2>3, <2>4, <2>5, <2>6
<1>10. \A k \in DOMAIN q :
         /\ q[k] \in O /\ Rank(q[k]) = 5 /\ q[k][1] \in {"unlink", "link"}
         /\ q[k][1] = "unlink" => \E l \in DOMAIN q : k < l /\ q[l] = Final(td, q[k][2], q[k][3])
         /\ q[k][1] = "link" => \E l \in DOMAIN q : l < k /\ q[l][1] = "unlink" /\ q[l][2] = q[k][2]
  <2> SUFFICES ASSUME NEW k \in DOMAIN q
               PROVE  /\ q[k] \in O /\ Rank(q[k]) = 5 /\ q[k][1] \in {"unlink", "link"}
                      /\ q[k][1] = "unlink" => \E l \in DOMAIN q : k < l /\ q[l] = Final(td, q[k][2], q[k][3])
                      /\ q[k][1] = "link" => \E l \in DOMAIN q : l < k /\ q[l][1] = "unlink" /\ q[l][2] = q[k][2]
    OBVIOUS
  <2>1. PICK i \in DOMAIN s, f \in Kinds :
        \/ /\ q[k] = <<"unlink", s[i], f>>
           /\ \E l \in DOMAIN q : k < l /\ q[l] = <<"link", s[i], f, td[s[i]].id>>
        \/ /\ q[k] = <<"link", s[i], f, td[s[i]].id>>
           /\ \E l \in DOMAIN q : l < k /\ q[l] = <<"unlink", s[i], f>>
    BY <1>9
  <2>2. s[i] \in S
    BY <1>1
  <2>3. <<"unlink", s[i], f>> \in O /\ <<"link", s[i], f, td[s[i]].id>> \in O
    BY <2>2
  <2>4. s[i] \in DOMAIN td
    BY <2>2
  <2>5. CASE /\ q[k] = <<"unlink", s[i], f>>
             /\ \E l \in DOMAIN q : k < l /\ q[l] = <<"link", s[i], f, td[s[i]].id>>
    <3>1. q[k][1] = "unlink" /\ q[k][2] = s[i] /\ q[k][3] = f
      BY <2>5
    <3>6. Rank(q[k]) = 5
      BY <3>1, RankOf
    <3>2. Final(td, q[k][2], q[k][3]) = <<"link", s[i], f, td[s[i]].id>>
      BY <3>1, <2>4 DEF Final
    <3>3. q[k] \in O
      BY <2>3, <2>5
    <3>4. \E l \in DOMAIN q : k < l /\ q[l] = Final(td, q[k][2], q[k][3])
      BY <3>2, <2>5, Zenon
    <3>5. q[k][1] # "link"
      BY <3>1
    <3> QED
      BY <3>1, <3>3, <3>4, <3>5, <3>6, Zenon
  <2>6. CASE /\ q[k] = <<"link", s[i], f, td[s[i]].id>>
             /\ \E l \in DOMAIN q : l < k /\ q[l] = <<"unlink", s[i], f>>
    <3>1. q[k][1] = "link" /\ q[k][2] = s[i]
      BY <2>6
    <3>7. Rank(q[k]) = 5
      BY <3>1, RankOf
    <3>2. PICK l \in DOMAIN q : l < k /\ q[l] = <<"unlink", s[i], f>>
      BY <2>6
    <3>3. q[l][1] = "unlink" /\ q[l][2] = s[i]
      BY <3>2
    <3>4. q[k] \in O
      BY <2>3, <2>6
    <3>5. \E l1 \in DOMAIN q : l1 < k /\ q[l1][1] = "unlink" /\ q[l1][2] = q[k][2]
      BY <3>1, <3>2, <3>3
    <3>6. q[k][1] # "unlink"
      BY <3>1
    <3> QED
      BY <3>1, <3>4, <3>5, <3>6, <3>7, Zenon
  <2> QED
    BY <2>1, <2>5, <2>6
<1>11. q \in Seq(O)
  <2>1. 4 * Len(s) \in Nat
    BY <1>1
  <2>2. q \in [1 .. 4 * Len(s) -> O]
    BY <1>10
  <2> QED
    BY <2>1, <2>2, SeqDef
<1>12. Relinks(td, q) /\ Unlinked(q, {}) /\ RenamesOnce(q)
  <2>1. Relinks(td, q)
    BY <1>10 DEF Relinks
  <2>2. Unlinked(q, {})
    BY <1>10 DEF Unlinked
  <2>3. RenamesOnce(q)
    BY <1>10 DEF RenamesOnce
  <2> QED
    BY <2>1, <2>2, <2>3
<1>13. \A x : (\E k \in DOMAIN q : q[k] = x) => x \in ToSet(q)
  BY DEF ToSet
<1>14. \A i \in DOMAIN s, f \in Kinds : <<"unlink", s[i], f>> \in ToSet(q) /\ <<"link", s[i], f, td[s[i]].id>> \in ToSet(q)
  <2> SUFFICES ASSUME NEW i \in DOMAIN s, NEW f \in Kinds
               PROVE  <<"unlink", s[i], f>> \in ToSet(q) /\ <<"link", s[i], f, td[s[i]].id>> \in ToSet(q)
    OBVIOUS
  <2>1. f = "in" \/ f = "out"
    BY DEF Kinds
  <2>2. at(i, 0) \in DOMAIN q /\ at(i, 1) \in DOMAIN q /\ at(i, 2) \in DOMAIN q /\ at(i, 3) \in DOMAIN q
    BY <1>8
  <2> QED
    BY <2>1, <2>2, <1>5, <1>13, Zenon
<1> QED
  BY <1>10, <1>11, <1>12, <1>14 DEF Section

\* One operation that is not about a symlink.
LEMMA SingleSection ==
  ASSUME NEW O, NEW td, NEW op \in O, op[1] \notin {"unlink", "link"}
  PROVE  Section(O, td, <<op>>, Rank(op)) /\ ToSet(<<op>>) = {op}
<1> DEFINE q == <<op>>
<1>1. q \in Seq(O) /\ Len(q) = 1 /\ DOMAIN q = {1} /\ q[1] = op
  OBVIOUS
<1> HIDE DEF q
<1>2. Relinks(td, q) /\ Unlinked(q, {}) /\ RenamesOnce(q)
  BY <1>1 DEF Relinks, Unlinked, RenamesOnce
<1>3. ToSet(q) = {op}
  BY <1>1 DEF ToSet
<1>4. Section(O, td, q, Rank(op))
  BY <1>1, <1>2 DEF Section
<1> QED
  BY <1>3, <1>4 DEF q

\* DealOneSubmission's operations: in order, each kind for all that needs it.
LEMMA OperationsShape ==
  ASSUME db \in [Ids -> Row \cup {None}], NEW m, m.td \in TdList
  PROVE  LET s == Operations(m)
             b == db
         IN  /\ Plan(OpSet(b, m.td), m.td, s, 7)
             /\ {<<"lock">>, <<"unlock">>, <<"update">>} \subseteq ToSet(s)
             /\ \A i \in Stale(b, m.td), f \in Kinds : <<"get", m.td[i].id, f>> \in ToSet(s) /\ <<"rename", m.td[i].id, f>> \in ToSet(s)
             /\ \A p \in Touches(b, m.td), f \in Kinds : <<"unlink", p, f>> \in ToSet(s)
             /\ \A i \in Moved(b, m.td), f \in Kinds : <<"link", i, f, m.td[i].id>> \in ToSet(s)
<1> DEFINE td == m.td
           O == OpSet(db, td)
           A == Stale(db, td)
           M == Moved(db, td)
           G == Gone(db, td)
           B == Behind(db, td)
           ga == [i \in A |-> td[i].id]
           gg == [d \in G |-> d]
           gb == [p \in B |-> p]
           q1 == ForEach(to_download(m), 2, LAMBDA i : Both("get", m.td[i].id))
           q3 == ForEach(to_download(m), 2, LAMBDA i : Both("rename", m.td[i].id))
           q4 == ForEach(to_delete(m), 2, LAMBDA d : Both("remove", d))
           q5 == ForEach(to_update_position(m), 4,
                         LAMBDA i : Both("unlink", i) \o << <<"link", i, "in", m.td[i].id>>, <<"link", i, "out", m.td[i].id>> >>)
           q6 == ForEach(orig_td(m), 2, LAMBDA p : Both("unlink", p))
<1>1. /\ Len(td) \in Nat /\ DOMAIN td = 1 .. Len(td) /\ DOMAIN td \subseteq Pos
      /\ \A i \in DOMAIN td : td[i].id \in Ids /\ td[i].id \in Nat
      /\ \A i, j \in DOMAIN td : td[i].id = td[j].id => i = j
  BY TdFacts, StoreAssumption
<1>2. Cardinality(Ids) \in Nat
  BY StoreAssumption, FS_CardinalityType
<1>3. IsFiniteSet(DOMAIN td) /\ IsFiniteSet(Pos)
  BY <1>1, <1>2, FS_Interval DEF Pos
<1>4. A \subseteq DOMAIN td /\ M \subseteq DOMAIN td /\ G \subseteq Ids /\ B \subseteq Pos
  BY DEF Stale, Moved, Gone, Behind
<1>5. IsFiniteSet(A) /\ IsFiniteSet(M) /\ IsFiniteSet(G) /\ IsFiniteSet(B)
  BY <1>3, <1>4, StoreAssumption, FS_Subset
<1>6. /\ to_download(m) = SetToSeq(A)
      /\ to_update_position(m) = SetToSeq(M)
      /\ to_delete(m) = SetToSeq(G)
      /\ orig_td(m) = SetToSeq(B)
  BY DEF to_download, to_update_position, to_delete, orig_td, Stale, Moved, Gone, Behind, Missing
<1>7. Operations(m) = (((((((q1 \o << <<"lock">> >>) \o q3) \o q4) \o q5) \o q6) \o << <<"unlock">> >>) \o << <<"update">> >>)
  BY DEF Operations, FileOperations
<1>8. \A op \in {"get", "rename"}, i \in A, f \in Kinds : <<op, td[i].id, f>> \in O
  BY DEF OpSet
<1>9. \A d \in G, f \in Kinds : <<"remove", d, f>> \in O
  BY DEF OpSet
<1>10. /\ \A p \in M, f \in Kinds : <<"unlink", p, f>> \in O
       /\ \A p \in B, f \in Kinds : <<"unlink", p, f>> \in O
  BY DEF OpSet, Touches
<1>11. \A i \in M, f \in Kinds : <<"link", i, f, td[i].id>> \in O
  BY DEF OpSet
<1>12. /\ \A x, y : Rank(<<"get", x, y>>) = 1 /\ Rank(<<"rename", x, y>>) = 3 /\ Rank(<<"remove", x, y>>) = 4
                   /\ Rank(<<"unlink", x, y>>) = 5
       /\ Rank(<<"lock">>) = 2 /\ Rank(<<"unlock">>) = 6 /\ Rank(<<"update">>) = 7
  BY DEF Rank
<1>13. <<"lock">> \in O /\ <<"unlock">> \in O /\ <<"update">> \in O
  BY DEF OpSet
<1>14. /\ ga \in [A -> Nat] /\ \A i \in A : ga[i] = td[i].id
       /\ gg \in [G -> Nat] /\ \A d \in G : gg[d] = d
       /\ gb \in [B -> Nat] /\ \A p \in B : gb[p] = p
  BY <1>1, <1>2, <1>4, StoreAssumption DEF Pos
<1>21. \A x \in B : x \in Nat /\ x > Len(td)
  BY <1>2 DEF Behind, Pos
<1>15. ASSUME NEW S, IsFiniteSet(S), NEW w \in {2, 4}, NEW k \in 1 .. w * Len(SetToSeq(S))
       PROVE  SetToSeq(S)[((k - 1) \div w) + 1] \in S
  <2>1. SetToSeq(S) \in Seq(S)
    BY <1>15, SetToSeqFacts
  <2>2. Len(SetToSeq(S)) \in Nat /\ DOMAIN SetToSeq(S) = 1 .. Len(SetToSeq(S))
    BY <2>1, LenProperties
  <2>3. ((k - 1) \div w) + 1 \in 1 .. Len(SetToSeq(S))
    BY <2>2, IndexOfTwo, IndexOfFour
  <2> QED
    BY <2>1, <2>3, ElementOfSeq
<1>16. /\ Section(O, td, q1, 1)
       /\ \A x \in A, f \in Kinds : <<"get", ga[x], f>> \in ToSet(q1)
  <2>1. q1 = [k \in 1 .. 2 * Len(SetToSeq(A)) |-> Both("get", td[SetToSeq(A)[((k - 1) \div 2) + 1]].id)[((k - 1) % 2) + 1]]
    BY <1>6 DEF ForEach
  <2>2. \A k \in 1 .. 2 * Len(SetToSeq(A)) : SetToSeq(A)[((k - 1) \div 2) + 1] \in A
    BY <1>5, <1>15
  <2> HIDE DEF A, q1, O, td
  <2>3. q1 = [k \in 1 .. 2 * Len(SetToSeq(A)) |-> Both("get", ga[SetToSeq(A)[((k - 1) \div 2) + 1]])[((k - 1) % 2) + 1]]
    BY <2>1, <2>2, <1>14
  <2> HIDE DEF ga
  <2>4. \A x \in A, f \in Kinds : <<"get", ga[x], f>> \in O /\ Rank(<<"get", ga[x], f>>) = 1
    BY <1>8, <1>12, <1>14
  <2>5. ArePairs(O, td, A, ga, q1, "get", 1)
    BY <2>3, <2>4, <1>5, <1>14 DEF ArePairs
  <2> QED
    BY <2>5, PairsOf
<1>17. /\ Section(O, td, q3, 3)
       /\ \A x \in A, f \in Kinds : <<"rename", ga[x], f>> \in ToSet(q3)
  <2>1. q3 = [k \in 1 .. 2 * Len(SetToSeq(A)) |-> Both("rename", td[SetToSeq(A)[((k - 1) \div 2) + 1]].id)[((k - 1) % 2) + 1]]
    BY <1>6 DEF ForEach
  <2>2. \A k \in 1 .. 2 * Len(SetToSeq(A)) : SetToSeq(A)[((k - 1) \div 2) + 1] \in A
    BY <1>5, <1>15
  <2> HIDE DEF A, q3, O, td
  <2>3. q3 = [k \in 1 .. 2 * Len(SetToSeq(A)) |-> Both("rename", ga[SetToSeq(A)[((k - 1) \div 2) + 1]])[((k - 1) % 2) + 1]]
    BY <2>1, <2>2, <1>14
  <2> HIDE DEF ga
  <2>4. \A x \in A, f \in Kinds : <<"rename", ga[x], f>> \in O /\ Rank(<<"rename", ga[x], f>>) = 3
    BY <1>8, <1>12, <1>14
  <2>5. \A x, y \in A : ga[x] = ga[y] => x = y
    BY <1>1, <1>4, <1>14
  <2>6. ArePairs(O, td, A, ga, q3, "rename", 3)
    BY <2>3, <2>4, <2>5, <1>5, <1>14 DEF ArePairs
  <2> QED
    BY <2>6, PairsOf
<1>18. /\ Section(O, td, q4, 4)
       /\ \A x \in G, f \in Kinds : <<"remove", gg[x], f>> \in ToSet(q4)
  <2>1. q4 = [k \in 1 .. 2 * Len(SetToSeq(G)) |-> Both("remove", SetToSeq(G)[((k - 1) \div 2) + 1])[((k - 1) % 2) + 1]]
    BY <1>6 DEF ForEach
  <2>2. \A k \in 1 .. 2 * Len(SetToSeq(G)) : SetToSeq(G)[((k - 1) \div 2) + 1] \in G
    BY <1>5, <1>15
  <2> HIDE DEF G, q4, O, td
  <2>3. q4 = [k \in 1 .. 2 * Len(SetToSeq(G)) |-> Both("remove", gg[SetToSeq(G)[((k - 1) \div 2) + 1]])[((k - 1) % 2) + 1]]
    BY <2>1, <2>2, <1>14
  <2> HIDE DEF gg
  <2>4. \A x \in G, f \in Kinds : <<"remove", gg[x], f>> \in O /\ Rank(<<"remove", gg[x], f>>) = 4
    BY <1>9, <1>12, <1>14
  <2>6. ArePairs(O, td, G, gg, q4, "remove", 4)
    BY <2>3, <2>4, <1>5, <1>14 DEF ArePairs
  <2> QED
    BY <2>6, PairsOf
<1>19. /\ Section(O, td, q6, 5)
       /\ \A x \in B, f \in Kinds : <<"unlink", gb[x], f>> \in ToSet(q6)
  <2>1. q6 = [k \in 1 .. 2 * Len(SetToSeq(B)) |-> Both("unlink", SetToSeq(B)[((k - 1) \div 2) + 1])[((k - 1) % 2) + 1]]
    BY <1>6 DEF ForEach
  <2>2. \A k \in 1 .. 2 * Len(SetToSeq(B)) : SetToSeq(B)[((k - 1) \div 2) + 1] \in B
    BY <1>5, <1>15
  <2> HIDE DEF B, M, q6, O, td
  <2>3. q6 = [k \in 1 .. 2 * Len(SetToSeq(B)) |-> Both("unlink", gb[SetToSeq(B)[((k - 1) \div 2) + 1]])[((k - 1) % 2) + 1]]
    BY <2>1, <2>2, <1>14
  <2> HIDE DEF gb
  <2>4. \A x \in B, f \in Kinds : <<"unlink", gb[x], f>> \in O /\ Rank(<<"unlink", gb[x], f>>) = 5
    BY <1>10, <1>12, <1>14
  <2>5. \A x \in B : gb[x] \notin DOMAIN td
    BY <1>1, <1>14, <1>21
  <2>6. ArePairs(O, td, B, gb, q6, "unlink", 5)
    BY <2>3, <2>4, <2>5, <1>5, <1>14 DEF ArePairs
  <2> QED
    BY <2>6, PairsOf
<1>20. /\ Section(O, td, q5, 5)
       /\ \A x \in M, f \in Kinds : <<"unlink", x, f>> \in ToSet(q5) /\ <<"link", x, f, td[x].id>> \in ToSet(q5)
  <2> DEFINE s5 == SetToSeq(M)
  <2>1. q5 = [k \in 1 .. 4 * Len(s5) |->
               (Both("unlink", s5[((k - 1) \div 4) + 1])
                \o << <<"link", s5[((k - 1) \div 4) + 1], "in", td[s5[((k - 1) \div 4) + 1]].id>>,
                      <<"link", s5[((k - 1) \div 4) + 1], "out", td[s5[((k - 1) \div 4) + 1]].id>> >>)[((k - 1) % 4) + 1]]
    BY <1>6 DEF ForEach
  <2>2. ASSUME NEW i
        PROVE  Both("unlink", i) \o << <<"link", i, "in", td[i].id>>, <<"link", i, "out", td[i].id>> >> = RelinkOps(td, i)
    <3> DEFINE a1 == <<"unlink", i, "in">>
               a2 == <<"unlink", i, "out">>
               a3 == <<"link", i, "in", td[i].id>>
               a4 == <<"link", i, "out", td[i].id>>
    <3> SUFFICES <<a1, a2>> \o <<a3, a4>> = <<a1, a2, a3, a4>>
      BY DEF Both, RelinkOps
    <3> HIDE DEF a1, a2, a3, a4
    <3> DEFINE T == {a1, a2, a3, a4}
    <3>1. <<a1, a2>> \in Seq(T) /\ <<a3, a4>> \in Seq(T) /\ <<a1, a2, a3, a4>> \in Seq(T)
      OBVIOUS
    <3>2. Len(<<a1, a2>>) = 2 /\ Len(<<a3, a4>>) = 2 /\ Len(<<a1, a2, a3, a4>>) = 4
      OBVIOUS
    <3> HIDE DEF T
    <3> DEFINE u == <<a1, a2>> \o <<a3, a4>>
    <3>3. /\ u \in Seq(T) /\ Len(u) = 4
          /\ \A j \in 1 .. 4 : u[j] = IF j <= 2 THEN <<a1, a2>>[j] ELSE <<a3, a4>>[j - 2]
      BY <3>1, <3>2, ConcatProperties
    <3> HIDE DEF u
    <3>4. u[1] = a1 /\ u[2] = a2 /\ u[3] = a3 /\ u[4] = a4
      BY <3>3
    <3>5. \A j \in 1 .. 4 : u[j] = <<a1, a2, a3, a4>>[j]
      BY <3>4
    <3>6. u = <<a1, a2, a3, a4>>
      BY <3>1, <3>2, <3>3, <3>5, SeqEqual
    <3> QED
      BY <3>6 DEF u
  <2>3. \A k \in 1 .. 4 * Len(s5) : s5[((k - 1) \div 4) + 1] \in M
    BY <1>5, <1>15
  <2>4. s5 \in Seq(M) /\ (\A x \in M : \E k \in DOMAIN s5 : s5[k] = x)
    BY <1>5, SetToSeqFacts
  <2> HIDE DEF s5, M, q5, O, td
  <2>5. \A k \in DOMAIN q5 : q5[k] = RelinkOps(td, s5[((k - 1) \div 4) + 1])[((k - 1) % 4) + 1]
    BY <2>1, <2>2
  <2>6. q5 = [k \in 1 .. 4 * Len(s5) |-> q5[k]]
    BY <2>1
  <2>7. \A x \in M, f \in Kinds : <<"unlink", x, f>> \in O /\ <<"link", x, f, td[x].id>> \in O
    BY <1>10, <1>11
  <2>8. /\ Section(O, td, q5, 5)
        /\ \A i \in DOMAIN s5, f \in Kinds : <<"unlink", s5[i], f>> \in ToSet(q5) /\ <<"link", s5[i], f, td[s5[i]].id>> \in ToSet(q5)
    BY <2>4, <2>5, <2>6, <2>7, <1>4, RelinkSection
  <2> QED
    BY <2>4, <2>8
<1> HIDE DEF td, O, A, M, G, B, ga, gg, gb, q1, q3, q4, q5, q6
<1> DEFINE p1 == q1
           p2 == p1 \o << <<"lock">> >>
           p3 == p2 \o q3
           p4 == p3 \o q4
           p5 == p4 \o q5
           p6 == p5 \o q6
           p7 == p6 \o << <<"unlock">> >>
           p8 == p7 \o << <<"update">> >>
<1>22. /\ Section(O, td, << <<"lock">> >>, 2) /\ ToSet(<< <<"lock">> >>) = {<<"lock">>}
       /\ Section(O, td, << <<"unlock">> >>, 6) /\ ToSet(<< <<"unlock">> >>) = {<<"unlock">>}
       /\ Section(O, td, << <<"update">> >>, 7) /\ ToSet(<< <<"update">> >>) = {<<"update">>}
  <2>1. /\ <<"lock">>[1] \notin {"unlink", "link"}
        /\ <<"unlock">>[1] \notin {"unlink", "link"}
        /\ <<"update">>[1] \notin {"unlink", "link"}
    OBVIOUS
  <2>2. Section(O, td, << <<"lock">> >>, Rank(<<"lock">>)) /\ ToSet(<< <<"lock">> >>) = {<<"lock">>}
    BY <2>1, <1>13, SingleSection
  <2>3. Section(O, td, << <<"unlock">> >>, Rank(<<"unlock">>)) /\ ToSet(<< <<"unlock">> >>) = {<<"unlock">>}
    BY <2>1, <1>13, SingleSection
  <2>4. Section(O, td, << <<"update">> >>, Rank(<<"update">>)) /\ ToSet(<< <<"update">> >>) = {<<"update">>}
    BY <2>1, <1>13, SingleSection
  <2> QED
    BY <2>2, <2>3, <2>4, <1>12
<1>23. Plan(O, td, p1, 1)
  <2>1. Ordered(q1)
    BY <1>16 DEF Section, Ordered
  <2> QED
    BY <2>1, <1>16 DEF Section, Plan
<1> HIDE DEF p1
<1>24. Plan(O, td, p2, 2) /\ ToSet(p2) = ToSet(p1) \cup ToSet(<< <<"lock">> >>)
  BY <1>23, <1>22, PlanExtended
<1> HIDE DEF p2
<1>25. Plan(O, td, p3, 3) /\ ToSet(p3) = ToSet(p2) \cup ToSet(q3)
  BY <1>24, <1>17, PlanExtended
<1> HIDE DEF p3
<1>26. Plan(O, td, p4, 4) /\ ToSet(p4) = ToSet(p3) \cup ToSet(q4)
  BY <1>25, <1>18, PlanExtended
<1> HIDE DEF p4
<1>27. Plan(O, td, p5, 5) /\ ToSet(p5) = ToSet(p4) \cup ToSet(q5)
  BY <1>26, <1>20, PlanExtended
<1> HIDE DEF p5
<1>28. Plan(O, td, p6, 5) /\ ToSet(p6) = ToSet(p5) \cup ToSet(q6)
  BY <1>27, <1>19, PlanExtended
<1> HIDE DEF p6
<1>29. Plan(O, td, p7, 6) /\ ToSet(p7) = ToSet(p6) \cup ToSet(<< <<"unlock">> >>)
  BY <1>28, <1>22, PlanExtended
<1> HIDE DEF p7
<1>30. Plan(O, td, p8, 7) /\ ToSet(p8) = ToSet(p7) \cup ToSet(<< <<"update">> >>)
  BY <1>29, <1>22, PlanExtended
<1>31. Operations(m) = p8
  BY <1>7 DEF p1, p2, p3, p4, p5, p6, p7
<1> HIDE DEF p8
<1>32. /\ ToSet(q1) \subseteq ToSet(p8) /\ ToSet(q3) \subseteq ToSet(p8)
       /\ ToSet(q5) \subseteq ToSet(p8) /\ ToSet(q6) \subseteq ToSet(p8)
       /\ {<<"lock">>, <<"unlock">>, <<"update">>} \subseteq ToSet(p8)
  BY <1>22, <1>24, <1>25, <1>26, <1>27, <1>28, <1>29, <1>30 DEF p1
<1>33. \A i \in A, f \in Kinds : <<"get", td[i].id, f>> \in ToSet(p8) /\ <<"rename", td[i].id, f>> \in ToSet(p8)
  BY <1>14, <1>16, <1>17, <1>32
<1>34. \A x \in M \cup B, f \in Kinds : <<"unlink", x, f>> \in ToSet(p8)
  BY <1>14, <1>19, <1>20, <1>32
<1>35. \A i \in M, f \in Kinds : <<"link", i, f, td[i].id>> \in ToSet(p8)
  BY <1>20, <1>32
<1>36. Touches(db, td) = M \cup B
  BY DEF Touches, M, B
<1> QED
  BY <1>30, <1>31, <1>32, <1>33, <1>34, <1>35, <1>36 DEF O, td, A, M

\* The first operation is done: what it is, and what is left.
LEMMA TailPlan ==
  ASSUME NEW O, NEW td, NEW s, NEW done, NEW done2,
         Remainder(O, td, s, done), s # <<>>, done \subseteq done2,
         s[1][1] = "unlink" => s[1][2] \in done2
  PROVE  /\ Remainder(O, td, Tail(s), done2)
         /\ s[1] \in O
         /\ ToSet(s) = {s[1]} \cup ToSet(Tail(s))
         /\ \A op \in ToSet(Tail(s)) : /\ Rank(s[1]) <= Rank(op)
                                       /\ Rank(s[1]) \in {2, 6, 7} => Rank(s[1]) < Rank(op)
         /\ s[1][1] = "unlink" /\ s[1][2] \in DOMAIN td => Final(td, s[1][2], s[1][3]) \in ToSet(Tail(s))
         /\ s[1][1] = "link" => s[1][2] \in done
         /\ s[1][1] = "rename" => s[1] \notin ToSet(Tail(s))
         /\ \A p : Busy(Tail(s), p) => Busy(s, p)
         /\ Rank(s[1]) = 5 => Busy(s, s[1][2])
<1> DEFINE t == Tail(s)
           n == Len(s)
<1>1. s \in Seq(O)
  BY DEF Remainder
<1>2. n \in Nat \ {0} /\ DOMAIN s = 1 .. n /\ 1 \in DOMAIN s /\ s[1] \in O
  BY <1>1, EmptySeq, LenProperties, ElementOfSeq
<1>3. t \in Seq(O) /\ Len(t) = n - 1 /\ \A i \in 1 .. Len(t) : t[i] = s[i + 1]
  BY <1>1, HeadTailProperties
<1>4. DOMAIN t = 1 .. n - 1
  BY <1>3, LenProperties
<1>5. \A i \in DOMAIN t : i \in Nat /\ i + 1 \in DOMAIN s /\ 1 < i + 1 /\ t[i] = s[i + 1]
  BY <1>2, <1>3, <1>4
<1>6. \A j \in DOMAIN s : j = 1 \/ (j \in Nat /\ j - 1 \in DOMAIN t /\ t[j - 1] = s[j] /\ (j - 1) + 1 = j)
  BY <1>2, <1>3, <1>4
<1> HIDE DEF t, n
<1>7. Ordered(t)
  BY <1>5 DEF Ordered, Remainder
<1>8. Relinks(td, t)
  <2> SUFFICES ASSUME NEW k \in DOMAIN t, t[k][1] = "unlink", t[k][2] \in DOMAIN td
               PROVE  \E l \in DOMAIN t : k < l /\ t[l] = Final(td, t[k][2], t[k][3])
    BY DEF Relinks
  <2>1. k + 1 \in DOMAIN s /\ t[k] = s[k + 1] /\ k \in Nat
    BY <1>5
  <2>2. PICK l \in DOMAIN s : k + 1 < l /\ s[l] = Final(td, s[k + 1][2], s[k + 1][3])
    BY <2>1 DEF Remainder, Relinks
  <2>3. l \in Nat /\ l - 1 \in DOMAIN t /\ t[l - 1] = s[l] /\ k < l - 1
    BY <1>6, <2>1, <2>2
  <2> QED
    BY <2>1, <2>2, <2>3
<1>9. Unlinked(t, done2)
  <2> SUFFICES ASSUME NEW k \in DOMAIN t, t[k][1] = "link", t[k][2] \notin done2
               PROVE  \E l \in DOMAIN t : l < k /\ t[l][1] = "unlink" /\ t[l][2] = t[k][2]
    BY DEF Unlinked
  <2>1. k + 1 \in DOMAIN s /\ t[k] = s[k + 1] /\ k \in Nat
    BY <1>5
  <2>2. PICK l \in DOMAIN s : l < k + 1 /\ s[l][1] = "unlink" /\ s[l][2] = s[k + 1][2]
    BY <2>1 DEF Remainder, Unlinked
  <2>3. l # 1
    BY <2>1, <2>2
  <2>4. l \in Nat /\ l - 1 \in DOMAIN t /\ t[l - 1] = s[l] /\ l - 1 < k
    BY <1>6, <2>1, <2>2, <2>3
  <2> QED
    BY <2>1, <2>2, <2>4
<1>10. RenamesOnce(t)
  <2> SUFFICES ASSUME NEW i \in DOMAIN t, NEW j \in DOMAIN t, t[i] = t[j], t[i][1] = "rename"
               PROVE  i = j
    BY DEF RenamesOnce
  <2>1. i + 1 = j + 1
    BY <1>5 DEF Remainder, RenamesOnce
  <2> QED
    BY <2>1, <1>5
<1>11. ToSet(s) = {s[1]} \cup ToSet(t)
  BY <1>2, <1>5, <1>6 DEF ToSet
<1>12. \A op \in ToSet(t) : \E j \in DOMAIN s : 1 < j /\ s[j] = op
  BY <1>5 DEF ToSet
<1>13. \A op \in ToSet(t) : /\ Rank(s[1]) <= Rank(op)
                            /\ Rank(s[1]) \in {2, 6, 7} => Rank(s[1]) < Rank(op)
  BY <1>2, <1>12 DEF Remainder, Ordered
<1>14. ASSUME s[1][1] = "unlink", s[1][2] \in DOMAIN td
       PROVE  Final(td, s[1][2], s[1][3]) \in ToSet(t)
  <2>1. PICK l \in DOMAIN s : 1 < l /\ s[l] = Final(td, s[1][2], s[1][3])
    BY <1>2, <1>14 DEF Remainder, Relinks
  <2>2. l - 1 \in DOMAIN t /\ t[l - 1] = s[l]
    BY <2>1, <1>6
  <2> QED
    BY <2>1, <2>2 DEF ToSet
<1>15. s[1][1] = "link" => s[1][2] \in done
  <2>1. \A l \in DOMAIN s : ~(l < 1)
    BY <1>2
  <2> QED
    BY <1>2, <2>1 DEF Remainder, Unlinked
<1>16. s[1][1] = "rename" => s[1] \notin ToSet(t)
  BY <1>2, <1>12 DEF Remainder, RenamesOnce
<1>17. \A p : Busy(t, p) => Busy(s, p)
  BY <1>5 DEF Busy
<1>18. Rank(s[1]) = 5 => Busy(s, s[1][2])
  BY <1>2 DEF Busy
<1>19. Remainder(O, td, t, done2)
  BY <1>3, <1>7, <1>8, <1>9, <1>10 DEF Remainder
<1> QED
  BY <1>2, <1>11, <1>13, <1>14, <1>15, <1>16, <1>17, <1>18, <1>19 DEF t

-----------------------------------------------------------------------------
(* The server and the messages *)

\* An edit of the problem: versions grow, and a testdatum that was removed does
\* not come back.
LEMMA EditFacts ==
  ASSUME ServerInv, EditProblem
  PROVE  /\ ServerInv'
         /\ \A d \in Ids : version[d] <= version'[d]
         /\ \A d \in Present' : d \in Present \/ version[d] = 0
         /\ UNCHANGED <<sent, inbox, msg, ops, disk, td_file_lock, scoring, interrupts, ghosts>>
<1>1. /\ Len(config) \in Nat /\ DOMAIN config = 1 .. Len(config) /\ config \in Seq(Ids)
      /\ \A i \in DOMAIN config : config[i] \in Ids /\ version[config[i]] > 0
      /\ \A i, j \in DOMAIN config : config[i] = config[j] => i = j
      /\ version \in [Ids -> Nat]
      /\ \A d \in Ids : version[d] \in Nat /\ version[d] <= edits
      /\ edits \in Nat /\ edits <= MaxEdits /\ MaxEdits \in Nat
      /\ sent \in Nat
  BY LenProperties, ElementOfSeq, StoreAssumption DEF ServerInv
<1>2. ASSUME NEW c, NEW v, Edit(c, v),
             c \in Seq(Ids),
             \A i, j \in DOMAIN c : c[i] = c[j] => i = j,
             v \in [Ids -> Nat],
             \A d \in Ids : v[d] \in {version[d], version[d] + 1},
             \A i \in DOMAIN c : v[c[i]] > 0,
             \A i \in DOMAIN c : c[i] \in Present \/ version[c[i]] = 0
      PROVE  /\ ServerInv'
             /\ \A d \in Ids : version[d] <= version'[d]
             /\ \A d \in Present' : d \in Present \/ version[d] = 0
             /\ UNCHANGED <<sent, inbox, msg, ops, disk, td_file_lock, scoring, interrupts, ghosts>>
  <2>1. config' = c /\ version' = v /\ edits' = edits + 1 /\ edits < MaxEdits
    BY <1>2 DEF Edit
  <2>2. UNCHANGED <<sent, inbox, msg, ops, disk, td_file_lock, scoring, interrupts, ghosts>>
    BY <1>2 DEF Edit
  <2>3. \A d \in Ids : version[d] <= version'[d] /\ version'[d] <= edits'
    <3> SUFFICES ASSUME NEW d \in Ids
                 PROVE  version[d] <= v[d] /\ v[d] <= edits + 1
      BY <2>1
    <3>1. version[d] \in Nat /\ version[d] <= edits /\ edits \in Nat
      BY <1>1
    <3>2. v[d] = version[d] \/ v[d] = version[d] + 1
      BY <1>2
    <3> QED
      BY <3>1, <3>2
  <2>4. edits' \in 0 .. MaxEdits
    BY <1>1, <2>1
  <2>5. Present' = ToSet(c)
    BY <2>1 DEF Present
  <2>6. \A d \in Present' : d \in Present \/ version[d] = 0
    BY <1>2, <2>5 DEF ToSet
  <2>7. ServerInv'
    BY <1>1, <1>2, <2>1, <2>2, <2>3, <2>4 DEF ServerInv
  <2> QED
    BY <2>2, <2>3, <2>6, <2>7
<1>3. \A i \in DOMAIN config : config[i] \in Present
  BY DEF Present, ToSet
<1>4. ASSUME NEW d \in Ids, AddTestdata(d)
      PROVE  /\ ServerInv'
             /\ \A e \in Ids : version[e] <= version'[e]
             /\ \A e \in Present' : e \in Present \/ version[e] = 0
             /\ UNCHANGED <<sent, inbox, msg, ops, disk, td_file_lock, scoring, interrupts, ghosts>>
  <2> DEFINE c == Append(config, d)
             v == [version EXCEPT ![d] = 1]
  <2>1. version[d] = 0 /\ Edit(c, v)
    BY <1>4 DEF AddTestdata
  <2>2. c \in Seq(Ids) /\ Len(c) = Len(config) + 1 /\ c[Len(config) + 1] = d
        /\ \A i \in 1 .. Len(config) : c[i] = config[i]
    BY <1>1, AppendProperties
  <2>3. DOMAIN c = 1 .. Len(config) + 1
    BY <2>2, LenProperties
  <2>4. \A i \in DOMAIN c : (i = Len(config) + 1 /\ c[i] = d) \/ (i \in DOMAIN config /\ c[i] = config[i])
    <3> HIDE DEF c
    <3>1. \A i \in 1 .. Len(config) + 1 : i = Len(config) + 1 \/ i \in 1 .. Len(config)
      BY <1>1
    <3> QED
      BY <1>1, <2>2, <2>3, <3>1
  <2> HIDE DEF c
  <2>5. \A i \in DOMAIN config : config[i] # d
    BY <1>1, <2>1
  <2>6. \A i, j \in DOMAIN c : c[i] = c[j] => i = j
    BY <1>1, <2>4, <2>5
  <2>7. v \in [Ids -> Nat] /\ (\A e \in Ids : v[e] \in {version[e], version[e] + 1})
    BY <1>1, <2>1
  <2>8. \A i \in DOMAIN c : v[c[i]] > 0
    BY <1>1, <2>4, <2>5
  <2>9. \A i \in DOMAIN c : c[i] \in Present \/ version[c[i]] = 0
    BY <1>3, <2>1, <2>4
  <2> HIDE DEF v
  <2> QED
    BY <1>2, <2>1, <2>2, <2>6, <2>7, <2>8, <2>9
<1>5. ASSUME NEW d \in Ids, ChangeTestdata(d)
      PROVE  /\ ServerInv'
             /\ \A e \in Ids : version[e] <= version'[e]
             /\ \A e \in Present' : e \in Present \/ version[e] = 0
             /\ UNCHANGED <<sent, inbox, msg, ops, disk, td_file_lock, scoring, interrupts, ghosts>>
  <2> DEFINE v == [version EXCEPT ![d] = @ + 1]
  <2>1. Edit(config, v)
    BY <1>5 DEF ChangeTestdata
  <2>2. v \in [Ids -> Nat] /\ (\A e \in Ids : v[e] \in {version[e], version[e] + 1})
    BY <1>1
  <2>3. \A i \in DOMAIN config : v[config[i]] > 0
    BY <1>1
  <2> HIDE DEF v
  <2> QED
    BY <1>1, <1>2, <1>3, <2>1, <2>2, <2>3
<1>6. ASSUME NEW k \in Pos, RemoveTestdata(k)
      PROVE  /\ ServerInv'
             /\ \A e \in Ids : version[e] <= version'[e]
             /\ \A e \in Present' : e \in Present \/ version[e] = 0
             /\ UNCHANGED <<sent, inbox, msg, ops, disk, td_file_lock, scoring, interrupts, ghosts>>
  <2> DEFINE n == Len(config)
             c == RemoveAt(config, k)
             c1 == SubSeq(config, 1, k - 1)
             c2 == SubSeq(config, k + 1, n)
  <2>1. k \in 1 .. n /\ Edit(c, version)
    BY <1>1, <1>6 DEF RemoveTestdata
  <2>2. c1 \in Seq(Ids) /\ Len(c1) = k - 1 /\ \A i \in 1 .. k - 1 : c1[i] = config[i]
    <3>1. 1 \in Int /\ k - 1 \in Int /\ \A i \in 1 .. k - 1 : config[i] \in Ids
      BY <1>1, <2>1
    <3>2. c1 \in Seq(Ids) /\ Len(c1) = (IF 1 <= k - 1 THEN (k - 1) - 1 + 1 ELSE 0)
          /\ \A i \in 1 .. (k - 1) - 1 + 1 : c1[i] = config[1 + i - 1]
      BY <3>1, SubSeqProperties
    <3> QED
      BY <3>2, <2>1, <1>1
  <2>3. c2 \in Seq(Ids) /\ Len(c2) = n - k /\ \A i \in 1 .. n - k : c2[i] = config[k + i]
    <3>1. k + 1 \in Int /\ n \in Int /\ \A i \in k + 1 .. n : config[i] \in Ids
      BY <1>1, <2>1
    <3> HIDE DEF n
    <3>2. c2 \in Seq(Ids) /\ Len(c2) = (IF k + 1 <= n THEN n - (k + 1) + 1 ELSE 0)
          /\ \A i \in 1 .. n - (k + 1) + 1 : c2[i] = config[(k + 1) + i - 1]
      BY <3>1, SubSeqProperties
    <3> HIDE DEF c2
    <3>3. n - (k + 1) + 1 = n - k /\ (k + 1 <= n \/ n - k = 0)
      BY <2>1, <3>1
    <3>4. \A i \in 1 .. n - k : (k + 1) + i - 1 = k + i
      BY <2>1, <3>1
    <3> QED
      BY <3>2, <3>3, <3>4
  <2>4. c \in Seq(Ids) /\ Len(c) = n - 1
        /\ \A i \in 1 .. n - 1 : c[i] = IF i <= k - 1 THEN c1[i] ELSE c2[i - (k - 1)]
    <3>1. c = c1 \o c2
      BY DEF RemoveAt
    <3> HIDE DEF c, c1, c2
    <3>2. c \in Seq(Ids) /\ Len(c) = (k - 1) + (n - k)
          /\ \A i \in 1 .. (k - 1) + (n - k) : c[i] = IF i <= k - 1 THEN c1[i] ELSE c2[i - (k - 1)]
      BY <3>1, <2>2, <2>3, ConcatProperties
    <3>3. (k - 1) + (n - k) = n - 1
      BY <1>1, <2>1
    <3> QED
      BY <3>2, <3>3
  <2>5. DOMAIN c = 1 .. n - 1
    BY <2>4, LenProperties
  <2> HIDE DEF c, c1, c2
  <2>6. \A i \in DOMAIN c : /\ i < k => i \in DOMAIN config /\ c[i] = config[i]
                            /\ i >= k => i + 1 \in DOMAIN config /\ c[i] = config[i + 1]
    <3> SUFFICES ASSUME NEW i \in 1 .. n - 1
                 PROVE  /\ i < k => i \in DOMAIN config /\ c[i] = config[i]
                        /\ i >= k => i + 1 \in DOMAIN config /\ c[i] = config[i + 1]
      BY <2>5
    <3>1. n \in Nat /\ k \in 1 .. n /\ DOMAIN config = 1 .. n
      BY <1>1, <2>1
    <3> HIDE DEF n
    <3>2. CASE i < k
      <4>1. i \in 1 .. k - 1 /\ i <= k - 1 /\ i \in 1 .. n
        BY <3>1, <3>2
      <4> QED
        BY <4>1, <3>1, <3>2, <2>2, <2>4
    <3>3. CASE i >= k
      <4>1. ~(i <= k - 1) /\ i - (k - 1) \in 1 .. n - k /\ k + (i - (k - 1)) = i + 1 /\ i + 1 \in 1 .. n
        BY <3>1, <3>3
      <4>2. c[i] = c2[i - (k - 1)]
        BY <4>1, <2>4
      <4>3. c2[i - (k - 1)] = config[i + 1]
        BY <4>1, <2>3
      <4> QED
        BY <4>1, <4>2, <4>3, <3>1, <3>3
    <3> QED
      BY <3>1, <3>2, <3>3
  <2>10. \A i \in DOMAIN c : i \in Nat /\ (i < k \/ i >= k)
    BY <1>1, <2>1, <2>5
  <2>7. \A i, j \in DOMAIN c : c[i] = c[j] => i = j
    <3> SUFFICES ASSUME NEW i \in DOMAIN c, NEW j \in DOMAIN c, c[i] = c[j] PROVE i = j
      OBVIOUS
    <3> DEFINE oi == IF i < k THEN i ELSE i + 1
               oj == IF j < k THEN j ELSE j + 1
    <3>1. oi \in DOMAIN config /\ c[i] = config[oi] /\ oj \in DOMAIN config /\ c[j] = config[oj]
      BY <2>6, <2>10
    <3>2. oi = oj
      <4> HIDE DEF oi, oj
      <4> QED
        BY <1>1, <3>1
    <3>3. k \in Nat
      BY <1>1, <2>1
    <3> QED
      BY <3>2, <3>3, <2>10
  <2>8. \A i \in DOMAIN c : c[i] \in Present /\ version[c[i]] > 0
    <3> SUFFICES ASSUME NEW i \in DOMAIN c PROVE c[i] \in Present /\ version[c[i]] > 0
      OBVIOUS
    <3>1. PICK j \in DOMAIN config : c[i] = config[j]
      BY <2>6, <2>10
    <3> QED
      BY <1>1, <1>3, <3>1
  <2>9. \A e \in Ids : version[e] \in {version[e], version[e] + 1}
    OBVIOUS
  <2> QED
    BY <1>1, <1>2, <2>1, <2>4, <2>7, <2>8, <2>9
<1>7. ASSUME NEW k \in Pos, SwapTestdata(k)
      PROVE  /\ ServerInv'
             /\ \A e \in Ids : version[e] <= version'[e]
             /\ \A e \in Present' : e \in Present \/ version[e] = 0
             /\ UNCHANGED <<sent, inbox, msg, ops, disk, td_file_lock, scoring, interrupts, ghosts>>
  <2> DEFINE c == [config EXCEPT ![k] = config[k + 1], ![k + 1] = config[k]]
  <2>1. k \in DOMAIN config /\ k + 1 \in DOMAIN config /\ k # k + 1 /\ Edit(c, version)
    <3>1. Cardinality(Ids) \in Nat
      BY StoreAssumption, FS_CardinalityType
    <3> QED
      BY <1>1, <1>7, <3>1 DEF SwapTestdata, Pos
  <2>2. c \in [1 .. Len(config) -> Ids]
    <3>1. config \in [1 .. Len(config) -> Ids]
      BY <1>1, LenProperties
    <3> QED
      BY <1>1, <2>1, <3>1
  <2>3. c \in Seq(Ids)
    <3>1. \A x, N : N \in Nat /\ x \in [1 .. N -> Ids] => x \in Seq(Ids)
      BY SeqDef
    <3> HIDE DEF c
    <3> QED
      BY <1>1, <2>2, <3>1
  <2>4. \A i \in DOMAIN c : c[i] = IF i = k THEN config[k + 1] ELSE IF i = k + 1 THEN config[k] ELSE config[i]
    BY <1>1, <2>1
  <2>5. DOMAIN c = DOMAIN config
    BY <1>1
  <2> HIDE DEF c
  <2>6. \A i, j \in DOMAIN c : c[i] = c[j] => i = j
    BY <1>1, <2>1, <2>4, <2>5
  <2>7. \A i \in DOMAIN c : c[i] \in Present /\ version[c[i]] > 0
    BY <1>1, <1>3, <2>1, <2>4, <2>5
  <2>8. \A e \in Ids : version[e] \in {version[e], version[e] + 1}
    OBVIOUS
  <2> QED
    BY <1>1, <1>2, <2>1, <2>3, <2>6, <2>7, <2>8
<1> QED
  BY <1>4, <1>5, <1>6, <1>7 DEF EditProblem

\* The ids of the problem's list are distinct: it is no longer than there are ids.
LEMMA ConfigBound ==
  ASSUME ServerInv
  PROVE  /\ Cardinality(Ids) \in Nat
         /\ Len(config) \in 0 .. Cardinality(Ids)
         /\ config \in [1 .. Len(config) -> Ids]
<1>1. Cardinality(Ids) \in Nat /\ IsFiniteSet(Ids)
  BY StoreAssumption, FS_CardinalityType
<1>2. Len(config) \in Nat /\ config \in [1 .. Len(config) -> Ids]
  BY LenProperties DEF ServerInv
<1>3. config \in Injection(1 .. Len(config), Ids)
  BY <1>2 DEF ServerInv, Injection, IsInjective
<1>4. Cardinality(1 .. Len(config)) <= Cardinality(Ids)
  BY <1>1, <1>3, FS_Injection
<1>5. Cardinality(1 .. Len(config)) = Len(config)
  BY <1>2, FS_Interval
<1> QED
  BY <1>1, <1>2, <1>4, <1>5

\* What SendSubmission puts into the message.
SentMessage ==
  [seq |-> sent + 1, td |-> [i \in DOMAIN config |-> [id |-> config[i], timestamp |-> version[config[i]]]]]

\* A message carries the problem's list with the present versions.
LEMMA SendFacts ==
  ASSUME ServerInv
  PROVE  /\ SentMessage \in Message
         /\ SentMessage.seq = sent + 1
         /\ \A i \in DOMAIN SentMessage.td : SentMessage.td[i].timestamp = version[SentMessage.td[i].id]
         /\ IdsOf(SentMessage.td) = Present
<1> DEFINE td == [i \in DOMAIN config |-> [id |-> config[i], timestamp |-> version[config[i]]]]
           T == [id : Ids, timestamp : 1 .. MaxEdits]
<1>1. /\ Cardinality(Ids) \in Nat
      /\ Len(config) \in 0 .. Cardinality(Ids)
      /\ config \in [1 .. Len(config) -> Ids]
  BY ConfigBound
<1>2. \A i \in DOMAIN config : config[i] \in Ids /\ version[config[i]] \in 1 .. MaxEdits
  <2> SUFFICES ASSUME NEW i \in DOMAIN config
               PROVE  config[i] \in Ids /\ version[config[i]] \in 1 .. MaxEdits
    OBVIOUS
  <2>1. config[i] \in Ids
    BY <1>1
  <2>2. version[config[i]] \in Nat /\ version[config[i]] > 0 /\ version[config[i]] <= edits
    BY <2>1 DEF ServerInv
  <2>3. edits \in Nat /\ edits <= MaxEdits /\ MaxEdits \in Nat
    BY StoreAssumption DEF ServerInv
  <2> QED
    BY <2>1, <2>2, <2>3
<1>3. \A i \in DOMAIN config : [id |-> config[i], timestamp |-> version[config[i]]] \in T
  BY <1>2
<1>4. DOMAIN td = DOMAIN config /\ \A i \in DOMAIN td : td[i].id = config[i] /\ td[i].timestamp = version[config[i]]
  OBVIOUS
<1> HIDE DEF T
<1>5. td \in [1 .. Len(config) -> T]
  BY <1>1, <1>3
<1> HIDE DEF td
<1>6. td \in BoundedSeq(T, Cardinality(Ids))
  BY <1>1, <1>5 DEF BoundedSeq, SeqOf
<1>7. \A i, j \in DOMAIN td : td[i].id = td[j].id => i = j
  BY <1>4 DEF ServerInv
<1>8. td \in TdList
  BY <1>6, <1>7 DEF TdList, T
<1>9. SentMessage = [seq |-> sent + 1, td |-> td]
  BY DEF SentMessage, td
<1>10. sent + 1 \in Nat \ {0}
  BY DEF ServerInv
<1>11. SentMessage.seq = sent + 1 /\ SentMessage.td = td /\ SentMessage \in Message
  BY <1>8, <1>9, <1>10 DEF Message
<1>12. IdsOf(td) = Present
  BY <1>4 DEF IdsOf, Present, ToSet
<1> QED
  BY <1>4, <1>11, <1>12

-----------------------------------------------------------------------------
(* The steps of an update *)

\* The operation that is next, by its kind.
LEMMA HeadForms ==
  ASSUME MessageInv, IdleInv, PlanInv, ops # <<>>
  PROVE  /\ msg # None /\ Known(msg) /\ msg.td \in TdList
         /\ ops[1] \in OpSet(db, msg.td)
         /\ Doing("get") => /\ ops[1] = <<"get", d1, f1>> /\ Rank(ops[1]) = 1 /\ f1 \in Kinds
                            /\ \E i \in Stale(db, msg.td) : d1 = msg.td[i].id
         /\ Doing("lock") => ops[1] = <<"lock">> /\ Rank(ops[1]) = 2
         /\ Doing("rename") => /\ ops[1] = <<"rename", d1, f1>> /\ Rank(ops[1]) = 3 /\ f1 \in Kinds
                               /\ \E i \in Stale(db, msg.td) : d1 = msg.td[i].id
         /\ Doing("remove") => /\ ops[1] = <<"remove", d1, f1>> /\ Rank(ops[1]) = 4 /\ f1 \in Kinds
                               /\ d1 \in Gone(db, msg.td)
         /\ Doing("unlink") => /\ ops[1] = <<"unlink", d1, f1>> /\ Rank(ops[1]) = 5 /\ f1 \in Kinds
                               /\ d1 \in Touches(db, msg.td)
         /\ Doing("link") => /\ ops[1] = <<"link", d1, f1, msg.td[d1].id>> /\ Rank(ops[1]) = 5 /\ f1 \in Kinds
                             /\ d1 \in Moved(db, msg.td) /\ ops[1][4] = msg.td[d1].id
         /\ Doing("unlock") => ops[1] = <<"unlock">> /\ Rank(ops[1]) = 6
         /\ Doing("update") => ops[1] = <<"update">> /\ Rank(ops[1]) = 7
<1>1. msg # None
  BY DEF IdleInv
<1>2. Known(msg) /\ msg.td \in TdList
  BY <1>1 DEF MessageInv, Known, Message
<1>3. ops[1] \in OpSet(db, msg.td)
  <2>1. ops \in Seq(OpSet(db, msg.td))
    BY <1>1 DEF PlanInv, Remainder
  <2>2. Len(ops) \in Nat \ {0}
    BY <2>1, EmptySeq
  <2>3. 1 \in 1 .. Len(ops)
    BY <2>2
  <2> QED
    BY <2>1, <2>3, ElementOfSeq
<1> DEFINE h == ops[1]
           S == Stale(db, msg.td)
<1>4. \/ h = <<"lock">> /\ Rank(h) = 2
      \/ h = <<"unlock">> /\ Rank(h) = 6
      \/ h = <<"update">> /\ Rank(h) = 7
      \/ \E i \in S, f \in Kinds : h = <<"get", msg.td[i].id, f>> /\ Rank(h) = 1
      \/ \E i \in S, f \in Kinds : h = <<"rename", msg.td[i].id, f>> /\ Rank(h) = 3
      \/ \E d \in Gone(db, msg.td), f \in Kinds : h = <<"remove", d, f>> /\ Rank(h) = 4
      \/ \E p \in Touches(db, msg.td), f \in Kinds : h = <<"unlink", p, f>> /\ Rank(h) = 5
      \/ \E i \in Moved(db, msg.td), f \in Kinds : h = <<"link", i, f, msg.td[i].id>> /\ Rank(h) = 5
  BY <1>3, OpForms
<1>5. \A x : Doing(x) => h[1] = x
  BY DEF Doing
<1>6. d1 = h[2] /\ f1 = h[3]
  BY DEF d1, f1
<1> HIDE DEF h, S
<1>7. Doing("get") => /\ h = <<"get", d1, f1>> /\ Rank(h) = 1 /\ f1 \in Kinds
                      /\ \E i \in S : d1 = msg.td[i].id
  BY <1>4, <1>5, <1>6
<1>8. Doing("lock") => h = <<"lock">> /\ Rank(h) = 2
  BY <1>4, <1>5
<1>9. Doing("rename") => /\ h = <<"rename", d1, f1>> /\ Rank(h) = 3 /\ f1 \in Kinds
                         /\ \E i \in S : d1 = msg.td[i].id
  BY <1>4, <1>5, <1>6
<1>10. Doing("remove") => /\ h = <<"remove", d1, f1>> /\ Rank(h) = 4 /\ f1 \in Kinds
                          /\ d1 \in Gone(db, msg.td)
  BY <1>4, <1>5, <1>6
<1>11. Doing("unlink") => /\ h = <<"unlink", d1, f1>> /\ Rank(h) = 5 /\ f1 \in Kinds
                          /\ d1 \in Touches(db, msg.td)
  BY <1>4, <1>5, <1>6
<1>12. Doing("link") => /\ h = <<"link", d1, f1, msg.td[d1].id>> /\ Rank(h) = 5 /\ f1 \in Kinds
                        /\ d1 \in Moved(db, msg.td) /\ h[4] = msg.td[d1].id
  BY <1>4, <1>5, <1>6
<1>13. Doing("unlock") => h = <<"unlock">> /\ Rank(h) = 6
  BY <1>4, <1>5
<1>14. Doing("update") => h = <<"update">> /\ Rank(h) = 7
  BY <1>4, <1>5
<1> QED
  BY <1>1, <1>2, <1>3, <1>7, <1>8, <1>9, <1>10, <1>11, <1>12, <1>13, <1>14 DEF h, S

\* The kinds of operations are different: the first one, once done, is not left
\* unless it is repeated.
LEMMA PlanStep ==
  ASSUME MessageInv, IdleInv, PlanInv, UpdateStep
  PROVE  /\ PlanInv'
         /\ Todo = {ops[1]} \cup Todo'
         /\ \A op \in Todo' : /\ op \in OpSet(db, msg.td)
                              /\ Rank(ops[1]) <= Rank(op)
                              /\ Rank(ops[1]) \in {2, 6, 7} => Rank(ops[1]) < Rank(op)
         /\ Doing("unlink") /\ d1 \in DOMAIN msg.td => Final(msg.td, d1, f1) \in Todo'
         /\ Doing("link") => d1 \in touched
         /\ Doing("rename") => ops[1] \notin Todo'
         /\ \A p : Busy(ops', p) => Busy(ops, p)
         /\ Rank(ops[1]) = 5 => Busy(ops, d1)
         /\ UpdateDatabase => ops' = <<>>
         /\ ~Doing("update") => ops' # <<>>
         /\ Rank(ops[1]) \in 3 .. 6 => td_file_lock = "deal"
<1> DEFINE td == msg.td
           h == ops[1]
           O == OpSet(db, td)
<1>1. ops # <<>> /\ ops' = Tail(ops) /\ msg' = msg
  BY DEF UpdateStep
<1>2. /\ msg # None /\ td \in TdList /\ h \in O
      /\ Doing("lock") => h = <<"lock">> /\ Rank(h) = 2
      /\ Doing("unlock") => h = <<"unlock">> /\ Rank(h) = 6
      /\ Doing("update") => h = <<"update">> /\ Rank(h) = 7
  BY <1>1, HeadForms
<1>3. /\ Remainder(O, td, ops, touched)
      /\ <<"update">> \in Todo
      /\ (\E op \in Todo : Rank(op) <= 6) => <<"unlock">> \in Todo
      /\ td_file_lock = "deal" <=> <<"unlock">> \in Todo /\ <<"lock">> \notin Todo
      /\ <<"lock">> \in Todo => touched = {}
  BY <1>1, <1>2 DEF PlanInv
<1>4. touched \subseteq touched' /\ (h[1] = "unlink" => h[2] \in touched')
  BY <1>1 DEF UpdateStep, Download, Lock, Rename, RemoveFile, Unlink, CreateSymlink, Unlock, UpdateDatabase, Doing, d1
<1>5. /\ Remainder(O, td, ops', touched')
      /\ Todo = {h} \cup Todo'
      /\ \A op \in Todo' : /\ Rank(h) <= Rank(op)
                           /\ Rank(h) \in {2, 6, 7} => Rank(h) < Rank(op)
      /\ h[1] = "unlink" /\ h[2] \in DOMAIN td => Final(td, h[2], h[3]) \in Todo'
      /\ h[1] = "link" => h[2] \in touched
      /\ h[1] = "rename" => h \notin Todo'
      /\ \A p : Busy(ops', p) => Busy(ops, p)
      /\ Rank(h) = 5 => Busy(ops, h[2])
  <2>1. /\ Remainder(O, td, Tail(ops), touched')
        /\ ToSet(ops) = {ops[1]} \cup ToSet(Tail(ops))
        /\ \A op \in ToSet(Tail(ops)) : /\ Rank(ops[1]) <= Rank(op)
                                        /\ Rank(ops[1]) \in {2, 6, 7} => Rank(ops[1]) < Rank(op)
        /\ ops[1][1] = "unlink" /\ ops[1][2] \in DOMAIN td => Final(td, ops[1][2], ops[1][3]) \in ToSet(Tail(ops))
        /\ ops[1][1] = "link" => ops[1][2] \in touched
        /\ ops[1][1] = "rename" => ops[1] \notin ToSet(Tail(ops))
        /\ \A p : Busy(Tail(ops), p) => Busy(ops, p)
        /\ Rank(ops[1]) = 5 => Busy(ops, ops[1][2])
    <3> HIDE DEF O, td
    <3> QED
      BY <1>1, <1>3, <1>4, TailPlan
  <2>2. Todo = ToSet(ops) /\ Todo' = ToSet(Tail(ops))
    BY <1>1 DEF Todo
  <2>3. ops' = Tail(ops)
    BY <1>1
  <2> HIDE DEF O, td
  <2>4. Remainder(O, td, ops', touched') /\ \A p : Busy(ops', p) => Busy(ops, p)
    BY <2>1, <2>3
  <2>5. /\ Todo = {h} \cup Todo'
        /\ \A op \in Todo' : /\ Rank(h) <= Rank(op)
                             /\ Rank(h) \in {2, 6, 7} => Rank(h) < Rank(op)
    BY <2>1, <2>2
  <2>6. /\ h[1] = "unlink" /\ h[2] \in DOMAIN td => Final(td, h[2], h[3]) \in Todo'
        /\ h[1] = "link" => h[2] \in touched
        /\ h[1] = "rename" => h \notin Todo'
        /\ Rank(h) = 5 => Busy(ops, h[2])
    BY <2>1, <2>2
  <2> QED
    BY <2>4, <2>5, <2>6
<1>6. \A op \in Todo' : op \in O /\ Rank(op) \in 1 .. 7
  <2>1. ops' \in Seq(O)
    BY <1>5 DEF Remainder
  <2>2. \A op \in Todo' : op \in O
    BY <2>1, LenProperties, ElementOfSeq DEF Todo, ToSet
  <2>3. \A op \in O : Rank(op) \in 1 .. 7
    BY OpForms
  <2> QED
    BY <2>2, <2>3
<1>7. Rank(<<"lock">>) = 2 /\ Rank(<<"unlock">>) = 6 /\ Rank(<<"update">>) = 7
  BY DEF Rank
<1>8. Rank(h) \in 1 .. 7
  BY <1>2, OpForms
<1>9. Doing("update") => ops' = <<>>
  <2> SUFFICES ASSUME Doing("update"), ops' # <<>>
               PROVE  FALSE
    OBVIOUS
  <2>1. ops' \in Seq(O) /\ Rank(h) = 7
    BY <1>2, <1>5 DEF Remainder
  <2>2. 1 \in DOMAIN ops'
    BY <2>1, EmptySeq, LenProperties
  <2>3. ops'[1] \in Todo'
    BY <2>2 DEF Todo, ToSet
  <2> QED
    BY <2>1, <2>3, <1>5, <1>6
<1>10. ~Doing("update") => <<"update">> \in Todo'
  <2>1. ~Doing("update") => h # <<"update">>
    BY <1>1 DEF Doing
  <2> QED
    BY <2>1, <1>3, <1>5
<1>11. <<"update">> \in Todo' => ops' # <<>>
  BY DEF Todo, ToSet
<1>12. Rank(h) \in 3 .. 6 => td_file_lock = "deal"
  <2> SUFFICES ASSUME Rank(h) \in 3 .. 6
               PROVE  td_file_lock = "deal"
    OBVIOUS
  <2>1. <<"unlock">> \in Todo
    BY <1>3, <1>5
  <2>2. <<"lock">> \notin Todo
    BY <1>5, <1>7, <1>8
  <2> QED
    BY <2>1, <2>2, <1>3
<1>13. (\E op \in Todo' : Rank(op) <= 6) => <<"unlock">> \in Todo'
  <2> SUFFICES ASSUME NEW op \in Todo', Rank(op) <= 6
               PROVE  <<"unlock">> \in Todo'
    OBVIOUS
  <2>1. Rank(h) <= 6 /\ Rank(h) # 6
    BY <1>5, <1>6, <1>8
  <2>2. <<"unlock">> \in Todo
    BY <1>3, <1>5
  <2> QED
    BY <2>1, <2>2, <1>5, <1>7
<1>14. td_file_lock' = "deal" <=> <<"unlock">> \in Todo' /\ <<"lock">> \notin Todo'
  <2>1. CASE Lock
    <3>1. h = <<"lock">> /\ Rank(h) = 2 /\ td_file_lock' = "deal"
      BY <2>1, <1>2 DEF Lock
    <3>2. <<"lock">> \notin Todo'
      BY <3>1, <1>5
    <3>3. <<"unlock">> \in Todo
      BY <3>1, <1>3, <1>5
    <3>4. <<"unlock">> \in Todo'
      BY <3>1, <3>3, <1>5, <1>7
    <3> QED
      BY <3>1, <3>2, <3>4
  <2>2. CASE Unlock
    <3>1. h = <<"unlock">> /\ Rank(h) = 6 /\ td_file_lock' = None
      BY <2>2, <1>2 DEF Unlock
    <3>2. <<"unlock">> \notin Todo'
      BY <3>1, <1>5
    <3> QED
      BY <3>1, <3>2, NoneAssumption
  <2>3. CASE Download \/ Rename \/ RemoveFile \/ Unlink \/ CreateSymlink \/ UpdateDatabase
    <3>1. td_file_lock' = td_file_lock /\ h[1] # "lock" /\ h[1] # "unlock"
      BY <2>3 DEF Download, Rename, RemoveFile, Unlink, CreateSymlink, UpdateDatabase, Doing
    <3>2. h # <<"lock">> /\ h # <<"unlock">>
      BY <3>1
    <3> QED
      BY <3>1, <3>2, <1>3, <1>5
  <2> QED
    BY <2>1, <2>2, <2>3 DEF UpdateStep
<1>15. <<"lock">> \in Todo' => touched' = {}
  <2> SUFFICES ASSUME <<"lock">> \in Todo'
               PROVE  touched' = {}
    OBVIOUS
  <2>1. touched = {} /\ Rank(h) <= 2
    BY <1>3, <1>5, <1>7
  <2>2. ~Doing("unlink")
    BY <1>1, <2>1, HeadForms
  <2>3. touched' = touched
    BY <2>2 DEF UpdateStep, Download, Lock, Rename, RemoveFile, Unlink, CreateSymlink, Unlock, UpdateDatabase
  <2> QED
    BY <2>1, <2>3
<1>16. Remainder(OpSet(db', td), td, ops', touched')
  <2>1. CASE Doing("update")
    <3>1. ops' = <<>> /\ DOMAIN ops' = {}
      BY <2>1, <1>9
    <3> QED
      BY <3>1, EmptySeq DEF Remainder, Ordered, Relinks, Unlinked, RenamesOnce
  <2>2. CASE ~Doing("update")
    <3>1. db' = db
      BY <2>2 DEF UpdateStep, Download, Lock, Rename, RemoveFile, Unlink, CreateSymlink, Unlock, UpdateDatabase, disk
    <3> QED
      BY <3>1, <1>5
  <2> QED
    BY <2>1, <2>2
<1>17. ops' # <<>> => <<"update">> \in Todo'
  BY <1>9, <1>10
<1>18. PlanInv'
  BY <1>1, <1>13, <1>14, <1>15, <1>16, <1>17 DEF PlanInv
<1>19. /\ Doing("unlink") => h[1] = "unlink"
       /\ Doing("link") => h[1] = "link"
       /\ Doing("rename") => h[1] = "rename"
       /\ UpdateDatabase => Doing("update")
       /\ d1 = h[2] /\ f1 = h[3]
  BY DEF Doing, UpdateDatabase, d1, f1
<1> HIDE DEF h, td, O
<1>20. /\ Doing("unlink") /\ d1 \in DOMAIN td => Final(td, d1, f1) \in Todo'
       /\ Doing("link") => d1 \in touched
       /\ Doing("rename") => h \notin Todo'
       /\ Rank(h) = 5 => Busy(ops, d1)
       /\ UpdateDatabase => ops' = <<>>
       /\ ~Doing("update") => ops' # <<>>
  BY <1>5, <1>9, <1>10, <1>11, <1>19
<1> QED
  BY <1>5, <1>6, <1>12, <1>18, <1>20 DEF h, td, O

-----------------------------------------------------------------------------
(* Types, the plan and the lock *)

BaseInv == ServerInv /\ MessageInv /\ DiskInv /\ LockInv /\ IdleInv /\ PlanInv

\* What the update has done so far, and what an earlier one left.
WorkInv == FetchInv /\ LinkInv /\ DoneInv /\ PairInv /\ PendingInv /\ RetryRepairs

\* A step of the server or of the worker is none of the update.
LEMMA UpdateFrame ==
  ASSUME UNCHANGED <<msg, ops, disk, touched, torn, pending>>,
         td_file_lock' = "deal" <=> td_file_lock = "deal"
  PROVE  /\ IdleInv => IdleInv'
         /\ PlanInv => PlanInv'
         /\ WorkInv => WorkInv'
<1>1. /\ msg' = msg /\ ops' = ops /\ pool' = pool /\ tmp' = tmp /\ link' = link /\ db' = db
      /\ touched' = touched /\ torn' = torn /\ pending' = pending /\ Todo' = Todo
  BY DEF disk, Todo
<1>2. IdleInv => IdleInv'
  BY <1>1 DEF IdleInv
<1>3. PlanInv => PlanInv'
  BY <1>1 DEF PlanInv
<1>4. FetchInv => FetchInv'
  BY <1>1 DEF FetchInv
<1>5. LinkInv => LinkInv'
  BY <1>1 DEF LinkInv
<1>6. DoneInv => DoneInv'
  BY <1>1 DEF DoneInv
<1>7. PairInv => PairInv'
  BY <1>1 DEF PairInv
<1>8. PendingInv => PendingInv'
  BY <1>1 DEF PendingInv, Accepted
<1>9. RetryRepairs => RetryRepairs'
  BY <1>1 DEF RetryRepairs, Accepted
<1> QED
  BY <1>2, <1>3, <1>4, <1>5, <1>6, <1>7, <1>8, <1>9 DEF WorkInv

\* A message stays known when the server goes on.
LEMMA KnownKept ==
  ASSUME NEW m, Known(m), ServerInv,
         sent <= sent', sent' \in Nat,
         \A d \in Ids : version[d] <= version'[d] /\ version'[d] \in Nat
  PROVE  /\ m \in Message
         /\ m.seq <= sent'
         /\ \A i \in DOMAIN m.td : m.td[i].timestamp <= version'[m.td[i].id]
<1>1. m \in Message /\ m.seq \in Nat /\ m.td \in TdList
  BY DEF Known, Message
<1>2. m.seq <= sent'
  BY <1>1 DEF Known, ServerInv
<1>3. ASSUME NEW i \in DOMAIN m.td
      PROVE  m.td[i].timestamp <= version'[m.td[i].id]
  <2>1. m.td[i].id \in Ids /\ m.td[i].timestamp \in 1 .. MaxEdits
    BY <1>1, TdFacts
  <2>2. m.td[i].timestamp <= version[m.td[i].id] /\ version[m.td[i].id] \in Nat
    BY <2>1 DEF Known, ServerInv
  <2>3. m.td[i].timestamp \in Nat
    BY <2>1, StoreAssumption
  <2> QED
    BY <2>1, <2>2, <2>3
<1> QED
  BY <1>1, <1>2, <1>3

\* The steps of the server.
LEMMA ServerBase ==
  ASSUME BaseInv, EditProblem \/ SendSubmission
  PROVE  BaseInv'
<1>1. /\ ServerInv'
      /\ sent <= sent' /\ sent' \in Nat
      /\ \A d \in Ids : version[d] <= version'[d] /\ version'[d] \in Nat
      /\ UNCHANGED <<msg, ops, disk, td_file_lock, scoring, interrupts, ghosts>>
  <2>1. CASE EditProblem
    <3>1. /\ ServerInv'
          /\ \A d \in Ids : version[d] <= version'[d]
          /\ UNCHANGED <<sent, inbox, msg, ops, disk, td_file_lock, scoring, interrupts, ghosts>>
      BY <2>1, EditFacts DEF BaseInv
    <3> QED
      BY <3>1 DEF BaseInv, ServerInv
  <2>2. CASE SendSubmission
    <3>1. sent' = sent + 1 /\ UNCHANGED <<config, version, edits, msg, ops, disk, td_file_lock, scoring, interrupts, ghosts>>
      BY <2>2 DEF SendSubmission
    <3> QED
      BY <3>1 DEF BaseInv, ServerInv
  <2> QED
    BY <2>1, <2>2
<1>2. /\ msg' = msg /\ ops' = ops /\ pool' = pool /\ tmp' = tmp /\ link' = link /\ db' = db
      /\ td_file_lock' = td_file_lock /\ scoring' = scoring /\ interrupts' = interrupts
      /\ touched' = touched /\ torn' = torn /\ newest' = newest /\ reordered' = reordered
  BY <1>1 DEF disk, ghosts
<1>3. IdleInv' /\ PlanInv'
  BY <1>1, UpdateFrame DEF BaseInv, ghosts
<1>4. LockInv'
  BY <1>2 DEF BaseInv, LockInv
<1>5. DiskInv'
  <2>1. ASSUME NEW d \in Ids, db[d] # None PROVE db[d].timestamp <= version'[d]
    <3>1. db[d] \in Row /\ db[d].timestamp <= version[d] /\ version[d] \in Nat
      BY <2>1 DEF BaseInv, DiskInv, ServerInv
    <3>2. db[d].timestamp \in Nat
      BY <3>1, StoreAssumption DEF Row
    <3> QED
      BY <3>1, <3>2, <1>1
  <2> QED
    BY <1>2, <2>1 DEF BaseInv, DiskInv
<1>6. \A m \in inbox' : (m \in Message /\ m.seq <= sent'
                         /\ \A i \in DOMAIN m.td : m.td[i].timestamp <= version'[m.td[i].id]) /\ m.seq # newest
  <2> SUFFICES ASSUME NEW m \in inbox'
               PROVE  /\ m \in Message /\ m.seq <= sent'
                      /\ \A i \in DOMAIN m.td : m.td[i].timestamp <= version'[m.td[i].id]
                      /\ m.seq # newest
    OBVIOUS
  <2>1. CASE m \in inbox
    <3>1. Known(m) /\ m.seq # newest
      BY <2>1 DEF BaseInv, MessageInv
    <3> QED
      BY <3>1, <1>1, KnownKept DEF BaseInv
  <2>2. CASE m \notin inbox
    <3>1. SendSubmission
      BY <2>2, EditFacts DEF BaseInv
    <3>2. m = SentMessage /\ sent' = sent + 1 /\ version' = version
      BY <2>2, <3>1 DEF SendSubmission, SentMessage
    <3>3. m \in Message /\ m.seq = sent + 1 /\ \A i \in DOMAIN m.td : m.td[i].timestamp = version[m.td[i].id]
      BY <3>2, SendFacts DEF BaseInv
    <3>4. newest \in 0 .. sent /\ sent \in Nat
      BY DEF BaseInv, MessageInv, ServerInv
    <3>5. \A i \in DOMAIN m.td : m.td[i].id \in Ids
      BY <3>3, TdFacts DEF Message
    <3>6. \A i \in DOMAIN m.td : m.td[i].timestamp <= version'[m.td[i].id]
      BY <3>2, <3>3, <3>5 DEF BaseInv, ServerInv
    <3> QED
      BY <3>2, <3>3, <3>4, <3>6
  <2> QED
    BY <2>1, <2>2
<1>7. \A m, n \in inbox' : m.seq = n.seq => m = n
  <2>1. CASE inbox' = inbox
    BY <2>1 DEF BaseInv, MessageInv
  <2>2. CASE inbox' = inbox \cup {SentMessage}
    <3>1. SentMessage.seq = sent + 1
      BY SendFacts DEF BaseInv
    <3>2. \A m \in inbox : m.seq \in Nat /\ m.seq <= sent
      BY DEF BaseInv, MessageInv, Known, Message
    <3>3. \A m, n \in inbox : m.seq = n.seq => m = n
      BY DEF BaseInv, MessageInv
    <3>4. sent \in Nat
      BY DEF BaseInv, ServerInv
    <3> QED
      BY <2>2, <3>1, <3>2, <3>3, <3>4
  <2>3. inbox' = inbox \/ inbox' = inbox \cup {SentMessage}
    BY EditFacts DEF BaseInv, SendSubmission, SentMessage
  <2> QED
    BY <2>1, <2>2, <2>3
<1>8. MessageInv'
  <2>1. msg # None => /\ msg \in Message /\ msg.seq <= sent'
                      /\ \A i \in DOMAIN msg.td : msg.td[i].timestamp <= version'[msg.td[i].id]
                      /\ ~reordered => msg.seq = newest
    <3> SUFFICES ASSUME msg # None
                 PROVE  /\ msg \in Message /\ msg.seq <= sent'
                        /\ \A i \in DOMAIN msg.td : msg.td[i].timestamp <= version'[msg.td[i].id]
                        /\ ~reordered => msg.seq = newest
      OBVIOUS
    <3>1. Known(msg) /\ (~reordered => msg.seq = newest)
      BY DEF BaseInv, MessageInv
    <3> QED
      BY <3>1, <1>1, KnownKept DEF BaseInv
  <2>2. newest' \in 0 .. sent' /\ reordered' \in BOOLEAN
    BY <1>1, <1>2 DEF BaseInv, MessageInv, ServerInv
  <2> QED
    BY <1>2, <1>6, <1>7, <2>1, <2>2 DEF MessageInv, Known
<1> QED
  BY <1>1, <1>3, <1>4, <1>5, <1>8 DEF BaseInv

\* A message is taken: the plan.
LEMMA TakeBase ==
  ASSUME BaseInv, NEW m \in inbox, TakeMessage(m)
  PROVE  /\ BaseInv'
         /\ msg' = m /\ m \in Message /\ touched = {}
         /\ ops' # <<>>
         /\ \A i \in Stale(db, m.td), f \in Kinds : <<"get", m.td[i].id, f>> \in Todo' /\ <<"rename", m.td[i].id, f>> \in Todo'
         /\ \A p \in Touches(db, m.td), f \in Kinds : <<"unlink", p, f>> \in Todo'
         /\ \A i \in Moved(db, m.td), f \in Kinds : <<"link", i, f, m.td[i].id>> \in Todo'
<1>1. /\ msg = None /\ msg' = m /\ ops' = Operations(m) /\ inbox' = inbox \ {m}
      /\ newest' = (IF m.seq > newest THEN m.seq ELSE newest)
      /\ reordered' = (reordered \/ m.seq < newest)
      /\ config' = config /\ version' = version /\ edits' = edits /\ sent' = sent
      /\ pool' = pool /\ tmp' = tmp /\ link' = link /\ db' = db /\ td_file_lock' = td_file_lock
      /\ scoring' = scoring /\ interrupts' = interrupts /\ touched' = touched /\ torn' = torn /\ pending' = pending
  BY DEF TakeMessage, server, disk
<1>2. Known(m) /\ m \in Message /\ m.td \in TdList /\ m.seq \in Nat /\ m.seq <= sent /\ m.seq # newest
  BY DEF BaseInv, MessageInv, Known, Message
<1>3. newest \in 0 .. sent /\ sent \in Nat /\ reordered \in BOOLEAN
  BY DEF BaseInv, MessageInv, ServerInv
<1>4. touched = {} /\ td_file_lock # "deal"
  BY <1>1 DEF BaseInv, IdleInv
<1> DEFINE s == Operations(m)
           O == OpSet(db, m.td)
<1>5. /\ Plan(O, m.td, s, 7)
      /\ {<<"lock">>, <<"unlock">>, <<"update">>} \subseteq ToSet(s)
      /\ \A i \in Stale(db, m.td), f \in Kinds : <<"get", m.td[i].id, f>> \in ToSet(s) /\ <<"rename", m.td[i].id, f>> \in ToSet(s)
      /\ \A p \in Touches(db, m.td), f \in Kinds : <<"unlink", p, f>> \in ToSet(s)
      /\ \A i \in Moved(db, m.td), f \in Kinds : <<"link", i, f, m.td[i].id>> \in ToSet(s)
  BY <1>2, OperationsShape DEF BaseInv, DiskInv
<1> HIDE DEF s, O
<1>6. Todo' = ToSet(s)
  BY <1>1 DEF Todo, s
<1>7. PlanInv'
  <2>1. Remainder(O, m.td, s, {})
    BY <1>5 DEF Plan, Remainder
  <2>2. Remainder(OpSet(db', msg'.td), msg'.td, ops', touched')
    BY <2>1, <1>1, <1>4 DEF O, s
  <2>3. {<<"lock">>, <<"unlock">>, <<"update">>} \subseteq Todo'
    BY <1>5, <1>6
  <2> QED
    BY <2>2, <2>3, <1>1, <1>4 DEF PlanInv
<1>8. ServerInv' /\ DiskInv' /\ LockInv'
  BY <1>1 DEF BaseInv, ServerInv, DiskInv, LockInv
<1>9. m # None
  <2>1. m \in [seq : Nat, td : TdList]
    BY <1>2 DEF Message
  <2> QED
    BY <2>1, NoneAssumption
<1>10. IdleInv'
  BY <1>1, <1>9 DEF IdleInv
<1>11. MessageInv'
  <2>1. \A n \in inbox' : Known(n)' /\ n.seq # newest'
    <3> SUFFICES ASSUME NEW n \in inbox'
                 PROVE  Known(n)' /\ n.seq # newest'
      OBVIOUS
    <3>1. n \in inbox /\ n # m
      BY <1>1
    <3>2. Known(n) /\ n.seq # newest /\ n.seq # m.seq
      BY <3>1 DEF BaseInv, MessageInv
    <3>3. Known(n)'
      BY <1>1, <3>2 DEF Known
    <3> QED
      BY <1>1, <3>2, <3>3
  <2>2. \A n1, n2 \in inbox' : n1.seq = n2.seq => n1 = n2
    BY <1>1 DEF BaseInv, MessageInv
  <2>3. newest' \in 0 .. sent' /\ reordered' \in BOOLEAN
    BY <1>1, <1>2, <1>3
  <2>4. Known(m)'
    BY <1>1, <1>2 DEF Known
  <2>5. ~reordered' => m.seq = newest'
    <3>1. ~reordered' => ~(m.seq < newest)
      BY <1>1, Zenon
    <3>2. ~(m.seq < newest) => m.seq = newest'
      BY <1>1, <1>2, <1>3
    <3> QED
      BY <3>1, <3>2
  <2> QED
    BY <1>1, <2>1, <2>2, <2>3, <2>4, <2>5 DEF MessageInv, Known
<1>12. ops' # <<>>
  BY <1>5, <1>6 DEF Todo, ToSet
<1> QED
  BY <1>1, <1>2, <1>4, <1>5, <1>6, <1>7, <1>8, <1>10, <1>11, <1>12 DEF BaseInv

\* What an operation changes is what the plan says.
LEMMA UpdateBase ==
  ASSUME BaseInv, UpdateStep
  PROVE  BaseInv'
<1>1. /\ ops # <<>> /\ msg' = msg /\ inbox' = inbox
      /\ config' = config /\ version' = version /\ edits' = edits /\ sent' = sent
      /\ scoring' = scoring /\ interrupts' = interrupts /\ pending' = pending
      /\ newest' = newest /\ reordered' = reordered
  BY DEF UpdateStep, server
<1>2. MessageInv /\ IdleInv /\ PlanInv /\ DiskInv /\ ServerInv /\ LockInv
  BY DEF BaseInv
<1>3. PlanInv' /\ (Rank(ops[1]) \in 3 .. 6 => td_file_lock = "deal")
  BY <1>2, PlanStep
<1>4. msg # None /\ Known(msg) /\ msg.td \in TdList
  BY <1>1, <1>2, HeadForms
<1>5. /\ DOMAIN msg.td \subseteq Pos
      /\ \A i \in DOMAIN msg.td : msg.td[i].id \in Ids /\ msg.td[i].timestamp \in 1 .. MaxEdits
      /\ \A i, j \in DOMAIN msg.td : msg.td[i].id = msg.td[j].id => i = j
  BY <1>4, TdFacts
<1>6. /\ \A i \in Stale(db, msg.td) : msg.td[i].id \in Ids
      /\ Gone(db, msg.td) \subseteq Ids
      /\ Touches(db, msg.td) \subseteq Pos
      /\ Moved(db, msg.td) \subseteq DOMAIN msg.td
  BY <1>5 DEF Stale, Gone, Touches, Moved, Behind
<1>7. ServerInv' /\ IdleInv'
  BY <1>1, <1>2, <1>4 DEF ServerInv, IdleInv
<1>8. MessageInv'
  BY <1>1, <1>2 DEF MessageInv, Known
<1> DEFINE V == (0 .. MaxEdits) \cup {None}
<1>9. DiskInv'
  <2>1. CASE Download
    <3>1. d1 \in Ids /\ f1 \in Kinds
      BY <2>1, <1>1, <1>2, <1>6, HeadForms DEF Download
    <3>2. version[d1] \in 0 .. MaxEdits
      BY <3>1, <1>2, StoreAssumption DEF ServerInv
    <3>3. tmp' = [tmp EXCEPT ![d1][f1] = version[d1]] /\ UNCHANGED <<pool, link, db, touched, torn>>
      BY <2>1 DEF Download
    <3>4. tmp' \in [Ids -> [Kinds -> V]]
      BY <3>1, <3>2, <3>3, <1>2 DEF DiskInv
    <3> QED
      BY <3>3, <3>4, <1>1, <1>2 DEF DiskInv
  <2>2. CASE Lock \/ Unlock
    BY <2>2, <1>1, <1>2 DEF Lock, Unlock, DiskInv, disk
  <2>3. CASE Rename
    <3>1. d1 \in Ids /\ f1 \in Kinds
      BY <2>3, <1>1, <1>2, <1>6, HeadForms DEF Rename
    <3>2. /\ pool' = [pool EXCEPT ![d1][f1] = tmp[d1][f1]] /\ tmp' = [tmp EXCEPT ![d1][f1] = None]
          /\ UNCHANGED <<link, db, touched, torn>>
      BY <2>3 DEF Rename
    <3>3. tmp[d1][f1] \in V
      BY <3>1, <1>2 DEF DiskInv
    <3>4. pool' \in [Ids -> [Kinds -> V]]
      BY <3>1, <3>2, <3>3, <1>2 DEF DiskInv
    <3>5. tmp' \in [Ids -> [Kinds -> V]]
      BY <3>1, <3>2, <1>2 DEF DiskInv
    <3> QED
      BY <3>2, <3>4, <3>5, <1>1, <1>2 DEF DiskInv
  <2>4. CASE RemoveFile
    <3>1. d1 \in Ids /\ f1 \in Kinds
      BY <2>4, <1>1, <1>2, <1>6, HeadForms DEF RemoveFile
    <3>2. pool' = [pool EXCEPT ![d1][f1] = None] /\ UNCHANGED <<tmp, link, db, touched, torn>>
      BY <2>4 DEF RemoveFile
    <3>3. pool' \in [Ids -> [Kinds -> V]]
      BY <3>1, <3>2, <1>2 DEF DiskInv
    <3> QED
      BY <3>2, <3>3, <1>1, <1>2 DEF DiskInv
  <2>5. CASE Unlink
    <3>1. d1 \in Pos /\ f1 \in Kinds
      BY <2>5, <1>1, <1>2, <1>6, HeadForms DEF Unlink
    <3>2. link' = [link EXCEPT ![d1][f1] = None] /\ touched' = touched \cup {d1} /\ UNCHANGED <<pool, tmp, db, torn>>
      BY <2>5 DEF Unlink
    <3>3. link' \in [Pos -> [Kinds -> Ids \cup {None}]]
      BY <3>1, <3>2, <1>2 DEF DiskInv
    <3>4. touched' \subseteq Pos
      BY <3>1, <3>2, <1>2 DEF DiskInv
    <3> QED
      BY <3>2, <3>3, <3>4, <1>1, <1>2 DEF DiskInv
  <2>6. CASE CreateSymlink
    <3>1. d1 \in Pos /\ f1 \in Kinds /\ ops[1][4] \in Ids
      BY <2>6, <1>1, <1>2, <1>5, <1>6, HeadForms DEF CreateSymlink
    <3>2. link' = [link EXCEPT ![d1][f1] = ops[1][4]] /\ UNCHANGED <<pool, tmp, db, touched, torn>>
      BY <2>6 DEF CreateSymlink
    <3>3. link' \in [Pos -> [Kinds -> Ids \cup {None}]]
      BY <3>1, <3>2, <1>2 DEF DiskInv
    <3> QED
      BY <3>2, <3>3, <1>1, <1>2 DEF DiskInv
  <2>7. CASE UpdateDatabase
    <3>1. db' = UpdateTd(msg) /\ torn' = torn \ touched /\ UNCHANGED <<pool, tmp, link, touched>>
      BY <2>7 DEF UpdateDatabase
    <3>2. ASSUME NEW d \in Ids
          PROVE  db'[d] \in Row \cup {None} /\ (db'[d] # None => db'[d].timestamp <= version[d])
      <4>1. CASE \E i \in DOMAIN msg.td : msg.td[i].id = d
        <5>1. PICK i \in DOMAIN msg.td : msg.td[i].id = d /\ db'[d] = [order |-> i, timestamp |-> msg.td[i].timestamp]
          BY <4>1, <3>1 DEF UpdateTd
        <5>2. i \in Pos /\ msg.td[i].timestamp \in 1 .. MaxEdits /\ msg.td[i].timestamp <= version[d]
          BY <5>1, <1>4, <1>5 DEF Known
        <5> QED
          BY <5>1, <5>2 DEF Row
      <4>2. CASE ~\E i \in DOMAIN msg.td : msg.td[i].id = d
        <5>1. db'[d] = db[d]
          BY <4>2, <3>1 DEF UpdateTd
        <5> QED
          BY <5>1, <1>2 DEF DiskInv
      <4> QED
        BY <4>1, <4>2
    <3>3. db' \in [Ids -> Row \cup {None}]
      <4>1. DOMAIN db' = Ids /\ db' = [d \in Ids |-> db'[d]]
        BY <3>1 DEF UpdateTd
      <4> QED
        BY <4>1, <3>2
    <3> QED
      BY <3>1, <3>2, <3>3, <1>1, <1>2 DEF DiskInv
  <2> QED
    BY <2>1, <2>2, <2>3, <2>4, <2>5, <2>6, <2>7 DEF UpdateStep
<1>10. LockInv'
  <2>1. CASE Lock
    BY <2>1, <1>1, <1>2, NoneAssumption DEF Lock, LockInv, disk
  <2>2. CASE Unlock
    <3>1. td_file_lock = "deal"
      BY <2>2, <1>1, <1>2, <1>3, HeadForms DEF Unlock
    <3> QED
      BY <3>1, <2>2, <1>1, <1>2, NoneAssumption DEF Unlock, LockInv, disk
  <2>3. CASE Unlink \/ CreateSymlink
    <3>1. td_file_lock = "deal" /\ td_file_lock' = td_file_lock
      BY <2>3, <1>1, <1>2, <1>3, HeadForms DEF Unlink, CreateSymlink
    <3>2. scoring = None
      BY <3>1, <1>2 DEF LockInv
    <3> QED
      BY <3>1, <3>2, <1>1, <1>2 DEF LockInv
  <2>4. CASE Download \/ Rename \/ RemoveFile \/ UpdateDatabase
    <3>1. link' = link /\ td_file_lock' = td_file_lock
      BY <2>4 DEF Download, Rename, RemoveFile, UpdateDatabase
    <3> QED
      BY <3>1, <1>1, <1>2 DEF LockInv
  <2> QED
    BY <2>1, <2>2, <2>3, <2>4 DEF UpdateStep
<1> QED
  BY <1>3, <1>7, <1>8, <1>9, <1>10 DEF BaseInv

\* The update ends: pushed, failed, or cut off by a restart.
LEMMA EndBase ==
  ASSUME BaseInv, Push \/ UpdateFails \/ Restart
  PROVE  BaseInv'
<1>1. /\ config' = config /\ version' = version /\ edits' = edits /\ sent' = sent
      /\ pool' = pool /\ tmp' = tmp /\ link' = link /\ db' = db
      /\ newest' = newest /\ reordered' = reordered
      /\ msg' = None /\ touched' = {} /\ ops' = <<>>
      /\ inbox' \subseteq inbox
      /\ torn' \subseteq torn \cup touched
      /\ interrupts' \in {interrupts, interrupts + 1}
  BY DEF Push, UpdateFails, Restart, Interrupted, server, disk
<1>2. /\ td_file_lock' # "deal"
      /\ \/ td_file_lock' = td_file_lock /\ scoring' = scoring
         \/ td_file_lock = "deal" /\ td_file_lock' = None /\ scoring' = scoring
         \/ td_file_lock' = None /\ scoring' = None
  <2>1. CASE Push
    <3>1. td_file_lock # "deal"
      <4>1. Todo = {}
        BY <2>1 DEF Push, Todo, ToSet
      <4> QED
        BY <2>1, <4>1 DEF Push, BaseInv, PlanInv
    <3> QED
      BY <2>1, <3>1 DEF Push
  <2>2. CASE UpdateFails
    BY <2>2, NoneAssumption DEF UpdateFails
  <2>3. CASE Restart
    BY <2>3, NoneAssumption DEF Restart
  <2> QED
    BY <2>1, <2>2, <2>3
<1>3. ServerInv' /\ DiskInv'
  BY <1>1 DEF BaseInv, ServerInv, DiskInv
<1>4. MessageInv'
  BY <1>1 DEF BaseInv, MessageInv, Known
<1>5. LockInv'
  BY <1>1, <1>2, NoneAssumption DEF BaseInv, LockInv
<1>6. IdleInv' /\ PlanInv'
  BY <1>1, <1>2 DEF IdleInv, PlanInv
<1> QED
  BY <1>3, <1>4, <1>5, <1>6 DEF BaseInv

\* The worker: it takes the lock only when it is free.
LEMMA ScoringBase ==
  ASSUME BaseInv, SetupScoring
  PROVE  BaseInv'
<1>1. UNCHANGED <<server, inbox, msg, ops, disk, interrupts, ghosts>>
  BY DEF SetupScoring, CopyInput, CopyAnswer
<1>2. /\ config' = config /\ version' = version /\ edits' = edits /\ sent' = sent /\ inbox' = inbox
      /\ msg' = msg /\ ops' = ops /\ pool' = pool /\ tmp' = tmp /\ link' = link /\ db' = db
      /\ interrupts' = interrupts /\ touched' = touched /\ torn' = torn
      /\ newest' = newest /\ reordered' = reordered
  BY <1>1 DEF server, disk, ghosts
<1>3. ServerInv' /\ MessageInv' /\ DiskInv'
  BY <1>2 DEF BaseInv, ServerInv, MessageInv, Known, DiskInv
<1>4. LockInv' /\ td_file_lock # "deal" /\ td_file_lock' # "deal"
  <2>1. ASSUME NEW p \in Pos, CopyInput(p)
        PROVE  LockInv' /\ td_file_lock # "deal" /\ td_file_lock' # "deal"
    <3>1. td_file_lock = None /\ td_file_lock' = "worker" /\ scoring' = [pos |-> p, in |-> link[p]["in"]]
      BY <2>1 DEF CopyInput
    <3>2. link[p]["in"] \in Ids \cup {None}
      BY DEF BaseInv, DiskInv, Kinds
    <3>3. scoring' \in [pos : Pos, in : Ids \cup {None}]
      BY <3>1, <3>2
    <3>4. scoring' # None
      BY <3>3, NoneAssumption
    <3> QED
      BY <3>1, <3>3, <3>4, <1>2, NoneAssumption DEF LockInv
  <2>2. CASE CopyAnswer
    <3>1. scoring # None /\ scoring' = None /\ td_file_lock' = None
      BY <2>2 DEF CopyAnswer
    <3> QED
      BY <3>1, NoneAssumption DEF BaseInv, LockInv
  <2> QED
    BY <2>1, <2>2 DEF SetupScoring
<1>5. IdleInv' /\ PlanInv'
  BY <1>1, <1>4, UpdateFrame DEF BaseInv, ghosts
<1> QED
  BY <1>3, <1>4, <1>5 DEF BaseInv

\* Initially there is nothing.
LEMMA InitBase ==
  ASSUME Init
  PROVE  BaseInv
<1>1. Cardinality(Ids) \in Nat
  BY StoreAssumption, FS_CardinalityType
<1>2. config = <<>> /\ DOMAIN config = {} /\ config \in Seq(Ids)
  BY EmptySeq DEF Init
<1>3. ServerInv
  <2>1. version \in [Ids -> Nat] /\ (\A d \in Ids : version[d] <= edits) /\ edits \in 0 .. MaxEdits /\ sent \in Nat
    BY StoreAssumption DEF Init
  <2> QED
    BY <1>2, <2>1 DEF ServerInv
<1>4. MessageInv
  <2>1. newest \in 0 .. sent
    BY DEF Init
  <2>2. inbox = {} /\ msg = None /\ reordered \in BOOLEAN
    BY Zenon DEF Init
  <2> QED
    BY <2>1, <2>2 DEF MessageInv
<1>5. DiskInv
  BY DEF Init, DiskInv
<1>6. LockInv
  BY NoneAssumption DEF Init, LockInv
<1>7. IdleInv /\ PlanInv
  BY NoneAssumption DEF Init, IdleInv, PlanInv
<1> QED
  BY <1>3, <1>4, <1>5, <1>6, <1>7 DEF BaseInv

\* Every step keeps the base.
LEMMA NextBase ==
  ASSUME BaseInv, [Next]_vars
  PROVE  BaseInv'
<1>1. CASE Next
  <2>1. CASE EditProblem \/ SendSubmission
    BY <2>1, ServerBase
  <2>2. CASE DealOneSubmission
    <3>1. ASSUME NEW m \in inbox, TakeMessage(m) PROVE BaseInv'
      BY <3>1, TakeBase
    <3>2. CASE UpdateStep
      BY <3>2, UpdateBase
    <3>3. CASE Push \/ UpdateFails \/ Restart
      BY <3>3, EndBase
    <3> QED
      BY <2>2, <3>1, <3>2, <3>3 DEF DealOneSubmission
  <2>3. CASE SetupScoring
    BY <2>3, ScoringBase
  <2> QED
    BY <1>1, <2>1, <2>2, <2>3 DEF Next
<1>2. CASE UNCHANGED vars
  BY <1>2 DEF vars, server, disk, ghosts, BaseInv, ServerInv, MessageInv, Known, DiskInv, LockInv, IdleInv, PlanInv, Todo
<1> QED
  BY <1>1, <1>2

\* The base holds always.
LEMMA BaseHolds == Spec => []BaseInv
<1>1. Init => BaseInv
  BY InitBase
<1>2. BaseInv /\ [Next]_vars => BaseInv'
  BY NextBase
<1> QED
  BY <1>1, <1>2, PTL DEF Spec

\* Testdata store types (TypeOK): every file, symlink and row is of the kind that
\* DealOneSubmission may write, the list of testdata is no longer than there are
\* testdata, and td_file_lock is held by the update only while it has operations
\* left and by the worker exactly while it copies.
THEOREM StoreTypes == Spec => []TypeOK
<1>1. BaseInv => TypeOK
  <2> SUFFICES ASSUME BaseInv
               PROVE  TypeOK
    OBVIOUS
  <2>1. config \in BoundedSeq(Ids, Cardinality(Ids))
    <3>1. /\ Cardinality(Ids) \in Nat
          /\ Len(config) \in 0 .. Cardinality(Ids)
          /\ config \in [1 .. Len(config) -> Ids]
      BY ConfigBound DEF BaseInv
    <3> QED
      BY <3>1 DEF BoundedSeq, SeqOf
  <2>2. version \in [Ids -> 0 .. MaxEdits]
    <3>1. \A d \in Ids : version[d] \in 0 .. MaxEdits
      BY StoreAssumption DEF BaseInv, ServerInv
    <3> QED
      BY <3>1 DEF BaseInv, ServerInv
  <2>3. td_file_lock = "deal" => ops # <<>>
    <3>1. CASE msg = None
      BY <3>1 DEF BaseInv, IdleInv
    <3>2. CASE msg # None
      BY <3>2 DEF BaseInv, PlanInv, Todo, ToSet
    <3> QED
      BY <3>1, <3>2
  <2> QED
    BY <2>1, <2>2, <2>3 DEF BaseInv, DiskInv, LockInv, TypeOK
<1> QED
  BY <1>1, BaseHolds, PTL

-----------------------------------------------------------------------------
(* What an update achieves *)

\* The last operation on a symlink.
LEMMA FinalParts ==
  ASSUME NEW td, NEW p, NEW f
  PROVE  /\ Final(td, p, f)[2] = p
         /\ Final(td, p, f)[3] = f
         /\ p \in DOMAIN td => Final(td, p, f)[1] = "link"
         /\ p \notin DOMAIN td => Final(td, p, f)[1] = "unlink"
<1>1. CASE p \in DOMAIN td
  BY <1>1 DEF Final
<1>2. CASE p \notin DOMAIN td
  BY <1>2 DEF Final
<1> QED
  BY <1>1, <1>2

\* Initially there is no update.
LEMMA InitWork ==
  ASSUME Init
  PROVE  WorkInv
<1>1. msg = None /\ pending = None /\ \A p \in Pos : link[p]["in"] = link[p]["out"]
  BY DEF Init, Kinds
<1> QED
  BY <1>1 DEF WorkInv, FetchInv, LinkInv, DoneInv, PairInv, PendingInv, RetryRepairs, Accepted

\* A plan does everything that the message asks for.
LEMMA TakeWork ==
  ASSUME BaseInv, WorkInv, NEW m \in inbox, TakeMessage(m)
  PROVE  WorkInv'
<1>1. /\ BaseInv'
      /\ msg' = m /\ m \in Message /\ touched = {}
      /\ ops' # <<>>
      /\ \A i \in Stale(db, m.td), f \in Kinds : <<"get", m.td[i].id, f>> \in Todo' /\ <<"rename", m.td[i].id, f>> \in Todo'
      /\ \A p \in Touches(db, m.td), f \in Kinds : <<"unlink", p, f>> \in Todo'
      /\ \A i \in Moved(db, m.td), f \in Kinds : <<"link", i, f, m.td[i].id>> \in Todo'
  BY TakeBase
<1>2. /\ msg = None /\ pool' = pool /\ tmp' = tmp /\ link' = link /\ db' = db
      /\ touched' = touched /\ torn' = torn /\ pending' = pending
  BY DEF TakeMessage, disk
<1>3. m # None /\ m.td \in TdList
  <2>1. m \in [seq : Nat, td : TdList]
    BY <1>1 DEF Message
  <2> QED
    BY <2>1, NoneAssumption
<1>4. /\ Len(m.td) \in Nat /\ DOMAIN m.td = 1 .. Len(m.td) /\ DOMAIN m.td \subseteq Pos
      /\ \A i, j \in DOMAIN m.td : m.td[i].id = m.td[j].id => i = j
  BY <1>3, TdFacts
<1>5. ops' \in Seq(OpSet(db, m.td))
  BY <1>1, <1>2, <1>3 DEF BaseInv, PlanInv, Remainder
<1>6. \A k \in DOMAIN ops' : ops'[k] \in OpSet(db, m.td) /\ ops'[k] \in Todo'
  BY <1>5, LenProperties, ElementOfSeq DEF Todo, ToSet
<1>7. \A op \in Todo' : op \in OpSet(db, m.td)
  BY <1>6 DEF Todo, ToSet
<1>8. FetchInv'
  <2> SUFFICES ASSUME NEW i \in DOMAIN m.td, NEW f \in Kinds, <<"rename", m.td[i].id, f>> \in Todo'
               PROVE  <<"get", m.td[i].id, f>> \in Todo'
    BY <1>1, <1>2 DEF FetchInv
  <2> DEFINE op == <<"rename", m.td[i].id, f>>
  <2>1. op[1] = "rename" /\ op[2] = m.td[i].id
    OBVIOUS
  <2>2. op \in OpSet(db, m.td)
    BY <1>7
  <2> HIDE DEF op
  <2>3. \E j \in Stale(db, m.td), g \in Kinds : op = <<"rename", m.td[j].id, g>>
    BY <2>1, <2>2, OpForms
  <2>4. \E j \in Stale(db, m.td) : m.td[j].id = m.td[i].id
    BY <2>1, <2>3
  <2> QED
    BY <2>4, <1>1
<1>9. LinkInv'
  <2> SUFFICES ASSUME NEW p \in Pos, NEW f \in Kinds, Busy(ops', p)
               PROVE  Final(m.td, p, f) \in Todo'
    BY <1>1, <1>2 DEF LinkInv
  <2>1. PICK k \in DOMAIN ops' : Rank(ops'[k]) = 5 /\ ops'[k][2] = p
    BY DEF Busy
  <2> DEFINE op == ops'[k]
  <2>2. op \in OpSet(db, m.td) /\ Rank(op) = 5 /\ op[2] = p
    BY <2>1, <1>6
  <2> HIDE DEF op
  <2>3. \/ \E q \in Touches(db, m.td), g \in Kinds : op = <<"unlink", q, g>>
        \/ \E q \in Moved(db, m.td), g \in Kinds : op = <<"link", q, g, m.td[q].id>>
    BY <2>2, OpForms
  <2>4. p \in Touches(db, m.td)
    BY <2>2, <2>3 DEF Touches
  <2>5. CASE p \in DOMAIN m.td
    <3>1. p \in Moved(db, m.td)
      BY <2>4, <2>5, <1>4 DEF Touches, Behind
    <3>2. <<"link", p, f, m.td[p].id>> \in Todo'
      BY <3>1, <1>1
    <3> QED
      BY <3>2, <2>5 DEF Final
  <2>6. CASE p \notin DOMAIN m.td
    <3>1. <<"unlink", p, f>> \in Todo'
      BY <2>4, <1>1
    <3> QED
      BY <3>1, <2>6 DEF Final
  <2> QED
    BY <2>5, <2>6
<1>10. DoneInv'
  BY <1>1, <1>2 DEF DoneInv, Kinds
<1>11. PairInv'
  BY <1>2 DEF WorkInv, PairInv
<1>12. PendingInv'
  BY <1>1, <1>2 DEF WorkInv, PendingInv, Accepted
<1>13. RetryRepairs'
  BY <1>1 DEF RetryRepairs, Accepted
<1> QED
  BY <1>8, <1>9, <1>10, <1>11, <1>12, <1>13 DEF WorkInv

\* The update ends: what it changed is complete when it is pushed, and torn
\* when it is not.
LEMMA EndWork ==
  ASSUME BaseInv, WorkInv, Push \/ UpdateFails \/ Restart
  PROVE  WorkInv'
<1>1. msg' = None /\ touched' = {} /\ link' = link /\ db' = db
  BY DEF Push, UpdateFails, Restart, Interrupted, disk
<1>2. FetchInv' /\ LinkInv' /\ DoneInv' /\ RetryRepairs'
  BY <1>1 DEF FetchInv, LinkInv, DoneInv, RetryRepairs, Accepted
<1>3. CASE Push
  <2>1. msg # None /\ ops = <<>> /\ Todo = {} /\ pending' = None /\ torn' = torn
    BY <1>3 DEF Push, Todo, ToSet
  <2>2. PairInv'
    <3> SUFFICES ASSUME NEW p \in Pos, p \notin torn
                 PROVE  link[p]["in"] = link[p]["out"]
      BY <1>1, <2>1 DEF PairInv
    <3>1. CASE p \in touched
      BY <2>1, <3>1 DEF WorkInv, LinkInv, Kinds
    <3>2. CASE p \notin touched
      BY <3>2 DEF WorkInv, PairInv
    <3> QED
      BY <3>1, <3>2
  <2>3. PendingInv'
    BY <2>1 DEF PendingInv
  <2> QED
    BY <1>2, <2>2, <2>3 DEF WorkInv
<1>4. CASE UpdateFails \/ Restart
  <2>1. /\ ops # <<>> /\ torn' = torn \cup touched
        /\ pending' = IF msg = None THEN pending ELSE [td |-> msg.td, touched |-> touched]
    BY <1>4 DEF UpdateFails, Restart, Interrupted, Doing
  <2>2. msg # None
    BY <2>1 DEF BaseInv, IdleInv
  <2>3. PairInv'
    BY <1>1, <2>1 DEF WorkInv, PairInv
  <2>4. PendingInv'
    <3>1. msg.td \in TdList /\ touched \subseteq Pos
      BY <2>2 DEF BaseInv, MessageInv, Known, Message, DiskInv
    <3>2. pending' = [td |-> msg.td, touched |-> touched]
      BY <2>1, <2>2
    <3>3. pending' \in [td : TdList, touched : SUBSET Pos] /\ pending'.td = msg.td /\ pending'.touched = touched
      BY <3>1, <3>2
    <3>4. touched \subseteq Touches(db, msg.td)
      BY <2>1, <2>2 DEF WorkInv, DoneInv
    <3> QED
      BY <3>3, <3>4, <1>1 DEF PendingInv
  <2> QED
    BY <1>2, <2>3, <2>4 DEF WorkInv
<1> QED
  BY <1>3, <1>4

\* An operation is done: the others are still to do, and it has its effect.
LEMMA UpdateWork ==
  ASSUME BaseInv, WorkInv, UpdateStep
  PROVE  WorkInv'
<1> DEFINE td == msg.td
           h == ops[1]
<1>1. /\ ops # <<>> /\ msg' = msg /\ ops' = Tail(ops) /\ version' = version /\ pending' = pending
  BY DEF UpdateStep, server
<1>2. MessageInv /\ IdleInv /\ PlanInv /\ DiskInv /\ ServerInv /\ FetchInv /\ LinkInv /\ DoneInv /\ PairInv /\ PendingInv
  BY DEF BaseInv, WorkInv
<1>3. /\ Todo = {h} \cup Todo'
      /\ \A op \in Todo' : Rank(h) <= Rank(op)
      /\ Doing("unlink") /\ d1 \in DOMAIN td => Final(td, d1, f1) \in Todo'
      /\ Doing("link") => d1 \in touched
      /\ Doing("rename") => h \notin Todo'
      /\ \A p : Busy(ops', p) => Busy(ops, p)
      /\ Rank(h) = 5 => Busy(ops, d1)
      /\ UpdateDatabase => ops' = <<>>
      /\ ~Doing("update") => ops' # <<>>
  BY <1>2, PlanStep
<1>4. /\ msg # None /\ Known(msg) /\ td \in TdList
      /\ Doing("get") => /\ h = <<"get", d1, f1>> /\ f1 \in Kinds
                         /\ \E i \in Stale(db, td) : d1 = td[i].id
      /\ Doing("lock") => h = <<"lock">>
      /\ Doing("rename") => /\ h = <<"rename", d1, f1>> /\ Rank(h) = 3 /\ f1 \in Kinds
                            /\ \E i \in Stale(db, td) : d1 = td[i].id
      /\ Doing("remove") => /\ h = <<"remove", d1, f1>> /\ f1 \in Kinds
                            /\ d1 \in Gone(db, td)
      /\ Doing("unlink") => /\ h = <<"unlink", d1, f1>> /\ Rank(h) = 5 /\ f1 \in Kinds
                            /\ d1 \in Touches(db, td)
      /\ Doing("link") => /\ h = <<"link", d1, f1, td[d1].id>> /\ Rank(h) = 5 /\ f1 \in Kinds
                          /\ d1 \in Moved(db, td) /\ h[4] = td[d1].id
      /\ Doing("unlock") => h = <<"unlock">>
      /\ Doing("update") => h = <<"update">>
  BY <1>1, <1>2, HeadForms
<1>5. /\ \A i \in DOMAIN td : td[i].id \in Ids /\ td[i].timestamp \in Nat /\ td[i].timestamp <= version[td[i].id]
      /\ \A i, j \in DOMAIN td : td[i].id = td[j].id => i = j
      /\ Stale(db, td) \subseteq DOMAIN td /\ Moved(db, td) \subseteq DOMAIN td
      /\ Touches(db, td) \subseteq Pos
  <2>1. /\ DOMAIN td \subseteq Pos
        /\ \A i \in DOMAIN td : td[i].id \in Ids /\ td[i].timestamp \in 1 .. MaxEdits
        /\ \A i, j \in DOMAIN td : td[i].id = td[j].id => i = j
    BY <1>4, TdFacts
  <2>2. \A i \in DOMAIN td : td[i].timestamp \in Nat
    BY <2>1, StoreAssumption
  <2> QED
    BY <2>1, <2>2, <1>4 DEF Known, Stale, Moved, Touches, Behind
<1>6. /\ \/ Download /\ Doing("get") /\ h[1] = "get"
         \/ Lock /\ Doing("lock") /\ h[1] = "lock"
         \/ Rename /\ Doing("rename") /\ h[1] = "rename"
         \/ RemoveFile /\ Doing("remove") /\ h[1] = "remove"
         \/ Unlink /\ Doing("unlink") /\ h[1] = "unlink"
         \/ CreateSymlink /\ Doing("link") /\ h[1] = "link"
         \/ Unlock /\ Doing("unlock") /\ h[1] = "unlock"
         \/ UpdateDatabase /\ Doing("update") /\ h[1] = "update"
  BY DEF UpdateStep, Download, Lock, Rename, RemoveFile, Unlink, CreateSymlink, Unlock, UpdateDatabase, Doing
<1> HIDE DEF h
<1>7. FetchInv'
  <2> SUFFICES ASSUME NEW i \in DOMAIN td, NEW f \in Kinds,
                      <<"rename", td[i].id, f>> \in Todo', <<"get", td[i].id, f>> \notin Todo'
               PROVE  /\ tmp'[td[i].id][f] # None
                      /\ tmp'[td[i].id][f] >= td[i].timestamp
                      /\ db'[td[i].id] # None => tmp'[td[i].id][f] >= db'[td[i].id].timestamp
    BY <1>1 DEF FetchInv
  <2> DEFINE d == td[i].id
  <2>1. d \in Ids /\ <<"rename", d, f>> \in Todo
    BY <1>3, <1>5
  <2>2. CASE Download /\ <<"get", d, f>> = h
    <3>1. d = d1 /\ f = f1
      <4>1. <<"get", d, f>>[2] = d /\ <<"get", d, f>>[3] = f
        OBVIOUS
      <4> QED
        BY <2>2, <4>1 DEF h, d1, f1
    <3>2. tmp'[d][f] = version[d] /\ db' = db
      BY <2>1, <2>2, <3>1, <1>2 DEF Download, DiskInv
    <3>3. version[d] \in Nat /\ version[d] >= td[i].timestamp /\ version[d] # None
      BY <2>1, <1>2, <1>5, NoneAssumption DEF ServerInv
    <3>4. db[d] # None => version[d] >= db[d].timestamp
      BY <2>1, <1>2, <3>3 DEF DiskInv
    <3> QED
      BY <3>2, <3>3, <3>4
  <2>3. CASE <<"get", d, f>> # h
    <3>1. <<"get", d, f>> \notin Todo
      BY <2>3, <1>3
    <3>2. /\ tmp[d][f] # None
          /\ tmp[d][f] >= td[i].timestamp
          /\ db[d] # None => tmp[d][f] >= db[d].timestamp
      BY <2>1, <3>1, <1>2, <1>4 DEF FetchInv
    <3>3. Todo' # {}
      OBVIOUS
    <3>4. ~UpdateDatabase
      BY <3>3, <1>3 DEF Todo, ToSet
    <3>5. CASE Download
      <4>1. ~(d = d1 /\ f = f1) /\ d1 \in Ids /\ f1 \in Kinds
        BY <2>3, <3>5, <1>4, <1>5 DEF Download
      <4>2. tmp'[d][f] = tmp[d][f] /\ db' = db
        BY <2>1, <3>5, <4>1, <1>2 DEF Download, DiskInv
      <4> QED
        BY <3>2, <4>2
    <3>6. CASE Rename
      <4>1. h = <<"rename", d1, f1>> /\ h \notin Todo'
        BY <3>6, <1>3, <1>4 DEF Rename
      <4>2. ~(d = d1 /\ f = f1)
        BY <4>1
      <4>3. d1 \in Ids /\ f1 \in Kinds
        BY <3>6, <1>4, <1>5 DEF Rename
      <4>4. tmp'[d][f] = tmp[d][f] /\ db' = db
        BY <2>1, <3>6, <4>2, <4>3, <1>2 DEF Rename, DiskInv
      <4> QED
        BY <3>2, <4>4
    <3>7. CASE Lock \/ RemoveFile \/ Unlink \/ CreateSymlink \/ Unlock
      <4>1. tmp' = tmp /\ db' = db
        BY <3>7 DEF Lock, RemoveFile, Unlink, CreateSymlink, Unlock, disk
      <4> QED
        BY <3>2, <4>1
    <3> QED
      BY <3>4, <3>5, <3>6, <3>7, <1>6
  <2>4. CASE ~Download /\ <<"get", d, f>> = h
    <3>1. h[1] = "get"
      <4>1. <<"get", d, f>>[1] = "get"
        OBVIOUS
      <4> QED
        BY <2>4, <4>1
    <3> QED
      BY <2>4, <3>1, <1>6
  <2> QED
    BY <2>2, <2>3, <2>4
<1>8. LinkInv'
  <2> SUFFICES ASSUME NEW p \in Pos, NEW f \in Kinds, p \in touched' \/ Busy(ops', p),
                      Final(td, p, f) \notin Todo'
               PROVE  link'[p][f] = Target(td, p)
    BY <1>1 DEF LinkInv
  <2>1. p \in touched \/ Busy(ops, p)
    <3>1. CASE Unlink
      <4>1. touched' = touched \cup {d1} /\ Busy(ops, d1)
        BY <3>1, <1>3, <1>4 DEF Unlink
      <4> QED
        BY <4>1, <1>3
    <3>2. CASE ~Unlink
      <4>1. touched' = touched
        BY <3>2, <1>6 DEF Download, Lock, Rename, RemoveFile, CreateSymlink, Unlock, UpdateDatabase
      <4> QED
        BY <4>1, <1>3
    <3> QED
      BY <3>1, <3>2
  <2>2. Final(td, p, f) \in Todo \/ link[p][f] = Target(td, p)
    BY <2>1, <1>2, <1>4 DEF LinkInv
  <2>3. /\ Final(td, p, f)[2] = p /\ Final(td, p, f)[3] = f
        /\ p \in DOMAIN td => Final(td, p, f)[1] = "link"
        /\ p \notin DOMAIN td => Final(td, p, f)[1] = "unlink"
    BY FinalParts
  <2>4. d1 = h[2] /\ f1 = h[3]
    BY DEF d1, f1, h
  <2>5. CASE Unlink
    <3>1. d1 \in Pos /\ f1 \in Kinds /\ h[1] = "unlink"
      BY <2>5, <1>4, <1>5, <1>6 DEF Unlink
    <3>2. link' = [link EXCEPT ![d1][f1] = None]
      BY <2>5 DEF Unlink
    <3>3. CASE p = d1 /\ f = f1
      <4>1. p \notin DOMAIN td
        BY <3>3, <2>5, <1>3 DEF Unlink
      <4>2. link'[p][f] = None
        BY <3>1, <3>2, <3>3, <1>2 DEF DiskInv
      <4> QED
        BY <4>1, <4>2 DEF Target
    <3>4. CASE ~(p = d1 /\ f = f1)
      <4>1. link'[p][f] = link[p][f]
        BY <3>1, <3>2, <3>4, <1>2 DEF DiskInv
      <4>2. Final(td, p, f) # h
        BY <3>4, <2>3, <2>4
      <4> QED
        BY <4>1, <4>2, <2>2, <1>3
    <3> QED
      BY <3>3, <3>4
  <2>6. CASE CreateSymlink
    <3>1. d1 \in Pos /\ f1 \in Kinds /\ d1 \in DOMAIN td /\ h[4] = td[d1].id
      BY <2>6, <1>4, <1>5 DEF CreateSymlink, Touches
    <3>2. link' = [link EXCEPT ![d1][f1] = h[4]]
      BY <2>6 DEF CreateSymlink, h
    <3>3. CASE p = d1 /\ f = f1
      <4>1. link'[p][f] = td[p].id
        BY <3>1, <3>2, <3>3, <1>2 DEF DiskInv
      <4> QED
        BY <4>1, <3>1, <3>3 DEF Target
    <3>4. CASE ~(p = d1 /\ f = f1)
      <4>1. link'[p][f] = link[p][f]
        BY <3>1, <3>2, <3>4, <1>2 DEF DiskInv
      <4>2. Final(td, p, f) # h
        BY <3>4, <2>3, <2>4
      <4> QED
        BY <4>1, <4>2, <2>2, <1>3
    <3> QED
      BY <3>3, <3>4
  <2>7. CASE ~Unlink /\ ~CreateSymlink
    <3>1. link' = link /\ h[1] # "link" /\ h[1] # "unlink"
      BY <2>7, <1>6 DEF Download, Lock, Rename, RemoveFile, Unlock, UpdateDatabase, disk
    <3>2. Final(td, p, f) # h
      BY <3>1, <2>3
    <3> QED
      BY <3>1, <3>2, <2>2, <1>3
  <2> QED
    BY <2>5, <2>6, <2>7
<1>9. ~UpdateDatabase => ops' # <<>> /\ db' = db /\ torn' = torn
  <2>1. ~UpdateDatabase => ~Doing("update")
    BY <1>6 DEF Doing, h
  <2> QED
    BY <2>1, <1>3, <1>6 DEF Download, Lock, Rename, RemoveFile, Unlink, CreateSymlink, Unlock, disk
<1>10. touched' = touched \/ (Unlink /\ touched' = touched \cup {d1})
  <2>1. Unlink => touched' = touched \cup {d1}
    BY DEF Unlink
  <2>2. ~Unlink => touched' = touched
    BY <1>6 DEF Download, Lock, Rename, RemoveFile, CreateSymlink, Unlock, UpdateDatabase
  <2> QED
    BY <2>1, <2>2
<1>11. ASSUME ~UpdateDatabase, NEW i \in Stale(db, td), NEW f \in Kinds
       PROVE  \/ <<"rename", td[i].id, f>> \in Todo'
              \/ pool'[td[i].id][f] # None /\ pool'[td[i].id][f] >= td[i].timestamp
  <2> DEFINE d == td[i].id
             op == <<"rename", d, f>>
  <2>1. d \in Ids /\ i \in DOMAIN td
    BY <1>5
  <2>2. op[1] = "rename" /\ op[2] = d /\ op[3] = f
    OBVIOUS
  <2>3. op \in Todo \/ (pool[d][f] # None /\ pool[d][f] >= td[i].timestamp)
    BY <1>1, <1>2, <1>4, Zenon DEF DoneInv
  <2> HIDE DEF op
  <2>4. CASE Rename
    <3>1. d1 \in Ids /\ f1 \in Kinds /\ h = <<"rename", d1, f1>> /\ Rank(h) = 3
      BY <2>4, <1>4, <1>5 DEF Rename
    <3>2. CASE d = d1 /\ f = f1
      <4>1. pool'[d][f] = tmp[d][f]
        BY <2>1, <2>4, <3>2, <1>2 DEF Rename, DiskInv
      <4> DEFINE g == <<"get", d, f>>
      <4>2. g[1] = "get"
        OBVIOUS
      <4> HIDE DEF g
      <4>3. Rank(g) = 1
        BY <4>2, RankOf
      <4>4. h[1] = "rename"
        BY <3>1
      <4>5. g \notin Todo
        BY <4>2, <4>3, <4>4, <3>1, <1>3
      <4>6. <<"rename", d, f>> \in Todo
        BY <3>1, <3>2, <1>3
      <4>7. tmp[d][f] # None /\ tmp[d][f] >= td[i].timestamp
        BY <2>1, <4>5, <4>6, <1>2, <1>4 DEF FetchInv, g
      <4> QED
        BY <4>1, <4>7
    <3>3. CASE ~(d = d1 /\ f = f1)
      <4>1. pool'[d][f] = pool[d][f]
        BY <2>1, <2>4, <3>1, <3>3, <1>2 DEF Rename, DiskInv
      <4>2. op # h
        BY <2>2, <3>3 DEF d1, f1, h
      <4> QED
        BY <2>3, <4>1, <4>2, <1>3 DEF op
    <3> QED
      BY <3>2, <3>3
  <2>5. CASE ~Rename
    <3>1. h # op
      BY <2>2, <2>5, <1>6
    <3>2. pool'[d][f] = pool[d][f]
      <4>1. CASE RemoveFile
        <5>1. d1 \in Gone(db, td) /\ f1 \in Kinds
          BY <4>1, <1>4 DEF RemoveFile
        <5>2. d1 \in Ids /\ d1 # d
          BY <5>1, <2>1 DEF Gone
        <5> QED
          BY <2>1, <4>1, <5>1, <5>2, <1>2 DEF RemoveFile, DiskInv
      <4>2. CASE ~RemoveFile
        BY <2>5, <4>2, <1>6 DEF Download, Lock, Unlink, CreateSymlink, Unlock, UpdateDatabase, disk
      <4> QED
        BY <4>1, <4>2
    <3> QED
      BY <2>3, <3>1, <3>2, <1>3 DEF op
  <2> QED
    BY <2>4, <2>5
<1>12. ASSUME ~UpdateDatabase
       PROVE  /\ touched' \subseteq Touches(db, td)
              /\ \A p \in Touches(db, td) : p \in touched' \/ <<"unlink", p, "in">> \in Todo'
  <2>1. /\ touched \subseteq Touches(db, td)
        /\ \A p \in Touches(db, td) : p \in touched \/ <<"unlink", p, "in">> \in Todo
    BY <1>1, <1>2, <1>4 DEF DoneInv
  <2>2. touched' \subseteq Touches(db, td) /\ touched \subseteq touched'
    BY <2>1, <1>4, <1>10 DEF Unlink
  <2>3. ASSUME NEW p, <<"unlink", p, "in">> = h
        PROVE  p \in touched'
    <3>1. h[1] = "unlink" /\ h[2] = p
      BY <2>3
    <3>2. Unlink /\ d1 = p
      BY <3>1, <1>6 DEF d1, h
    <3> QED
      BY <3>2 DEF Unlink
  <2> QED
    BY <2>1, <2>2, <2>3, <1>3
<1>13. UpdateDatabase => /\ db' = UpdateTd(msg) /\ torn' = torn \ touched /\ touched' = touched /\ link' = link
                         /\ ops' = <<>> /\ Todo' = {}
  BY <1>3 DEF UpdateDatabase, Todo, ToSet
<1>14. DoneInv'
  <2>1. CASE UpdateDatabase
    <3> SUFFICES ASSUME NEW i \in DOMAIN td
                 PROVE  db'[td[i].id] = [order |-> i, timestamp |-> td[i].timestamp]
      BY <2>1, <1>1, <1>13 DEF DoneInv
    <3> DEFINE k == CHOOSE j \in DOMAIN td : td[j].id = td[i].id
    <3>1. k \in DOMAIN td /\ td[k].id = td[i].id
      OBVIOUS
    <3>2. k = i
      BY <3>1, <1>5
    <3>3. db'[td[i].id] = [order |-> k, timestamp |-> td[k].timestamp]
      BY <2>1, <1>5, <1>13 DEF UpdateTd
    <3> QED
      BY <3>2, <3>3
  <2>2. CASE ~UpdateDatabase
    BY <2>2, <1>1, <1>9, <1>11, <1>12 DEF DoneInv
  <2> QED
    BY <2>1, <2>2
<1>15. PairInv'
  <2> SUFFICES ASSUME NEW p \in Pos, p \notin touched', p \notin torn'
               PROVE  link'[p]["in"] = link'[p]["out"]
    BY DEF PairInv
  <2>1. p \notin touched /\ p \notin torn
    BY <1>9, <1>10, <1>13
  <2>2. link[p]["in"] = link[p]["out"]
    BY <2>1, <1>2 DEF PairInv
  <2>3. CASE Unlink \/ CreateSymlink
    <3>1. d1 \in touched'
      BY <2>3, <1>3, <1>10 DEF Unlink, CreateSymlink
    <3>2. d1 \in Pos /\ f1 \in Kinds /\ d1 # p
      BY <2>3, <3>1, <1>4, <1>5 DEF Unlink, CreateSymlink, Touches
    <3>3. link'[p] = link[p]
      BY <2>3, <3>2, <1>2 DEF Unlink, CreateSymlink, DiskInv
    <3> QED
      BY <2>2, <3>3
  <2>4. CASE ~Unlink /\ ~CreateSymlink
    BY <2>2, <2>4, <1>6 DEF Download, Lock, Rename, RemoveFile, Unlock, UpdateDatabase, disk
  <2> QED
    BY <2>3, <2>4
<1>16. ~Accepted /\ (Accepted' <=> UpdateDatabase)
  BY <1>1, <1>3, <1>4, <1>9 DEF Accepted
<1>17. PendingInv'
  BY <1>1, <1>2, <1>9, <1>16 DEF PendingInv
<1>18. RetryRepairs'
  <2> SUFFICES ASSUME Accepted', pending # None, pending.td = td
               PROVE  torn' \cap pending.touched = {}
    BY <1>1 DEF RetryRepairs
  <2>1. UpdateDatabase
    BY <1>16
  <2>2. pending.touched \subseteq Touches(db, td)
    BY <1>2, <1>16 DEF PendingInv
  <2>3. Todo = {<<"update">>}
    BY <2>1, <1>3, <1>4, <1>13 DEF UpdateDatabase
  <2>4. \A p : <<"unlink", p, "in">> # <<"update">>
    OBVIOUS
  <2>5. Touches(db, td) \subseteq touched
    BY <2>3, <2>4, <1>1, <1>2, <1>4 DEF DoneInv
  <2> QED
    BY <2>1, <2>2, <2>5, <1>13
<1> QED
  BY <1>7, <1>8, <1>14, <1>15, <1>17, <1>18 DEF WorkInv

\* Every step keeps what the update has done: the server and the worker have no
\* part in it.
LEMMA NextWork ==
  ASSUME BaseInv, WorkInv, [Next]_vars
  PROVE  WorkInv'
<1>1. CASE EditProblem \/ SendSubmission
  <2>1. UNCHANGED <<msg, ops, disk, td_file_lock, ghosts>>
    BY <1>1 DEF EditProblem, AddTestdata, ChangeTestdata, RemoveTestdata, SwapTestdata, Edit, SendSubmission
  <2> QED
    BY <2>1, UpdateFrame DEF ghosts
<1>2. CASE DealOneSubmission
  <2>1. ASSUME NEW m \in inbox, TakeMessage(m) PROVE WorkInv'
    BY <2>1, TakeWork
  <2>2. CASE UpdateStep
    BY <2>2, UpdateWork
  <2>3. CASE Push \/ UpdateFails \/ Restart
    BY <2>3, EndWork
  <2> QED
    BY <1>2, <2>1, <2>2, <2>3 DEF DealOneSubmission
<1>3. CASE SetupScoring
  <2>1. UNCHANGED <<msg, ops, disk, ghosts>>
    BY <1>3 DEF SetupScoring, CopyInput, CopyAnswer
  <2>2. td_file_lock # "deal" /\ td_file_lock' # "deal"
    <3>1. CASE \E p \in Pos : CopyInput(p)
      BY <3>1, NoneAssumption DEF CopyInput
    <3>2. CASE CopyAnswer
      BY <3>2, NoneAssumption DEF CopyAnswer, BaseInv, LockInv
    <3> QED
      BY <1>3, <3>1, <3>2 DEF SetupScoring
  <2> QED
    BY <2>1, <2>2, UpdateFrame DEF ghosts
<1>4. CASE UNCHANGED vars
  BY <1>4, UpdateFrame DEF vars, ghosts
<1> QED
  BY <1>1, <1>2, <1>3, <1>4 DEF Next

\* What updates have done is always what the invariant says.
LEMMA WorkHolds == Spec => []WorkInv
<1>1. Init => WorkInv
  BY InitWork
<1>2. BaseInv /\ WorkInv /\ [Next]_vars => WorkInv'
  BY NextWork
<1> QED
  BY <1>1, <1>2, BaseHolds, PTL DEF Spec

\* An interrupted update is repaired by a retry (RetryRepairs): however many
\* testdata there are and wherever DealOneSubmission was cut off, when the same
\* list is stored later no position that the first attempt changed is left torn.
THEOREM RetryRepairsAlways == Spec => []RetryRepairs
<1>1. WorkInv => RetryRepairs
  BY DEF WorkInv
<1> QED
  BY <1>1, WorkHolds, PTL

\* Input and answer belong together (ScoringPair): while SetupScoring copies under
\* td_file_lock, no update is between the two symlinks of a position.
THEOREM ScoringPairAlways == Spec => []ScoringPair
<1>1. BaseInv /\ WorkInv => ScoringPair
  <2> SUFFICES ASSUME BaseInv, WorkInv, scoring # None, scoring.pos \notin torn
               PROVE  link[scoring.pos]["out"] = scoring.in
    BY DEF ScoringPair
  <2> DEFINE p == scoring.pos
  <2>1. /\ td_file_lock = "worker" /\ td_file_lock # "deal"
        /\ scoring \in [pos : Pos, in : Ids \cup {None}]
        /\ scoring.in = link[p]["in"]
    BY DEF BaseInv, LockInv
  <2>2. p \in Pos
    BY <2>1
  <2>3. CASE p \notin touched
    BY <2>1, <2>2, <2>3 DEF WorkInv, PairInv
  <2>4. CASE p \in touched
    <3>1. msg # None /\ <<"lock">> \notin Todo
      BY <2>4 DEF BaseInv, IdleInv, PlanInv
    <3>2. <<"unlock">> \notin Todo
      BY <2>1, <3>1 DEF BaseInv, PlanInv
    <3>3. \A op \in Todo : ~(Rank(op) <= 6)
      BY <3>1, <3>2 DEF BaseInv, PlanInv
    <3>4. ASSUME NEW f \in Kinds
          PROVE  link[p][f] = Target(msg.td, p)
      <4> DEFINE op == Final(msg.td, p, f)
      <4>1. op[1] = "link" \/ op[1] = "unlink"
        BY FinalParts
      <4> HIDE DEF op
      <4>2. Rank(op) = 5
        BY <4>1, RankOf
      <4>3. op \notin Todo
        BY <4>2, <3>3
      <4> QED
        BY <4>3, <2>2, <2>4, <3>1 DEF WorkInv, LinkInv, op
    <3> QED
      BY <2>1, <3>4 DEF Kinds
  <2> QED
    BY <2>3, <2>4
<1> QED
  BY <1>1, BaseHolds, WorkHolds, PTL

-----------------------------------------------------------------------------
(* What an accepted submission finds on the disk *)

OrderInv == ConvexInv /\ StoredInv /\ GoodInv

\* Messages are known: their testdata exist.
LEMMA MessageFacts ==
  ASSUME BaseInv, NEW m \in Messages
  PROVE  /\ m.td \in TdList
         /\ m.seq \in Nat /\ m.seq <= sent /\ sent \in Nat /\ newest \in Nat
         /\ \A d \in IdsOf(m.td) : d \in Ids /\ version[d] # 0
<1>1. Known(m)
  BY DEF BaseInv, MessageInv, Messages
<1>2. m.td \in TdList /\ m.seq \in Nat /\ m.seq <= sent
  BY <1>1 DEF Known, Message
<1>3. sent \in Nat /\ newest \in Nat
  BY DEF BaseInv, ServerInv, MessageInv
<1>4. ASSUME NEW i \in DOMAIN m.td
      PROVE  m.td[i].id \in Ids /\ version[m.td[i].id] # 0
  <2>1. m.td[i].id \in Ids /\ m.td[i].timestamp \in 1 .. MaxEdits
    BY <1>2, TdFacts
  <2>2. m.td[i].timestamp <= version[m.td[i].id]
    BY <1>1 DEF Known
  <2>3. \A t \in 1 .. MaxEdits : t \in Nat /\ t # 0
    BY StoreAssumption
  <2>4. version[m.td[i].id] \in Nat
    BY <2>1 DEF BaseInv, ServerInv
  <2> QED
    BY <2>1, <2>2, <2>3, <2>4
<1> QED
  BY <1>2, <1>3, <1>4 DEF IdsOf

\* In the order of sending, the message worked on is before all that will be taken.
LEMMA AheadMsg ==
  ASSUME BaseInv, msg # None, ~reordered
  PROVE  /\ msg \in Ahead /\ msg \in Messages /\ msg.seq = newest
         /\ \A m \in Ahead : m = msg \/ (m \in inbox /\ newest < m.seq)
<1>1. msg \in Messages /\ msg.seq = newest
  BY DEF BaseInv, MessageInv, Messages
<1>2. msg \in Ahead
  BY <1>1, MessageFacts DEF Ahead
<1>3. ASSUME NEW m \in Ahead, m # msg
      PROVE  m \in inbox /\ newest < m.seq
  <2>1. m \in inbox /\ m \in Messages /\ m.seq >= newest
    BY <1>3 DEF Ahead, Messages
  <2>2. m.seq # newest
    BY <2>1 DEF BaseInv, MessageInv
  <2>3. m.seq \in Nat /\ newest \in Nat
    BY <2>1, MessageFacts
  <2> QED
    BY <2>1, <2>2, <2>3
<1> QED
  BY <1>1, <1>2, <1>3

\* What is stored and may still be asked for is in the message worked on: files
\* that the update removes are not needed again.
LEMMA AliveAsked ==
  ASSUME BaseInv, StoredInv, msg # None, ~reordered, NEW d \in Ids, Stored(d), Alive(d)
  PROVE  d \in IdsOf(msg.td)
<1>1. /\ msg \in Ahead /\ msg.seq = newest
      /\ \A m \in Ahead : m = msg \/ (m \in inbox /\ newest < m.seq)
  BY AheadMsg
<1>2. CASE d \in Present
  BY <1>1, <1>2 DEF StoredInv
<1>3. CASE \E m \in Ahead : d \in IdsOf(m.td)
  <2>1. PICK m \in Ahead : d \in IdsOf(m.td)
    BY <1>3
  <2>2. m = msg \/ msg.seq < m.seq
    BY <1>1
  <2> QED
    BY <1>1, <2>1, <2>2 DEF StoredInv
<1> QED
  BY <1>2, <1>3 DEF Alive

\* A step that sends nothing and edits nothing leaves the lists as they are.
LEMMA OrderFrame ==
  ASSUME BaseInv, OrderInv,
         config' = config, Messages' \subseteq Messages,
         newest' \in Nat, newest <= newest', reordered => reordered'
  PROVE  /\ ConvexInv'
         /\ Ahead' \subseteq Ahead
         /\ db' = db => StoredInv'
         /\ \A d \in Ids : Alive(d)' => Alive(d)
<1>1. Present' = Present
  BY DEF Present
<1>2. ConvexInv'
  BY <1>1 DEF OrderInv, ConvexInv
<1>3. Ahead' \subseteq Ahead
  <2> SUFFICES ASSUME NEW m \in Messages', m.seq >= newest'
               PROVE  m \in Messages /\ m.seq >= newest
    BY DEF Ahead
  <2>1. m \in Messages
    OBVIOUS
  <2>2. m.seq \in Nat /\ newest \in Nat
    BY <2>1, MessageFacts
  <2> QED
    BY <2>1, <2>2
<1>4. db' = db => StoredInv'
  BY <1>1, <1>3 DEF OrderInv, StoredInv, Stored
<1>5. \A d \in Ids : Alive(d)' => Alive(d)
  BY <1>1, <1>3 DEF Alive
<1> QED
  BY <1>2, <1>3, <1>4, <1>5

\* What the database says stays true when the disk stays and no testdatum comes
\* to life.
LEMMA GoodFrame ==
  ASSUME GoodInv, reordered => reordered',
         pool' = pool, link' = link, db' = db,
         torn \cup touched \subseteq torn' \cup touched',
         \A d \in Ids : Stored(d) /\ Alive(d)' => Alive(d)
  PROVE  GoodInv'
<1>1. \A d \in Ids : Stored(d)' <=> Stored(d)
  BY DEF Stored
<1> SUFFICES ASSUME ~reordered', NEW d \in Ids, Stored(d)', Alive(d)'
             PROVE  /\ \A f \in Kinds : pool[d][f] # None /\ pool[d][f] >= db[d].timestamp
                    /\ db[d].order \in torn' \cup touched' \/ \A f \in Kinds : link[db[d].order][f] = d
  BY DEF GoodInv
<1>2. Stored(d) /\ Alive(d) /\ ~reordered
  BY <1>1
<1>3. /\ \A f \in Kinds : pool[d][f] # None /\ pool[d][f] >= db[d].timestamp
      /\ db[d].order \in torn \cup touched \/ \A f \in Kinds : link[db[d].order][f] = d
  BY <1>2 DEF GoodInv
<1> QED
  BY <1>3

\* An edit: testdata that exist and were removed do not come back.
LEMMA EditOrder ==
  ASSUME BaseInv, OrderInv, EditProblem
  PROVE  OrderInv'
<1>1. /\ \A d \in Present' : d \in Present \/ version[d] = 0
      /\ UNCHANGED <<sent, inbox, msg, ops, disk, td_file_lock, scoring, interrupts, ghosts>>
  BY EditFacts DEF BaseInv
<1>2. /\ inbox' = inbox /\ msg' = msg /\ newest' = newest /\ reordered' = reordered
      /\ pool' = pool /\ link' = link /\ db' = db /\ torn' = torn /\ touched' = touched
  BY <1>1 DEF disk, ghosts
<1>3. Messages' = Messages /\ Ahead' = Ahead
  BY <1>2 DEF Messages, Ahead
<1>4. \A m \in Messages : IdsOf(m.td) \cap Present' \subseteq Present
  BY <1>1, MessageFacts
<1>5. ASSUME NEW d \in Ids, Stored(d), d \in Present'
      PROVE  d \in Present
  <2>1. db[d] \in Row /\ db[d].timestamp <= version[d] /\ version[d] \in Nat
    BY <1>5 DEF BaseInv, DiskInv, ServerInv, Stored
  <2>2. db[d].timestamp \in 1 .. MaxEdits
    BY <2>1 DEF Row
  <2>3. version[d] # 0
    BY <2>1, <2>2, StoreAssumption
  <2> QED
    BY <1>1, <1>5, <2>3
<1>6. ConvexInv'
  <2>1. ASSUME NEW m1 \in Messages, NEW m2 \in Messages, m1.seq < m2.seq
        PROVE  IdsOf(m1.td) \cap Present' \subseteq IdsOf(m2.td)
    <3>1. IdsOf(m1.td) \cap Present \subseteq IdsOf(m2.td)
      BY <2>1 DEF OrderInv, ConvexInv
    <3> QED
      BY <3>1, <1>4
  <2> QED
    BY <2>1, <1>3 DEF OrderInv, ConvexInv
<1>7. StoredInv'
  BY <1>2, <1>3, <1>5 DEF OrderInv, StoredInv, Stored
<1>8. \A d \in Ids : Stored(d) /\ Alive(d)' => Alive(d)
  BY <1>3, <1>5 DEF Alive
<1>9. GoodInv'
  BY <1>2, <1>8, GoodFrame DEF OrderInv
<1> QED
  BY <1>6, <1>7, <1>9 DEF OrderInv

\* A message is sent: it is the newest, and its list is the present one.
LEMMA SendOrder ==
  ASSUME BaseInv, OrderInv, SendSubmission
  PROVE  OrderInv'
<1> DEFINE n == SentMessage
<1>1. n.seq = sent + 1 /\ IdsOf(n.td) = Present
  BY SendFacts DEF BaseInv
<1>2. /\ inbox' = inbox \cup {n}
      /\ config' = config /\ msg' = msg /\ newest' = newest /\ reordered' = reordered
      /\ pool' = pool /\ link' = link /\ db' = db /\ torn' = torn /\ touched' = touched
  BY DEF SendSubmission, SentMessage, disk, ghosts
<1> HIDE DEF n
<1>3. Messages' = Messages \cup {n} /\ Ahead' \subseteq Ahead \cup {n} /\ Present' = Present
  BY <1>2 DEF Messages, Ahead, Present
<1>4. \A m \in Messages : m.seq < n.seq /\ ~(n.seq < m.seq)
  BY <1>1, MessageFacts
<1>5. sent \in Nat
  BY DEF BaseInv, ServerInv
<1>6. ~(n.seq < n.seq)
  BY <1>1, <1>5
<1>7. ConvexInv'
  <2>1. ASSUME NEW m1 \in Messages', NEW m2 \in Messages', m1.seq < m2.seq
        PROVE  m1 \in Messages /\ IdsOf(m1.td) \cap Present \subseteq IdsOf(m2.td)
    <3>1. m1 \in Messages
      BY <2>1, <1>3, <1>4, <1>6
    <3>2. CASE m2 = n
      BY <3>1, <3>2, <1>1
    <3>3. CASE m2 \in Messages
      BY <2>1, <3>1, <3>3 DEF OrderInv, ConvexInv
    <3> QED
      BY <3>1, <3>2, <3>3, <1>3
  <2>2. ASSUME NEW m1 \in Messages', NEW m2 \in Messages', NEW m3 \in Messages', m1.seq < m2.seq, m2.seq < m3.seq
        PROVE  IdsOf(m1.td) \cap IdsOf(m3.td) \subseteq IdsOf(m2.td)
    <3>1. m1 \in Messages /\ m2 \in Messages
      BY <2>1, <2>2
    <3>2. CASE m3 = n
      BY <2>1, <2>2, <3>2, <1>1
    <3>3. CASE m3 \in Messages
      BY <2>2, <3>1, <3>3 DEF OrderInv, ConvexInv
    <3> QED
      BY <3>2, <3>3, <1>3
  <2> QED
    BY <2>1, <2>2, <1>3 DEF ConvexInv
<1>8. StoredInv'
  <2> SUFFICES ASSUME ~reordered, NEW d \in Ids, Stored(d)
               PROVE  /\ \A m1, m2 \in Ahead' : m1.seq < m2.seq /\ d \in IdsOf(m2.td) => d \in IdsOf(m1.td)
                      /\ d \in Present => \A m \in Ahead' : d \in IdsOf(m.td)
    BY <1>2, <1>3 DEF StoredInv, Stored
  <2>1. /\ \A m1, m2 \in Ahead : m1.seq < m2.seq /\ d \in IdsOf(m2.td) => d \in IdsOf(m1.td)
        /\ d \in Present => \A m \in Ahead : d \in IdsOf(m.td)
    BY DEF OrderInv, StoredInv
  <2>2. ASSUME NEW m1 \in Ahead', NEW m2 \in Ahead', m1.seq < m2.seq, d \in IdsOf(m2.td)
        PROVE  d \in IdsOf(m1.td)
    <3>1. Ahead \subseteq Messages
      BY DEF Ahead
    <3>2. m1 \in Ahead
      BY <2>2, <3>1, <1>3, <1>4, <1>6
    <3> QED
      BY <2>1, <2>2, <3>2, <1>1, <1>3
  <2> QED
    BY <2>1, <2>2, <1>1, <1>3
<1>9. \A d \in Ids : Stored(d) /\ Alive(d)' => Alive(d)
  BY <1>1, <1>3 DEF Alive
<1>10. GoodInv'
  BY <1>2, <1>9, GoodFrame DEF OrderInv
<1> QED
  BY <1>7, <1>8, <1>10 DEF OrderInv

\* A message is taken: older ones do not count any more.
LEMMA TakeOrder ==
  ASSUME BaseInv, OrderInv, NEW m \in inbox, TakeMessage(m)
  PROVE  OrderInv'
<1>1. /\ msg = None /\ msg' = m /\ inbox' = inbox \ {m}
      /\ newest' = (IF m.seq > newest THEN m.seq ELSE newest)
      /\ reordered' = (reordered \/ m.seq < newest)
      /\ config' = config /\ pool' = pool /\ link' = link /\ db' = db
      /\ touched' = touched /\ torn' = torn
  BY DEF TakeMessage, server, disk
<1>2. m \in Messages /\ Messages' \subseteq Messages
  BY <1>1 DEF Messages
<1>3. newest' \in Nat /\ newest <= newest'
  BY <1>1, <1>2, MessageFacts
<1>4. reordered => reordered'
  BY <1>1
<1>5. ConvexInv' /\ StoredInv' /\ \A d \in Ids : Alive(d)' => Alive(d)
  BY <1>1, <1>2, <1>3, <1>4, OrderFrame
<1>6. GoodInv'
  BY <1>1, <1>4, <1>5, GoodFrame DEF OrderInv
<1> QED
  BY <1>5, <1>6 DEF OrderInv

\* The update ends: what a pushed submission has on the disk is complete, and what
\* an interrupted update changed is torn.
LEMMA EndOrder ==
  ASSUME BaseInv, WorkInv, OrderInv, Push \/ UpdateFails \/ Restart
  PROVE  OrderInv'
<1>1. /\ config' = config /\ pool' = pool /\ link' = link /\ db' = db
      /\ newest' = newest /\ reordered' = reordered
      /\ msg' = None /\ touched' = {} /\ inbox' \subseteq inbox
  BY DEF Push, UpdateFails, Restart, Interrupted, server, disk
<1>2. Messages' \subseteq Messages
  BY <1>1 DEF Messages
<1>3. newest' \in Nat /\ newest <= newest'
  BY <1>1 DEF BaseInv, MessageInv, ServerInv
<1>4. ConvexInv' /\ StoredInv' /\ \A d \in Ids : Alive(d)' => Alive(d)
  BY <1>1, <1>2, <1>3, OrderFrame
<1>5. CASE Push
  <2>1. msg # None /\ ops = <<>> /\ Todo = {} /\ torn' = torn
    BY <1>5 DEF Push, Todo, ToSet
  <2> SUFFICES ASSUME ~reordered', NEW d \in Ids, Stored(d)', Alive(d)'
               PROVE  /\ \A f \in Kinds : pool[d][f] # None /\ pool[d][f] >= db[d].timestamp
                      /\ db[d].order \in torn \/ \A f \in Kinds : link[db[d].order][f] = d
    BY <1>1, <1>4, <2>1 DEF GoodInv, OrderInv
  <2>2. Stored(d) /\ Alive(d) /\ ~reordered
    BY <1>1, <1>4 DEF Stored
  <2>3. /\ \A f \in Kinds : pool[d][f] # None /\ pool[d][f] >= db[d].timestamp
        /\ db[d].order \in torn \cup touched \/ \A f \in Kinds : link[db[d].order][f] = d
    BY <2>2 DEF OrderInv, GoodInv
  <2>4. ASSUME db[d].order \in touched, NEW f \in Kinds
        PROVE  link[db[d].order][f] = d
    <3>1. d \in IdsOf(msg.td)
      BY <2>1, <2>2, AliveAsked DEF OrderInv
    <3>2. PICK i \in DOMAIN msg.td : msg.td[i].id = d
      BY <3>1 DEF IdsOf
    <3>3. db[d].order = i
      <4>1. db[msg.td[i].id] = [order |-> i, timestamp |-> msg.td[i].timestamp]
        BY <2>1 DEF WorkInv, DoneInv
      <4> QED
        BY <3>2, <4>1
    <3>4. i \in Pos
      BY <2>4, <3>3 DEF BaseInv, DiskInv
    <3>5. link[i][f] = Target(msg.td, i)
      BY <2>1, <2>4, <3>3, <3>4 DEF WorkInv, LinkInv
    <3> QED
      BY <3>2, <3>3, <3>5 DEF Target
  <2> QED
    BY <2>3, <2>4
<1>6. CASE UpdateFails \/ Restart
  <2>1. torn' = torn \cup touched
    BY <1>6 DEF UpdateFails, Restart, Interrupted
  <2>2. GoodInv'
    BY <1>1, <1>4, <2>1, GoodFrame DEF OrderInv
  <2> QED
    BY <1>4, <2>2 DEF OrderInv
<1> QED
  BY <1>5, <1>6

\* An operation is done: no file that may be asked for is lost, a symlink changes
\* only at a position that counts as touched, and the database says afterwards what
\* has been done.
LEMMA UpdateOrder ==
  ASSUME BaseInv, WorkInv, OrderInv, UpdateStep
  PROVE  OrderInv'
<1> DEFINE td == msg.td
           h == ops[1]
<1>1. /\ ops # <<>> /\ msg' = msg /\ inbox' = inbox /\ config' = config
      /\ newest' = newest /\ reordered' = reordered
  BY DEF UpdateStep, server
<1>2. MessageInv /\ IdleInv /\ PlanInv /\ DiskInv /\ FetchInv /\ LinkInv /\ DoneInv /\ StoredInv /\ GoodInv
  BY DEF BaseInv, WorkInv, OrderInv
<1>3. /\ Todo = {h} \cup Todo'
      /\ \A op \in Todo' : Rank(h) <= Rank(op)
      /\ Doing("link") => d1 \in touched
      /\ UpdateDatabase => ops' = <<>>
  BY <1>2, PlanStep
<1>4. /\ msg # None /\ td \in TdList
      /\ Doing("rename") => /\ h = <<"rename", d1, f1>> /\ Rank(h) = 3 /\ f1 \in Kinds
                            /\ \E i \in Stale(db, td) : d1 = td[i].id
      /\ Doing("remove") => f1 \in Kinds /\ d1 \in Gone(db, td)
      /\ Doing("unlink") => f1 \in Kinds /\ d1 \in Touches(db, td)
      /\ Doing("link") => f1 \in Kinds /\ d1 \in Moved(db, td)
      /\ Doing("update") => h = <<"update">>
  BY <1>1, <1>2, HeadForms
<1>5. /\ \A i \in DOMAIN td : td[i].id \in Ids
      /\ \A i, j \in DOMAIN td : td[i].id = td[j].id => i = j
      /\ Stale(db, td) \subseteq DOMAIN td
      /\ Touches(db, td) \subseteq Pos /\ Gone(db, td) \subseteq Ids
  <2>1. /\ DOMAIN td \subseteq Pos
        /\ \A i \in DOMAIN td : td[i].id \in Ids
        /\ \A i, j \in DOMAIN td : td[i].id = td[j].id => i = j
    BY <1>4, TdFacts
  <2> QED
    BY <2>1 DEF Stale, Moved, Touches, Behind, Gone
<1>6. Messages' = Messages /\ Ahead' = Ahead /\ Present' = Present
  BY <1>1 DEF Messages, Ahead, Present
<1>7. \A d \in Ids : Alive(d)' <=> Alive(d)
  BY <1>6 DEF Alive
<1>8. newest' \in Nat /\ newest <= newest'
  BY <1>1 DEF BaseInv, MessageInv, ServerInv
<1>9. ConvexInv' /\ (db' = db => StoredInv')
  BY <1>1, <1>6, <1>8, OrderFrame
<1> HIDE DEF h
<1>10. CASE Download \/ Lock \/ Unlock
  <2>1. pool' = pool /\ link' = link /\ db' = db /\ torn' = torn /\ touched' = touched
    BY <1>10 DEF Download, Lock, Unlock, disk
  <2> QED
    BY <2>1, <1>1, <1>2, <1>7, <1>9, GoodFrame DEF OrderInv
<1>11. CASE Rename \/ RemoveFile
  <2>1. /\ link' = link /\ db' = db /\ torn' = torn /\ touched' = touched
        /\ f1 \in Kinds /\ d1 \in Ids
    BY <1>11, <1>4, <1>5 DEF Rename, RemoveFile
  <2> SUFFICES ASSUME ~reordered, NEW d \in Ids, Stored(d), Alive(d), NEW f \in Kinds
               PROVE  pool'[d][f] # None /\ pool'[d][f] >= db[d].timestamp
    BY <1>1, <1>2, <1>7, <1>9, <2>1 DEF OrderInv, GoodInv, Stored
  <2>2. pool[d][f] # None /\ pool[d][f] >= db[d].timestamp
    BY <1>2 DEF GoodInv
  <2>3. CASE ~(d = d1 /\ f = f1)
    <3>1. pool'[d][f] = pool[d][f]
      BY <1>11, <2>1, <2>3, <1>2 DEF Rename, RemoveFile, DiskInv
    <3> QED
      BY <2>2, <3>1
  <2>4. CASE d = d1 /\ f = f1 /\ Rename
    <3>1. PICK i \in DOMAIN td : d = td[i].id
      BY <2>4, <1>4, <1>5 DEF Rename
    <3>2. pool'[d][f] = tmp[d][f]
      BY <2>4, <1>2 DEF Rename, DiskInv
    <3>3. h = <<"rename", d, f>> /\ Rank(h) = 3 /\ h[1] = "rename"
      BY <2>4, <1>4 DEF Rename
    <3> DEFINE g == <<"get", d, f>>
    <3>4. g[1] = "get"
      OBVIOUS
    <3> HIDE DEF g
    <3>5. Rank(g) = 1
      BY <3>4, RankOf
    <3>6. g \notin Todo
      BY <3>3, <3>4, <3>5, <1>3
    <3>7. <<"rename", d, f>> \in Todo
      BY <3>3, <1>3
    <3>8. tmp[d][f] # None /\ (db[d] # None => tmp[d][f] >= db[d].timestamp)
      BY <3>1, <3>6, <3>7, <1>2, <1>4 DEF FetchInv, g
    <3> QED
      BY <3>2, <3>8 DEF Stored
  <2>5. CASE d = d1 /\ f = f1 /\ RemoveFile
    <3>1. d \in Gone(db, td)
      BY <2>5, <1>4 DEF RemoveFile
    <3>2. d \notin IdsOf(td)
      BY <3>1 DEF Gone, IdsOf
    <3> QED
      BY <3>2, <1>2, <1>4, AliveAsked
  <2> QED
    BY <1>11, <2>3, <2>4, <2>5
<1>12. CASE Unlink \/ CreateSymlink
  <2>1. /\ pool' = pool /\ db' = db /\ torn' = torn /\ touched \subseteq touched' /\ d1 \in touched'
        /\ f1 \in Kinds /\ d1 \in Pos
    BY <1>12, <1>3, <1>4, <1>5 DEF Unlink, CreateSymlink, Touches
  <2> SUFFICES ASSUME ~reordered, NEW d \in Ids, Stored(d), Alive(d)
               PROVE  /\ \A f \in Kinds : pool[d][f] # None /\ pool[d][f] >= db[d].timestamp
                      /\ db[d].order \in torn' \cup touched' \/ \A f \in Kinds : link'[db[d].order][f] = d
    BY <1>1, <1>7, <1>9, <2>1 DEF OrderInv, GoodInv, Stored
  <2>2. /\ \A f \in Kinds : pool[d][f] # None /\ pool[d][f] >= db[d].timestamp
        /\ db[d].order \in torn \cup touched \/ \A f \in Kinds : link[db[d].order][f] = d
    BY <1>2 DEF GoodInv
  <2>3. db[d].order \in Pos
    BY <1>2 DEF DiskInv, Stored, Row
  <2>4. db[d].order # d1 => link'[db[d].order] = link[db[d].order]
    BY <1>12, <2>1, <2>3, <1>2 DEF Unlink, CreateSymlink, DiskInv
  <2> QED
    BY <2>1, <2>2, <2>4
<1>13. CASE UpdateDatabase
  <2>1. /\ db' = UpdateTd(msg) /\ torn' = torn \ touched /\ touched' = touched
        /\ pool' = pool /\ link' = link /\ Todo = {<<"update">>}
    BY <1>13, <1>3, <1>4 DEF UpdateDatabase, Todo, ToSet
  <2>2. ASSUME NEW d \in Ids, d \notin IdsOf(td)
        PROVE  db'[d] = db[d]
    BY <2>1, <2>2 DEF UpdateTd, IdsOf
  <2>3. ASSUME NEW i \in DOMAIN td
        PROVE  db'[td[i].id] = [order |-> i, timestamp |-> td[i].timestamp]
    <3> DEFINE k == CHOOSE j \in DOMAIN td : td[j].id = td[i].id
    <3>1. k \in DOMAIN td /\ td[k].id = td[i].id
      OBVIOUS
    <3>2. k = i
      BY <3>1, <1>5
    <3>3. db'[td[i].id] = [order |-> k, timestamp |-> td[k].timestamp]
      BY <2>1, <1>5 DEF UpdateTd
    <3> QED
      BY <3>2, <3>3
  <2>4. StoredInv'
    <3> SUFFICES ASSUME ~reordered, NEW d \in Ids, Stored(d)'
                 PROVE  /\ \A m1, m2 \in Ahead : m1.seq < m2.seq /\ d \in IdsOf(m2.td) => d \in IdsOf(m1.td)
                        /\ d \in Present => \A m \in Ahead : d \in IdsOf(m.td)
      BY <1>1, <1>6 DEF StoredInv
    <3>1. CASE d \notin IdsOf(td)
      BY <3>1, <2>2, <1>2 DEF StoredInv, Stored
    <3>2. CASE d \in IdsOf(td)
      <4>1. /\ msg \in Messages /\ msg.seq = newest
            /\ \A m \in Ahead : m = msg \/ (m \in inbox /\ newest < m.seq)
        BY <1>4, AheadMsg
      <4>2. Ahead \subseteq Messages
        BY DEF Ahead
      <4>3. ASSUME NEW m \in Ahead, d \in Present
            PROVE  d \in IdsOf(m.td)
        <5>1. m = msg \/ msg.seq < m.seq
          BY <4>1
        <5> QED
          BY <3>2, <4>1, <4>2, <4>3, <5>1 DEF OrderInv, ConvexInv
      <4>4. ASSUME NEW m1 \in Ahead, NEW m2 \in Ahead, m1.seq < m2.seq, d \in IdsOf(m2.td)
            PROVE  d \in IdsOf(m1.td)
        <5>1. m1 = msg \/ msg.seq < m1.seq
          BY <4>1
        <5> QED
          BY <3>2, <4>1, <4>2, <4>4, <5>1 DEF OrderInv, ConvexInv
      <4> QED
        BY <4>3, <4>4
    <3> QED
      BY <3>1, <3>2
  <2>5. GoodInv'
    <3> SUFFICES ASSUME ~reordered, NEW d \in Ids, Stored(d)', Alive(d)
                 PROVE  /\ \A f \in Kinds : pool[d][f] # None /\ pool[d][f] >= db'[d].timestamp
                        /\ db'[d].order \in torn \cup touched \/ \A f \in Kinds : link[db'[d].order][f] = d
      <4>1. torn' \cup touched' = torn \cup touched
        BY <2>1
      <4> QED
        BY <4>1, <2>1, <1>1, <1>7 DEF GoodInv
    <3>1. CASE d \notin IdsOf(td)
      BY <3>1, <2>2, <1>2 DEF GoodInv, Stored
    <3>2. CASE d \in IdsOf(td)
      <4>1. PICK i \in DOMAIN td : td[i].id = d
        BY <3>2 DEF IdsOf
      <4>2. db'[d].order = i /\ db'[d].timestamp = td[i].timestamp
        <5>1. db'[td[i].id] = [order |-> i, timestamp |-> td[i].timestamp]
          BY <2>3
        <5> QED
          BY <4>1, <5>1
      <4>3. Stored(d) => /\ \A f \in Kinds : pool[d][f] # None /\ pool[d][f] >= db[d].timestamp
                         /\ db[d].order \in torn \cup touched \/ \A f \in Kinds : link[db[d].order][f] = d
        BY <1>2 DEF GoodInv
      <4>4. ASSUME NEW f \in Kinds
            PROVE  pool[d][f] # None /\ pool[d][f] >= td[i].timestamp
        <5>1. CASE i \in Stale(db, td)
          <6>1. <<"rename", td[i].id, f>> # <<"update">>
            OBVIOUS
          <6>2. <<"rename", td[i].id, f>> \notin Todo
            BY <6>1, <2>1
          <6>3. pool[td[i].id][f] # None /\ pool[td[i].id][f] >= td[i].timestamp
            BY <5>1, <6>2, <1>1, <1>2, <1>4 DEF DoneInv
          <6> QED
            BY <4>1, <6>3
        <5>2. CASE i \notin Stale(db, td)
          <6>1. Stored(d) /\ db[d].timestamp = td[i].timestamp
            BY <4>1, <5>2 DEF Stale, Stored
          <6> QED
            BY <4>3, <6>1
        <5> QED
          BY <5>1, <5>2
      <4>5. i \in torn \cup touched \/ \A f \in Kinds : link[i][f] = d
        <5>1. CASE i \in Touches(db, td)
          <6>1. <<"unlink", i, "in">> # <<"update">>
            OBVIOUS
          <6>2. <<"unlink", i, "in">> \notin Todo
            BY <6>1, <2>1
          <6>3. i \in touched
            BY <5>1, <6>2, <1>1, <1>2, <1>4 DEF DoneInv
          <6> QED
            BY <6>3
        <5>2. CASE i \notin Touches(db, td)
          <6>1. Stored(d) /\ db[d].order = i
            BY <4>1, <5>2 DEF Touches, Moved, Stored
          <6> QED
            BY <4>3, <6>1
        <5> QED
          BY <5>1, <5>2
      <4> QED
        BY <4>2, <4>4, <4>5
    <3> QED
      BY <3>1, <3>2
  <2> QED
    BY <1>9, <2>4, <2>5 DEF OrderInv
<1> QED
  BY <1>10, <1>11, <1>12, <1>13 DEF UpdateStep

\* Every step keeps the order of the lists and the truth of the database.
LEMMA NextOrder ==
  ASSUME BaseInv, WorkInv, OrderInv, [Next]_vars
  PROVE  OrderInv'
<1>1. CASE EditProblem \/ SendSubmission
  BY <1>1, EditOrder, SendOrder
<1>2. CASE DealOneSubmission
  <2>1. ASSUME NEW m \in inbox, TakeMessage(m) PROVE OrderInv'
    BY <2>1, TakeOrder
  <2>2. CASE UpdateStep
    BY <2>2, UpdateOrder
  <2>3. CASE Push \/ UpdateFails \/ Restart
    BY <2>3, EndOrder
  <2> QED
    BY <1>2, <2>1, <2>2, <2>3 DEF DealOneSubmission
<1>3. CASE SetupScoring \/ UNCHANGED vars
  <2>1. UNCHANGED <<server, inbox, msg, disk, ghosts>>
    BY <1>3 DEF SetupScoring, CopyInput, CopyAnswer, vars
  <2>2. /\ config' = config /\ inbox' = inbox /\ msg' = msg /\ newest' = newest /\ reordered' = reordered
        /\ pool' = pool /\ link' = link /\ db' = db /\ torn' = torn /\ touched' = touched
    BY <2>1 DEF server, disk, ghosts
  <2>3. Messages' = Messages /\ newest' \in Nat /\ newest <= newest'
    BY <2>2 DEF Messages, BaseInv, MessageInv, ServerInv
  <2>4. ConvexInv' /\ StoredInv' /\ \A d \in Ids : Alive(d)' => Alive(d)
    BY <2>2, <2>3, OrderFrame
  <2>5. GoodInv'
    BY <2>2, <2>4, GoodFrame DEF OrderInv
  <2> QED
    BY <2>4, <2>5 DEF OrderInv
<1> QED
  BY <1>1, <1>2, <1>3 DEF Next

\* Accepted submissions find their testdata (AcceptedIsStored): for every list of
\* testdata, every sequence of edits and every way in which updates fail or are cut
\* off, when DealOneSubmission succeeds with messages taken in the order of sending,
\* both symlinks of every position lead to the testdatum of the message with files
\* not older than its timestamp, unless an interrupted update left the position torn.
THEOREM AcceptedIsStoredAlways == Spec => []AcceptedIsStored
<1>1. Init => OrderInv
  <2>1. ASSUME Init PROVE OrderInv
    <3>1. Messages = {} /\ Ahead = {} /\ \A d \in Ids : ~Stored(d)
      BY <2>1 DEF Init, Messages, Ahead, Stored
    <3> QED
      BY <3>1 DEF OrderInv, ConvexInv, StoredInv, GoodInv
  <2> QED
    BY <2>1
<1>2. BaseInv /\ WorkInv /\ OrderInv /\ [Next]_vars => OrderInv'
  BY NextOrder
<1>3. BaseInv /\ WorkInv /\ OrderInv => AcceptedIsStored
  <2> SUFFICES ASSUME BaseInv, WorkInv, OrderInv, Accepted, ~reordered,
                      NEW i \in DOMAIN msg.td, i \notin torn, NEW f \in Kinds
               PROVE  LET d == msg.td[i].id IN
                      link[i][f] = d /\ pool[d][f] # None /\ pool[d][f] >= msg.td[i].timestamp
    BY DEF AcceptedIsStored, StoredAt
  <2> DEFINE d == msg.td[i].id
  <2>1. msg # None /\ ops = <<>> /\ Todo = {}
    BY DEF Accepted, Todo, ToSet
  <2>2. msg.td \in TdList /\ msg \in Ahead
    BY <2>1, AheadMsg, MessageFacts
  <2>3. d \in Ids /\ i \in Pos
    BY <2>2, TdFacts
  <2>4. db[d] = [order |-> i, timestamp |-> msg.td[i].timestamp]
    BY <2>1 DEF WorkInv, DoneInv
  <2>5. db[d] \in Row
    <3>1. msg.td[i].timestamp \in 1 .. MaxEdits
      BY <2>2, TdFacts
    <3> QED
      BY <2>3, <2>4, <3>1 DEF Row
  <2>6. Stored(d) /\ Alive(d)
    BY <2>2, <2>5, NoneAssumption DEF Stored, Alive, IdsOf
  <2>7. /\ pool[d][f] # None /\ pool[d][f] >= msg.td[i].timestamp
        /\ i \in touched \/ link[i][f] = d
    BY <2>3, <2>4, <2>6 DEF OrderInv, GoodInv
  <2>8. i \in touched => link[i][f] = d
    BY <2>1, <2>3 DEF WorkInv, LinkInv, Target
  <2> QED
    BY <2>7, <2>8
<1> QED
  BY <1>1, <1>2, <1>3, BaseHolds, WorkHolds, PTL DEF Spec

=============================================================================
