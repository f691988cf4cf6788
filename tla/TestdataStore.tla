--------------------------- MODULE TestdataStore ---------------------------
(***************************************************************************)
(* The testdata of one problem on the judge's disk (DealOneSubmission in   *)
(* src/server_io.cpp, src/database.cpp).  The files of a testdatum are in  *)
(* a pool under its id; the symlinks of a problem's positions lead into    *)
(* it; the database records at which position and with which timestamp a   *)
(* testdatum was stored.  A submission message carries the problem's       *)
(* present list, and DealOneSubmission brings the disk up to date by what  *)
(* differs from the database, which it updates last.                       *)
(*                                                                         *)
(* One update at a time (judge_mtx), but messages may be taken in another  *)
(* order than they were sent, any system call may fail, and the judge may  *)
(* stop anywhere: the update is therefore a sequence of file operations,   *)
(* of which one is executed in a step.  The worker copies testdata under   *)
(* td_file_lock at the same time.  Positions count from 1.                 *)
(***************************************************************************)
EXTENDS Integers, Sequences, FiniteSets, SequencesExt

CONSTANTS
  Ids,            \* testdata ids
  MaxEdits,       \* bound: changes of the problem on the server
  MaxMessages,    \* bound: submission messages
  MaxInterrupts,  \* bound: failed updates and restarts
  None            \* no file, no symlink, no row, nobody

ASSUME StoreAssumption == Ids \subseteq Nat /\ IsFiniteSet(Ids) /\ {MaxEdits, MaxMessages, MaxInterrupts} \subseteq Nat

Kinds == {"in", "out"}
Pos   == 1 .. Cardinality(Ids)
Row   == [order : Pos, timestamp : 1 .. MaxEdits]

\* The lists of testdata that a message can carry.
TdList ==
  {td \in BoundedSeq([id : Ids, timestamp : 1 .. MaxEdits], Cardinality(Ids)) :
     \A i, j \in DOMAIN td : td[i].id = td[j].id => i = j}

ASSUME NoneAssumption ==
  /\ None \notin Nat
  /\ None \notin {"deal", "worker"}
  /\ None \notin Row
  /\ None \notin [pos : Pos, in : Ids \cup {None}]
  /\ None \notin [seq : Nat, td : TdList]
  /\ None \notin [td : TdList, touched : SUBSET Pos]

VARIABLES
  config,         \* server: the problem's testdata ids in order
  version,        \* server: id -> updated_at, 0 if it does not exist
  edits, sent,    \* their numbers
  inbox,          \* messages on their way
  msg,            \* the message DealOneSubmission works on, or None
  ops,            \* the file operations it has still to do
  pool, tmp,      \* id -> kind -> version of the file, or None
  link,           \* position -> kind -> id the symlink leads to, or None
  db,             \* id -> [order, timestamp], or None
  td_file_lock,   \* None, "deal" or "worker"
  scoring,        \* what SetupScoring is copying: [pos, in], or None
  interrupts,
  touched,        \* history: positions this update has changed
  torn,           \* history: positions an interrupted update changed, not set since
  pending,        \* history: the last interrupted update, or None
  newest,         \* history: the newest message that was taken
  reordered       \* history: one was taken after a newer one

server == <<config, version, edits, sent>>
disk   == <<pool, tmp, link, db>>
ghosts == <<touched, torn, pending, newest, reordered>>
vars   == <<server, inbox, msg, ops, disk, td_file_lock, scoring, interrupts, ghosts>>

Init ==
  /\ config = <<>>
  /\ version = [d \in Ids |-> 0]
  /\ edits = 0 /\ sent = 0
  /\ inbox = {}
  /\ msg = None
  /\ ops = <<>>
  /\ pool = [d \in Ids |-> [f \in Kinds |-> None]]
  /\ tmp = pool
  /\ link = [p \in Pos |-> [f \in Kinds |-> None]]
  /\ db = [d \in Ids |-> None]
  /\ td_file_lock = None
  /\ scoring = None
  /\ interrupts = 0
  /\ touched = {} /\ torn = {}
  /\ pending = None
  /\ newest = 0
  /\ reordered = FALSE

-----------------------------------------------------------------------------
(* The server (external): a problem is edited, with ids in increasing order, and
   submissions are sent with the list as it is. *)

Edit(c, v) ==
  /\ edits < MaxEdits
  /\ edits' = edits + 1
  /\ config' = c /\ version' = v
  /\ UNCHANGED <<sent, inbox, msg, ops, disk, td_file_lock, scoring, interrupts, ghosts>>

Present == ToSet(config)

AddTestdata(d)    == version[d] = 0 /\ (\A e \in Ids : e < d => version[e] > 0)
                     /\ Edit(Append(config, d), [version EXCEPT ![d] = 1])
ChangeTestdata(d) == d \in Present /\ Edit(config, [version EXCEPT ![d] = @ + 1])
RemoveTestdata(i) == i \in DOMAIN config /\ Edit(RemoveAt(config, i), version)
SwapTestdata(i)   == i + 1 \in DOMAIN config /\ i > 0
                     /\ Edit([config EXCEPT ![i] = config[i + 1], ![i + 1] = config[i]], version)

SendSubmission ==
  /\ sent < MaxMessages
  /\ sent' = sent + 1
  /\ inbox' = inbox \cup {[seq |-> sent + 1,
                           td |-> [i \in DOMAIN config |-> [id |-> config[i], timestamp |-> version[config[i]]]]]}
  /\ UNCHANGED <<config, version, edits, msg, ops, disk, td_file_lock, scoring, interrupts, ghosts>>

-----------------------------------------------------------------------------
(* DealOneSubmission: "compare to determine which to download" *)

Missing(t) == db[t.id] = None

to_download(m) ==
  SetToSeq({i \in DOMAIN m.td : Missing(m.td[i]) \/ db[m.td[i].id].timestamp # m.td[i].timestamp})

\* Mutant: a testdatum is linked only when it is new.
to_update_position_new(m) == SetToSeq({i \in DOMAIN m.td : Missing(m.td[i])})

to_update_position(m) ==
  SetToSeq({i \in DOMAIN m.td : Missing(m.td[i]) \/ db[m.td[i].id].order # i})

to_delete(m) == SetToSeq({d \in Ids : db[d] # None /\ \A i \in DOMAIN m.td : m.td[i].id # d})

orig_td(m) == SetToSeq({p \in Pos : p > Len(m.td) /\ \E d \in Ids : db[d] # None /\ db[d].order >= p})

\* The operations Ops(x), w of them for each element x of s.
ForEach(s, w, Ops(_)) == [k \in 1 .. w * Len(s) |-> Ops(s[((k - 1) \div w) + 1])[((k - 1) % w) + 1]]

Both(op, x) == << <<op, x, "in">>, <<op, x, "out">> >>

\* The file operations in the order of the code.  The order among several
\* testdata of one kind of operation makes no difference and is arbitrary.
FileOperations(m) ==
  LET Relink(i) == Both("unlink", i) \o << <<"link", i, "in", m.td[i].id>>, <<"link", i, "out", m.td[i].id>> >>
  IN  ForEach(to_download(m), 2, LAMBDA i : Both("get", m.td[i].id))
      \o << <<"lock">> >>
      \o ForEach(to_download(m), 2, LAMBDA i : Both("rename", m.td[i].id))
      \o ForEach(to_delete(m), 2, LAMBDA d : Both("remove", d))
      \o ForEach(to_update_position(m), 4, Relink)
      \o ForEach(orig_td(m), 2, LAMBDA p : Both("unlink", p))
      \o << <<"unlock">> >>

\* Mutant: the database is updated first.
OperationsDatabaseFirst(m) == << <<"update">> >> \o FileOperations(m)

Operations(m) == FileOperations(m) \o << <<"update">> >>

TakeMessage(m) ==
  /\ msg = None
  /\ m \in inbox
  /\ inbox' = inbox \ {m}
  /\ msg' = m
  /\ ops' = Operations(m)
  /\ newest' = IF m.seq > newest THEN m.seq ELSE newest
  /\ reordered' = (reordered \/ m.seq < newest)
  /\ UNCHANGED <<server, disk, td_file_lock, scoring, interrupts, touched, torn, pending>>

Doing(op) == ops # <<>> /\ ops[1][1] = op
d1 == ops[1][2]
f1 == ops[1][3]

\* What the server has now, which may be newer than the message.
Download ==
  /\ Doing("get")
  /\ d1 \in Present
  /\ tmp' = [tmp EXCEPT ![d1][f1] = version[d1]]
  /\ UNCHANGED <<td_file_lock, pool, link, db, touched, torn>>

Lock ==
  /\ Doing("lock")
  /\ td_file_lock = None
  /\ td_file_lock' = "deal"
  /\ UNCHANGED <<disk, touched, torn>>

Rename ==
  /\ Doing("rename")
  /\ pool' = [pool EXCEPT ![d1][f1] = tmp[d1][f1]]
  /\ tmp' = [tmp EXCEPT ![d1][f1] = None]
  /\ UNCHANGED <<td_file_lock, link, db, touched, torn>>

RemoveFile ==
  /\ Doing("remove")
  /\ pool' = [pool EXCEPT ![d1][f1] = None]
  /\ UNCHANGED <<td_file_lock, tmp, link, db, touched, torn>>

Unlink ==
  /\ Doing("unlink")
  /\ link' = [link EXCEPT ![d1][f1] = None]
  /\ touched' = touched \cup {d1}
  /\ UNCHANGED <<td_file_lock, pool, tmp, db, torn>>

CreateSymlink ==
  /\ Doing("link")
  /\ link' = [link EXCEPT ![d1][f1] = ops[1][4]]
  /\ UNCHANGED <<td_file_lock, pool, tmp, db, touched, torn>>

Unlock ==
  /\ Doing("unlock")
  /\ td_file_lock' = None
  /\ UNCHANGED <<disk, touched, torn>>

\* replace_range: rows of testdata that are gone stay.
UpdateTd(m) ==
  [d \in Ids |-> IF \E i \in DOMAIN m.td : m.td[i].id = d
                 THEN LET i == CHOOSE i \in DOMAIN m.td : m.td[i].id = d
                      IN  [order |-> i, timestamp |-> m.td[i].timestamp]
                 ELSE db[d]]

UpdateDatabase ==
  /\ Doing("update")
  /\ db' = UpdateTd(msg)
  /\ torn' = torn \ touched
  /\ UNCHANGED <<td_file_lock, pool, tmp, link, touched>>

UpdateStep ==
  /\ ops # <<>>
  /\ ops' = Tail(ops)
  /\ Download \/ Lock \/ Rename \/ RemoveFile \/ Unlink \/ CreateSymlink \/ Unlock \/ UpdateDatabase
  /\ UNCHANGED <<server, inbox, msg, scoring, interrupts, pending, newest, reordered>>

\* The submission is pushed; what it stored is there from then on.
Push ==
  /\ msg # None
  /\ ops = <<>>
  /\ msg' = None
  /\ pending' = None
  /\ touched' = {}
  /\ UNCHANGED <<server, inbox, ops, disk, td_file_lock, scoring, interrupts, torn, newest, reordered>>

\* The update ends here: its history.
Interrupted ==
  /\ interrupts < MaxInterrupts
  /\ interrupts' = interrupts + 1
  /\ msg' = None
  /\ ops' = <<>>
  /\ torn' = torn \cup touched
  /\ pending' = IF msg = None THEN pending ELSE [td |-> msg.td, touched |-> touched]
  /\ touched' = {}
  /\ UNCHANGED <<server, disk, newest, reordered>>

\* Mutant: the lock is not released on the early return.
UpdateFailsLocked ==
  /\ \E op \in {"get", "rename", "link"} : Doing(op)
  /\ Interrupted
  /\ UNCHANGED <<inbox, td_file_lock, scoring>>

\* "if (ec) return false"; a download fails after its retries, or for a
\* testdatum that the server does not have any more.
UpdateFails ==
  /\ \E op \in {"get", "rename", "link"} : Doing(op)
  /\ Interrupted
  /\ td_file_lock' = IF td_file_lock = "deal" THEN None ELSE td_file_lock
  /\ UNCHANGED <<inbox, scoring>>

\* The disk stays, the rest is lost.
Restart ==
  /\ msg # None
  /\ ops # <<>>
  /\ Interrupted
  /\ inbox' = {}
  /\ td_file_lock' = None
  /\ scoring' = None

-----------------------------------------------------------------------------
(* The worker: SetupScoring copies the input, then the answer. *)

\* Mutant: the copies are not under td_file_lock.
CopyInputUnlocked(p) ==
  /\ scoring = None
  /\ scoring' = [pos |-> p, in |-> link[p]["in"]]
  /\ UNCHANGED <<server, inbox, msg, ops, disk, td_file_lock, interrupts, ghosts>>

CopyInput(p) ==
  /\ scoring = None
  /\ td_file_lock = None
  /\ td_file_lock' = "worker"
  /\ scoring' = [pos |-> p, in |-> link[p]["in"]]
  /\ UNCHANGED <<server, inbox, msg, ops, disk, interrupts, ghosts>>

CopyAnswer ==
  /\ scoring # None
  /\ scoring' = None
  /\ td_file_lock' = None
  /\ UNCHANGED <<server, inbox, msg, ops, disk, interrupts, ghosts>>

-----------------------------------------------------------------------------
EditProblem ==
  \/ \E d \in Ids : AddTestdata(d) \/ ChangeTestdata(d)
  \/ \E i \in Pos : RemoveTestdata(i) \/ SwapTestdata(i)

DealOneSubmission == (\E m \in inbox : TakeMessage(m)) \/ UpdateStep \/ Push \/ UpdateFails \/ Restart

SetupScoring == (\E p \in Pos : CopyInput(p)) \/ CopyAnswer

Next == EditProblem \/ SendSubmission \/ DealOneSubmission \/ SetupScoring

Spec == Init /\ [][Next]_vars

-----------------------------------------------------------------------------
(* Properties *)

\* Types; the update holds td_file_lock only while there is one, and the
\* worker only while it copies.
TypeOK ==
  /\ config \in BoundedSeq(Ids, Cardinality(Ids))
  /\ version \in [Ids -> 0 .. MaxEdits]
  /\ pool \in [Ids -> [Kinds -> (0 .. MaxEdits) \cup {None}]]
  /\ tmp \in [Ids -> [Kinds -> (0 .. MaxEdits) \cup {None}]]
  /\ link \in [Pos -> [Kinds -> Ids \cup {None}]]
  /\ db \in [Ids -> Row \cup {None}]
  /\ td_file_lock = "deal" => ops # <<>>
  /\ (td_file_lock = "worker") <=> (scoring # None)
  /\ torn \subseteq Pos /\ touched \subseteq Pos

Accepted == msg # None /\ ops = <<>>

StoredAt(i, t) ==
  \A f \in Kinds : /\ link[i][f] = t.id
                   /\ pool[t.id][f] # None
                   /\ pool[t.id][f] >= t.timestamp

\* When DealOneSubmission succeeds, both symlinks of every position lead to the
\* testdatum of the message, with files at least as new as its timestamp:
\* whatever was edited, added, removed or moved since the last update, and
\* whatever failed or was cut off before.  Two exceptions, which the code has:
\* an older message was taken after a newer one (NotDownloadedIsThere), and a
\* position that an interrupted update changed, when the testdatum is now back
\* where the database has it.
AcceptedIsStored ==
  Accepted /\ ~reordered => \A i \in DOMAIN msg.td : i \in torn \/ StoredAt(i, msg.td[i])

\* An update that failed or was cut off between its first symlink and UpdateTd
\* is repaired when the same list is sent again: the database is written last,
\* so that everything the first attempt changed is done again.
RetryRepairs ==
  Accepted /\ pending # None =>
    (pending.td = msg.td => torn \cap pending.touched = {})

\* The answer that SetupScoring is about to copy belongs to the testdatum whose
\* input it has copied, although an update replaces both symlinks one by one.
ScoringPair == scoring # None => scoring.pos \in torn \/ link[scoring.pos]["out"] = scoring.in

\* "compare to determine which to download" (DealOneSubmission): the files of
\* a testdatum that is in the newest message and not downloaded are there.
NotDownloadedIsThere ==
  Accepted /\ msg.seq = sent => \A i \in DOMAIN msg.td, f \in Kinds : pool[msg.td[i].id][f] # None
=============================================================================
