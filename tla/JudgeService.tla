---------------------------- MODULE JudgeService ----------------------------
(***************************************************************************)
(* What the judging core promises to the server: every accepted judging is *)
(* retired, a judging is superseded by a later one of the same submission, *)
(* and exactly the judgings that were not superseded are answered.         *)
(***************************************************************************)
EXTENDS Naturals, Sequences

CONSTANTS Sids, MaxPush

VARIABLES
  accepted,   \* submission id of every judging accepted, by internal id
  active,     \* judgings that are not retired
  superseded, \* active judgings that a later one made void
  answered    \* judgings whose overall result was reported

svars == <<accepted, active, superseded, answered>>

ServiceInit ==
  /\ accepted = <<>>
  /\ active = {}
  /\ superseded = {}
  /\ answered = {}

Accept(sid) ==
  /\ Len(accepted) < MaxPush
  /\ accepted' = Append(accepted, sid)
  /\ active' = active \cup {Len(accepted) + 1}
  /\ superseded' = superseded \cup {id \in active : accepted[id] = sid}
  /\ UNCHANGED answered

Retire(id) ==
  /\ id \in active
  /\ active' = active \ {id}
  /\ superseded' = superseded \ {id}
  /\ answered' = IF id \in superseded THEN answered ELSE answered \cup {id}
  /\ UNCHANGED accepted

ServiceNext ==
  \/ \E sid \in Sids : Accept(sid)
  \/ \E id \in active : Retire(id)

ServiceSpec ==
  /\ ServiceInit
  /\ [][ServiceNext]_svars
  /\ WF_svars(\E id \in active : Retire(id))
=============================================================================
