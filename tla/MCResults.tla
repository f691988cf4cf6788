----------------------------- MODULE MCResults -----------------------------
(* Small instances of Results. *)
EXTENDS Results

Use(utime, stime, wall, rss, end) == [utime |-> utime, stime |-> stime, wall |-> wall, rss |-> rss, end |-> end]

Quick == Use(1, 0, 1, 1, "exit")

Quiet == [ok |-> TRUE, code |-> 0, accept |-> TRUE, nextpass |-> FALSE, score |-> {}, verdict |-> {}, time |-> {}, rss |-> {}]

Item(ignore, groups) == [time |-> 6, rss |-> 4, output |-> 2, ignore_verdict |-> ignore, td_groups |-> groups]

\* Two stages, judged in between by a checker of the given type.
Staged(name, type) ==
  [name |-> name, stages |-> 2, testdata |-> <<Item(FALSE, {1})>>, group_score |-> <<10>>,
   specjudge_type |-> type, judge_between_stages |-> TRUE, judge_abnormally_terminated |-> FALSE,
   specjudge_re_as_wa |-> FALSE, skip_group |-> FALSE, sandbox_strict |-> TRUE]

\* Programs around every limit, and a checker that corrects the time.
LimitProblems ==
  {[Staged("limits", "SPECJUDGE_OLD") EXCEPT !.judge_between_stages = b, !.sandbox_strict = b] : b \in BOOLEAN}

\* Everything that checkers of each type can print, and a summary program.
CheckerProblems ==
  {[Staged("checkers", type) EXCEPT !.judge_abnormally_terminated = b, !.specjudge_re_as_wa = b] :
     type \in {"NORMAL", "SPECJUDGE_OLD", "SKIP", "SPECJUDGE_POLYGON", "SPECJUDGE_KATTIS"}, b \in BOOLEAN}

\* Overlapping groups and an empty one, with and without skip_group.
GroupProblems ==
  {[Staged("groups", "NORMAL") EXCEPT
      !.stages = 1, !.skip_group = skip, !.group_score = <<2, 4, 1>>,
      !.testdata = <<Item(FALSE, {1}), Item(ignore, {1, 2}), Item(FALSE, {2}), Item(FALSE, {})>>] :
     skip \in BOOLEAN, ignore \in BOOLEAN}

AllProblems == LimitProblems \cup CheckerProblems \cup GroupProblems

MCUsages(p) ==
  CASE p.name = "limits" ->
         {Use(u, s, w, m, e) : u \in 0 .. 8, s \in 0 .. 1, w \in {1, 9, 13}, m \in {1, 5}, e \in {"exit", "status"}}
         \cup {Use(1, 1, 1, 20, "exit"), Use(1, 1, 1, 5, "signal"), Use(1, 1, 1, 1, "signal"),
               Use(1, 1, 1, 5, "SIGXFSZ"), Use(0, 0, 0, 0, "error")}
    [] p.name = "checkers" -> {Quick, Use(9, 0, 9, 1, "exit")}
    [] p.name = "groups"   -> {Quick, Use(1, 0, 1, 1, "status")}

Codes(type) == CASE type = "SPECJUDGE_POLYGON" -> {0, 2, 3, 7, 50, 150, 250}
                 [] type = "SPECJUDGE_KATTIS"  -> {0, 42, 43}
                 [] OTHER                      -> {0, 1}

Only(p, type) == IF p.specjudge_type = type THEN BOOLEAN ELSE {TRUE}

MCOutputs(p) ==
  CASE p.name = "limits"   -> {[Quiet EXCEPT !.time = t] : t \in {{}, {0}, {9}, {-3}}}
                              \cup {[Quiet EXCEPT !.rss = {9}]}
    [] p.name = "checkers" ->
         [ok : BOOLEAN, code : Codes(p.specjudge_type), accept : Only(p, "SPECJUDGE_OLD"),
          nextpass : Only(p, "SPECJUDGE_KATTIS"),
          score : {{}, {-9}, {0}, {1}, {4}, {30}}, verdict : {{}, {NUL}, {AC}, {WA}, {JRE}}, time : {{}, {9}}, rss : {{}}]
    [] p.name = "groups"   -> {Quiet, [Quiet EXCEPT !.verdict = {AC}], [Quiet EXCEPT !.score = {1}],
                               [Quiet EXCEPT !.verdict = {AC}, !.score = {2}]}

MCSummaries(p) ==
  IF p.name = "checkers" /\ p.specjudge_re_as_wa
  THEN [ok : BOOLEAN, score : {{}, {-9}, {30}}, verdict : {{}, {NUL}, {CE}}]
  ELSE {Nothing}
=============================================================================
