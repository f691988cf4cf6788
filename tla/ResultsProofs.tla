--------------------------- MODULE ResultsProofs ---------------------------
(***************************************************************************)
(* The numbers of Results for any problems, programs and checkers, any     *)
(* limits, margins and time multiplier: what a TLE and what surviving the  *)
(* sandbox mean, which verdicts a checker's output leads to, the bounds of *)
(* all scores, and what skipping testdata leaves of the groups.            *)
(***************************************************************************)
EXTENDS Results, FiniteSetTheorems, NaturalsInduction, WellFoundedInduction, SequenceTheorems, TLAPS

\* A score that a testdatum, a group or a submission can have.
ScoreRange == -(kMax * Unit) .. kInfScore - 1

TdResult == [verdict : RuntimeVerdict, score : ScoreRange, time : Int, rss : Int, skip_stage : BOOLEAN]

\* The results are those of the problem's testdata, and all scores in range.
TypeInv ==
  /\ prob \in Problems
  /\ phase \in [Tds -> {"run", "ran", "checked", "end"}]
  /\ stage \in [Tds -> Nat]
  /\ r \in [Tds -> TdResult]
  /\ size \in {0} \cup Tds
  /\ DOMAIN out = Tds
  /\ DOMAIN used = Tds
  /\ cancelled \subseteq Nat
  /\ res.total_score \in ScoreRange
  /\ \A i \in Tds : phase[i] = "checked" => out[i] \in Outputs(prob) /\ prob.specjudge_type # "SKIP"

\* What the last execution of a testdatum has left, with the limits it ran under.
Measured(i) ==
  /\ r[i].verdict = TLE => \/ r[i].time > Td(i).time
                           \/ ToUs(used[i].u.wall) > Max({Td(i).time - used[i].before, 0})
  /\ ~TimeKill(used[i].u, used[i].opt) => r[i].time <= Max({Td(i).time, used[i].before}) + kCpuMargin

\* The stages that follow an abnormal one do not touch it.
LimitInv ==
  \A i \in Tds :
    phase[i] = "ran" \/ (phase[i] = "run" /\ stage[i] > 0 /\ r[i].verdict # NUL) => Measured(i)

\* A group is cancelled by a testdatum that has failed at its end, and a testdatum
\* ends without a verdict only if all its groups are cancelled, or nothing runs;
\* td_results reaches to whatever has run.
GroupInv ==
  /\ \A i \in Tds : phase[i] \in {"ran", "checked"} \/ (phase[i] = "run" /\ stage[i] > 0) => i <= size
  /\ \A i \in Tds : r[i].verdict # NUL => i <= size
  /\ \A i \in Tds : phase[i] # "end" => ~r[i].skip_stage
  /\ \A g \in cancelled : \E j \in Tds :
       phase[j] = "end" /\ g \in Td(j).td_groups /\ r[j].verdict \notin {NUL, AC}
  /\ res.done => \A i \in Tds : phase[i] = "end"
  /\ ~res.done => \A i \in Tds : phase[i] = "end" /\ r[i].verdict = NUL => IsCancelled(i) \/ res.verdict = CE

-----------------------------------------------------------------------------
(* Arithmetic. *)

\* Division rounds down.
LEMMA DivBounds ==
  ASSUME NEW x \in Int, NEW y \in Nat \ {0}
  PROVE  /\ x \div y \in Int
         /\ y * (x \div y) <= x
         /\ x < y * (x \div y) + y
  BY SMT

\* A positive factor may be cancelled.
LEMMA Cancelling ==
  ASSUME NEW d \in Nat \ {0}, NEW x \in Int, NEW y \in Int, d * x < d * y
  PROVE  x < y
  <1>1. ASSUME y <= x
        PROVE  d * y <= d * x
    BY <1>1, SMT
  <1> QED
    BY <1>1, SMT

\* The greater of two numbers.
LEMMA MaxTwo ==
  ASSUME NEW x \in Int, NEW y \in Int
  PROVE  /\ Max({x, y}) \in {x, y}
         /\ Max({x, y}) >= x
         /\ Max({x, y}) >= y
  BY SMT DEF Max

\* The lesser of two numbers.
LEMMA MinTwo ==
  ASSUME NEW x \in Int, NEW y \in Int
  PROVE  /\ Min({x, y}) \in {x, y}
         /\ Min({x, y}) <= x
         /\ Min({x, y}) <= y
  BY SMT DEF Min

-----------------------------------------------------------------------------
(* kTimeMultiplier: indicated and real time *)

\* ToUs (the measured times) and ToReal (the limits of RunExecute) in integers.
LEMMA TimeBounds ==
  ASSUME NEW x \in Int
  PROVE  /\ ToUs(x) \in Int
         /\ MulDen * ToUs(x) <= x * MulNum
         /\ x * MulNum < MulDen * ToUs(x) + MulDen
         /\ ToReal(x) \in Int
         /\ MulNum * ToReal(x) <= x * MulDen
         /\ x * MulDen < MulNum * ToReal(x) + MulNum
  <1>1. MulNum \in Nat \ {0} /\ MulDen \in Nat \ {0}
    BY ResultsAssumption
  <1>2. x * MulNum \in Int /\ x * MulDen \in Int
    BY <1>1
  <1> QED
    BY <1>1, <1>2, DivBounds DEF ToUs, ToReal

\* User and system time are converted one by one: a unit may be lost.
LEMMA TimesAdd ==
  ASSUME NEW x \in Int, NEW y \in Int
  PROVE  /\ ToUs(x) + ToUs(y) <= ToUs(x + y)
         /\ ToUs(x + y) <= ToUs(x) + ToUs(y) + 1
  <1> DEFINE a == ToUs(x)
             b == ToUs(y)
             c == ToUs(x + y)
  <1>1. MulNum \in Nat \ {0} /\ MulDen \in Nat \ {0}
    BY ResultsAssumption
  <1>2. a \in Int /\ b \in Int /\ c \in Int
    BY TimeBounds
  <1>3. /\ MulDen * a <= x * MulNum /\ x * MulNum < MulDen * a + MulDen
        /\ MulDen * b <= y * MulNum /\ y * MulNum < MulDen * b + MulDen
        /\ MulDen * c <= (x + y) * MulNum /\ (x + y) * MulNum < MulDen * c + MulDen
    BY TimeBounds
  <1> HIDE DEF a, b, c
  <1>4. (x + y) * MulNum = x * MulNum + y * MulNum
    BY <1>1
  <1>5. /\ MulDen * (a + b) = MulDen * a + MulDen * b
        /\ MulDen * (c + 1) = MulDen * c + MulDen
        /\ MulDen * (a + b + 2) = MulDen * a + MulDen * b + MulDen + MulDen
    BY <1>1, <1>2
  <1>6. /\ MulDen * a \in Int /\ MulDen * b \in Int /\ MulDen * c \in Int
        /\ x * MulNum \in Int /\ y * MulNum \in Int
    BY <1>1, <1>2
  <1>7. MulDen * (a + b) < MulDen * (c + 1)
    BY <1>1, <1>3, <1>4, <1>5, <1>6
  <1>8. MulDen * c < MulDen * (a + b + 2)
    BY <1>1, <1>3, <1>4, <1>5, <1>6
  <1>9. a + b < c + 1
    BY <1>1, <1>2, <1>7, Cancelling
  <1>10. c < a + b + 2
    BY <1>1, <1>2, <1>8, Cancelling
  <1>11. a + b <= c /\ c <= a + b + 1
    BY <1>2, <1>9, <1>10
  <1> QED
    BY <1>11 DEF a, b, c

\* A limit, converted to real time and compared there, is kept in indicated time.
LEMMA LimitKept ==
  ASSUME NEW x \in Int, NEW y \in Int
  PROVE  /\ y <= ToReal(x) => ToUs(y) <= x
         /\ y > ToReal(x) => ToUs(y) >= x
  <1> DEFINE p == ToUs(y)
             q == ToReal(x)
  <1>1. MulNum \in Nat \ {0} /\ MulDen \in Nat \ {0}
    BY ResultsAssumption
  <1>2. p \in Int /\ q \in Int
    BY TimeBounds
  <1>3. /\ MulDen * p <= y * MulNum /\ y * MulNum < MulDen * p + MulDen
        /\ MulNum * q <= x * MulDen /\ x * MulDen < MulNum * q + MulNum
    BY TimeBounds
  <1> HIDE DEF p, q
  <1>4. /\ MulDen * p \in Int /\ MulNum * q \in Int /\ y * MulNum \in Int
        /\ x * MulDen = MulDen * x /\ MulDen * x \in Int
        /\ MulDen * (p + 1) = MulDen * p + MulDen
        /\ MulDen * (x + 1) = MulDen * x + MulDen
    BY <1>1, <1>2
  <1>5. ASSUME y <= q
        PROVE  p <= x
    <2>1. y * MulNum <= MulNum * q
      BY <1>1, <1>2, <1>5
    <2>2. MulDen * p < MulDen * (x + 1)
      BY <1>1, <1>3, <1>4, <2>1
    <2> QED
      BY <1>1, <1>2, <2>2, Cancelling
  <1>6. ASSUME y > q
        PROVE  p >= x
    <2>1. MulNum * q + MulNum = MulNum * (q + 1)
      BY <1>1, <1>2
    <2>2. MulNum * (q + 1) <= y * MulNum
      BY <1>1, <1>2, <1>6
    <2>3. MulDen * x < MulDen * (p + 1)
      BY <1>1, <1>3, <1>4, <2>1, <2>2
    <2>4. x < p + 1
      BY <1>1, <1>2, <2>3, Cancelling
    <2> QED
      BY <1>2, <2>4
  <1> QED
    BY <1>5, <1>6 DEF p, q

\* The limits of RunExecute against the checks of FinalizeExecute, for a limit T
\* of which the stages before have used b: the sandbox ends the program for its
\* processor time only if the sum is over T, for the wall clock only if the stage
\* lasted longer than what was left, and a program it lets end has used no more
\* than the limit and the margin.
LEMMA StageLimits ==
  ASSUME NEW T \in Int, NEW b \in Int, NEW ut \in Nat, NEW st \in Nat, NEW wall \in Nat,
         NEW lim, lim = Max({T - b, 0})
  PROVE  /\ ut + st > Max({ToReal(lim + kCpuMargin), 1}) => ToUs(ut) + ToUs(st) + b > T
         /\ wall > ToReal(Max({(lim * 6) \div 5, lim + kWallMargin})) => ToUs(wall) > lim
         /\ ~(ut + st > Max({ToReal(lim + kCpuMargin), 1})) =>
              ToUs(ut) + ToUs(st) + b <= Max({T, b}) + kCpuMargin
  <1> DEFINE cpu == Max({ToReal(lim + kCpuMargin), 1})
             wt == ToReal(Max({(lim * 6) \div 5, lim + kWallMargin}))
             time == ToUs(ut) + ToUs(st) + b
  <1>1. /\ kCpuMargin \in Nat /\ kCpuMargin >= 2
        /\ kWallMargin \in Nat \ {0}
        /\ MulNum \in Nat \ {0} /\ MulDen \in Nat \ {0}
        /\ MulNum <= kCpuMargin * MulDen
    BY ResultsAssumption
  <1>2. /\ lim \in Int /\ lim >= 0 /\ lim >= T - b
        /\ lim = T - b \/ lim = 0
    <2>1. T - b \in Int /\ 0 \in Int
      OBVIOUS
    <2>2. lim \in {T - b, 0} /\ lim >= T - b /\ lim >= 0
      BY <2>1, MaxTwo
    <2> QED
      BY <2>1, <2>2
  <1>3. /\ ToReal(lim + kCpuMargin) \in Int
        /\ cpu \in Int /\ cpu >= 1 /\ cpu >= ToReal(lim + kCpuMargin)
        /\ cpu = 1 \/ cpu = ToReal(lim + kCpuMargin)
    <2> DEFINE x == ToReal(lim + kCpuMargin)
    <2>1. lim + kCpuMargin \in Int
      BY <1>1, <1>2
    <2>2. x \in Int /\ 1 \in Int
      BY <2>1, TimeBounds
    <2>3. Max({x, 1}) \in {x, 1} /\ Max({x, 1}) >= x /\ Max({x, 1}) >= 1
      BY <2>2, MaxTwo
    <2> QED
      BY <2>2, <2>3
  <1>4. /\ ToUs(ut) \in Int /\ ToUs(st) \in Int /\ ToUs(ut + st) \in Int
        /\ ToUs(ut) + ToUs(st) <= ToUs(ut + st)
        /\ ToUs(ut + st) <= ToUs(ut) + ToUs(st) + 1
    BY TimeBounds, TimesAdd
  <1>5. ASSUME ut + st > cpu
        PROVE  time > T
    <2>1. ut + st > ToReal(lim + kCpuMargin)
      BY <1>3, <1>5
    <2>2. ToUs(ut + st) >= lim + kCpuMargin
      BY <1>1, <1>2, <2>1, LimitKept
    <2> QED
      BY <1>1, <1>2, <1>4, <2>2
  <1>6. ASSUME wall > wt
        PROVE  ToUs(wall) > lim
    <2> DEFINE long == (lim * 6) \div 5
               w == Max({long, lim + kWallMargin})
    <2>1. long \in Int
      BY <1>2
    <2> HIDE DEF long
    <2>2. w \in Int /\ w >= lim + kWallMargin
      <3>1. lim + kWallMargin \in Int
        BY <1>1, <1>2
      <3>2. w \in {long, lim + kWallMargin} /\ w >= lim + kWallMargin
        BY <2>1, <3>1, MaxTwo
      <3> QED
        BY <2>1, <3>1, <3>2
    <2>3. wt = ToReal(w)
      BY DEF long
    <2> HIDE DEF w
    <2>4. ToUs(wall) >= w /\ ToUs(wall) \in Int
      BY <1>6, <2>2, <2>3, LimitKept, TimeBounds
    <2> QED
      BY <1>1, <1>2, <2>2, <2>4
  <1>7. ASSUME ~(ut + st > cpu)
        PROVE  time <= Max({T, b}) + kCpuMargin
    <2>1. ToUs(ut + st) <= lim + kCpuMargin
      <3>1. CASE ut + st <= ToReal(lim + kCpuMargin)
        BY <1>1, <1>2, <3>1, LimitKept
      <3>2. CASE cpu = 1
        <4>1. ut + st <= 1
          BY <1>7, <3>2
        <4>2. (ut + st) * MulNum <= MulNum
          <5>1. CASE ut + st = 0
            BY <1>1, <5>1
          <5>2. CASE ut + st = 1
            BY <1>1, <5>2
          <5> QED
            BY <4>1, <5>1, <5>2
        <4>3. MulDen * ToUs(ut + st) <= MulNum
          <5>1. ut + st \in Int
            OBVIOUS
          <5>2. MulDen * ToUs(ut + st) <= (ut + st) * MulNum
            BY <5>1, TimeBounds
          <5>3. MulDen * ToUs(ut + st) \in Int /\ (ut + st) * MulNum \in Int
            BY <1>1, <1>4, <5>1
          <5> QED
            BY <1>1, <4>2, <5>2, <5>3
        <4>4. MulDen * (kCpuMargin + 1) = kCpuMargin * MulDen + MulDen
          BY <1>1
        <4>5. MulDen * ToUs(ut + st) < MulDen * (kCpuMargin + 1)
          BY <1>1, <1>4, <4>3, <4>4
        <4>6. ToUs(ut + st) < kCpuMargin + 1
          BY <1>1, <1>4, <4>5, Cancelling
        <4> QED
          BY <1>1, <1>2, <1>4, <4>6
      <3> QED
        BY <1>3, <1>7, <3>1, <3>2
    <2>2. Max({T, b}) \in Int /\ Max({T, b}) >= T /\ Max({T, b}) >= b
      BY MaxTwo
    <2> QED
      BY <1>1, <1>2, <1>4, <2>1, <2>2
  <1> QED
    BY <1>5, <1>6, <1>7

-----------------------------------------------------------------------------
(* Scores *)

\* The units: full points are below the bound of NormalizeScore, and that below
\* the sentinel of FinalizeSummary.
LEMMA ScoreFacts ==
  /\ kMax * Unit \in Nat \ {0}
  /\ Unit \in Nat \ {0}
  /\ Full \in Nat \ {0}
  /\ Full <= kMax * Unit
  /\ kInfScore = 2 * (kMax * Unit)
  /\ 0 \in ScoreRange
  /\ Full \in ScoreRange
  <1>1. /\ Unit \in Nat \ {0} /\ kMax \in Nat \ {0} /\ FullPoints \in Nat \ {0}
        /\ FullPoints <= kMax
    BY ResultsAssumption
  <1>2. kMax * Unit \in Nat \ {0} /\ FullPoints * Unit \in Nat \ {0} /\ FullPoints * Unit <= kMax * Unit
    BY <1>1
  <1>3. 2 * kMax * Unit = 2 * (kMax * Unit)
    BY <1>1
  <1> QED
    BY <1>1, <1>2, <1>3 DEF Full, kInfScore, ScoreRange

\* lround of a quotient
LEMMA RoundType ==
  ASSUME NEW n \in Int, NEW d \in Nat \ {0}
  PROVE  Round(n, d) \in Int
  <1>1. 2 * d \in Nat \ {0} /\ 2 * n + d \in Int /\ 2 * (-n) + d \in Int
    OBVIOUS
  <1>2. (2 * n + d) \div (2 * d) \in Int /\ (2 * (-n) + d) \div (2 * d) \in Int
    BY <1>1, DivBounds
  <1> QED
    BY <1>2 DEF Round

\* Whatever a program prints, NormalizeScore is within its limits.
LEMMA NormalizeRange ==
  ASSUME NEW n \in Int, NEW d \in Nat \ {0}
  PROVE  NormalizeScore(n, d) \in ScoreRange
  <1> DEFINE m == kMax * Unit
             x == Round(n * Unit, d)
             y == Min({x, m})
             z == Max({-m, y})
  <1>1. m \in Nat \ {0} /\ -m \in Int /\ Unit \in Nat \ {0} /\ kInfScore = 2 * m
    BY ScoreFacts
  <1>2. x \in Int
    <2>1. n * Unit \in Int
      BY <1>1
    <2> QED
      BY <2>1, RoundType
  <1>3. NormalizeScore(n, d) = z
    BY DEF NormalizeScore, Clamp
  <1> HIDE DEF x, m
  <1>4. y \in {x, m} /\ y <= m
    <2>1. m \in Int
      BY <1>1
    <2> QED
      BY <1>2, <2>1, MinTwo
  <1>5. y \in Int
    BY <1>1, <1>2, <1>4
  <1> HIDE DEF y
  <1>6. z \in {-m, y} /\ z >= -m
    BY <1>1, <1>5, MaxTwo
  <1> HIDE DEF z
  <1>7. z \in Int /\ -m <= z /\ z <= 2 * m - 1
    BY <1>1, <1>4, <1>5, <1>6
  <1>8. z \in -m .. (kInfScore - 1)
    BY <1>1, <1>7
  <1> QED
    BY <1>3, <1>8 DEF ScoreRange, m

\* Polygon's exit status of 50 and more carries the points.
LEMMA CodeRange ==
  ASSUME NEW c \in 50 .. 255
  PROVE  ((c - 50) * Full) \div 200 \in ScoreRange
  <1> DEFINE x == (c - 50) * Full
             q == x \div 200
  <1>1. Full \in Nat \ {0} /\ kMax * Unit \in Nat \ {0} /\ Full <= kMax * Unit /\ kInfScore = 2 * (kMax * Unit)
    BY ScoreFacts
  <1>2. c - 50 \in Nat /\ c - 50 <= 205
    OBVIOUS
  <1>3. x \in Int /\ 0 <= x /\ x <= 205 * Full
    BY <1>1, <1>2
  <1> HIDE DEF x
  <1>4. q \in Int /\ 200 * q <= x /\ x < 200 * q + 200
    BY <1>3, DivBounds
  <1> HIDE DEF q
  <1>5. q >= 0 /\ q < 2 * Full
    BY <1>1, <1>3, <1>4
  <1>6. q >= -(kMax * Unit) /\ q <= kInfScore - 1
    BY <1>1, <1>4, <1>5
  <1>7. q \in ScoreRange
    <2> DEFINE m == kMax * Unit
    <2>1. m \in Nat /\ kInfScore = 2 * m
      BY <1>1
    <2>2. ScoreRange = (-m) .. (kInfScore - 1)
      BY DEF ScoreRange
    <2> HIDE DEF m
    <2> QED
      BY <1>4, <1>6, <2>1, <2>2 DEF m
  <1> QED
    BY <1>7 DEF q, x

\* What is printed, or what was there.
LEMMA PrintedType ==
  ASSUME NEW S, NEW s \in SUBSET S, NEW default \in S
  PROVE  Printed(s, default) \in S
  <1>1. CASE s = {}
    BY <1>1 DEF Printed
  <1>2. CASE s # {}
    <2>1. (CHOOSE x \in s : TRUE) \in s
      BY <1>2
    <2> QED
      BY <1>2, <2>1 DEF Printed
  <1> QED
    BY <1>1, <1>2

\* A score that a checker prints, or the one that stays, is in range.
LEMMA ScoreType ==
  ASSUME NEW s \in SUBSET Int, NEW default \in ScoreRange
  PROVE  Score(s, default) \in ScoreRange
  <1>1. {NormalizeScore(x, 1) : x \in s} \in SUBSET ScoreRange
    BY NormalizeRange
  <1> QED
    BY <1>1, PrintedType DEF Score

-----------------------------------------------------------------------------
(* Checkers *)

\* The verdicts that a judging leaves are run-time verdicts.
LEMMA VerdictFacts ==
  /\ {NUL, AC, WA, TLE, MLE, OLE, RE, SIG, JRE, EE} \subseteq RuntimeVerdict
  /\ RuntimeVerdict \subseteq Verdict
  /\ CE \notin RuntimeVerdict
  BY DEF RuntimeVerdict, Verdict, NUL, AC, WA, TLE, MLE, OLE, RE, SIG, JRE, EE, CE, JE

\* SetACOrContinue
LEMMA AcOrContinueOk ==
  ASSUME NEW t \in TdResult, NEW last \in BOOLEAN
  PROVE  /\ AcOrContinue(t, last) \in TdResult
         /\ AcOrContinue(t, last).verdict = SetACOrContinue(last, t.verdict)
         /\ AcOrContinue(t, last).skip_stage = t.skip_stage
  BY ScoreFacts, VerdictFacts DEF AcOrContinue, SetACOrContinue, TdResult

\* ParseSpecjudgeOverrides
LEMMA OverridesOk ==
  ASSUME NEW t \in TdResult, NEW o \in Output, NEW allow \in BOOLEAN
  PROVE  /\ ParseSpecjudgeOverrides(t, o, allow) \in TdResult
         /\ ParseSpecjudgeOverrides(t, o, allow).verdict \in {t.verdict} \cup o.verdict
         /\ ParseSpecjudgeOverrides(t, o, allow).skip_stage = t.skip_stage
  <1> DEFINE v == Printed(o.verdict, t.verdict)
             tm == Printed(o.time, t.time)
             m == Printed(o.rss, t.rss)
             full == IF o.verdict = {AC} THEN Full ELSE t.score
             sc == IF ~allow THEN t.score ELSE Score(o.score, full)
  <1>1. /\ o.verdict \in SUBSET RuntimeVerdict /\ o.time \in SUBSET Int
        /\ o.rss \in SUBSET Int /\ o.score \in SUBSET Int
    BY DEF Output
  <1>2. /\ t.verdict \in RuntimeVerdict /\ t.time \in Int /\ t.rss \in Int /\ t.score \in ScoreRange
    BY DEF TdResult
  <1>3. v \in RuntimeVerdict /\ tm \in Int /\ m \in Int
    BY <1>1, <1>2, PrintedType
  <1>4. v \in {t.verdict} \cup o.verdict
    <2> DEFINE S == {t.verdict} \cup o.verdict
    <2>1. o.verdict \in SUBSET S /\ t.verdict \in S
      OBVIOUS
    <2> HIDE DEF S
    <2>2. v \in S
      BY <2>1, PrintedType
    <2> QED
      BY <2>2 DEF S
  <1>5. sc \in ScoreRange
    <2>1. full \in ScoreRange
      BY <1>2, ScoreFacts
    <2> HIDE DEF full
    <2> QED
      BY <1>1, <1>2, <2>1, ScoreType
  <1>6. ParseSpecjudgeOverrides(t, o, allow) =
          [t EXCEPT !.verdict = v, !.time = tm, !.rss = m, !.score = sc]
    BY DEF ParseSpecjudgeOverrides, TdResult
  <1> HIDE DEF v, tm, m, sc
  <1> QED
    BY <1>3, <1>4, <1>5, <1>6 DEF TdResult

\* ReadOldSpecjudgeResult, number by number and in Verdicts
LEMMA OldOk ==
  ASSUME NEW t \in TdResult, NEW o \in Output, NEW last \in BOOLEAN
  PROVE  /\ OldSpecjudge(t, o, last) \in TdResult
         /\ OldSpecjudge(t, o, last).verdict \in ReadOldSpecjudgeResult(last, t.verdict, o.verdict)
         /\ OldSpecjudge(t, o, last).skip_stage = t.skip_stage
  <1>1. CASE o.accept
    <2> DEFINE t1 == AcOrContinue(t, last)
    <2>1. t1 \in TdResult /\ t1.verdict = SetACOrContinue(last, t.verdict) /\ t1.skip_stage = t.skip_stage
      BY AcOrContinueOk
    <2>2. OldSpecjudge(t, o, last) = ParseSpecjudgeOverrides(t1, o, TRUE)
      BY <1>1 DEF OldSpecjudge
    <2> HIDE DEF t1
    <2> QED
      BY <2>1, <2>2, OverridesOk DEF ReadOldSpecjudgeResult
  <1>2. CASE ~o.accept
    BY <1>2, VerdictFacts DEF OldSpecjudge, ReadOldSpecjudgeResult, TdResult
  <1> QED
    BY <1>1, <1>2

\* ReadNewSpecjudgeResult
LEMMA NewOk ==
  ASSUME NEW t \in TdResult, NEW o \in Output
  PROVE  /\ NewSpecjudge(t, o) \in TdResult
         /\ NewSpecjudge(t, o).verdict \in ReadNewSpecjudgeResult(t.verdict, o.verdict)
         /\ NewSpecjudge(t, o).skip_stage = t.skip_stage
  BY OverridesOk DEF NewSpecjudge, ReadNewSpecjudgeResult

\* ReadPolygonSpecjudgeResult
LEMMA PolygonOk ==
  ASSUME NEW t \in TdResult, NEW o \in Output, NEW last \in BOOLEAN
  PROVE  /\ PolygonSpecjudge(t, o, last) \in TdResult
         /\ PolygonSpecjudge(t, o, last).verdict \in ReadPolygonSpecjudgeResult(last, t.verdict, o.verdict)
         /\ PolygonSpecjudge(t, o, last).skip_stage = t.skip_stage
  <1> DEFINE t1 == AcOrContinue(t, last)
             points == CASE o.code = 7   -> Score(o.score, 0)
                         [] o.code >= 50 -> ((o.code - 50) * Full) \div 200
                         [] OTHER        -> t1.score
             t2 == [t1 EXCEPT !.score = points]
             t3 == IF t2.score < Full THEN [t2 EXCEPT !.verdict = WA] ELSE t2
  <1>1. t1 \in TdResult /\ t1.verdict = SetACOrContinue(last, t.verdict) /\ t1.skip_stage = t.skip_stage
    BY AcOrContinueOk
  <1>2. o.code \in 0 .. 255 /\ o.score \in SUBSET Int
    BY DEF Output
  <1>3. PolygonSpecjudge(t, o, last) =
          IF o.code < 50 /\ o.code \notin {0, 7} THEN [t EXCEPT !.verdict = WA]
          ELSE ParseSpecjudgeOverrides(t3, o, FALSE)
    BY <1>1 DEF PolygonSpecjudge, TdResult
  <1> HIDE DEF t1
  <1>4. points \in ScoreRange
    <2>1. CASE o.code = 7
      BY <1>2, <2>1, ScoreType, ScoreFacts
    <2>2. CASE o.code >= 50
      <3>1. o.code \in 50 .. 255
        BY <1>2, <2>2
      <3>2. points = ((o.code - 50) * Full) \div 200
        BY <3>1
      <3> QED
        BY <3>1, <3>2, CodeRange
    <2>3. CASE o.code # 7 /\ ~(o.code >= 50)
      BY <1>1, <2>3 DEF TdResult
    <2> QED
      BY <2>1, <2>2, <2>3
  <1> HIDE DEF points
  <1>5. t2 \in TdResult /\ t2.verdict = t1.verdict /\ t2.skip_stage = t.skip_stage
    BY <1>1, <1>4 DEF TdResult
  <1> HIDE DEF t2
  <1>6. t3 \in TdResult /\ t3.verdict \in {WA, t1.verdict} /\ t3.skip_stage = t.skip_stage
    BY <1>5, VerdictFacts DEF TdResult
  <1> HIDE DEF t3
  <1>7. CASE o.code < 50 /\ o.code \notin {0, 7}
    BY <1>3, <1>7, VerdictFacts DEF ReadPolygonSpecjudgeResult, TdResult
  <1>8. CASE ~(o.code < 50 /\ o.code \notin {0, 7})
    <2>1. PolygonSpecjudge(t, o, last) = ParseSpecjudgeOverrides(t3, o, FALSE)
      BY <1>3, <1>8
    <2> QED
      BY <1>1, <1>6, <2>1, OverridesOk DEF ReadPolygonSpecjudgeResult
  <1> QED
    BY <1>7, <1>8

\* ReadKattisSpecjudgeResult
LEMMA KattisOk ==
  ASSUME NEW t \in TdResult, NEW o \in Output, NEW last \in BOOLEAN
  PROVE  /\ KattisSpecjudge(t, o, last) \in TdResult
         /\ KattisSpecjudge(t, o, last).verdict \in ReadKattisSpecjudgeResult(last, t.verdict, o.verdict)
         /\ KattisSpecjudge(t, o, last).skip_stage = t.skip_stage
  <1> DEFINE t1 == AcOrContinue(t, last)
             t2 == IF ~last /\ ~o.nextpass THEN [t1 EXCEPT !.verdict = AC] ELSE t1
             points == Score(o.score, t2.score)
             t3 == [t2 EXCEPT !.score = points]
             t4 == IF o.code = 42 THEN t3 ELSE [t EXCEPT !.verdict = WA]
  <1>1. t1 \in TdResult /\ t1.verdict = SetACOrContinue(last, t.verdict) /\ t1.skip_stage = t.skip_stage
    BY AcOrContinueOk
  <1> HIDE DEF t1
  <1>2. t2 \in TdResult /\ t2.verdict \in {AC, t1.verdict} /\ t2.skip_stage = t.skip_stage
    BY <1>1, VerdictFacts DEF TdResult
  <1>3. KattisSpecjudge(t, o, last) = ParseSpecjudgeOverrides(t4, o, FALSE)
    BY <1>2 DEF KattisSpecjudge, TdResult, t1
  <1> HIDE DEF t2
  <1>4. points \in ScoreRange
    BY <1>2, ScoreType DEF Output, TdResult
  <1> HIDE DEF points
  <1>5. t3 \in TdResult /\ t3.verdict = t2.verdict /\ t3.skip_stage = t.skip_stage
    BY <1>2, <1>4 DEF TdResult
  <1> HIDE DEF t3
  <1>6. t4 \in TdResult /\ t4.verdict \in {WA, t2.verdict} /\ t4.skip_stage = t.skip_stage
    BY <1>5, VerdictFacts DEF TdResult
  <1> HIDE DEF t4
  <1> QED
    BY <1>1, <1>2, <1>3, <1>6, OverridesOk DEF ReadKattisSpecjudgeResult

\* The verdict that a failed checker leaves is a runtime verdict.
LEMMA FailedOk ==
  ASSUME NEW t \in TdResult
  PROVE  /\ [t EXCEPT !.verdict = SpecjudgeFailedVerdict(prob, t.verdict)] \in TdResult
         /\ SpecjudgeFailedVerdict(prob, t.verdict) \in RuntimeVerdict
  BY VerdictFacts DEF SpecjudgeFailedVerdict, TdResult

\* ReadSpecjudgeResult: for every type of checker and every output, the result
\* is one, and its verdict is among those of Verdicts.
LEMMA CheckerOk ==
  ASSUME NEW t \in TdResult, NEW o, o \in Output \/ CheckerFailed(o), NEW last \in BOOLEAN
  PROVE  /\ SpecjudgeResult(t, o, last) \in TdResult
         /\ SpecjudgeResult(t, o, last).skip_stage = t.skip_stage
         /\ \/ SpecjudgeResult(t, o, last).verdict \in ReadSpecjudgeResult(prob, last, t.verdict, o.verdict)
            \/ prob.specjudge_type = "SKIP"
  <1> DEFINE x == SpecjudgeResult(t, o, last)
             R == ReadSpecjudgeResult(prob, last, t.verdict, o.verdict)
  <1>1. CASE CheckerFailed(o)
    <2>1. x = [t EXCEPT !.verdict = SpecjudgeFailedVerdict(prob, t.verdict)]
      BY <1>1 DEF SpecjudgeResult, TdResult
    <2>2. x.verdict = SpecjudgeFailedVerdict(prob, t.verdict) /\ x.skip_stage = t.skip_stage
      BY <2>1 DEF TdResult
    <2>3. SpecjudgeFailedVerdict(prob, t.verdict) \in R
      BY DEF ReadSpecjudgeResult
    <2> QED
      BY <2>1, <2>2, <2>3, FailedOk
  <1>2. CASE ~CheckerFailed(o)
    <2>1. o \in Output
      BY <1>2
    <2>2. CASE prob.specjudge_type = "SPECJUDGE_OLD"
      <3>1. x = OldSpecjudge(t, o, last)
        BY <1>2, <2>2 DEF SpecjudgeResult
      <3>2. ReadOldSpecjudgeResult(last, t.verdict, o.verdict) \subseteq R
        BY <2>2 DEF ReadSpecjudgeResult
      <3> QED
        BY <2>1, <3>1, <3>2, OldOk
    <2>3. CASE prob.specjudge_type = "SPECJUDGE_POLYGON"
      <3>1. x = PolygonSpecjudge(t, o, last)
        BY <1>2, <2>3 DEF SpecjudgeResult
      <3>2. ReadPolygonSpecjudgeResult(last, t.verdict, o.verdict) \subseteq R
        BY <2>3 DEF ReadSpecjudgeResult
      <3> QED
        BY <2>1, <3>1, <3>2, PolygonOk
    <2>4. CASE prob.specjudge_type = "SPECJUDGE_KATTIS"
      <3>1. x = KattisSpecjudge(t, o, last)
        BY <1>2, <2>4 DEF SpecjudgeResult
      <3>2. ReadKattisSpecjudgeResult(last, t.verdict, o.verdict) \subseteq R
        BY <2>4 DEF ReadSpecjudgeResult
      <3> QED
        BY <2>1, <3>1, <3>2, KattisOk
    <2>5. CASE prob.specjudge_type \notin {"SPECJUDGE_OLD", "SPECJUDGE_POLYGON", "SPECJUDGE_KATTIS"}
      <3>1. x = NewSpecjudge(t, o)
        BY <1>2, <2>5 DEF SpecjudgeResult
      <3>2. prob.specjudge_type # "SKIP" => ReadNewSpecjudgeResult(t.verdict, o.verdict) \subseteq R
        BY <2>5 DEF ReadSpecjudgeResult
      <3> QED
        BY <2>1, <3>1, <3>2, NewOk
    <2> QED
      BY <2>2, <2>3, <2>4, <2>5
  <1> QED
    BY <1>1, <1>2

\* FinalizeScoring leaves a result of its type, without a verdict only when the
\* testdatum goes on to its next stage.
LEMMA ScoredOk ==
  ASSUME TypeInv, NEW i \in Tds, NEW read \in BOOLEAN, NEW o,
         read => o \in Output \/ CheckerFailed(o)
  PROVE  /\ Scored(i, read, o) \in TdResult
         /\ Scored(i, read, o).verdict = NUL => ~LastStage(i) /\ Scored(i, read, o).skip_stage = r[i].skip_stage
         /\ Scored(i, read, o).verdict # NUL => LastStage(i) \/ Scored(i, read, o).skip_stage
  <1> DEFINE zero == [r[i] EXCEPT !.score = 0]
             t == IF read THEN SpecjudgeResult(zero, o, LastStage(i)) ELSE zero
  <1>1. zero \in TdResult /\ zero.skip_stage = r[i].skip_stage
    BY ScoreFacts DEF TypeInv, TdResult
  <1>2. t \in TdResult /\ t.skip_stage = r[i].skip_stage
    <2>1. CASE read
      <3>1. LastStage(i) \in BOOLEAN
        BY DEF LastStage
      <3>2. t = SpecjudgeResult(zero, o, LastStage(i))
        BY <2>1
      <3> HIDE DEF zero, t
      <3> QED
        BY <1>1, <2>1, <3>1, <3>2, CheckerOk
    <2>2. CASE ~read
      BY <1>1, <2>2
    <2> QED
      BY <2>1, <2>2
  <1>3. Scored(i, read, o) =
          CASE ~LastStage(i) /\ t.verdict # NUL -> [t EXCEPT !.skip_stage = TRUE]
            [] LastStage(i) /\ t.verdict = NUL  -> [t EXCEPT !.verdict = WA]
            [] OTHER                            -> t
    BY DEF Scored
  <1> HIDE DEF t
  <1>4. WA # NUL
    BY DEF WA, NUL
  <1>5. CASE ~LastStage(i) /\ t.verdict # NUL
    BY <1>2, <1>3, <1>5 DEF TdResult
  <1>6. CASE LastStage(i) /\ t.verdict = NUL
    BY <1>2, <1>3, <1>4, <1>6, VerdictFacts DEF TdResult
  <1>7. CASE LastStage(i) /\ t.verdict # NUL
    BY <1>2, <1>3, <1>7
  <1>8. CASE ~LastStage(i) /\ t.verdict = NUL
    BY <1>2, <1>3, <1>8
  <1> QED
    BY <1>5, <1>6, <1>7, <1>8

-----------------------------------------------------------------------------
(* Execution *)

\* The testdata of a problem and what programs use have their types.
LEMMA DataTypes ==
  ASSUME TypeInv
  PROVE  /\ prob \in Problems
         /\ \A i \in Tds : Td(i) \in Resource /\ i \in Nat \ {0} /\ r[i] \in TdResult /\ stage[i] \in Nat
         /\ Tds = 1 .. Len(prob.testdata)
         /\ Len(prob.testdata) \in Nat
         /\ Usages(prob) \subseteq Usage
         /\ Outputs(prob) \subseteq Output
         /\ Summaries(prob) \subseteq Summary \cup {Nothing}
         /\ DOMAIN prob.group_score = 1 .. Len(prob.group_score)
         /\ Len(prob.group_score) \in Nat
         /\ \A g \in DOMAIN prob.group_score : prob.group_score[g] \in Int
  <1>1. prob \in Problems /\ r \in [Tds -> TdResult] /\ stage \in [Tds -> Nat]
    BY DEF TypeInv
  <1>2. prob.testdata \in Seq(Resource) /\ prob.group_score \in Seq(Int)
    BY <1>1, DataAssumption
  <1>3. /\ Usages(prob) \subseteq Usage
        /\ Outputs(prob) \subseteq Output
        /\ Summaries(prob) \subseteq Summary \cup {Nothing}
    BY <1>1, DataAssumption
  <1>4. Tds = 1 .. Len(prob.testdata) /\ Len(prob.testdata) \in Nat
    BY <1>2 DEF Tds
  <1>5. \A i \in Tds : Td(i) \in Resource /\ i \in Nat \ {0}
    BY <1>2, <1>4 DEF Td
  <1>6. /\ DOMAIN prob.group_score = 1 .. Len(prob.group_score) /\ Len(prob.group_score) \in Nat
        /\ \A g \in DOMAIN prob.group_score : prob.group_score[g] \in Int
    <2> DEFINE s == prob.group_score
    <2>1. s \in Seq(Int)
      BY <1>2
    <2> HIDE DEF s
    <2>2. DOMAIN s = 1 .. Len(s) /\ Len(s) \in Nat /\ \A g \in DOMAIN s : s[g] \in Int
      BY <2>1
    <2> QED
      BY <2>2 DEF s
  <1> QED
    BY <1>1, <1>3, <1>4, <1>5, <1>6

\* RunExecute and FinalizeExecute fit together.
LEMMA ExecuteMeasures ==
  ASSUME TypeInv, NEW i \in Tds, NEW u \in Usages(prob), Execute(i, u)
  PROVE  /\ r'[i] \in TdResult
         /\ Measured(i)'
  <1> DEFINE b == IF stage[i] > 0 THEN r[i].time ELSE 0
             lim == Max({Td(i).time - b, 0})
             opt == RunExecute(i)
             time == ToUs(u.utime) + ToUs(u.stime) + b
             t == FinalizeExecute(i, u, opt)
  <1>1. /\ Td(i) \in Resource /\ r[i] \in TdResult /\ stage[i] \in Nat /\ u \in Usage
        /\ i \in DOMAIN r /\ i \in DOMAIN used
    BY DataTypes DEF TypeInv
  <1>2. /\ Td(i).time \in Int /\ b \in Int
        /\ u.utime \in Nat /\ u.stime \in Nat /\ u.wall \in Nat /\ u.rss \in Nat
    BY <1>1 DEF Resource, TdResult, Usage
  <1>3. /\ opt.cpu_time = Max({ToReal(lim + kCpuMargin), 1})
        /\ opt.wall_time = ToReal(Max({(lim * 6) \div 5, lim + kWallMargin}))
    BY DEF RunExecute
  <1>4. /\ u.utime + u.stime > opt.cpu_time => time > Td(i).time
        /\ u.wall > opt.wall_time => ToUs(u.wall) > lim
        /\ ~(u.utime + u.stime > opt.cpu_time) => time <= Max({Td(i).time, b}) + kCpuMargin
    <2> DEFINE T == Td(i).time
               ut == u.utime
               st == u.stime
               wall == u.wall
               cpu == opt.cpu_time
               wt == opt.wall_time
    <2>1. /\ T \in Int /\ b \in Int /\ ut \in Nat /\ st \in Nat /\ wall \in Nat
          /\ lim = Max({T - b, 0})
          /\ cpu = Max({ToReal(lim + kCpuMargin), 1})
          /\ wt = ToReal(Max({(lim * 6) \div 5, lim + kWallMargin}))
          /\ time = ToUs(ut) + ToUs(st) + b
      BY <1>2, <1>3
    <2> HIDE DEF opt, b, T, ut, st, wall, cpu, wt, lim, time
    <2>2. /\ ut + st > cpu => time > T
          /\ wall > wt => ToUs(wall) > lim
          /\ ~(ut + st > cpu) => time <= Max({T, b}) + kCpuMargin
      BY <2>1, StageLimits
    <2> QED
      BY <2>2 DEF T, ut, st, wall, cpu, wt
  <1>5. t \in TdResult /\ t.time = time
    <2> DEFINE first == stage[i] = 0
               m == IF first THEN u.rss ELSE Max({r[i].rss, u.rss})
               sc == IF first THEN 0 ELSE r[i].score
               x == [r[i] EXCEPT !.time = ToUs(u.utime) + ToUs(u.stime) + (IF first THEN 0 ELSE @),
                                 !.rss = IF first THEN u.rss ELSE Max({@, u.rss}),
                                 !.score = IF first THEN 0 ELSE @]
    <2>1. b = IF first THEN 0 ELSE r[i].time
      BY <1>1
    <2>2. time \in Int
      BY <1>2, TimeBounds
    <2>3. m \in Int
      <3>1. r[i].rss \in Int /\ u.rss \in Int
        BY <1>1, <1>2 DEF TdResult
      <3> QED
        BY <3>1, MaxTwo
    <2>4. sc \in ScoreRange
      BY <1>1, ScoreFacts DEF TdResult
    <2>5. x = [r[i] EXCEPT !.time = time, !.rss = m, !.score = sc]
      BY <1>1, <2>1 DEF TdResult
    <2> HIDE DEF m, sc, time
    <2>6. x \in TdResult /\ x.time = time
      BY <1>1, <2>2, <2>3, <2>4, <2>5 DEF TdResult
    <2>7. t = [x EXCEPT !.verdict = ExecutedVerdict(i, u, opt, x)]
      BY DEF FinalizeExecute
    <2>8. ExecutedVerdict(i, u, opt, x) \in RuntimeVerdict
      BY VerdictFacts DEF ExecutedVerdict
    <2> HIDE DEF x, t
    <2> QED
      BY <2>6, <2>7, <2>8 DEF TdResult
  <1>6. t.verdict = TLE => TimeKill(u, opt) \/ t.time > Td(i).time
    <2> DEFINE x == [r[i] EXCEPT !.time = ToUs(u.utime) + ToUs(u.stime) + (IF stage[i] = 0 THEN 0 ELSE @),
                                 !.rss = IF stage[i] = 0 THEN u.rss ELSE Max({@, u.rss}),
                                 !.score = IF stage[i] = 0 THEN 0 ELSE @]
    <2>1. t = [x EXCEPT !.verdict = ExecutedVerdict(i, u, opt, x)]
      BY DEF FinalizeExecute
    <2> HIDE DEF opt
    <2>2. t.verdict = ExecutedVerdict(i, u, opt, x) /\ t.time = x.time
      BY <1>1, <2>1 DEF TdResult
    <2> HIDE DEF x, t
    <2> QED
      BY <2>2 DEF ExecutedVerdict, EE, MLE, TLE, OLE, SIG, RE, NUL
  <1>7. /\ r' = [r EXCEPT ![i] = t]
        /\ used' = [used EXCEPT ![i] = [u |-> u, opt |-> opt, before |-> b]]
        /\ prob' = prob
    BY DEF Execute
  <1>8. /\ r'[i] = t
        /\ used'[i].u = u /\ used'[i].opt = opt /\ used'[i].before = b
        /\ Td(i)' = Td(i)
    BY <1>1, <1>7 DEF Td
  <1> HIDE DEF t, opt, b, lim, time
  <1>9. t.verdict = TLE => t.time > Td(i).time \/ ToUs(u.wall) > lim
    BY <1>4, <1>5, <1>6 DEF TimeKill
  <1>10. ~TimeKill(u, opt) => t.time <= Max({Td(i).time, b}) + kCpuMargin
    BY <1>4, <1>5 DEF TimeKill
  <1>11. Measured(i)'
    BY <1>8, <1>9, <1>10 DEF Measured, TimeKill, ToUs, lim
  <1> QED
    BY <1>5, <1>8, <1>11

-----------------------------------------------------------------------------
(* Minima and sums, by first-order induction *)

\* Induction over the natural numbers, for a set.
LEMMA NatSetInduction ==
  ASSUME NEW S, 0 \in S, \A n \in Nat : n \in S => n + 1 \in S
  PROVE  Nat \subseteq S
  <1> SUFFICES ASSUME Nat \ S # {}
               PROVE  FALSE
    OBVIOUS
  <1> DEFINE R == {ss \in Nat \X Nat : ss[1] < ss[2]}
             Out == Nat \ S
  <1>1. IsWellFoundedOn(R, Nat)
    BY NatLessThanWellFounded DEF OpToRel
  <1>2. Out \subseteq Nat /\ Out # {}
    OBVIOUS
  <1> HIDE DEF R, Out
  <1>3. PICK n \in Out : \A k \in Out : ~(<<k, n>> \in R)
    BY <1>1, <1>2, WFMin
  <1>4. n \in Nat /\ n \notin S /\ n # 0
    BY <1>3 DEF Out
  <1>5. n - 1 \in Nat /\ <<n - 1, n>> \in R
    BY <1>4 DEF R
  <1>6. n - 1 \in S
    BY <1>3, <1>5 DEF Out
  <1>7. (n - 1) + 1 \in S
    BY <1>5, <1>6
  <1> QED
    BY <1>4, <1>7

\* A set of numbers with a lower bound has a least one.
LEMMA MinOfBounded ==
  ASSUME NEW S, S \subseteq Int, S # {}, NEW b \in Int, \A x \in S : b <= x
  PROVE  Min(S) \in S /\ \A y \in S : Min(S) <= y
  <1> DEFINE None(n) == \A x \in S : b + n < x
             N == {n \in Nat : None(n)}
  <1>1. CASE b \in S
    <2>1. \E x \in S : \A y \in S : x =< y
      BY <1>1
    <2> QED
      BY <2>1 DEF Min
  <1>2. CASE b \notin S
    <2>1. 0 \in N
      BY <1>2
    <2>2. \E n \in Nat : n \in N /\ n + 1 \notin N
      <3>1. PICK x \in S : TRUE
        OBVIOUS
      <3>2. x - b \in Nat /\ x - b \notin N
        BY <3>1
      <3> HIDE DEF N
      <3> QED
        BY <2>1, <3>2, NatSetInduction
    <2>3. PICK n \in Nat : n \in N /\ n + 1 \notin N
      BY <2>2
    <2>4. PICK x \in S : ~(b + (n + 1) < x)
      BY <2>3
    <2>5. x = b + (n + 1)
      BY <2>3, <2>4
    <2>6. \A y \in S : x =< y
      BY <2>3, <2>5
    <2> QED
      BY <2>6 DEF Min
  <1> QED
    BY <1>1, <1>2

\* The least of a set is the one that is no greater than any other.
LEMMA MinIs ==
  ASSUME NEW S, S \subseteq Int, NEW m \in S, \A y \in S : m <= y
  PROVE  Min(S) = m
  <1>1. \E x \in S : \A y \in S : x =< y
    OBVIOUS
  <1>2. Min(S) \in S /\ \A y \in S : Min(S) =< y
    BY <1>1 DEF Min
  <1>3. Min(S) \in Int /\ m \in Int /\ Min(S) <= m /\ m <= Min(S)
    BY <1>2
  <1> HIDE DEF Min
  <1> QED
    BY <1>3

\* A sum of finitely many numbers is a number.
LEMMA SumType ==
  ASSUME NEW f, IsFiniteSet(DOMAIN f), \A x \in DOMAIN f : f[x] \in Int
  PROVE  SumFunction(f) \in Int
  <1> DEFINE D == DOMAIN f
             First(s) == CHOOSE x \in s : TRUE
             Step(it, s) == IF s = {} THEN 0 ELSE f[First(s)] + it[s \ {First(s)}]
             Small(n) == {s \in SUBSET D : Cardinality(s) <= n}
             N == {n \in Nat : \E h \in [Small(n) -> Int] : \A s \in Small(n) : h[s] = Step(h, s)}
  <1>1. \A s \in SUBSET D : IsFiniteSet(s) /\ Cardinality(s) \in Nat /\ Cardinality(s) <= Cardinality(D)
    BY FS_Subset, FS_CardinalityType
  <1>2. \A s \in SUBSET D : s # {} =>
          First(s) \in s /\ s \ {First(s)} \in SUBSET D /\ Cardinality(s \ {First(s)}) = Cardinality(s) - 1
    BY <1>1, FS_RemoveElement
  <1>3. 0 \in N
    <2> DEFINE h == [s \in Small(0) |-> 0]
    <2>1. \A s \in Small(0) : s = {}
      BY <1>1, FS_EmptySet
    <2>2. h \in [Small(0) -> Int] /\ \A s \in Small(0) : h[s] = Step(h, s)
      BY <2>1
    <2> QED
      BY <2>2
  <1>4. ASSUME NEW n \in Nat, n \in N
        PROVE  n + 1 \in N
    <2>1. PICK h \in [Small(n) -> Int] : \A s \in Small(n) : h[s] = Step(h, s)
      BY <1>4
    <2> DEFINE k == [s \in Small(n + 1) |-> IF s \in Small(n) THEN h[s] ELSE Step(h, s)]
    <2>2. \A s \in Small(n + 1) : s # {} => s \ {First(s)} \in Small(n) /\ First(s) \in D
      BY <1>1, <1>2
    <2>3. \A s \in Small(n + 1) : Step(h, s) \in Int
      <3> SUFFICES ASSUME NEW s \in Small(n + 1)
                   PROVE  Step(h, s) \in Int
        OBVIOUS
      <3>1. CASE s = {}
        BY <3>1
      <3>2. CASE s # {}
        <4>1. h[s \ {First(s)}] \in Int /\ f[First(s)] \in Int
          BY <2>1, <2>2, <3>2
        <4> HIDE DEF First
        <4> QED
          BY <3>2, <4>1
      <3> QED
        BY <3>1, <3>2
    <2>4. Small(n) \subseteq Small(n + 1)
      BY <1>1
    <2>5. k \in [Small(n + 1) -> Int]
      <3> HIDE DEF Small, Step
      <3> QED
        BY <2>1, <2>3
    <2>6. \A s \in Small(n + 1) : k[s] = Step(h, s)
      <3> HIDE DEF Small, Step
      <3> QED
        BY <2>1
    <2>7. \A s \in Small(n + 1) : Step(k, s) = Step(h, s)
      <3>1. ASSUME NEW s \in Small(n + 1), s # {}
            PROVE  k[s \ {First(s)}] = h[s \ {First(s)}]
        <4> HIDE DEF Small, Step, First
        <4> QED
          BY <2>2, <2>4, <3>1
      <3> HIDE DEF Small, k, First
      <3> QED
        BY <3>1
    <2>8. n + 1 \in Nat
      OBVIOUS
    <2> HIDE DEF Small, Step, k
    <2>9. \A s \in Small(n + 1) : k[s] = Step(k, s)
      BY <2>6, <2>7
    <2> QED
      BY <2>5, <2>8, <2>9
  <1>5. Cardinality(D) \in N
    <2> HIDE DEF N
    <2>1. Nat \subseteq N
      BY <1>3, <1>4, NatSetInduction
    <2> QED
      BY <1>1, <2>1
  <1>6. Small(Cardinality(D)) = SUBSET D
    BY <1>1
  <1>7. PICK h \in [SUBSET D -> Int] : \A s \in SUBSET D : h[s] = Step(h, s)
    <2> HIDE DEF Small, Step
    <2> QED
      BY <1>5, <1>6
  <1>8. h = [s \in SUBSET D |-> Step(h, s)]
    <2> HIDE DEF Step
    <2> QED
      BY <1>7
  <1> DEFINE iter == CHOOSE it : it = [s \in SUBSET D |-> Step(it, s)]
  <1>9. iter = [s \in SUBSET D |-> Step(iter, s)]
    <2> HIDE DEF Step
    <2> QED
      BY <1>8
  <1>10. SumFunction(f) = iter[D]
    BY DEF SumFunction, SumFunctionOnSet, FoldFunctionOnSet, MapThenFoldSet
  <1> HIDE DEF iter
  <1> DEFINE I == {n \in Nat : \A s \in Small(n) : iter[s] \in Int}
  <1>11. \A s \in SUBSET D : iter[s] = Step(iter, s)
    <2> HIDE DEF Step
    <2> QED
      BY <1>9
  <1>12. 0 \in I
    <2>1. \A s \in Small(0) : s = {} /\ s \in SUBSET D
      BY <1>1, FS_EmptySet
    <2>2. iter[{}] = 0
      <3>1. {} \in SUBSET D
        OBVIOUS
      <3>2. iter[{}] = Step(iter, {})
        BY <1>11, <3>1
      <3> QED
        BY <3>2
    <2>3. \A s \in Small(0) : iter[s] \in Int
      <3> HIDE DEF Small, Step
      <3> QED
        BY <2>1, <2>2
    <2> QED
      BY <2>3
  <1>13. ASSUME NEW n \in Nat, n \in I
         PROVE  n + 1 \in I
    <2> SUFFICES ASSUME NEW s \in Small(n + 1)
                 PROVE  iter[s] \in Int
      OBVIOUS
    <2>1. s \in SUBSET D
      OBVIOUS
    <2>2. CASE s = {}
      <3>1. iter[s] = Step(iter, s)
        BY <1>11, <2>1
      <3> QED
        BY <2>2, <3>1
    <2>3. CASE s # {}
      <3>1. s \ {First(s)} \in Small(n) /\ First(s) \in D
        BY <1>1, <1>2, <2>1, <2>3
      <3>2. iter[s \ {First(s)}] \in Int /\ f[First(s)] \in Int
        BY <1>13, <3>1
      <3>3. iter[s] = f[First(s)] + iter[s \ {First(s)}]
        BY <1>11, <2>1, <2>3
      <3> HIDE DEF First
      <3> QED
        BY <3>2, <3>3
    <2> QED
      BY <2>2, <2>3
  <1>14. Cardinality(D) \in I
    <2> HIDE DEF I
    <2>1. Nat \subseteq I
      BY <1>12, <1>13, NatSetInduction
    <2> QED
      BY <1>1, <2>1
  <1>15. iter[D] \in Int
    <2> HIDE DEF Small
    <2> QED
      BY <1>6, <1>14
  <1> QED
    BY <1>10, <1>15

-----------------------------------------------------------------------------
(* The total *)

\* The scores that FinalizeSummary takes the minimum of.
LEMMA GroupScores ==
  ASSUME TypeInv, NEW g
  PROVE  /\ Counted \cap InGroup(g) \subseteq Tds
         /\ \A i \in Counted \cap InGroup(g) : r[i].score \in ScoreRange
  BY DataTypes DEF InGroup, TdResult

\* The least score of a group is a number.
LEMMA SubtaskScoreType ==
  ASSUME TypeInv, NEW g
  PROVE  SubtaskScore(g) \in Int
  <1> DEFINE S == {kInfScore} \cup {r[i].score : i \in Counted \cap InGroup(g)}
             m == kMax * Unit
  <1>1. m \in Nat /\ -m \in Int /\ kInfScore = 2 * m /\ Full \in Int
    BY ScoreFacts
  <1>2. ScoreRange = (-m) .. (kInfScore - 1)
    BY DEF ScoreRange
  <1> HIDE DEF m
  <1>3. S \subseteq Int /\ S # {} /\ \A x \in S : -m <= x
    BY <1>1, <1>2, GroupScores
  <1> HIDE DEF S
  <1>4. Min(S) \in Int
    BY <1>1, <1>3, MinOfBounded
  <1>5. SubtaskScore(g) = IF Min(S) = kInfScore THEN Full ELSE Min(S)
    BY DEF SubtaskScore, S
  <1> QED
    BY <1>1, <1>4, <1>5

\* The total of FinalizeSummary is in the range of NormalizeScore, however many
\* groups there are.
LEMMA TotalRange ==
  ASSUME TypeInv
  PROVE  Total(SubtaskScore) \in ScoreRange
  <1> DEFINE G == DOMAIN prob.group_score
             f == [g \in G |-> SubtaskScore(g) * prob.group_score[g]]
  <1>1. IsFiniteSet(G) /\ \A g \in G : prob.group_score[g] \in Int
    BY DataTypes, FS_Interval
  <1>2. \A g \in G : SubtaskScore(g) * prob.group_score[g] \in Int
    BY <1>1, SubtaskScoreType
  <1>3. DOMAIN f = G /\ \A g \in DOMAIN f : f[g] \in Int
    BY <1>2
  <1>4. Total(SubtaskScore) = NormalizeScore(SumFunction(f), Full * Unit)
    BY DEF Total
  <1> HIDE DEF f
  <1>5. SumFunction(f) \in Int
    BY <1>1, <1>3, SumType
  <1>6. Full * Unit \in Nat \ {0}
    BY ScoreFacts
  <1> QED
    BY <1>4, <1>5, <1>6, NormalizeRange

\* The score that a summary program prints, or the total that stays, is in range.
LEMMA SummaryScore ==
  ASSUME TypeInv, NEW o \in Summaries(prob), NEW v
  PROVE  SummaryResult(v, TotalScore(v), o).total_score \in ScoreRange
  <1>1. TotalScore(v) \in ScoreRange
    BY TotalRange, ScoreFacts DEF TotalScore
  <1>2. o \in Summary \cup {Nothing}
    BY DataTypes
  <1>3. o # Nothing => o.score \in SUBSET Int
    BY <1>2 DEF Summary
  <1>4. o # Nothing => Score(o.score, TotalScore(v)) \in ScoreRange
    BY <1>1, <1>3, ScoreType
  <1>5. CASE o = Nothing
    BY <1>1, <1>5 DEF SummaryResult
  <1>6. CASE o # Nothing /\ ~o.ok
    BY <1>1, <1>6 DEF SummaryResult
  <1>7. CASE o # Nothing /\ o.ok
    BY <1>4, <1>7 DEF SummaryResult
  <1> QED
    BY <1>5, <1>6, <1>7

-----------------------------------------------------------------------------
(* Types *)

\* The types hold when a judging begins.
LEMMA InitTypes ==
  Init => TypeInv
  <1> SUFFICES ASSUME Init
               PROVE  TypeInv
    OBVIOUS
  <1>1. NewTdResult \in TdResult
    BY ScoreFacts, VerdictFacts DEF NewTdResult, TdResult
  <1>2. res.total_score \in ScoreRange
    BY ScoreFacts DEF Init
  <1>3. /\ phase \in [Tds -> {"run", "ran", "checked", "end"}]
        /\ \A i \in Tds : phase[i] # "checked"
    BY DEF Init
  <1> QED
    BY <1>1, <1>2, <1>3 DEF Init, TypeInv

\* One testdatum's part changes in a step of FinalizeScoring.
LEMMA FinalizeScoringTypes ==
  ASSUME TypeInv, NEW i \in Tds, NEW read \in BOOLEAN, NEW o,
         read => o \in Output \/ CheckerFailed(o),
         FinalizeScoring(i, read, o)
  PROVE  TypeInv'
  <1> DEFINE t == Scored(i, read, o)
  <1>1. t \in TdResult
    BY ScoredOk
  <1> HIDE DEF t
  <1>2. /\ r' = [r EXCEPT ![i] = t]
        /\ cancelled' = cancelled \cup FailedGroups(i, t)
        /\ \E p \in {"run", "end"} : phase' = [phase EXCEPT ![i] = p]
        /\ \E n \in {stage[i], stage[i] + 1} : stage' = [stage EXCEPT ![i] = n]
        /\ out' = [out EXCEPT ![i] = Nothing]
        /\ prob' = prob /\ size' = size /\ used' = used /\ res' = res
    BY DEF FinalizeScoring, t
  <1>3. FailedGroups(i, t) \subseteq Nat
    BY DataTypes DEF FailedGroups, Resource
  <1>4. Tds' = Tds
    BY <1>2 DEF Tds
  <1>5. r' \in [Tds -> TdResult]
    BY <1>1, <1>2 DEF TypeInv
  <1>6. stage' \in [Tds -> Nat] /\ phase' \in [Tds -> {"run", "ran", "checked", "end"}]
    BY <1>2 DEF TypeInv
  <1>7. \A j \in Tds : phase'[j] = "checked" => phase[j] = "checked" /\ j # i
    BY <1>2 DEF TypeInv
  <1>8. \A j \in Tds : phase'[j] = "checked" => out'[j] \in Outputs(prob) /\ prob.specjudge_type # "SKIP"
    BY <1>2, <1>7 DEF TypeInv
  <1> QED
    BY <1>2, <1>3, <1>4, <1>5, <1>6, <1>8 DEF TypeInv

\* Every step of a judging keeps the types.
LEMMA NextTypes ==
  TypeInv /\ [Next]_vars => TypeInv'
  <1> SUFFICES ASSUME TypeInv, [Next]_vars
               PROVE  TypeInv'
    OBVIOUS
  <1>1. ASSUME NEW i \in Tds, SkipExecute(i)
        PROVE  TypeInv'
    <2>1. Tds' = Tds
      BY <1>1 DEF SkipExecute, Tds
    <2>2. stage' \in [Tds -> Nat] /\ phase' \in [Tds -> {"run", "ran", "checked", "end"}]
      BY <1>1 DEF SkipExecute, TypeInv
    <2>3. \A j \in Tds : phase'[j] = "checked" => phase[j] = "checked"
      BY <1>1 DEF SkipExecute, TypeInv
    <2> QED
      BY <1>1, <2>1, <2>2, <2>3 DEF SkipExecute, TypeInv
  <1>2. ASSUME NEW i \in Tds, Cancel(i)
        PROVE  TypeInv'
    <2>1. Tds' = Tds
      BY <1>2 DEF Cancel, Tds
    <2>2. phase' \in [Tds -> {"run", "ran", "checked", "end"}]
      BY <1>2 DEF Cancel, TypeInv
    <2>3. \A j \in Tds : phase'[j] = "checked" => phase[j] = "checked"
      BY <1>2 DEF Cancel, TypeInv
    <2> QED
      BY <1>2, <2>1, <2>2, <2>3 DEF Cancel, TypeInv
  <1>3. ASSUME NEW i \in Tds, CheckerEnds(i)
        PROVE  TypeInv'
    <2>1. out[i] \in Output
      BY <1>3, DataTypes DEF CheckerEnds, TypeInv
    <2>2. FinalizeScoring(i, TRUE, out[i])
      BY <1>3 DEF CheckerEnds
    <2> QED
      BY <2>1, <2>2, FinalizeScoringTypes
  <1>4. ASSUME NEW i \in Tds, NotInvoked(i)
        PROVE  TypeInv'
    BY <1>4, FinalizeScoringTypes DEF NotInvoked
  <1>5. ASSUME NEW i \in Tds, SkipChecker(i)
        PROVE  TypeInv'
    <2>1. CheckerFailed([ok |-> FALSE])
      BY DEF CheckerFailed
    <2>2. FinalizeScoring(i, TRUE, [ok |-> FALSE])
      BY <1>5 DEF SkipChecker
    <2> QED
      BY <2>1, <2>2, FinalizeScoringTypes
  <1>6. ASSUME NEW i \in Tds, NEW u \in Usages(prob), Execute(i, u)
        PROVE  TypeInv'
    <2>1. r'[i] \in TdResult
      BY <1>6, ExecuteMeasures
    <2>2. /\ \E t : r' = [r EXCEPT ![i] = t]
          /\ size' = Max({size, i})
          /\ \E p \in {"run", "ran"} : phase' = [phase EXCEPT ![i] = p]
          /\ \E n \in {stage[i], stage[i] + 1} : stage' = [stage EXCEPT ![i] = n]
          /\ \E x : used' = [used EXCEPT ![i] = x]
          /\ prob' = prob /\ out' = out /\ cancelled' = cancelled /\ res' = res
      BY <1>6 DEF Execute
    <2>3. Tds' = Tds
      BY <2>2 DEF Tds
    <2>4. size' \in {0} \cup Tds
      <3>1. size \in Int /\ i \in Int
        BY DataTypes DEF TypeInv
      <3>2. Max({size, i}) \in {size, i}
        BY <3>1, MaxTwo
      <3> QED
        BY <2>2, <3>2 DEF TypeInv
    <2>5. r' \in [Tds -> TdResult]
      BY <2>1, <2>2 DEF TypeInv
    <2>6. stage' \in [Tds -> Nat] /\ phase' \in [Tds -> {"run", "ran", "checked", "end"}]
      BY <2>2 DEF TypeInv
    <2>7. \A j \in Tds : phase'[j] = "checked" => phase[j] = "checked"
      BY <2>2 DEF TypeInv
    <2> QED
      BY <2>2, <2>3, <2>4, <2>5, <2>6, <2>7 DEF TypeInv
  <1>7. ASSUME NEW i \in Tds, NEW o \in Outputs(prob), RunChecker(i, o)
        PROVE  TypeInv'
    <2>1. Tds' = Tds
      BY <1>7 DEF RunChecker, Tds
    <2>2. phase' \in [Tds -> {"run", "ran", "checked", "end"}]
      BY <1>7 DEF RunChecker, TypeInv
    <2>3. \A j \in Tds : phase'[j] = "checked" => out'[j] \in Outputs(prob) /\ prob.specjudge_type # "SKIP"
      BY <1>7 DEF RunChecker, TypeInv
    <2> QED
      BY <1>7, <2>1, <2>2, <2>3 DEF RunChecker, TypeInv
  <1>8. ASSUME NEW o \in Summaries(prob), FinalizeSummary(o)
        PROVE  TypeInv'
    <2>1. Tds' = Tds
      BY <1>8 DEF FinalizeSummary, Tds
    <2>2. res'.total_score \in ScoreRange
      BY <1>8, SummaryScore DEF FinalizeSummary
    <2> QED
      BY <1>8, <2>1, <2>2 DEF FinalizeSummary, TypeInv
  <1>9. CASE UNCHANGED vars
    BY <1>9 DEF vars, TypeInv, Tds
  <1> QED
    BY <1>1, <1>2, <1>3, <1>4, <1>5, <1>6, <1>7, <1>8, <1>9 DEF Next

\* The types hold always.
LEMMA TypesHold ==
  Spec => []TypeInv
  BY InitTypes, NextTypes, PTL DEF Spec

\* No checker, of any type, whatever it prints, and no sum of groups reaches
\* kInfScore, the value that marks a group without testdata in FinalizeSummary.
THEOREM SentinelUnreachableAlways ==
  Spec => []SentinelUnreachable
  <1>1. TypeInv => SentinelUnreachable
    <2> SUFFICES ASSUME TypeInv
                 PROVE  SentinelUnreachable
      OBVIOUS
    <2> DEFINE m == kMax * Unit
    <2>1. m \in Nat \ {0} /\ kInfScore = 2 * m
      BY ScoreFacts
    <2>2. ScoreRange = (-m) .. (kInfScore - 1)
      BY DEF ScoreRange
    <2> HIDE DEF m
    <2>3. \A x \in ScoreRange : -kInfScore < x /\ x < kInfScore
      BY <2>1, <2>2
    <2>4. res.total_score \in ScoreRange /\ \A i \in Tds : r[i].score \in ScoreRange
      BY DataTypes DEF TypeInv, TdResult
    <2> QED
      BY <2>3, <2>4 DEF SentinelUnreachable
  <1> QED
    BY <1>1, TypesHold, PTL

-----------------------------------------------------------------------------
(* Limits *)

\* What a step leaves of a testdatum that it does not execute.
LEMMA MeasuredKept ==
  ASSUME NEW i, Measured(i), prob' = prob, r'[i] = r[i], used'[i] = used[i]
  PROVE  Measured(i)'
  BY DEF Measured, Td, TimeKill, ToUs

\* FinalizeScoring sends a testdatum to its next stage without a verdict.
LEMMA FinalizeScoringLimits ==
  ASSUME TypeInv, LimitInv, NEW i \in Tds, NEW read \in BOOLEAN, NEW o,
         read => o \in Output \/ CheckerFailed(o),
         FinalizeScoring(i, read, o)
  PROVE  LimitInv'
  <1> DEFINE t == Scored(i, read, o)
             ends == LastStage(i) \/ t.skip_stage
  <1>1. t.verdict # NUL => ends
    BY ScoredOk
  <1>2. i \in DOMAIN r /\ i \in DOMAIN phase
    BY DEF TypeInv
  <1>3. /\ r' = [r EXCEPT ![i] = t]
        /\ phase' = [phase EXCEPT ![i] = IF ends THEN "end" ELSE "run"]
        /\ \E n : stage' = [stage EXCEPT ![i] = n]
        /\ prob' = prob /\ used' = used
    BY DEF FinalizeScoring
  <1> HIDE DEF t, ends
  <1>4. phase'[i] # "ran" /\ (phase'[i] = "run" => r'[i].verdict = NUL)
    BY <1>1, <1>2, <1>3
  <1>5. \A j \in Tds : j # i => r'[j] = r[j] /\ phase'[j] = phase[j] /\ stage'[j] = stage[j] /\ used'[j] = used[j]
    BY <1>3 DEF TypeInv
  <1>6. Tds' = Tds
    BY <1>3 DEF Tds
  <1> QED
    BY <1>3, <1>4, <1>5, <1>6, MeasuredKept DEF LimitInv

\* Every step of a judging keeps what is known of times and limits.
LEMMA NextLimits ==
  TypeInv /\ LimitInv /\ [Next]_vars => LimitInv'
  <1> SUFFICES ASSUME TypeInv, LimitInv, [Next]_vars
               PROVE  LimitInv'
    OBVIOUS
  <1>1. ASSUME NEW i \in Tds, SkipExecute(i)
        PROVE  LimitInv'
    <2>1. Tds' = Tds /\ prob' = prob /\ r' = r /\ used' = used
      BY <1>1 DEF SkipExecute, Tds
    <2>2. \A j \in Tds : j # i => phase'[j] = phase[j] /\ stage'[j] = stage[j]
      BY <1>1 DEF SkipExecute, TypeInv
    <2>3. Measured(i)
      BY <1>1 DEF SkipExecute, LimitInv
    <2> QED
      BY <2>1, <2>2, <2>3, MeasuredKept DEF LimitInv
  <1>2. ASSUME NEW i \in Tds, Cancel(i)
        PROVE  LimitInv'
    <2>1. Tds' = Tds /\ prob' = prob /\ r' = r /\ used' = used /\ stage' = stage
      BY <1>2 DEF Cancel, Tds
    <2>2. \A j \in Tds : phase'[j] = phase[j] \/ phase'[j] = "end"
      BY <1>2 DEF Cancel, TypeInv
    <2> QED
      BY <2>1, <2>2, MeasuredKept DEF LimitInv
  <1>3. ASSUME NEW i \in Tds, CheckerEnds(i)
        PROVE  LimitInv'
    <2>1. out[i] \in Output
      BY <1>3, DataTypes DEF CheckerEnds, TypeInv
    <2>2. FinalizeScoring(i, TRUE, out[i])
      BY <1>3 DEF CheckerEnds
    <2> QED
      BY <2>1, <2>2, FinalizeScoringLimits
  <1>4. ASSUME NEW i \in Tds, NotInvoked(i)
        PROVE  LimitInv'
    BY <1>4, FinalizeScoringLimits DEF NotInvoked
  <1>5. ASSUME NEW i \in Tds, SkipChecker(i)
        PROVE  LimitInv'
    <2>1. CheckerFailed([ok |-> FALSE])
      BY DEF CheckerFailed
    <2>2. FinalizeScoring(i, TRUE, [ok |-> FALSE])
      BY <1>5 DEF SkipChecker
    <2> QED
      BY <2>1, <2>2, FinalizeScoringLimits
  <1>6. ASSUME NEW i \in Tds, NEW u \in Usages(prob), Execute(i, u)
        PROVE  LimitInv'
    <2>1. Measured(i)'
      BY <1>6, ExecuteMeasures
    <2>2. Tds' = Tds /\ prob' = prob
      BY <1>6 DEF Execute, Tds
    <2>3. \A j \in Tds : j # i => r'[j] = r[j] /\ phase'[j] = phase[j] /\ stage'[j] = stage[j] /\ used'[j] = used[j]
      BY <1>6 DEF Execute, TypeInv
    <2> QED
      BY <2>1, <2>2, <2>3, MeasuredKept DEF LimitInv
  <1>7. ASSUME NEW i \in Tds, NEW o \in Outputs(prob), RunChecker(i, o)
        PROVE  LimitInv'
    <2>1. Tds' = Tds /\ prob' = prob /\ r' = r /\ used' = used /\ stage' = stage
      BY <1>7 DEF RunChecker, Tds
    <2>2. \A j \in Tds : phase'[j] = phase[j] \/ phase'[j] = "checked"
      BY <1>7 DEF RunChecker, TypeInv
    <2> QED
      BY <2>1, <2>2, MeasuredKept DEF LimitInv
  <1>8. ASSUME NEW o \in Summaries(prob), FinalizeSummary(o)
        PROVE  LimitInv'
    <2>1. Tds' = Tds /\ prob' = prob /\ r' = r /\ used' = used /\ stage' = stage /\ phase' = phase
      BY <1>8 DEF FinalizeSummary, Tds
    <2> QED
      BY <2>1, MeasuredKept DEF LimitInv
  <1>9. CASE UNCHANGED vars
    <2>1. Tds' = Tds /\ prob' = prob /\ r' = r /\ used' = used /\ stage' = stage /\ phase' = phase
      BY <1>9 DEF vars, Tds
    <2> QED
      BY <2>1, MeasuredKept DEF LimitInv
  <1> QED
    BY <1>1, <1>2, <1>3, <1>4, <1>5, <1>6, <1>7, <1>8, <1>9 DEF Next

\* What is known of times and limits holds always.
LEMMA LimitsHold ==
  Spec => []LimitInv
  <1>1. Init => LimitInv
    BY DEF Init, LimitInv
  <1> QED
    BY <1>1, NextLimits, TypesHold, PTL DEF Spec

\* A program is told TLE only for time, over all its stages: for every limit,
\* margin of two microseconds or more and time multiplier, the limits that
\* RunExecute gives the sandbox are consistent with what FinalizeExecute measures.
THEOREM TleMeansTimeAlways ==
  Spec => []TleMeansTime
  <1>1. LimitInv => TleMeansTime
    BY DEF LimitInv, Measured, TleMeansTime
  <1> QED
    BY <1>1, LimitsHold, PTL

\* A program that the sandbox lets end has used no more than the problem's limit
\* and one margin, over all stages: RunExecute subtracts what was used before.
THEOREM StagesShareLimitAlways ==
  Spec => []StagesShareLimit
  <1>1. LimitInv => StagesShareLimit
    BY DEF LimitInv, Measured, StagesShareLimit
  <1> QED
    BY <1>1, LimitsHold, PTL

-----------------------------------------------------------------------------
(* Verdicts *)

\* The verdict of FinalizeScoring, from a checker that ran.
LEMMA ReadVerdict ==
  ASSUME TypeInv, NEW i \in Tds, CheckerEnds(i)
  PROVE  \E v \in ReadSpecjudgeResult(prob, LastStage(i), r[i].verdict, out[i].verdict) :
           r'[i].verdict = IF LastStage(i) /\ v = NUL THEN WA ELSE v
  <1> DEFINE o == out[i]
             zero == [r[i] EXCEPT !.score = 0]
             t == SpecjudgeResult(zero, o, LastStage(i))
             s == Scored(i, TRUE, o)
  <1>1. o \in Output /\ prob.specjudge_type # "SKIP"
    BY DataTypes DEF CheckerEnds, TypeInv
  <1>2. zero \in TdResult /\ zero.verdict = r[i].verdict
    BY ScoreFacts DEF TypeInv, TdResult
  <1>3. LastStage(i) \in BOOLEAN
    BY DEF LastStage
  <1> HIDE DEF zero
  <1>4. t \in TdResult /\ t.verdict \in ReadSpecjudgeResult(prob, LastStage(i), r[i].verdict, o.verdict)
    <2> HIDE DEF o
    <2> QED
      BY <1>1, <1>2, <1>3, CheckerOk
  <1>5. s = CASE ~LastStage(i) /\ t.verdict # NUL -> [t EXCEPT !.skip_stage = TRUE]
              [] LastStage(i) /\ t.verdict = NUL  -> [t EXCEPT !.verdict = WA]
              [] OTHER                            -> t
    BY DEF Scored, zero
  <1>6. r'[i] = s
    BY DEF CheckerEnds, FinalizeScoring, TypeInv
  <1> HIDE DEF t, s, o
  <1>7. s.verdict = IF LastStage(i) /\ t.verdict = NUL THEN WA ELSE t.verdict
    BY <1>4, <1>5 DEF TdResult
  <1>8. r'[i].verdict = IF LastStage(i) /\ t.verdict = NUL THEN WA ELSE t.verdict
    BY <1>6, <1>7
  <1> QED
    BY <1>4, <1>8 DEF o

\* Only the end of its checker takes a testdatum out of phase "checked".
LEMMA CheckedLeft ==
  ASSUME TypeInv, [Next]_vars, NEW i \in Tds, phase[i] = "checked", phase'[i] # "checked"
  PROVE  CheckerEnds(i)
  <1> SUFFICES ASSUME ~CheckerEnds(i)
               PROVE  phase'[i] = "checked"
    BY DEF CheckerEnds
  <1>1. ASSUME NEW j \in Tds, SkipExecute(j)
        PROVE  phase'[i] = phase[i]
    BY <1>1 DEF SkipExecute, TypeInv
  <1>2. ASSUME NEW j \in Tds, Cancel(j)
        PROVE  phase'[i] = phase[i]
    BY <1>2 DEF Cancel, TypeInv
  <1>3. ASSUME NEW j \in Tds, CheckerEnds(j)
        PROVE  phase'[i] = phase[i]
    BY <1>3 DEF CheckerEnds, FinalizeScoring, TypeInv
  <1>4. ASSUME NEW j \in Tds, NotInvoked(j)
        PROVE  phase'[i] = phase[i]
    BY <1>4 DEF NotInvoked, FinalizeScoring, TypeInv
  <1>5. ASSUME NEW j \in Tds, SkipChecker(j)
        PROVE  phase'[i] = phase[i]
    BY <1>5 DEF SkipChecker, FinalizeScoring, TypeInv
  <1>6. ASSUME NEW j \in Tds, NEW u \in Usages(prob), Execute(j, u)
        PROVE  phase'[i] = phase[i]
    BY <1>6 DEF Execute, TypeInv
  <1>7. ASSUME NEW j \in Tds, NEW o \in Outputs(prob), RunChecker(j, o)
        PROVE  phase'[i] = phase[i]
    BY <1>7 DEF RunChecker, TypeInv
  <1>8. ASSUME NEW o \in Summaries(prob), FinalizeSummary(o)
        PROVE  phase'[i] = phase[i]
    BY <1>8 DEF FinalizeSummary
  <1>9. CASE UNCHANGED vars
    BY <1>9 DEF vars
  <1> QED
    BY <1>1, <1>2, <1>3, <1>4, <1>5, <1>6, <1>7, <1>8, <1>9 DEF Next

\* The verdict that a checker's output leaves, read number by number, is one of
\* those that Verdicts gives for that output, and JudgeQueue with it: for every
\* type of checker, exit status and output.
THEOREM VerdictsCoveredAlways ==
  Spec => VerdictsCovered
  <1> DEFINE A == \A i \in Tds : phase[i] = "checked" /\ phase'[i] # "checked" =>
                    \E v \in ReadSpecjudgeResult(prob, LastStage(i), r[i].verdict, out[i].verdict) :
                      r'[i].verdict = IF LastStage(i) /\ v = NUL THEN WA ELSE v
  <1>1. TypeInv /\ [Next]_vars => A
    BY CheckedLeft, ReadVerdict
  <1>2. VerdictsCovered <=> [][A]_vars
    BY DEF VerdictsCovered
  <1> HIDE DEF A
  <1>3. TypeInv /\ [Next]_vars => [A]_vars
    BY <1>1
  <1> QED
    BY <1>2, <1>3, TypesHold, PTL DEF Spec

-----------------------------------------------------------------------------
(* Groups *)

\* A step that neither judges nor cancels: it moves a testdatum on that was not at
\* its end.
LEMMA GroupsKept ==
  ASSUME TypeInv, GroupInv, NEW i \in Tds, phase[i] # "end",
         prob' = prob, cancelled' = cancelled, res' = res,
         \A j \in Tds : j # i => r'[j] = r[j] /\ phase'[j] = phase[j] /\ stage'[j] = stage[j],
         r'[i].skip_stage = r[i].skip_stage,
         size' \in Int, size <= size',
         r'[i] = r[i] \/ i <= size',
         phase'[i] # "end" => i <= size',
         phase'[i] = "end" => IsCancelled(i)
  PROVE  GroupInv'
  <1>1. Tds' = Tds /\ (\A j \in Tds : Td(j)' = Td(j))
    BY DEF Tds, Td, TypeInv
  <1>2. \A j \in Tds : j \in Int /\ size \in Int /\ size' \in Int
    BY DataTypes DEF TypeInv
  <1>3. \A j \in Tds : IsCancelled(j) => IsCancelled(j)'
    BY <1>1 DEF IsCancelled
  <1>4. \A j \in Tds : phase'[j] \in {"ran", "checked"} \/ (phase'[j] = "run" /\ stage'[j] > 0) => j <= size'
    BY <1>2 DEF GroupInv
  <1>5. \A j \in Tds : r'[j].verdict # NUL => j <= size'
    BY <1>2 DEF GroupInv
  <1>6. \A j \in Tds : phase'[j] # "end" => ~r'[j].skip_stage
    BY DEF GroupInv
  <1>7. ASSUME NEW g \in cancelled
        PROVE  \E j \in Tds : phase'[j] = "end" /\ g \in Td(j)'.td_groups /\ r'[j].verdict \notin {NUL, AC}
    <2>1. PICK j \in Tds : phase[j] = "end" /\ g \in Td(j).td_groups /\ r[j].verdict \notin {NUL, AC}
      BY DEF GroupInv
    <2> QED
      BY <1>1, <2>1
  <1>8. ~res.done
    BY DEF GroupInv
  <1>9. \A j \in Tds : phase'[j] = "end" /\ r'[j].verdict = NUL => IsCancelled(j)' \/ res.verdict = CE
    BY <1>3, <1>8 DEF GroupInv
  <1> QED
    BY <1>1, <1>4, <1>5, <1>6, <1>7, <1>8, <1>9 DEF GroupInv

\* FinalizeScoring cancels the groups of a testdatum that it has judged to fail.
LEMMA FinalizeScoringGroups ==
  ASSUME TypeInv, GroupInv, NEW i \in Tds, NEW read \in BOOLEAN, NEW o,
         read => o \in Output \/ CheckerFailed(o),
         phase[i] \in {"ran", "checked"},
         FinalizeScoring(i, read, o)
  PROVE  GroupInv'
  <1> DEFINE t == Scored(i, read, o)
             ends == LastStage(i) \/ t.skip_stage
  <1>1. t.verdict # NUL <=> ends
    BY ScoredOk DEF GroupInv
  <1>2. /\ r' = [r EXCEPT ![i] = t]
        /\ phase' = [phase EXCEPT ![i] = IF ends THEN "end" ELSE "run"]
        /\ cancelled' = cancelled \cup FailedGroups(i, t)
        /\ \E n : stage' = [stage EXCEPT ![i] = n]
        /\ prob' = prob /\ size' = size /\ res' = res
    BY DEF FinalizeScoring
  <1>3. ~ends => ~t.skip_stage
    OBVIOUS
  <1> HIDE DEF t, ends
  <1>4. Tds' = Tds /\ (\A j \in Tds : Td(j)' = Td(j))
    BY <1>2 DEF Tds, Td
  <1>5. /\ \A j \in Tds : j # i => r'[j] = r[j] /\ phase'[j] = phase[j] /\ stage'[j] = stage[j]
        /\ r'[i] = t /\ phase'[i] = IF ends THEN "end" ELSE "run"
    BY <1>2 DEF TypeInv
  <1>6. i <= size /\ ~res.done
    BY DEF GroupInv
  <1>7. \A j \in Tds : phase'[j] \in {"ran", "checked"} \/ (phase'[j] = "run" /\ stage'[j] > 0) => j <= size
    BY <1>5, <1>6 DEF GroupInv
  <1>8. \A j \in Tds : r'[j].verdict # NUL => j <= size
    BY <1>5, <1>6 DEF GroupInv
  <1>9. \A j \in Tds : phase'[j] # "end" => ~r'[j].skip_stage
    BY <1>3, <1>5 DEF GroupInv
  <1>10. ASSUME NEW g \in cancelled'
         PROVE  \E j \in Tds : phase'[j] = "end" /\ g \in Td(j)'.td_groups /\ r'[j].verdict \notin {NUL, AC}
    <2>1. CASE g \in cancelled
      <3>1. PICK j \in Tds : phase[j] = "end" /\ g \in Td(j).td_groups /\ r[j].verdict \notin {NUL, AC}
        BY <2>1 DEF GroupInv
      <3> QED
        BY <1>4, <1>5, <3>1
    <2>2. CASE g \in FailedGroups(i, t)
      <3>1. t.verdict \notin {NUL, AC} /\ g \in Td(i).td_groups
        BY <2>2 DEF FailedGroups
      <3> QED
        BY <1>1, <1>4, <1>5, <3>1
    <2> QED
      BY <1>2, <1>10, <2>1, <2>2
  <1>11. \A j \in Tds : phase'[j] = "end" /\ r'[j].verdict = NUL => IsCancelled(j)' \/ res.verdict = CE
    <2>1. \A j \in Tds : IsCancelled(j) => IsCancelled(j)'
      BY <1>2, <1>4 DEF IsCancelled
    <2>2. phase'[i] = "end" => r'[i].verdict # NUL
      BY <1>1, <1>5
    <2> QED
      BY <1>5, <1>6, <2>1, <2>2 DEF GroupInv
  <1> QED
    BY <1>2, <1>4, <1>6, <1>7, <1>8, <1>9, <1>10, <1>11 DEF GroupInv

\* Every step of a judging keeps what is known of failed groups.
LEMMA NextGroups ==
  TypeInv /\ GroupInv /\ [Next]_vars => GroupInv'
  <1> SUFFICES ASSUME TypeInv, GroupInv, [Next]_vars
               PROVE  GroupInv'
    OBVIOUS
  <1>0. \A i \in Tds : i \in Int /\ size \in Int
    BY DataTypes DEF TypeInv
  <1>1. ASSUME NEW i \in Tds, SkipExecute(i)
        PROVE  GroupInv'
    <2>1. phase[i] # "end" /\ i <= size /\ phase'[i] # "end"
      BY <1>1 DEF SkipExecute, TypeInv, GroupInv
    <2>2. \A j \in Tds : j # i => r'[j] = r[j] /\ phase'[j] = phase[j] /\ stage'[j] = stage[j]
      BY <1>1 DEF SkipExecute, TypeInv
    <2>3. prob' = prob /\ cancelled' = cancelled /\ res' = res /\ size' = size /\ r' = r
      BY <1>1 DEF SkipExecute
    <2> QED
      BY <1>0, <2>1, <2>2, <2>3, GroupsKept
  <1>2. ASSUME NEW i \in Tds, Cancel(i)
        PROVE  GroupInv'
    <2>1. phase[i] # "end" /\ IsCancelled(i) /\ phase'[i] = "end"
      BY <1>2 DEF Cancel, TypeInv
    <2>2. \A j \in Tds : j # i => r'[j] = r[j] /\ phase'[j] = phase[j] /\ stage'[j] = stage[j]
      BY <1>2 DEF Cancel, TypeInv
    <2>3. prob' = prob /\ cancelled' = cancelled /\ res' = res /\ size' = size /\ r' = r
      BY <1>2 DEF Cancel
    <2> QED
      BY <1>0, <2>1, <2>2, <2>3, GroupsKept
  <1>3. ASSUME NEW i \in Tds, CheckerEnds(i)
        PROVE  GroupInv'
    <2>1. out[i] \in Output
      BY <1>3, DataTypes DEF CheckerEnds, TypeInv
    <2>2. FinalizeScoring(i, TRUE, out[i]) /\ phase[i] \in {"ran", "checked"}
      BY <1>3 DEF CheckerEnds
    <2> QED
      BY <2>1, <2>2, FinalizeScoringGroups
  <1>4. ASSUME NEW i \in Tds, NotInvoked(i)
        PROVE  GroupInv'
    BY <1>4, FinalizeScoringGroups DEF NotInvoked
  <1>5. ASSUME NEW i \in Tds, SkipChecker(i)
        PROVE  GroupInv'
    <2>1. CheckerFailed([ok |-> FALSE])
      BY DEF CheckerFailed
    <2>2. FinalizeScoring(i, TRUE, [ok |-> FALSE]) /\ phase[i] \in {"ran", "checked"}
      BY <1>5 DEF SkipChecker
    <2> QED
      BY <2>1, <2>2, FinalizeScoringGroups
  <1>6. ASSUME NEW i \in Tds, NEW u \in Usages(prob), Execute(i, u)
        PROVE  GroupInv'
    <2>1. phase[i] # "end" /\ phase'[i] # "end"
      BY <1>6 DEF Execute, TypeInv
    <2>2. \A j \in Tds : j # i => r'[j] = r[j] /\ phase'[j] = phase[j] /\ stage'[j] = stage[j]
      BY <1>6 DEF Execute, TypeInv
    <2>3. prob' = prob /\ cancelled' = cancelled /\ res' = res /\ size' = Max({size, i})
      BY <1>6 DEF Execute
    <2>4. size' \in Int /\ size <= size' /\ i <= size'
      BY <1>0, <2>3, MaxTwo
    <2>5. r'[i].skip_stage = r[i].skip_stage
      <3>1. r[i] \in TdResult /\ r'[i] = FinalizeExecute(i, u, RunExecute(i))
        BY <1>6, DataTypes DEF Execute, TypeInv
      <3> QED
        BY <3>1 DEF FinalizeExecute, TdResult
    <2> QED
      BY <2>1, <2>2, <2>3, <2>4, <2>5, GroupsKept
  <1>7. ASSUME NEW i \in Tds, NEW o \in Outputs(prob), RunChecker(i, o)
        PROVE  GroupInv'
    <2>1. phase[i] # "end" /\ i <= size /\ phase'[i] # "end"
      BY <1>7 DEF RunChecker, TypeInv, GroupInv
    <2>2. \A j \in Tds : j # i => r'[j] = r[j] /\ phase'[j] = phase[j] /\ stage'[j] = stage[j]
      BY <1>7 DEF RunChecker, TypeInv
    <2>3. prob' = prob /\ cancelled' = cancelled /\ res' = res /\ size' = size /\ r' = r
      BY <1>7 DEF RunChecker
    <2> QED
      BY <1>0, <2>1, <2>2, <2>3, GroupsKept
  <1>8. ASSUME NEW o \in Summaries(prob), FinalizeSummary(o)
        PROVE  GroupInv'
    <2>1. /\ prob' = prob /\ cancelled' = cancelled /\ size' = size
          /\ r' = r /\ phase' = phase /\ stage' = stage
          /\ res'.done = TRUE
          /\ \A i \in Tds : phase[i] = "end"
      BY <1>8 DEF FinalizeSummary
    <2> QED
      BY <2>1 DEF GroupInv, Tds, Td, IsCancelled
  <1>9. CASE UNCHANGED vars
    BY <1>9 DEF vars, GroupInv, Tds, Td, IsCancelled
  <1> QED
    BY <1>1, <1>2, <1>3, <1>4, <1>5, <1>6, <1>7, <1>8, <1>9 DEF Next

\* What is known of failed groups holds always.
LEMMA GroupsHold ==
  Spec => []GroupInv
  <1>1. Init => GroupInv
    <2> SUFFICES ASSUME Init
                 PROVE  GroupInv
      OBVIOUS
    <2>1. PICK v \in {NUL, CE} :
            /\ res = [verdict |-> v, total_score |-> 0, done |-> FALSE]
            /\ phase = [i \in Tds |-> IF v = NUL THEN "run" ELSE "end"]
      BY DEF Init
    <2>2. stage = [i \in Tds |-> 0] /\ cancelled = {} /\ r = [i \in Tds |-> NewTdResult]
      BY DEF Init
    <2>3. res.done = FALSE /\ res.verdict = v
      BY <2>1
    <2>4. \A i \in Tds : phase[i] = "end" => res.verdict = CE
      BY <2>1, <2>3
    <2>5. \A i \in Tds : ~(phase[i] \in {"ran", "checked"} \/ (phase[i] = "run" /\ stage[i] > 0))
      BY <2>1, <2>2
    <2>6. \A i \in Tds : r[i].verdict = NUL /\ ~r[i].skip_stage
      BY <2>2 DEF NewTdResult
    <2> QED
      BY <2>2, <2>3, <2>4, <2>5, <2>6 DEF GroupInv
  <1> QED
    BY <1>1, NextGroups, TypesHold, PTL DEF Spec

-----------------------------------------------------------------------------
(* The groups with and without skipped testdata *)

\* A testdatum without a verdict has groups, each with a failed testdatum.
LEMMA UnjudgedGroupFailed ==
  ASSUME GroupInv, ~res.done, res.verdict # CE, \A i \in Tds : phase[i] = "end",
         NEW i \in Tds, r[i].verdict = NUL
  PROVE  Td(i).td_groups # {} /\ \A g \in Td(i).td_groups : Failed(g)
  <1>1. Td(i).td_groups # {} /\ Td(i).td_groups \subseteq cancelled
    BY DEF GroupInv, IsCancelled
  <1>2. \A g \in cancelled : Failed(g)
    BY DEF GroupInv, Failed, InGroup
  <1> QED
    BY <1>1, <1>2

\* The least of the scores that FinalizeSummary goes through, below its sentinel.
LEMMA SubtaskScoreIsMin ==
  ASSUME TypeInv, NEW g
  PROVE  LET S == {r[i].score : i \in Counted \cap InGroup(g)}
         IN  /\ S = {} => SubtaskScore(g) = Full
             /\ S # {} => SubtaskScore(g) = Min(S) /\ Min(S) \in S /\ \A x \in S : Min(S) <= x
  <1> DEFINE S == {r[i].score : i \in Counted \cap InGroup(g)}
             I == {kInfScore} \cup S
             m == kMax * Unit
  <1>1. m \in Nat \ {0} /\ -m \in Int /\ kInfScore = 2 * m /\ ScoreRange = (-m) .. (kInfScore - 1)
    BY ScoreFacts DEF ScoreRange
  <1> HIDE DEF m
  <1>2. S \subseteq Int /\ kInfScore \in Int /\ \A x \in S : -m <= x /\ x < kInfScore
    BY <1>1, GroupScores
  <1>3. SubtaskScore(g) = IF Min(I) = kInfScore THEN Full ELSE Min(I)
    BY DEF SubtaskScore
  <1> HIDE DEF S
  <1>4. CASE S = {}
    <2>1. I = {kInfScore}
      BY <1>4
    <2>2. Min(I) = kInfScore
      BY <1>2, <2>1, MinIs
    <2> QED
      BY <1>3, <1>4, <2>2 DEF S
  <1>5. CASE S # {}
    <2>1. Min(S) \in S /\ \A x \in S : Min(S) <= x
      BY <1>1, <1>2, <1>5, MinOfBounded
    <2>2. PICK x : x = Min(S)
      OBVIOUS
    <2>3. x \in I /\ I \subseteq Int /\ x < kInfScore /\ x # kInfScore /\ \A y \in I : x <= y
      <3>1. x \in S /\ \A y \in S : x <= y
        BY <2>1, <2>2
      <3>2. x \in Int /\ x < kInfScore
        BY <1>2, <3>1
      <3>3. x <= kInfScore /\ x # kInfScore
        BY <1>2, <3>2
      <3> QED
        BY <1>2, <3>1, <3>2, <3>3
    <2> HIDE DEF I
    <2>4. Min(I) = x
      BY <2>3, MinIs
    <2> QED
      BY <1>3, <1>5, <2>1, <2>2, <2>3, <2>4 DEF S
  <1> QED
    BY <1>4, <1>5

\* A group without a failed testdatum was judged completely, and scores the least.
LEMMA PassingGroupWhole ==
  ASSUME TypeInv, GroupInv, ~res.done, res.verdict # CE, \A i \in Tds : phase[i] = "end",
         NEW g, ~Failed(g)
  PROVE  SubtaskScore(g) = Whole(g)
  <1>1. \A i \in InGroup(g) : i \in Tds /\ r[i].verdict # NUL
    BY UnjudgedGroupFailed DEF InGroup
  <1>2. \A i \in InGroup(g) : i \in 1 .. size
    BY <1>1, DataTypes DEF GroupInv, TypeInv
  <1>3. Counted \cap InGroup(g) = {i \in InGroup(g) : ~Td(i).ignore_verdict}
    BY <1>2 DEF Counted
  <1> QED
    BY <1>3, SubtaskScoreIsMin DEF Whole

\* A group scores no more than any of its testdata that ran and count.
LEMMA GroupScoreCapped ==
  ASSUME TypeInv, GroupInv, NEW g, NEW i \in InGroup(g), r[i].verdict # NUL, ~Td(i).ignore_verdict
  PROVE  SubtaskScore(g) <= r[i].score
  <1>1. i \in Tds /\ i \in 1 .. size
    BY DataTypes DEF GroupInv, TypeInv, InGroup
  <1>2. i \in Counted \cap InGroup(g)
    BY <1>1 DEF Counted
  <1> QED
    BY <1>2, SubtaskScoreIsMin

\* FinalizeSummary scores the groups like that.
LEMMA SummarySpares ==
  ASSUME TypeInv, GroupInv, NEW o \in Summaries(prob), FinalizeSummary(o)
  PROVE  SkipSparesPassing'
  <1>1. /\ prob' = prob /\ r' = r /\ size' = size
        /\ ~res.done /\ \A i \in Tds : phase[i] = "end"
    BY DEF FinalizeSummary
  <1>2. /\ Tds' = Tds /\ \A i \in Tds : Td(i)' = Td(i)
        /\ \A g : /\ InGroup(g)' = InGroup(g)
                  /\ Failed(g)' <=> Failed(g)
                  /\ SubtaskScore(g)' = SubtaskScore(g)
                  /\ Whole(g)' = Whole(g)
    BY <1>1 DEF Tds, Td, InGroup, Failed, SubtaskScore, Counted, Whole
  <1>3. SUFFICES ASSUME Summaries(prob) = {Nothing}, res'.verdict < CE
                 PROVE  /\ \A i \in Tds : r[i].verdict = NUL =>
                             Td(i).td_groups # {} /\ \A g \in Td(i).td_groups : Failed(g)
                        /\ \A g \in DOMAIN prob.group_score :
                             /\ Failed(g) => \A i \in InGroup(g) :
                                  r[i].verdict # NUL /\ ~Td(i).ignore_verdict => SubtaskScore(g) <= r[i].score
                             /\ ~Failed(g) => SubtaskScore(g) = Whole(g)
    <2>1. \A g : InGroup(g) \subseteq Tds
      BY DEF InGroup
    <2> QED
      BY <1>1, <1>2, <2>1 DEF SkipSparesPassing
  <1>4. o = Nothing
    BY <1>3
  <1>5. res'.verdict = OverallVerdict
    BY <1>4 DEF FinalizeSummary, SummaryResult
  <1>6. res.verdict # CE
    BY <1>3, <1>5 DEF OverallVerdict, CE, NUL
  <1> QED
    BY <1>1, <1>6, UnjudgedGroupFailed, PassingGroupWhole, GroupScoreCapped

\* Once the summary is made nothing changes any more.
LEMMA DoneIsFinal ==
  ASSUME TypeInv, GroupInv, [Next]_vars, res.done
  PROVE  UNCHANGED vars
  <1>1. \A i \in Tds : phase[i] = "end"
    BY DEF GroupInv
  <1> QED
    BY <1>1 DEF Next, SkipExecute, Cancel, CheckerEnds, NotInvoked, SkipChecker, Execute, RunChecker, FinalizeSummary

\* Only FinalizeSummary changes the result.
LEMMA ResKept ==
  ASSUME [Next]_vars, \A o \in Summaries(prob) : ~FinalizeSummary(o)
  PROVE  res' = res
  BY DEF Next, vars, SkipExecute, Cancel, CheckerEnds, NotInvoked, SkipChecker, Execute, RunChecker, FinalizeScoring

\* skip_group touches the groups that have failed and no other: a testdatum left
\* without a verdict is in failed groups only, a group that has not failed scores the
\* least of all its testdata, and one that has failed no more than any of its testdata
\* that ran, in whichever order testdata are judged and skipped, for any number of
\* testdata in any groups, with any scores and any of them ignored.
THEOREM SkipSparesPassingAlways ==
  Spec => []SkipSparesPassing
  <1>1. Init => SkipSparesPassing
    BY DEF Init, SkipSparesPassing
  <1>2. TypeInv /\ GroupInv /\ SkipSparesPassing /\ [Next]_vars => SkipSparesPassing'
    <2> SUFFICES ASSUME TypeInv, GroupInv, SkipSparesPassing, [Next]_vars
                 PROVE  SkipSparesPassing'
      OBVIOUS
    <2>1. CASE res.done
      <3>1. UNCHANGED vars
        BY <2>1, DoneIsFinal
      <3>2. prob' = prob /\ r' = r /\ size' = size /\ res' = res
        BY <3>1 DEF vars
      <3>3. /\ Tds' = Tds /\ \A i \in Tds : Td(i)' = Td(i)
            /\ \A g : InGroup(g)' = InGroup(g) /\ InGroup(g) \subseteq Tds
        BY <3>2 DEF Tds, Td, InGroup
      <3>4. \A g : /\ Failed(g)' <=> Failed(g)
                   /\ SubtaskScore(g)' = SubtaskScore(g)
                   /\ Whole(g)' = Whole(g)
        BY <3>2, <3>3 DEF Tds, Td, InGroup, Failed, SubtaskScore, Counted, Whole
      <3> QED
        BY <3>2, <3>3, <3>4 DEF SkipSparesPassing
    <2>2. CASE ~res.done
      <3>1. CASE \E o \in Summaries(prob) : FinalizeSummary(o)
        BY <3>1, SummarySpares
      <3>2. CASE \A o \in Summaries(prob) : ~FinalizeSummary(o)
        BY <2>2, <3>2, ResKept DEF SkipSparesPassing
      <3> QED
        BY <3>1, <3>2
    <2> QED
      BY <2>1, <2>2
  <1> QED
    BY <1>1, <1>2, TypesHold, GroupsHold, PTL DEF Spec
=============================================================================
