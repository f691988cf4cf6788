------------------------ MODULE DefaultScoringProofs ------------------------
(***************************************************************************)
(* The default checker decides its definition for files of any length, any *)
(* words, numbers and size of blocks.                                      *)
(*                                                                         *)
(* The loops keep ReadInv: what was read so far agrees (Agree), and what   *)
(* is left is the rest of the files.  When they end they have decided      *)
(* whether the whole files agree line by line, the lines of the longer one *)
(* beyond the shorter being blank; that this is the comparison of the      *)
(* contents is AgreeIsSameContent.                                         *)
(***************************************************************************)
EXTENDS DefaultScoring, FiniteSetTheorems, NaturalsInduction, WellFoundedInduction, SequenceTheorems, TLAPS

Line == Seq(Char \ {"n"})

-----------------------------------------------------------------------------
(* Numbers *)

\* A set of natural numbers that has 0 and not n has a last number before its
\* first gap.
LEMMA FirstGap ==
  ASSUME NEW S, NEW n \in Nat, 0 \in S, n \notin S
  PROVE  \E k \in Nat : k \in S /\ k + 1 \notin S /\ k < n
  <1> DEFINE R == {ss \in Nat \X Nat : ss[1] < ss[2]}
             Out == Nat \ S
  <1>1. IsWellFoundedOn(R, Nat)
    BY NatLessThanWellFounded DEF OpToRel
  <1>2. Out \subseteq Nat /\ Out # {}
    OBVIOUS
  <1> HIDE DEF R, Out
  <1>3. PICK m \in Out : \A k \in Out : ~(<<k, m>> \in R)
    BY <1>1, <1>2, WFMin
  <1>4. m \in Nat /\ m \notin S /\ m # 0
    BY <1>3 DEF Out
  <1>5. m - 1 \in Nat /\ <<m - 1, m>> \in R
    BY <1>4 DEF R
  <1>6. m - 1 \in S
    BY <1>3, <1>5 DEF Out
  <1>7. (m - 1) + 1 = m
    BY <1>4
  <1>8. m <= n
    <2> SUFFICES ASSUME n < m PROVE FALSE
      BY <1>4
    <2>1. <<n, m>> \in R
      BY <1>4 DEF R
    <2> QED
      BY <1>3, <2>1 DEF Out
  <1> QED
    BY <1>4, <1>5, <1>6, <1>7, <1>8

\* A bounded set of numbers has a greatest one.
LEMMA MaxOfBounded ==
  ASSUME NEW N \in Nat, NEW S \in SUBSET (0 .. N), S # {}
  PROVE  Max(S) \in S /\ \A y \in S : y <= Max(S)
  <1> DEFINE T == {n \in Nat : \E y \in S : y >= n}
  <1>1. 0 \in T /\ N + 1 \notin T
    <2>1. PICK y \in S : TRUE
      OBVIOUS
    <2>2. \A z \in S : z \in Nat /\ z <= N
      OBVIOUS
    <2> QED
      BY <2>1, <2>2
  <1>2. PICK n \in Nat : n \in T /\ n + 1 \notin T
    <2> HIDE DEF T
    <2> QED
      BY <1>1, FirstGap
  <1>3. PICK x \in S : x >= n
    BY <1>2
  <1>4. \A y \in S : x >= y
    BY <1>2, <1>3
  <1> QED
    BY <1>3, <1>4 DEF Max

\* The least of two.
LEMMA MinOfTwo ==
  ASSUME NEW a \in Int, NEW b \in Int
  PROVE  Min({a, b}) = IF a <= b THEN a ELSE b
  <1>1. \E x \in {a, b} : \A y \in {a, b} : x =< y
    OBVIOUS
  <1>2. Min({a, b}) \in {a, b} /\ \A y \in {a, b} : Min({a, b}) =< y
    BY <1>1 DEF Min
  <1> QED
    BY <1>2

-----------------------------------------------------------------------------
(* Elements in their order *)

Below(P, x) == {l \in P : l < x}

\* Subsets of an interval are finite, and so is what is below a number.
LEMMA BelowFinite ==
  ASSUME NEW N \in Nat, NEW P \in SUBSET (0 .. N), NEW x
  PROVE  /\ IsFiniteSet(P) /\ Cardinality(P) \in Nat
         /\ IsFiniteSet(Below(P, x)) /\ Cardinality(Below(P, x)) \in Nat
  <1>1. IsFiniteSet(0 .. N)
    BY FS_Interval
  <1>2. IsFiniteSet(P)
    BY <1>1, FS_Subset
  <1>3. Below(P, x) \in SUBSET P
    BY DEF Below
  <1>4. IsFiniteSet(Below(P, x))
    BY <1>2, <1>3, FS_Subset
  <1> QED
    BY <1>2, <1>4, FS_CardinalityType

\* Every number from 1 to the size of the set has its element.
LEMMA NthIsElement ==
  ASSUME NEW N \in Nat, NEW P \in SUBSET (0 .. N), NEW j \in 1 .. Cardinality(P)
  PROVE  Nth(P, j) \in P /\ Cardinality(Below(P, Nth(P, j))) = j - 1
  <1> DEFINE S == {x \in Nat : Cardinality(Below(P, x)) <= j - 1}
  <1>1. Cardinality(P) \in Nat /\ j \in Nat /\ j >= 1 /\ j <= Cardinality(P)
    BY BelowFinite
  <1>2. 0 \in S
    <2>1. Below(P, 0) = {}
      <3>1. \A l \in P : ~(l < 0)
        OBVIOUS
      <3> QED
        BY <3>1 DEF Below
    <2> QED
      BY <1>1, <2>1, FS_EmptySet
  <1>3. N + 1 \notin S
    <2>1. Below(P, N + 1) = P
      <3>1. \A l \in P : l < N + 1
        OBVIOUS
      <3> QED
        BY <3>1 DEF Below
    <2> QED
      BY <1>1, <2>1
  <1>4. PICK x \in Nat : x \in S /\ x + 1 \notin S
    <2> HIDE DEF S
    <2> QED
      BY <1>2, <1>3, FirstGap
  <1>5. /\ Cardinality(Below(P, x)) <= j - 1 /\ ~(Cardinality(Below(P, x + 1)) <= j - 1)
        /\ Cardinality(Below(P, x)) \in Nat /\ Cardinality(Below(P, x + 1)) \in Nat
    BY <1>4, BelowFinite
  <1>6. x \in P
    <2> SUFFICES ASSUME x \notin P PROVE FALSE
      OBVIOUS
    <2>1. Below(P, x + 1) = Below(P, x)
      <3>1. \A l \in P : l < x + 1 <=> l < x
        OBVIOUS
      <3> QED
        BY <3>1 DEF Below
    <2> QED
      BY <1>5, <2>1
  <1>7. Cardinality(Below(P, x + 1)) = Cardinality(Below(P, x)) + 1
    <2>1. Below(P, x + 1) = Below(P, x) \cup {x} /\ x \notin Below(P, x)
      <3>1. ~(x < x) /\ x < x + 1 /\ \A l \in P : l < x + 1 <=> l < x \/ l = x
        OBVIOUS
      <3> QED
        BY <1>6, <3>1 DEF Below
    <2> QED
      BY <2>1, BelowFinite, FS_AddElement
  <1>8. Cardinality(Below(P, x)) = j - 1
    BY <1>1, <1>5, <1>7
  <1>9. \E k \in P : Cardinality({l \in P : l < k}) = j - 1
    BY <1>6, <1>8 DEF Below
  <1> QED
    BY <1>9 DEF Nth, Below

\* Between two neighbours there is no element, and they are in order.
LEMMA NthNext ==
  ASSUME NEW N \in Nat, NEW P \in SUBSET (0 .. N), NEW j \in 1 .. Cardinality(P) - 1
  PROVE  /\ Nth(P, j) < Nth(P, j + 1)
         /\ \A p \in P : ~(Nth(P, j) < p /\ p < Nth(P, j + 1))
  <1> DEFINE a == Nth(P, j)
             b == Nth(P, j + 1)
  <1>1. Cardinality(P) \in Nat
    BY BelowFinite
  <1>2. /\ a \in P /\ b \in P /\ a \in Nat /\ b \in Nat
        /\ Cardinality(Below(P, a)) = j - 1 /\ Cardinality(Below(P, b)) = j
    <2>1. j \in 1 .. Cardinality(P) /\ j + 1 \in 1 .. Cardinality(P) /\ (j + 1) - 1 = j
      BY <1>1
    <2>2. a \in P /\ Cardinality(Below(P, a)) = j - 1
      BY <2>1, NthIsElement
    <2>3. b \in P /\ Cardinality(Below(P, b)) = j
      <3>1. b \in P /\ Cardinality(Below(P, b)) = (j + 1) - 1
        BY <2>1, NthIsElement
      <3> QED
        BY <2>1, <3>1
    <2> HIDE DEF a, b
    <2>4. a \in Nat /\ b \in Nat
      BY <2>2, <2>3
    <2> QED
      BY <2>2, <2>3, <2>4
  <1> HIDE DEF a, b
  <1>3. ASSUME NEW x \in P, NEW y \in P, x < y
        PROVE  Cardinality(Below(P, x)) + 1 <= Cardinality(Below(P, y))
    <2>1. Below(P, x) \cup {x} \in SUBSET Below(P, y) /\ x \notin Below(P, x)
      <3>1. ~(x < x) /\ \A l \in P : l < x => l < y
        BY <1>3
      <3> QED
        BY <1>3, <3>1 DEF Below
    <2>2. Cardinality(Below(P, x) \cup {x}) = Cardinality(Below(P, x)) + 1
      BY <2>1, BelowFinite, FS_AddElement
    <2>3. Cardinality(Below(P, x) \cup {x}) <= Cardinality(Below(P, y))
      BY <2>1, BelowFinite, FS_Subset
    <2> QED
      BY <2>2, <2>3
  <1>4. a < b
    <2>1. a # b
      BY <1>2
    <2>2. ~(b < a)
      <3> SUFFICES ASSUME b < a PROVE FALSE
        OBVIOUS
      <3>1. Cardinality(Below(P, b)) + 1 <= Cardinality(Below(P, a))
        BY <1>2, <1>3
      <3> QED
        BY <1>2, <3>1
    <2> QED
      BY <1>2, <2>1, <2>2
  <1>5. ASSUME NEW p \in P, a < p, p < b PROVE FALSE
    <2>1. Cardinality(Below(P, a)) + 1 <= Cardinality(Below(P, p))
      BY <1>2, <1>3, <1>5
    <2>2. Cardinality(Below(P, p)) + 1 <= Cardinality(Below(P, b))
      BY <1>2, <1>3, <1>5
    <2>3. Cardinality(Below(P, p)) \in Nat
      BY BelowFinite
    <2> QED
      BY <1>2, <2>1, <2>2, <2>3
  <1> QED
    BY <1>4, <1>5 DEF a, b

\* Select takes as many elements as there are positions, from those positions.
LEMMA SelectElements ==
  ASSUME NEW S, NEW line \in Seq(S), NEW P \in SUBSET (DOMAIN line)
  PROVE  /\ Cardinality(P) \in Nat
         /\ Cardinality(P) = 0 <=> P = {}
         /\ Select(line, P) \in Seq(S)
         /\ Len(Select(line, P)) = Cardinality(P)
         /\ \A j \in 1 .. Cardinality(P) : \E k \in P : Select(line, P)[j] = line[k]
  <1>1. P \in SUBSET (0 .. Len(line)) /\ Len(line) \in Nat /\ \A k \in P : line[k] \in S
    OBVIOUS
  <1>2. IsFiniteSet(P) /\ Cardinality(P) \in Nat
    BY <1>1, BelowFinite
  <1>3. \A j \in 1 .. Cardinality(P) : Nth(P, j) \in P
    BY <1>1, NthIsElement
  <1>4. Cardinality(P) = 0 <=> P = {}
    BY <1>2, FS_EmptySet
  <1> DEFINE n == Cardinality(P)
             f == [j \in 1 .. n |-> line[Nth(P, j)]]
  <1>5. Select(line, P) = f
    BY DEF Select
  <1> HIDE DEF n
  <1>6. n \in Nat /\ \A j \in 1 .. n : line[Nth(P, j)] \in S
    BY <1>1, <1>2, <1>3 DEF n
  <1>7. f \in Seq(S) /\ Len(f) = n
    BY <1>6
  <1>8. \A j \in 1 .. n : \E k \in P : f[j] = line[k]
    BY <1>3 DEF n
  <1> QED
    BY <1>2, <1>4, <1>5, <1>7, <1>8 DEF n

-----------------------------------------------------------------------------
(* Lines *)

\* The lines have the characters of the file and no newline.
LEMMA LinesOfFile ==
  ASSUME NEW S, NEW file \in Seq(S)
  PROVE  Lines(file) \in Seq(Seq(S \ {"n"}))
  <1> DEFINE ends == {0, Len(file) + 1} \cup {k \in DOMAIN file : file[k] = "n"}
             n == Cardinality(ends) - 1
  <1>1. Len(file) + 1 \in Nat /\ ends \in SUBSET (0 .. Len(file) + 1)
    OBVIOUS
  <1>2. n \in Nat
    <2>1. {0, Len(file) + 1} \in SUBSET ends /\ 0 # Len(file) + 1
      OBVIOUS
    <2>2. Cardinality({0} \cup {Len(file) + 1}) = 2
      <3>1. IsFiniteSet({0}) /\ Cardinality({0}) = 1 /\ Len(file) + 1 \notin {0}
        BY <2>1, FS_Singleton
      <3> DEFINE e == Len(file) + 1
      <3> HIDE DEF e
      <3>2. Cardinality({0} \cup {e}) = IF e \in {0} THEN Cardinality({0}) ELSE Cardinality({0}) + 1
        BY <3>1, FS_AddElement
      <3> QED
        BY <3>1, <3>2 DEF e
    <2>3. {0} \cup {Len(file) + 1} = {0, Len(file) + 1}
      OBVIOUS
    <2> HIDE DEF ends
    <2>4. IsFiniteSet(ends) /\ Cardinality(ends) \in Nat
      BY <1>1, BelowFinite
    <2>5. 2 <= Cardinality(ends)
      BY <2>1, <2>2, <2>3, <2>4, FS_Subset
    <2> QED
      BY <2>4, <2>5
  <1>3. ASSUME NEW j \in 1 .. n
        PROVE  SubSeq(file, Nth(ends, j) + 1, Nth(ends, j + 1) - 1) \in Seq(S \ {"n"})
    <2> DEFINE a == Nth(ends, j)
               b == Nth(ends, j + 1)
    <2>1. j \in 1 .. Cardinality(ends) /\ j + 1 \in 1 .. Cardinality(ends) /\ j \in 1 .. Cardinality(ends) - 1
      <3> HIDE DEF ends
      <3>1. Cardinality(ends) \in Nat
        BY <1>1, BelowFinite
      <3> QED
        BY <3>1
    <2>2. a \in ends /\ b \in ends
      <3> HIDE DEF ends
      <3> QED
        BY <1>1, <2>1, NthIsElement
    <2>3. \A p \in ends : ~(a < p /\ p < b)
      <3> HIDE DEF ends
      <3> QED
        BY <1>1, <2>1, NthNext
    <2> HIDE DEF a, b
    <2>4. a \in Int /\ b \in Int /\ 0 <= a /\ b <= Len(file) + 1
      BY <2>2
    <2>5. ASSUME NEW q \in a + 1 .. b - 1 PROVE file[q] \in S \ {"n"}
      <3>1. a < q /\ q < b /\ q \in 1 .. Len(file)
        BY <2>4
      <3>2. q \notin ends
        BY <2>3, <3>1
      <3>3. file[q] # "n"
        BY <3>1, <3>2
      <3> QED
        BY <3>1, <3>3
    <2>6. SubSeq(file, a + 1, b - 1) \in Seq(S \ {"n"})
      BY <2>4, <2>5, SubSeqProperties
    <2> QED
      BY <2>6 DEF a, b
  <1>4. Lines(file) = [j \in 1 .. n |-> SubSeq(file, Nth(ends, j) + 1, Nth(ends, j + 1) - 1)]
    BY DEF Lines
  <1> HIDE DEF ends, n
  <1>5. [j \in 1 .. n |-> SubSeq(file, Nth(ends, j) + 1, Nth(ends, j + 1) - 1)] \in [1 .. n -> Seq(S \ {"n"})]
    BY <1>3
  <1> DEFINE f == [j \in 1 .. n |-> SubSeq(file, Nth(ends, j) + 1, Nth(ends, j + 1) - 1)]
             T == Seq(S \ {"n"})
  <1>6. f \in [1 .. n -> T]
    BY <1>5
  <1>7. Lines(file) = f
    BY <1>4
  <1> HIDE DEF f, T
  <1>8. f \in Seq(T)
    BY <1>2, <1>6, SeqDef
  <1> QED
    BY <1>7, <1>8 DEF T

\* The lines of a file are lines.
LEMMA LinesType ==
  ASSUME NEW file \in Seq(Char)
  PROVE  Lines(file) \in Seq(Line)
  BY LinesOfFile DEF Line

\* A character of a line is one of the file.
LEMMA LineFromFile ==
  ASSUME NEW file \in Seq(Char), NEW j \in 1 .. Len(Lines(file)), NEW k \in DOMAIN Lines(file)[j]
  PROVE  Lines(file)[j][k] \in ToSet(file)
  <1> DEFINE S == ToSet(file)
  <1>1. file \in Seq(S)
    <2>1. file \in [1 .. Len(file) -> S] /\ Len(file) \in Nat
      BY DEF ToSet
    <2> QED
      BY <2>1, SeqDef
  <1> HIDE DEF S
  <1>2. Lines(file) \in Seq(Seq(S \ {"n"}))
    BY <1>1, LinesOfFile
  <1>3. Lines(file)[j] \in Seq(S \ {"n"})
    BY <1>2, ElementOfSeq
  <1> DEFINE line == Lines(file)[j]
  <1> HIDE DEF line
  <1>4. line[k] \in S
    BY <1>3 DEF line
  <1> QED
    BY <1>4 DEF line, S

\* The position up to which a sequence is kept: behind it nothing is marked, and
\* it is marked unless it is 0.
LEMMA LastMarked ==
  ASSUME NEW N \in Nat, NEW P \in SUBSET (1 .. N), NEW m, m = Max({0} \cup P)
  PROVE  /\ m \in 0 .. N
         /\ \A k \in P : k <= m
         /\ m = 0 \/ m \in P
         /\ m = 0 <=> P = {}
  <1>1. {0} \cup P \in SUBSET (0 .. N) /\ {0} \cup P # {}
    OBVIOUS
  <1>2. m \in {0} \cup P /\ \A y \in {0} \cup P : y <= m
    BY <1>1, MaxOfBounded
  <1>3. \A k \in P : k \in Nat /\ k >= 1
    OBVIOUS
  <1> QED
    BY <1>1, <1>2, <1>3

\* StripTail keeps a line up to its last character that is not white.
LEMMA StripTailShape ==
  ASSUME NEW line \in Line
  PROVE  \E m \in 0 .. Len(line) :
           /\ StripTail(line) \in Line
           /\ Len(StripTail(line)) = m
           /\ \A k \in 1 .. m : StripTail(line)[k] = line[k]
           /\ \A k \in DOMAIN line : line[k] \notin kWhites => k <= m
           /\ m = 0 <=> Blank(line)
  <1> DEFINE P == {k \in DOMAIN line : line[k] \notin kWhites}
             m == Max({0} \cup P)
  <1>1. Len(line) \in Nat /\ P \in SUBSET (1 .. Len(line)) /\ DOMAIN line = 1 .. Len(line)
    BY DEF Line
  <1>2. m \in 0 .. Len(line) /\ (\A k \in P : k <= m) /\ (m = 0 <=> P = {})
    <2> HIDE DEF P
    <2> QED
      BY <1>1, LastMarked
  <1>3. StripTail(line) = SubSeq(line, 1, m)
    BY DEF StripTail
  <1> HIDE DEF m
  <1>4. /\ StripTail(line) \in Line
        /\ Len(StripTail(line)) = m
        /\ \A k \in 1 .. m : StripTail(line)[k] = line[k]
    BY <1>1, <1>2, <1>3 DEF Line
  <1>5. P = {} <=> Blank(line)
    BY DEF Blank
  <1> QED
    BY <1>2, <1>4, <1>5

\* The words of a line are those of its characters that are not white.
LEMMA WordsOfLine ==
  ASSUME NEW line \in Line
  PROVE  /\ WordsOf(line) \in Seq(Char \ {"n"})
         /\ Len(WordsOf(line)) \in Nat
         /\ Len(WordsOf(line)) = 0 <=> Blank(line)
         /\ \A j \in 1 .. Len(WordsOf(line)) :
              \E k \in DOMAIN line : WordsOf(line)[j] = line[k] /\ line[k] \notin kWhites
  <1> DEFINE P == {k \in DOMAIN line : line[k] \notin kWhites}
  <1>1. P \in SUBSET (DOMAIN line) /\ line \in Seq(Char \ {"n"})
    BY DEF Line
  <1>2. WordsOf(line) = Select(line, P)
    BY DEF WordsOf
  <1>3. P = {} <=> Blank(line)
    BY DEF Blank
  <1>4. \A k \in P : k \in DOMAIN line /\ line[k] \notin kWhites
    OBVIOUS
  <1> HIDE DEF P
  <1>5. /\ Cardinality(P) \in Nat
        /\ Cardinality(P) = 0 <=> P = {}
        /\ Select(line, P) \in Seq(Char \ {"n"})
        /\ Len(Select(line, P)) = Cardinality(P)
        /\ \A j \in 1 .. Cardinality(P) : \E k \in P : Select(line, P)[j] = line[k]
    BY <1>1, SelectElements
  <1> QED
    BY <1>2, <1>3, <1>4, <1>5

\* Lines that are the same are both blank or neither is.
LEMMA SameBlank ==
  ASSUME NEW s \in Line, NEW t \in Line, SameLine(s, t)
  PROVE  Blank(s) <=> Blank(t)
  <1>1. CASE type = "line"
    <2>1. StripTail(s) = StripTail(t)
      BY <1>1 DEF SameLine
    <2> QED
      BY <2>1, StripTailShape
  <1>2. CASE type # "line"
    <2>1. Len(WordsOf(s)) = Len(WordsOf(t))
      BY <1>2 DEF SameLine, SameWords
    <2> QED
      BY <2>1, WordsOfLine
  <1> QED
    BY <1>1, <1>2

\* Blank lines are the same.
LEMMA BlankSame ==
  ASSUME NEW s \in Line, NEW t \in Line, Blank(s), Blank(t)
  PROVE  SameLine(s, t)
  <1>1. CASE type = "line"
    <2>1. StripTail(s) \in Line /\ Len(StripTail(s)) = 0 /\ StripTail(t) \in Line /\ Len(StripTail(t)) = 0
      BY StripTailShape
    <2>2. StripTail(s) = <<>> /\ StripTail(t) = <<>>
      BY <2>1, EmptySeq DEF Line
    <2> QED
      BY <1>1, <2>2 DEF SameLine
  <1>2. CASE type # "line"
    <2>1. /\ Len(WordsOf(s)) = 0 /\ Len(WordsOf(t)) = 0
          /\ WordsOf(s) \in Seq(Char \ {"n"})
      BY WordsOfLine
    <2>2. DOMAIN WordsOf(s) = {}
      BY <2>1
    <2> QED
      BY <1>2, <2>1, <2>2 DEF SameLine, SameWords
  <1> QED
    BY <1>1, <1>2

-----------------------------------------------------------------------------
(* Files that agree *)

\* The first a lines of A and the first u of U: the same where both files have
\* lines, and blank beyond the shorter one.
Agree(A, U, a, u) ==
  /\ \A k \in 1 .. a : IF k <= Len(U) THEN SameLine(A[k], U[k]) ELSE Blank(A[k])
  /\ \A k \in 1 .. u : IF k <= Len(A) THEN SameLine(A[k], U[k]) ELSE Blank(U[k])

\* Content, of the lines.
Kept(A) == Max({0} \cup {k \in DOMAIN A : ~Blank(A[k])})

\* Every line behind Kept is blank, the one at it is not, and Content has the lines up to it.
LEMMA KeptLines ==
  ASSUME NEW file, NEW A \in Seq(Line), A = Lines(file)
  PROVE  /\ Kept(A) \in 0 .. Len(A)
         /\ \A k \in 1 .. Len(A) : ~Blank(A[k]) => k <= Kept(A)
         /\ Kept(A) = 0 \/ ~Blank(A[Kept(A)])
         /\ Len(Content(file)) = Kept(A)
         /\ DOMAIN Content(file) = 1 .. Kept(A)
         /\ \A k \in 1 .. Kept(A) : Content(file)[k] = A[k]
  <1> DEFINE P == {k \in DOMAIN A : ~Blank(A[k])}
             m == Kept(A)
  <1>1. Len(A) \in Nat /\ P \in SUBSET (1 .. Len(A)) /\ DOMAIN A = 1 .. Len(A)
    OBVIOUS
  <1>2. m \in 0 .. Len(A) /\ (\A k \in P : k <= m) /\ (m = 0 \/ m \in P)
    <2>1. m = Max({0} \cup P)
      BY DEF Kept
    <2> HIDE DEF P, m
    <2> QED
      BY <1>1, <2>1, LastMarked
  <1>3. Content(file) = SubSeq(A, 1, m)
    BY DEF Content, Kept
  <1> HIDE DEF m
  <1>4. SubSeq(A, 1, m) \in Seq(Line) /\ Len(SubSeq(A, 1, m)) = m /\ \A k \in 1 .. m : SubSeq(A, 1, m)[k] = A[k]
    BY <1>1, <1>2
  <1>5. (\A k \in 1 .. Len(A) : ~Blank(A[k]) => k <= m) /\ (m = 0 \/ ~Blank(A[m]))
    BY <1>1, <1>2
  <1> HIDE DEF P
  <1>6. DOMAIN SubSeq(A, 1, m) = 1 .. m
    BY <1>4
  <1> QED
    BY <1>2, <1>3, <1>4, <1>5, <1>6 DEF m

\* Comparing all lines, with blank ones beyond the shorter file, is comparing the
\* contents.
LEMMA AgreeIsSameContent ==
  ASSUME NEW A \in Seq(Line), A = Lines(case.ans), NEW U \in Seq(Line), U = Lines(case.usr)
  PROVE  SameContent <=> Agree(A, U, Len(A), Len(U))
  <1> DEFINE a == Kept(A)
             u == Kept(U)
  <1>1. /\ a \in 0 .. Len(A) /\ u \in 0 .. Len(U)
        /\ \A k \in 1 .. Len(A) : ~Blank(A[k]) => k <= a
        /\ \A k \in 1 .. Len(U) : ~Blank(U[k]) => k <= u
        /\ a = 0 \/ ~Blank(A[a])
        /\ u = 0 \/ ~Blank(U[u])
    BY KeptLines
  <1>2. SameContent <=> a = u /\ \A k \in 1 .. a : SameLine(A[k], U[k])
    <2>1. /\ Len(Content(case.ans)) = a /\ DOMAIN Content(case.ans) = 1 .. a
          /\ \A k \in 1 .. a : Content(case.ans)[k] = A[k]
          /\ Len(Content(case.usr)) = u
          /\ \A k \in 1 .. u : Content(case.usr)[k] = U[k]
      BY KeptLines
    <2> HIDE DEF a, u
    <2> QED
      BY <2>1 DEF SameContent
  <1>3. Len(A) \in Nat /\ Len(U) \in Nat /\ (\A k \in 1 .. Len(A) : A[k] \in Line) /\ (\A k \in 1 .. Len(U) : U[k] \in Line)
    OBVIOUS
  <1> HIDE DEF a, u
  <1>4. ASSUME Agree(A, U, Len(A), Len(U)) PROVE a = u /\ \A k \in 1 .. a : SameLine(A[k], U[k])
    <2>1. \A k \in 1 .. Len(A) : ~Blank(A[k]) => k <= Len(U) /\ SameLine(A[k], U[k]) /\ ~Blank(U[k])
      <3> SUFFICES ASSUME NEW k \in 1 .. Len(A), ~Blank(A[k])
                   PROVE  k <= Len(U) /\ SameLine(A[k], U[k]) /\ ~Blank(U[k])
        OBVIOUS
      <3>1. k <= Len(U) /\ SameLine(A[k], U[k])
        BY <1>4 DEF Agree
      <3> QED
        BY <1>3, <3>1, SameBlank
    <2>2. \A k \in 1 .. Len(U) : ~Blank(U[k]) => k <= Len(A) /\ SameLine(A[k], U[k]) /\ ~Blank(A[k])
      <3> SUFFICES ASSUME NEW k \in 1 .. Len(U), ~Blank(U[k])
                   PROVE  k <= Len(A) /\ SameLine(A[k], U[k]) /\ ~Blank(A[k])
        OBVIOUS
      <3>1. k <= Len(A) /\ SameLine(A[k], U[k])
        BY <1>4 DEF Agree
      <3> QED
        BY <1>3, <3>1, SameBlank
    <2>3. a <= u
      BY <1>1, <1>3, <2>1
    <2>4. u <= a
      BY <1>1, <1>3, <2>2
    <2>5. a = u
      BY <1>1, <2>3, <2>4
    <2>6. \A k \in 1 .. a : k \in 1 .. Len(A) /\ k <= Len(U)
      BY <1>1, <1>3, <2>5
    <2> QED
      BY <1>4, <2>5, <2>6 DEF Agree
  <1>5. ASSUME a = u, \A k \in 1 .. a : SameLine(A[k], U[k]) PROVE Agree(A, U, Len(A), Len(U))
    <2>1. ASSUME NEW k \in 1 .. Len(A), k <= Len(U) PROVE SameLine(A[k], U[k])
      <3>1. CASE k <= a
        BY <1>5, <3>1
      <3>2. CASE ~(k <= a)
        <4>1. k \in 1 .. Len(U)
          BY <2>1
        <4>2. Blank(A[k]) /\ Blank(U[k])
          BY <1>1, <1>5, <3>2, <4>1
        <4> QED
          BY <1>3, <4>1, <4>2, BlankSame
      <3> QED
        BY <3>1, <3>2
    <2>2. ASSUME NEW k \in 1 .. Len(A), ~(k <= Len(U)) PROVE Blank(A[k])
      <3>1. ~(k <= a)
        BY <1>1, <1>3, <1>5, <2>2
      <3> QED
        BY <1>1, <3>1
    <2>3. ASSUME NEW k \in 1 .. Len(U), ~(k <= Len(A)) PROVE Blank(U[k])
      <3>1. ~(k <= u)
        BY <1>1, <1>3, <1>5, <2>3
      <3> QED
        BY <1>1, <3>1
    <2>4. \A k \in 1 .. Len(U) : k <= Len(A) => k \in 1 .. Len(A)
      BY <1>3
    <2> QED
      BY <2>1, <2>2, <2>3, <2>4 DEF Agree
  <1> QED
    BY <1>2, <1>4, <1>5

-----------------------------------------------------------------------------
(* What the loops keep *)

\* f is what is left of s after n elements.
Rest(f, S, s, n) ==
  /\ f \in Seq(S)
  /\ n \in 0 .. Len(s)
  /\ Len(f) = Len(s) - n
  /\ \A k \in 1 .. Len(f) : f[k] = s[n + k]

LineModes == {"line", "white-diff", "float-diff"}

\* In the first loop both streams are at the same line, in the second one of them
\* is at its end and the other behind it.
LineInv ==
  pc \in LineModes \cup {"tail"} =>
    \E a, u \in Nat :
      /\ Rest(f_ans, Line, Lines(case.ans), a)
      /\ Rest(f_usr, Line, Lines(case.usr), u)
      /\ Agree(Lines(case.ans), Lines(case.usr), a, u)
      /\ pc # "tail" => a = u
      /\ pc = "tail" => \/ a = Len(Lines(case.ans)) /\ u >= a
                        \/ u = Len(Lines(case.usr)) /\ a >= u

StrictInv ==
  pc = "strict" =>
    \E n \in Nat :
      /\ Rest(f_ans, Char, case.ans, n)
      /\ Rest(f_usr, Char, case.usr, n)
      /\ \A k \in 1 .. n : case.ans[k] = case.usr[k]

\* What an answer means.
Right(b) ==
  b = /\ case.usr # NoFile
      /\ Known
      /\ IF type = "strict" THEN case.ans = case.usr
         ELSE Agree(Lines(case.ans), Lines(case.usr), Len(Lines(case.ans)), Len(Lines(case.usr)))

ModeInv ==
  /\ case \in Cases
  /\ res \in BOOLEAN
  /\ pc \in LineModes \cup {"start", "strict", "tail", "done"}
  /\ pc \notin {"start", "done"} => case.usr # NoFile /\ Known
  /\ pc \in LineModes \cup {"strict"} => type = pc
  /\ pc = "tail" => type \in LineModes
  /\ pc = "done" => Right(res)

ReadInv == ModeInv /\ LineInv /\ StrictInv

\* The files of a case are sequences of characters, and their lines are lines.
LEMMA FilesType ==
  ASSUME case \in Cases
  PROVE  /\ case.ans \in Seq(Char) /\ Lines(case.ans) \in Seq(Line)
         /\ case.usr # NoFile => case.usr \in Seq(Char) /\ Lines(case.usr) \in Seq(Line)
  <1>1. case.ans \in Seq(Char) /\ (case.usr # NoFile => case.usr \in Seq(Char))
    BY ScoringAssumption DEF File
  <1> QED
    BY <1>1, LinesType

\* Comparisons depend on the options only.
LEMMA SameKept ==
  ASSUME UNCHANGED <<case, options>>
  PROVE  /\ case' = case /\ type' = type
         /\ Known' <=> Known
         /\ \A s, t : SameLine(s, t)' <=> SameLine(s, t)
         /\ \A s : Blank(s)' <=> Blank(s)
         /\ \A A, U, a, u : Agree(A, U, a, u)' <=> Agree(A, U, a, u)
  <1>1. case' = case /\ type' = type /\ subtype' = subtype /\ threshold' = threshold
    BY DEF options
  <1>2. Known' <=> Known
    BY <1>1 DEF Known
  <1>3. kWhites' = kWhites
    BY <1>1 DEF kWhites
  <1>4. \A s : Blank(s)' <=> Blank(s)
    BY <1>3 DEF Blank
  <1>5. \A s : StripTail(s)' = StripTail(s) /\ WordsOf(s)' = WordsOf(s)
    BY <1>3 DEF StripTail, WordsOf
  <1>6. \A s, t : SameWord(s, t)' <=> SameWord(s, t)
    BY <1>1 DEF SameWord, CheckFloat, Close
  <1>7. \A s, t : SameWords(s, t)' <=> SameWords(s, t)
    BY <1>5, <1>6 DEF SameWords
  <1>8. \A s, t : SameLine(s, t)' <=> SameLine(s, t)
    BY <1>1, <1>5, <1>7 DEF SameLine
  <1>9. \A A, U, a, u : Agree(A, U, a, u)' <=> Agree(A, U, a, u)
    BY <1>4, <1>8 DEF Agree
  <1> QED
    BY <1>1, <1>2, <1>4, <1>8, <1>9

\* An answer that is right when given stays right.
LEMMA RightAnswer ==
  ASSUME ModeInv, UNCHANGED <<case, options>>, NEW b \in BOOLEAN, Answer(b), Right(b)
  PROVE  ReadInv'
  <1>1. /\ case' = case /\ type' = type /\ (Known' <=> Known)
        /\ \A A, U, a, u : Agree(A, U, a, u)' <=> Agree(A, U, a, u)
    BY SameKept
  <1>2. pc' = "done" /\ res' = b
    BY DEF Answer
  <1>3. Right(b)'
    BY <1>1 DEF Right
  <1>4. Right(res)'
    BY <1>2, <1>3 DEF Right
  <1>5. ModeInv'
    BY <1>1, <1>2, <1>4 DEF ModeInv, LineModes
  <1>6. LineInv' /\ StrictInv'
    BY <1>2 DEF LineInv, StrictInv, LineModes
  <1> QED
    BY <1>5, <1>6 DEF ReadInv

\* Nothing has been read at the beginning.
LEMMA RestAll ==
  ASSUME NEW S, NEW s \in Seq(S)
  PROVE  Rest(s, S, s, 0)
  BY DEF Rest

\* The rest after one more element.
LEMMA RestTail ==
  ASSUME NEW S, NEW s \in Seq(S), NEW f, NEW n \in Nat, Rest(f, S, s, n), f # <<>>
  PROVE  /\ Rest(Tail(f), S, s, n + 1)
         /\ n + 1 \in 1 .. Len(s)
         /\ Head(f) = s[n + 1]
  <1>1. f \in Seq(S) /\ n \in 0 .. Len(s) /\ Len(f) = Len(s) - n /\ \A k \in 1 .. Len(f) : f[k] = s[n + k]
    BY DEF Rest
  <1>2. Len(f) \in Nat /\ Len(f) # 0 /\ Len(s) \in Nat
    BY <1>1, EmptySeq
  <1>3. n + 1 \in 1 .. Len(s) /\ Head(f) = s[n + 1]
    BY <1>1, <1>2
  <1>4. /\ Tail(f) \in Seq(S) /\ Len(Tail(f)) = Len(f) - 1
        /\ \A k \in 1 .. Len(Tail(f)) : Tail(f)[k] = f[k + 1]
    BY <1>1, HeadTailProperties
  <1>5. \A k \in 1 .. Len(Tail(f)) : Tail(f)[k] = s[(n + 1) + k]
    BY <1>1, <1>2, <1>4
  <1> QED
    BY <1>1, <1>2, <1>3, <1>4, <1>5 DEF Rest

\* The rest is empty when everything has been read.
LEMMA RestEnd ==
  ASSUME NEW S, NEW s \in Seq(S), NEW f, NEW n \in Nat, Rest(f, S, s, n)
  PROVE  f = <<>> <=> n = Len(s)
  BY EmptySeq DEF Rest

-----------------------------------------------------------------------------
(* The steps *)

\* The invariant holds before anything is read.
LEMMA InitRead ==
  ASSUME Init
  PROVE  ReadInv
  BY DEF Init, ReadInv, ModeInv, LineInv, StrictInv, LineModes

\* A missing file is rejected.
LEMMA NoOutputRead ==
  ASSUME ReadInv, NoOutput
  PROVE  ReadInv'
  <1>1. Right(FALSE)
    BY DEF NoOutput, Right
  <1>2. UNCHANGED <<case, options>> /\ Answer(FALSE) /\ ModeInv
    BY DEF NoOutput, ReadInv
  <1> QED
    BY <1>1, <1>2, RightAnswer

\* Arguments are read before the files.
LEMMA ParseArgumentRead ==
  ASSUME ReadInv, ParseArgument
  PROVE  ReadInv'
  <1>1. pc = "start" /\ pc' = pc /\ case' = case /\ res' = res
    BY DEF ParseArgument
  <1> QED
    BY <1>1 DEF ReadInv, ModeInv, LineInv, StrictInv, LineModes

\* The files are opened at their beginning; an unknown mode is rejected.
LEMMA OpenFilesRead ==
  ASSUME ReadInv, OpenFiles
  PROVE  ReadInv'
  <1>1. /\ pc = "start" /\ case.usr # NoFile /\ case \in Cases /\ ModeInv
        /\ UNCHANGED <<case, options>> /\ case' = case /\ type' = type /\ (Known' <=> Known)
    BY SameKept DEF OpenFiles, ReadInv, ModeInv
  <1>2. CASE ~Known
    <2>1. Right(FALSE) /\ Answer(FALSE)
      BY <1>2 DEF Right, OpenFiles
    <2> QED
      BY <1>1, <2>1, RightAnswer
  <1>3. CASE Known
    <2>1. pc' = type /\ res' = res /\ type \in LineModes \cup {"strict"}
      BY <1>3 DEF OpenFiles, Known, LineModes
    <2>2. ModeInv'
      BY <1>1, <1>3, <2>1 DEF ModeInv, LineModes
    <2>3. LineInv'
      <3> SUFFICES ASSUME type \in LineModes PROVE LineInv'
        BY <2>1 DEF LineInv, LineModes
      <3> DEFINE A == Lines(case.ans)
                 U == Lines(case.usr)
      <3>1. f_ans' = A /\ f_usr' = U
        BY DEF OpenFiles, LineModes
      <3>2. A \in Seq(Line) /\ U \in Seq(Line)
        BY <1>1, FilesType
      <3> HIDE DEF A, U
      <3>3. Rest(A, Line, A, 0) /\ Rest(U, Line, U, 0)
        BY <3>2, RestAll
      <3>4. Agree(Lines(case.ans), Lines(case.usr), 0, 0)'
        BY DEF Agree
      <3>5. pc' # "tail"
        BY <2>1 DEF LineModes
      <3>6. /\ Rest(f_ans, Line, Lines(case.ans), 0)'
            /\ Rest(f_usr, Line, Lines(case.usr), 0)'
            /\ Agree(Lines(case.ans), Lines(case.usr), 0, 0)'
        BY <1>1, <3>1, <3>3, <3>4 DEF A, U
      <3> QED
        BY <3>5, <3>6 DEF LineInv
    <2>4. StrictInv'
      <3> SUFFICES ASSUME type = "strict" PROVE StrictInv'
        BY <2>1 DEF StrictInv
      <3>1. f_ans' = case.ans /\ f_usr' = case.usr
        BY DEF OpenFiles
      <3>2. Rest(case.ans, Char, case.ans, 0) /\ Rest(case.usr, Char, case.usr, 0)
        BY <1>1, FilesType, RestAll
      <3> QED
        BY <1>1, <3>1, <3>2 DEF StrictInv
    <2> QED
      BY <2>2, <2>3, <2>4 DEF ReadInv
  <1> QED
    BY <1>2, <1>3

\* A step that leaves the streams at lines a and u of the two files.
LEMMA LineStep ==
  ASSUME ReadInv, UNCHANGED <<case, options>>, UNCHANGED res,
         pc \in LineModes \cup {"tail"}, pc' \in {pc, "tail"}, NEW a \in Nat, NEW u \in Nat,
         Rest(f_ans', Line, Lines(case.ans), a), Rest(f_usr', Line, Lines(case.usr), u),
         Agree(Lines(case.ans), Lines(case.usr), a, u),
         pc' # "tail" => a = u,
         pc' = "tail" => \/ a = Len(Lines(case.ans)) /\ u >= a
                         \/ u = Len(Lines(case.usr)) /\ a >= u
  PROVE  ReadInv'
  <1>1. /\ case' = case /\ type' = type /\ (Known' <=> Known)
        /\ \A A, U, x, y : Agree(A, U, x, y)' <=> Agree(A, U, x, y)
    BY SameKept
  <1>2. ModeInv'
    BY <1>1 DEF ReadInv, ModeInv, LineModes
  <1>3. LineInv'
    <2>1. /\ Rest(f_ans, Line, Lines(case.ans), a)'
          /\ Rest(f_usr, Line, Lines(case.usr), u)'
          /\ Agree(Lines(case.ans), Lines(case.usr), a, u)'
      BY <1>1
    <2>2. (pc = "tail" => \/ a = Len(Lines(case.ans)) /\ u >= a
                          \/ u = Len(Lines(case.usr)) /\ a >= u)'
      BY <1>1
    <2> QED
      BY <2>1, <2>2 DEF LineInv
  <1>4. StrictInv'
    BY DEF StrictInv, LineModes
  <1> QED
    BY <1>2, <1>3, <1>4 DEF ReadInv

\* A line of each file: the same, or the files do not agree.
LEMMA CompareLineRead ==
  ASSUME ReadInv, pc \in LineModes, CompareLine
  PROVE  ReadInv'
  <1> DEFINE A == Lines(case.ans)
             U == Lines(case.usr)
  <1>1. /\ case \in Cases /\ case.usr # NoFile /\ type \in LineModes /\ pc # "tail" /\ ModeInv
        /\ A \in Seq(Line) /\ U \in Seq(Line)
    BY FilesType DEF ReadInv, ModeInv, LineModes
  <1>2. PICK a \in Nat : Rest(f_ans, Line, A, a) /\ Rest(f_usr, Line, U, a) /\ Agree(A, U, a, a)
    BY <1>1 DEF ReadInv, LineInv
  <1>3. f_ans # <<>> /\ f_usr # <<>> /\ f_ans' = Tail(f_ans) /\ f_usr' = Tail(f_usr) /\ UNCHANGED <<case, options>>
    BY DEF CompareLine, Eof
  <1> HIDE DEF A, U
  <1>4. /\ Rest(f_ans', Line, A, a + 1) /\ a + 1 \in 1 .. Len(A) /\ Head(f_ans) = A[a + 1]
        /\ Rest(f_usr', Line, U, a + 1) /\ a + 1 \in 1 .. Len(U) /\ Head(f_usr) = U[a + 1]
    BY <1>1, <1>2, <1>3, RestTail
  <1>5. CASE SameLine(Head(f_ans), Head(f_usr))
    <2>1. pc' = pc /\ res' = res
      BY <1>5 DEF CompareLine
    <2>2. Agree(A, U, a + 1, a + 1)
      <3>1. SameLine(A[a + 1], U[a + 1])
        BY <1>4, <1>5
      <3>2. \A k \in 1 .. a + 1 : k \in 1 .. a \/ (k = a + 1 /\ k <= Len(A) /\ k <= Len(U))
        BY <1>4
      <3> QED
        BY <1>2, <3>1, <3>2 DEF Agree
    <2>3. a + 1 \in Nat
      OBVIOUS
    <2> QED
      BY <1>1, <1>3, <1>4, <2>1, <2>2, <2>3, LineStep DEF A, U
  <1>6. CASE ~SameLine(Head(f_ans), Head(f_usr))
    <2>1. Answer(FALSE)
      BY <1>6 DEF CompareLine
    <2>2. ~Agree(A, U, Len(A), Len(U))
      <3>1. ~SameLine(A[a + 1], U[a + 1]) /\ a + 1 <= Len(U)
        BY <1>4, <1>6
      <3> QED
        BY <1>4, <3>1 DEF Agree
    <2>3. Right(FALSE)
      BY <1>1, <2>2 DEF Right, A, U, LineModes
    <2> QED
      BY <1>1, <1>3, <2>1, <2>3, RightAnswer
  <1> QED
    BY <1>5, <1>6

\* Both files end together, or the longer one is left for the second loop.
LEMMA EndOfFileRead ==
  ASSUME ReadInv, EndOfFile
  PROVE  ReadInv'
  <1> DEFINE A == Lines(case.ans)
             U == Lines(case.usr)
  <1>1. /\ pc \in LineModes /\ case \in Cases /\ case.usr # NoFile /\ Known /\ type \in LineModes /\ pc # "tail" /\ ModeInv
        /\ A \in Seq(Line) /\ U \in Seq(Line)
    BY FilesType DEF ReadInv, ModeInv, LineModes, EndOfFile
  <1>2. PICK a \in Nat : Rest(f_ans, Line, A, a) /\ Rest(f_usr, Line, U, a) /\ Agree(A, U, a, a)
    BY <1>1 DEF ReadInv, LineInv
  <1> HIDE DEF A, U
  <1>3. (f_ans = <<>> <=> a = Len(A)) /\ (f_usr = <<>> <=> a = Len(U))
    BY <1>1, <1>2, RestEnd
  <1>4. UNCHANGED <<case, options>> /\ f_ans' = f_ans /\ f_usr' = f_usr
    BY DEF EndOfFile
  <1>5. CASE f_ans = <<>> /\ f_usr = <<>>
    <2>1. Answer(TRUE)
      BY <1>5 DEF EndOfFile, Eof
    <2>2. Right(TRUE)
      BY <1>1, <1>2, <1>3, <1>5 DEF Right, A, U, LineModes
    <2> QED
      BY <1>1, <1>4, <2>1, <2>2, RightAnswer
  <1>6. CASE ~(f_ans = <<>> /\ f_usr = <<>>)
    <2>1. pc' = "tail" /\ res' = res /\ (a = Len(A) \/ a = Len(U))
      BY <1>3, <1>6 DEF EndOfFile, Eof
    <2> QED
      BY <1>1, <1>2, <1>4, <2>1, LineStep DEF A, U
  <1> QED
    BY <1>5, <1>6

\* A line beyond the end of the other file: blank, or the files do not agree.
LEMMA TailLinesRead ==
  ASSUME ReadInv, TailLines
  PROVE  ReadInv'
  <1> DEFINE A == Lines(case.ans)
             U == Lines(case.usr)
  <1>1. /\ pc = "tail" /\ case \in Cases /\ case.usr # NoFile /\ Known /\ type \in LineModes /\ ModeInv
        /\ A \in Seq(Line) /\ U \in Seq(Line) /\ Len(A) \in Nat /\ Len(U) \in Nat
        /\ UNCHANGED <<case, options>>
    BY FilesType DEF ReadInv, ModeInv, LineModes, TailLines
  <1>2. PICK a \in Nat, u \in Nat :
          /\ Rest(f_ans, Line, A, a) /\ Rest(f_usr, Line, U, u) /\ Agree(A, U, a, u)
          /\ (a = Len(A) /\ u >= a) \/ (u = Len(U) /\ a >= u)
    BY <1>1 DEF ReadInv, LineInv
  <1> HIDE DEF A, U
  <1>3. (f_ans = <<>> <=> a = Len(A)) /\ (f_usr = <<>> <=> u = Len(U))
    BY <1>1, <1>2, RestEnd
  <1>4. CASE f_ans = <<>> /\ f_usr = <<>>
    <2>1. Answer(TRUE)
      BY <1>4 DEF TailLines, Eof
    <2>2. Right(TRUE)
      BY <1>1, <1>2, <1>3, <1>4 DEF Right, A, U, LineModes
    <2> QED
      BY <1>1, <2>1, <2>2, RightAnswer
  <1>5. CASE f_ans = <<>> /\ f_usr # <<>>
    <2>1. f_ans' = f_ans /\ f_usr' = Tail(f_usr)
      BY <1>5 DEF TailLines, Eof
    <2>2. Rest(f_usr', Line, U, u + 1) /\ u + 1 \in 1 .. Len(U) /\ Head(f_usr) = U[u + 1]
      BY <1>1, <1>2, <1>5, <2>1, RestTail
    <2>3. a = Len(A) /\ u >= a /\ ~(u + 1 <= Len(A))
      BY <1>1, <1>2, <1>3, <1>5
    <2>4. CASE Blank(U[u + 1])
      <3>1. pc' = pc /\ res' = res
        BY <1>5, <2>2, <2>4 DEF TailLines, Eof
      <3>2. Agree(A, U, a, u + 1)
        <4>1. \A k \in 1 .. u + 1 : k \in 1 .. u \/ (k = u + 1 /\ ~(k <= Len(A)))
          BY <2>3
        <4> QED
          BY <1>2, <2>4, <4>1 DEF Agree
      <3>3. u + 1 \in Nat /\ u + 1 >= a
        BY <2>3
      <3> QED
        BY <1>1, <1>2, <2>1, <2>2, <2>3, <3>1, <3>2, <3>3, LineStep DEF A, U
    <2>5. CASE ~Blank(U[u + 1])
      <3>1. Answer(FALSE)
        BY <1>5, <2>2, <2>5 DEF TailLines, Eof
      <3>2. ~Agree(A, U, Len(A), Len(U))
        BY <2>2, <2>3, <2>5 DEF Agree
      <3>3. Right(FALSE)
        BY <1>1, <3>2 DEF Right, A, U, LineModes
      <3> QED
        BY <1>1, <3>1, <3>3, RightAnswer
    <2> QED
      BY <2>4, <2>5
  <1>6. CASE f_ans # <<>>
    <2>1. f_ans' = Tail(f_ans) /\ f_usr' = f_usr
      BY <1>6 DEF TailLines, Eof
    <2>2. Rest(f_ans', Line, A, a + 1) /\ a + 1 \in 1 .. Len(A) /\ Head(f_ans) = A[a + 1]
      BY <1>1, <1>2, <1>6, <2>1, RestTail
    <2>3. u = Len(U) /\ a >= u /\ ~(a + 1 <= Len(U))
      BY <1>1, <1>2, <1>3, <1>6
    <2>4. CASE Blank(A[a + 1])
      <3>1. pc' = pc /\ res' = res
        BY <1>6, <2>2, <2>4 DEF TailLines, Eof
      <3>2. Agree(A, U, a + 1, u)
        <4>1. \A k \in 1 .. a + 1 : k \in 1 .. a \/ (k = a + 1 /\ ~(k <= Len(U)))
          BY <2>3
        <4> QED
          BY <1>2, <2>4, <4>1 DEF Agree
      <3>3. a + 1 \in Nat /\ a + 1 >= u
        BY <2>3
      <3> QED
        BY <1>1, <1>2, <2>1, <2>2, <2>3, <3>1, <3>2, <3>3, LineStep DEF A, U
    <2>5. CASE ~Blank(A[a + 1])
      <3>1. Answer(FALSE)
        BY <1>6, <2>2, <2>5 DEF TailLines, Eof
      <3>2. ~Agree(A, U, Len(A), Len(U))
        BY <2>2, <2>3, <2>5 DEF Agree
      <3>3. Right(FALSE)
        BY <1>1, <3>2 DEF Right, A, U, LineModes
      <3> QED
        BY <1>1, <3>1, <3>3, RightAnswer
    <2> QED
      BY <2>4, <2>5
  <1> QED
    BY <1>4, <1>5, <1>6

\* What read() returns: a full block, or all that is left.
LEMMA BlockSize ==
  ASSUME NEW S, NEW f \in Seq(S)
  PROVE  /\ kBufSize \in Nat \ {0} /\ Len(f) \in Nat
         /\ ShortRead(f) <=> Len(f) < kBufSize
         /\ Gcount(f) = IF ShortRead(f) THEN Len(f) ELSE kBufSize
  <1>1. kBufSize \in Nat \ {0} /\ Len(f) \in Nat
    <2>1. kBufSize \in Nat \ {0}
      BY ScoringAssumption, Zenon
    <2> QED
      BY <2>1
  <1>2. Gcount(f) = IF Len(f) <= kBufSize THEN Len(f) ELSE kBufSize
    BY <1>1, MinOfTwo DEF Gcount
  <1> QED
    BY <1>1, <1>2 DEF ShortRead

\* The rest after a block.
LEMMA RestBlock ==
  ASSUME NEW S, NEW s \in Seq(S), NEW f, NEW n \in Nat, Rest(f, S, s, n), NEW g \in 0 .. Len(f)
  PROVE  Rest(SubSeq(f, g + 1, Len(f)), S, s, n + g)
  <1>1. f \in Seq(S) /\ n \in 0 .. Len(s) /\ Len(f) = Len(s) - n /\ \A k \in 1 .. Len(f) : f[k] = s[n + k]
    BY DEF Rest
  <1> DEFINE t == SubSeq(f, g + 1, Len(f))
  <1>2. Len(f) \in Nat /\ Len(s) \in Nat /\ g \in Nat /\ g <= Len(f)
    BY <1>1
  <1>3. \A k \in g + 1 .. Len(f) : f[k] \in S
    BY <1>1, <1>2
  <1>4. /\ t \in Seq(S)
        /\ Len(t) = IF g + 1 <= Len(f) THEN Len(f) - (g + 1) + 1 ELSE 0
        /\ \A k \in 1 .. Len(f) - (g + 1) + 1 : t[k] = f[(g + 1) + k - 1]
    BY <1>2, <1>3, SubSeqProperties
  <1> HIDE DEF t
  <1>5. Len(t) = Len(f) - g
    BY <1>2, <1>4
  <1>6. \A k \in 1 .. Len(t) : t[k] = s[(n + g) + k]
    <2> SUFFICES ASSUME NEW k \in 1 .. Len(t) PROVE t[k] = s[(n + g) + k]
      OBVIOUS
    <2>1. k \in 1 .. Len(f) - (g + 1) + 1 /\ (g + 1) + k - 1 = g + k /\ g + k \in 1 .. Len(f) /\ n + (g + k) = (n + g) + k
      BY <1>2, <1>5
    <2> QED
      BY <1>1, <1>4, <2>1
  <1>7. n + g \in 0 .. Len(s) /\ Len(t) = Len(s) - (n + g)
    BY <1>1, <1>2, <1>5
  <1> QED
    BY <1>4, <1>6, <1>7 DEF Rest, t

\* Files with equal beginnings are equal when their rests are.
LEMMA RestEqual ==
  ASSUME NEW S, NEW s \in Seq(S), NEW t \in Seq(S), NEW f, NEW g, NEW n \in Nat,
         Rest(f, S, s, n), Rest(g, S, t, n), \A k \in 1 .. n : s[k] = t[k]
  PROVE  f = g <=> s = t
  <1>1. /\ f \in Seq(S) /\ n \in 0 .. Len(s) /\ Len(f) = Len(s) - n /\ (\A k \in 1 .. Len(f) : f[k] = s[n + k])
        /\ g \in Seq(S) /\ n \in 0 .. Len(t) /\ Len(g) = Len(t) - n /\ (\A k \in 1 .. Len(g) : g[k] = t[n + k])
        /\ Len(s) \in Nat /\ Len(t) \in Nat
    BY DEF Rest
  <1>2. ASSUME s = t PROVE f = g
    <2>1. Len(f) = Len(g) /\ \A k \in 1 .. Len(f) : f[k] = g[k]
      BY <1>1, <1>2
    <2> QED
      BY <1>1, <2>1, SeqEqual
  <1>3. ASSUME f = g PROVE s = t
    <2>1. Len(s) = Len(t)
      BY <1>1, <1>3
    <2>2. ASSUME NEW k \in 1 .. Len(s), ~(k <= n) PROVE s[k] = t[k]
      <3>1. k - n \in 1 .. Len(f) /\ n + (k - n) = k
        BY <1>1, <2>2
      <3>2. f[k - n] = s[k] /\ g[k - n] = t[k]
        BY <1>1, <1>3, <3>1
      <3> QED
        BY <1>3, <3>2
    <2>3. \A k \in 1 .. Len(s) : s[k] = t[k]
      BY <1>1, <2>2
    <2> QED
      BY <2>1, <2>3, SeqEqual
  <1> QED
    BY <1>2, <1>3

\* A block of each file: equal, or the files differ; a short one is the last.
LEMMA StrictCompareRead ==
  ASSUME ReadInv, StrictCompare
  PROVE  ReadInv'
  <1> DEFINE A == case.ans
             U == case.usr
             g == Gcount(f_ans)
             h == Gcount(f_usr)
             Differ == ShortRead(f_ans) # ShortRead(f_usr) \/ g # h \/ SubSeq(f_ans, 1, g) # SubSeq(f_usr, 1, g)
  <1>1. /\ pc = "strict" /\ case \in Cases /\ U # NoFile /\ Known /\ type = "strict" /\ ModeInv
        /\ A \in Seq(Char) /\ U \in Seq(Char)
        /\ UNCHANGED <<case, options>> /\ case' = case /\ type' = type /\ (Known' <=> Known)
    BY FilesType, SameKept DEF ReadInv, ModeInv, LineModes, StrictCompare
  <1>2. PICK n \in Nat : Rest(f_ans, Char, A, n) /\ Rest(f_usr, Char, U, n) /\ \A k \in 1 .. n : A[k] = U[k]
    BY <1>1 DEF ReadInv, StrictInv
  <1>3. f_ans' = SubSeq(f_ans, g + 1, Len(f_ans)) /\ f_usr' = SubSeq(f_usr, h + 1, Len(f_usr))
    BY DEF StrictCompare
  <1>4. /\ Differ => Answer(FALSE)
        /\ ~Differ /\ ShortRead(f_ans) => Answer(TRUE)
        /\ ~Differ /\ ~ShortRead(f_ans) => pc' = pc /\ res' = res
    BY DEF StrictCompare
  <1>5. f_ans \in Seq(Char) /\ f_usr \in Seq(Char) /\ (f_ans = f_usr <=> A = U)
    <2>1. f_ans \in Seq(Char) /\ f_usr \in Seq(Char)
      BY <1>2 DEF Rest
    <2> HIDE DEF A, U
    <2> QED
      BY <1>1, <1>2, <2>1, RestEqual
  <1>6. /\ kBufSize \in Nat \ {0} /\ Len(f_ans) \in Nat /\ Len(f_usr) \in Nat
        /\ ShortRead(f_ans) <=> Len(f_ans) < kBufSize
        /\ ShortRead(f_usr) <=> Len(f_usr) < kBufSize
        /\ g = IF ShortRead(f_ans) THEN Len(f_ans) ELSE kBufSize
        /\ h = IF ShortRead(f_usr) THEN Len(f_usr) ELSE kBufSize
    BY <1>5, BlockSize
  <1>7. CASE Differ
    <2>1. f_ans # f_usr
      BY <1>7
    <2>2. Right(FALSE)
      BY <1>1, <1>5, <2>1 DEF Right
    <2> QED
      BY <1>1, <1>4, <1>7, <2>2, RightAnswer
  <1>8. CASE ~Differ /\ ShortRead(f_ans)
    <2>1. /\ g = Len(f_ans) /\ h = Len(f_usr) /\ g = h
          /\ SubSeq(f_ans, 1, g) = SubSeq(f_usr, 1, g)
      BY <1>6, <1>8
    <2> HIDE DEF g, h
    <2>2. f_ans = f_usr
      BY <1>5, <2>1, SubSeqFull
    <2>3. Right(TRUE)
      BY <1>1, <1>5, <2>2 DEF Right
    <2> QED
      BY <1>1, <1>4, <1>8, <2>3, RightAnswer
  <1>9. CASE ~Differ /\ ~ShortRead(f_ans)
    <2>1. /\ g = kBufSize /\ h = kBufSize /\ g \in 0 .. Len(f_ans) /\ h \in 0 .. Len(f_usr)
          /\ SubSeq(f_ans, 1, g) = SubSeq(f_usr, 1, g)
      <3>1. ShortRead(f_ans) = ShortRead(f_usr) /\ SubSeq(f_ans, 1, g) = SubSeq(f_usr, 1, g)
        BY <1>9
      <3>2. ~ShortRead(f_usr)
        BY <1>9, <3>1
      <3> HIDE DEF g, h
      <3> QED
        BY <1>6, <1>9, <3>1, <3>2
    <2> HIDE DEF g, h
    <2>2. Rest(f_ans', Char, A, n + g) /\ Rest(f_usr', Char, U, n + g)
      <3> HIDE DEF A, U
      <3> QED
        BY <1>1, <1>2, <1>3, <2>1, RestBlock
    <2>3. \A k \in 1 .. n + g : A[k] = U[k]
      <3> SUFFICES ASSUME NEW k \in 1 .. n + g, ~(k <= n) PROVE A[k] = U[k]
        BY <1>2, <1>6, <2>1
      <3>1. g \in Nat /\ k - n \in 1 .. g /\ n + (k - n) = k /\ k - n \in 1 .. Len(f_ans) /\ k - n \in 1 .. Len(f_usr)
        BY <1>6, <2>1
      <3>2. A[k] = f_ans[k - n] /\ U[k] = f_usr[k - n]
        BY <1>2, <3>1 DEF Rest
      <3>3. SubSeq(f_ans, 1, g)[k - n] = f_ans[k - n] /\ SubSeq(f_usr, 1, g)[k - n] = f_usr[k - n]
        BY <1>5, <1>6, <2>1, <3>1
      <3> QED
        BY <2>1, <3>2, <3>3
    <2>4. pc' = pc /\ res' = res /\ n + g \in Nat
      BY <1>4, <1>6, <1>9, <2>1
    <2>5. StrictInv'
      BY <1>1, <2>2, <2>3, <2>4 DEF StrictInv
    <2>6. ModeInv' /\ LineInv'
      BY <1>1, <2>4 DEF ModeInv, LineInv, LineModes
    <2> QED
      BY <2>5, <2>6 DEF ReadInv
  <1> QED
    BY <1>7, <1>8, <1>9

\* Every step keeps the invariant.
LEMMA NextRead ==
  ReadInv /\ [Next]_vars => ReadInv'
  <1> SUFFICES ASSUME ReadInv, [Next]_vars PROVE ReadInv'
    OBVIOUS
  <1>1. CASE LineCompare
    BY <1>1, CompareLineRead DEF LineCompare, LineModes
  <1>2. CASE WordCompare
    BY <1>2, CompareLineRead DEF WordCompare, LineModes
  <1>3. CASE UNCHANGED vars
    <2>1. UNCHANGED <<case, options>> /\ pc' = pc /\ f_ans' = f_ans /\ f_usr' = f_usr /\ res' = res
      BY <1>3 DEF vars, options
    <2>2. /\ case' = case /\ type' = type /\ (Known' <=> Known)
          /\ \A A, U, a, u : Agree(A, U, a, u)' <=> Agree(A, U, a, u)
      BY <2>1, SameKept
    <2>3. Right(res) => Right(res)'
      BY <2>1, <2>2 DEF Right
    <2>4. ModeInv'
      BY <2>1, <2>2, <2>3 DEF ReadInv, ModeInv
    <2>5. LineInv'
      BY <2>1, <2>2 DEF ReadInv, LineInv
    <2>6. StrictInv'
      BY <2>1, <2>2 DEF ReadInv, StrictInv
    <2> QED
      BY <2>4, <2>5, <2>6 DEF ReadInv
  <1> QED
    BY <1>1, <1>2, <1>3, NoOutputRead, ParseArgumentRead, OpenFilesRead, EndOfFileRead, TailLinesRead,
       StrictCompareRead DEF Next

\* The invariant holds always.
LEMMA ReadHolds ==
  Spec => []ReadInv
  BY InitRead, NextRead, PTL DEF Spec

-----------------------------------------------------------------------------
(* What the answers mean *)

\* The default checker decides its definition (DecidesReference): for every pair of
\* files, arguments and size of blocks the loops of StrictCompare, LineCompare and
\* WordCompare answer as the definition of the mode does for whole files.
THEOREM DecidesReferenceAlways == Spec => []DecidesReference
  <1>1. ReadInv => DecidesReference
    <2> SUFFICES ASSUME ReadInv, pc = "done" PROVE res = Reference
      BY DEF DecidesReference
    <2>1. Right(res) /\ case \in Cases
      BY DEF ReadInv, ModeInv
    <2>2. CASE case.usr # NoFile /\ type # "strict"
      <3>1. Lines(case.ans) \in Seq(Line) /\ Lines(case.usr) \in Seq(Line)
        BY <2>1, <2>2, FilesType
      <3>2. SameContent <=> Agree(Lines(case.ans), Lines(case.usr), Len(Lines(case.ans)), Len(Lines(case.usr)))
        BY <3>1, AgreeIsSameContent
      <3> QED
        BY <2>1, <2>2, <3>2 DEF Right, Reference
    <2>3. CASE ~(case.usr # NoFile /\ type # "strict")
      BY <2>1, <2>3 DEF Right, Reference
    <2> QED
      BY <2>2, <2>3
  <1> QED
    BY <1>1, ReadHolds, PTL

\* The words of a line are those of what StripTail leaves of it.
LEMMA WordsOfStripped ==
  ASSUME NEW s \in Line, type = "line"
  PROVE  WordsIn(s) = WordsIn(StripTail(s))
  <1>1. PICK m \in 0 .. Len(s) :
          /\ StripTail(s) \in Line
          /\ Len(StripTail(s)) = m
          /\ \A k \in 1 .. m : StripTail(s)[k] = s[k]
          /\ \A k \in DOMAIN s : s[k] \notin kWhites => k <= m
    BY StripTailShape
  <1> DEFINE t == StripTail(s)
             P == {k \in DOMAIN s : s[k] \in Words}
             Q == {k \in DOMAIN t : t[k] \in Words}
  <1> HIDE DEF t
  <1>2. DOMAIN s = 1 .. Len(s) /\ Len(s) \in Nat /\ DOMAIN t = 1 .. m
    BY <1>1 DEF Line, t
  <1>3. \A k \in DOMAIN s : s[k] \in Words => s[k] \notin kWhites
    BY ScoringAssumption DEF kWhites
  <1>4. P = Q
    <2>1. ASSUME NEW k \in P PROVE k \in Q
      <3>1. k \in DOMAIN s /\ s[k] \in Words /\ k \in 1 .. m
        BY <1>1, <1>2, <1>3
      <3> QED
        BY <1>1, <1>2, <3>1 DEF t
    <2>2. ASSUME NEW k \in Q PROVE k \in P
      BY <1>1, <1>2, <2>2 DEF t
    <2> QED
      BY <2>1, <2>2
  <1>5. \A k \in P : k \in 1 .. m
    BY <1>2, <1>4
  <1> HIDE DEF P, Q
  <1>6. P \in SUBSET (0 .. Len(s))
    BY <1>1, <1>2, <1>5
  <1>7. \A j \in 1 .. Cardinality(P) : Nth(P, j) \in P
    BY <1>2, <1>6, NthIsElement
  <1>8. \A j \in 1 .. Cardinality(P) : s[Nth(P, j)] = t[Nth(P, j)]
    BY <1>1, <1>5, <1>7 DEF t
  <1>9. Select(s, P) = Select(t, Q)
    BY <1>4, <1>8 DEF Select
  <1> QED
    BY <1>9 DEF WordsIn, P, Q, t

\* A blank line has no words.
LEMMA BlankHasNoWords ==
  ASSUME NEW s \in Line, Blank(s)
  PROVE  WordsIn(s) = <<>>
  <1> DEFINE P == {k \in DOMAIN s : s[k] \in Words}
  <1>1. P = {}
    BY ScoringAssumption DEF Blank, kWhites
  <1>2. WordsIn(s) = Select(s, {})
    BY <1>1 DEF WordsIn
  <1>3. Select(s, {}) \in Seq(Char \ {"n"}) /\ Len(Select(s, {})) = 0
    BY SelectElements, FS_EmptySet DEF Line
  <1> QED
    BY <1>2, <1>3, EmptySeq

\* A mode accepts what a stricter one does (StricterImplies): whatever strict or
\* line accepts has, line by line, the same words.
THEOREM StricterImpliesAlways == Spec => []StricterImplies
  <1>1. ReadInv => StricterImplies
    <2> SUFFICES ASSUME ReadInv, pc = "done", res, type \in {"strict", "line"}
                 PROVE  Text(Lines(case.ans)) = Text(Lines(case.usr))
      BY DEF StricterImplies
    <2>1. Right(TRUE) /\ case \in Cases
      <3>1. Right(res) /\ res \in BOOLEAN /\ case \in Cases
        BY DEF ReadInv, ModeInv
      <3> QED
        BY <3>1 DEF Right
    <2>2. CASE type = "strict"
      BY <2>1, <2>2 DEF Right
    <2>3. CASE type = "line"
      <3> DEFINE A == Lines(case.ans)
                 U == Lines(case.usr)
                 P == {k \in DOMAIN A : WordsIn(A[k]) # <<>>}
                 Q == {k \in DOMAIN U : WordsIn(U[k]) # <<>>}
                 W == [k \in DOMAIN A |-> WordsIn(A[k])]
                 X == [k \in DOMAIN U |-> WordsIn(U[k])]
                 m == Max({0} \cup P)
      <3>1. A \in Seq(Line) /\ U \in Seq(Line) /\ Agree(A, U, Len(A), Len(U))
        BY <2>1, <2>3, FilesType DEF Right
      <3>2. Text(A) = SubSeq(W, 1, m) /\ Text(U) = SubSeq(X, 1, Max({0} \cup Q))
        BY DEF Text
      <3> HIDE DEF A, U
      <3>3. /\ DOMAIN A = 1 .. Len(A) /\ DOMAIN U = 1 .. Len(U) /\ Len(A) \in Nat /\ Len(U) \in Nat
            /\ (\A k \in DOMAIN A : A[k] \in Line) /\ (\A k \in DOMAIN U : U[k] \in Line)
        BY <3>1
      <3>4. ASSUME NEW k \in 1 .. Len(A), k <= Len(U) PROVE WordsIn(A[k]) = WordsIn(U[k])
        <4>1. A[k] \in Line /\ U[k] \in Line /\ SameLine(A[k], U[k])
          BY <3>1, <3>3, <3>4 DEF Agree
        <4>2. StripTail(A[k]) = StripTail(U[k])
          BY <2>3, <4>1 DEF SameLine
        <4> QED
          BY <2>3, <4>1, <4>2, WordsOfStripped
      <3>5. ASSUME NEW k \in P PROVE k \in Q /\ W[k] = X[k]
        <4>1. k \in 1 .. Len(A) /\ WordsIn(A[k]) # <<>> /\ A[k] \in Line
          BY <3>3
        <4>2. k <= Len(U)
          BY <3>1, <4>1, BlankHasNoWords DEF Agree
        <4>3. k \in DOMAIN U /\ k \in DOMAIN A
          BY <3>3, <4>1, <4>2
        <4> QED
          BY <3>4, <4>1, <4>2, <4>3
      <3>6. ASSUME NEW k \in Q PROVE k \in P
        <4>1. k \in 1 .. Len(U) /\ WordsIn(U[k]) # <<>> /\ U[k] \in Line
          BY <3>3
        <4>2. k <= Len(A)
          BY <3>1, <4>1, BlankHasNoWords DEF Agree
        <4>3. k \in DOMAIN A /\ k \in 1 .. Len(A) /\ k <= Len(U)
          BY <3>3, <4>1, <4>2
        <4> QED
          BY <3>4, <4>1, <4>3
      <3>7. P = Q
        BY <3>5, <3>6
      <3>8. m \in 0 .. Len(A) /\ m \in 0 .. Len(U)
        <4>1. P \in SUBSET (1 .. Len(A)) /\ P \in SUBSET (1 .. Len(U))
          BY <3>3, <3>7
        <4> HIDE DEF P
        <4> QED
          BY <3>3, <4>1, LastMarked
      <3> HIDE DEF m
      <3>9. \A k \in 1 .. m : k \in DOMAIN A /\ k \in DOMAIN U /\ W[k] = X[k]
        <4> SUFFICES ASSUME NEW k \in 1 .. m PROVE k \in DOMAIN A /\ k \in DOMAIN U /\ W[k] = X[k]
          OBVIOUS
        <4>1. k \in 1 .. Len(A) /\ k <= Len(U) /\ k \in DOMAIN A /\ k \in DOMAIN U
          BY <3>3, <3>8
        <4> QED
          BY <3>4, <4>1
      <3> DEFINE S == {W[k] : k \in 1 .. m}
      <3>10. \A k \in 1 .. m : W[k] \in S /\ X[k] \in S
        BY <3>9
      <3> HIDE DEF W, X, S
      <3>11. /\ SubSeq(W, 1, m) \in Seq(S) /\ Len(SubSeq(W, 1, m)) = m
             /\ \A k \in 1 .. m : SubSeq(W, 1, m)[k] = W[k]
        BY <3>8, <3>10, SubSeqProperties
      <3>12. /\ SubSeq(X, 1, m) \in Seq(S) /\ Len(SubSeq(X, 1, m)) = m
             /\ \A k \in 1 .. m : SubSeq(X, 1, m)[k] = X[k]
        BY <3>8, <3>10, SubSeqProperties
      <3>13. SubSeq(W, 1, m) = SubSeq(X, 1, m)
        BY <3>9, <3>11, <3>12, SeqEqual
      <3> QED
        BY <3>2, <3>7, <3>13 DEF m, A, U
    <2> QED
      BY <2>2, <2>3
  <1> QED
    BY <1>1, ReadHolds, PTL

\* A line is the same as itself, unless a word of it is no finite number or the
\* threshold no natural number.
LEMMA SameAsItself ==
  ASSUME NEW s \in Line, Known, threshold \in Nat,
         \A k \in DOMAIN s : s[k] \in Words => Stold(s[k]) \notin {NaN, Inf}
  PROVE  SameLine(s, s)
  <1>1. CASE type = "line"
    BY <1>1 DEF SameLine
  <1>2. CASE type # "line"
    <2>1. ASSUME NEW j \in DOMAIN WordsOf(s) PROVE SameWord(WordsOf(s)[j], WordsOf(s)[j])
      <3>1. PICK k \in DOMAIN s : WordsOf(s)[j] = s[k] /\ s[k] \notin kWhites
        BY WordsOfLine
      <3> DEFINE w == s[k]
                 x == Stold(w)
      <3>2. w \in Words
        <4>1. w \in Char /\ w # "n"
          BY DEF Line
        <4>2. w # " " /\ w # "v"
          BY <1>2, <3>1 DEF kWhites
        <4> QED
          BY <4>1, <4>2 DEF Char
      <3>3. x \in Int \cup {NoConversion} /\ {NaN, Inf} \cap Int = {} /\ x \notin {NaN, Inf}
        BY <3>2, ScoringAssumption
      <3> HIDE DEF w, x
      <3>4. ASSUME x # NoConversion PROVE Close(x, x)
        <4>1. x \in Int /\ x # NaN /\ x # Inf /\ threshold # NaN /\ threshold # Inf
          BY <3>3, <3>4
        <4>2. Abs(x - x) = 0 /\ Abs(x) \in Nat /\ One \in Nat
          <5>1. One \in Nat
            BY ScoringAssumption, Zenon
          <5> QED
            BY <4>1, <5>1 DEF Abs
        <4>3. Max({One, Abs(x)}) \in Nat
          <5>1. \E y \in {One, Abs(x)} : \A z \in {One, Abs(x)} : y >= z
            BY <4>2
          <5> QED
            BY <4>2, <5>1 DEF Max
        <4>4. 0 * One <= threshold * Abs(x) /\ 0 * One <= threshold * Max({One, Abs(x)}) /\ 0 <= threshold
          BY <4>2, <4>3
        <4> QED
          BY <4>1, <4>2, <4>4 DEF Close
      <3>5. CheckFloat(w, w)
        BY <3>4 DEF CheckFloat, x
      <3> QED
        BY <3>1, <3>5 DEF SameWord, w
    <2> QED
      BY <1>2, <2>1 DEF SameLine, SameWords
  <1> QED
    BY <1>1, <1>2

\* An output that equals the answer is accepted (MatchAccepted): in every known
\* mode, for every file without infinite numbers and every threshold that is a
\* natural number of units.
THEOREM MatchAcceptedAlways == Spec => []MatchAccepted
  <1>1. ReadInv => MatchAccepted
    <2> SUFFICES ASSUME ReadInv, pc = "done", case.ans = case.usr, Known, threshold \in Nat,
                        \A c \in ToSet(case.ans) \cap Words : Stold(c) \notin {NaN, Inf}
                 PROVE  res
      BY DEF MatchAccepted
    <2> DEFINE A == Lines(case.ans)
    <2>1. Right(res) /\ res \in BOOLEAN /\ case \in Cases
      BY DEF ReadInv, ModeInv
    <2>2. case.usr # NoFile
      BY <2>1, ScoringAssumption
    <2>3. A \in Seq(Line) /\ A = Lines(case.usr)
      BY <2>1, FilesType
    <2>4. ASSUME NEW j \in 1 .. Len(A), NEW k \in DOMAIN A[j]
          PROVE  A[j][k] \in ToSet(case.ans)
      BY <2>1, <2>3, <2>4, FilesType, LineFromFile
    <2> HIDE DEF A
    <2>5. \A j \in 1 .. Len(A) : SameLine(A[j], A[j])
      BY <2>3, <2>4, SameAsItself
    <2>6. Agree(A, A, Len(A), Len(A))
      BY <2>3, <2>5 DEF Agree
    <2> QED
      BY <2>1, <2>2, <2>3, <2>6 DEF Right, A
  <1> QED
    BY <1>1, ReadHolds, PTL

=============================================================================
