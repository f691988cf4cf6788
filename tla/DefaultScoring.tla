--------------------------- MODULE DefaultScoring ---------------------------
(***************************************************************************)
(* The checker of problems without one of their own                        *)
(* (tools/default-scoring.cpp), from its arguments to its verdict.         *)
(*                                                                         *)
(* A file is a sequence of blanks (" "), vertical tabs ("v"), newlines     *)
(* ("n") and words, no two words adjacent; a word is an atom, and what     *)
(* stold makes of it is given by constant operators.  A stream is what is  *)
(* left to read: lines, or characters in mode strict.  It is at its end    *)
(* (eof) once getline has returned the last line.  The text of messages    *)
(* (verbose) is left out.  Numbers are in units of 1 / One.                *)
(***************************************************************************)
EXTENDS Integers, Sequences, SequencesExt, FiniteSetsExt

CONSTANTS
  Words,
  Stold(_),                  \* a number, NoConversion, NaN or Inf
  Pointed(_),                \* the word has one of ".eExXnN"
  NoConversion, NaN, Inf,
  One,                       \* the unit of numbers
  kDefaultThreshold,         \* 1e-6
  kBufSize,                  \* of StrictCompare
  Cases,                     \* [args, ans, usr]
  NoFile                     \* usr, if it is no regular file

Char == Words \cup {" ", "v", "n"}
File == {f \in Seq(Char) : \A k \in 2 .. Len(f) : {f[k - 1], f[k]} \cap {" ", "v", "n"} # {}}

ASSUME ScoringAssumption ==
  /\ {One, kBufSize} \subseteq Nat \ {0}
  /\ kDefaultThreshold \in Nat
  /\ {" ", "v", "n"} \cap Words = {}
  /\ {NoConversion, NaN, Inf} \cap Int = {}
  /\ NoFile \notin File
  /\ \A w \in Words : Stold(w) \in Int \cup {NoConversion, NaN, Inf}
  /\ \A c \in Cases : c.args \in Seq(STRING) /\ c.ans \in File /\ c.usr \in File \cup {NoFile}

VARIABLES
  case,                      \* the arguments and the files
  pc,
  i,                         \* the next argument
  type, subtype, threshold,
  f_ans, f_usr,              \* what is left of the two files
  res

vars == <<case, pc, i, type, subtype, threshold, f_ans, f_usr, res>>
options == <<i, type, subtype, threshold>>

Init ==
  /\ case \in Cases
  /\ pc = "start"
  /\ i = 1
  /\ type = "line"
  /\ subtype = "absolute-relative"
  /\ threshold = kDefaultThreshold
  /\ f_ans = <<>>
  /\ f_usr = <<>>
  /\ res = FALSE

Answer(b) == pc' = "done" /\ res' = b

-----------------------------------------------------------------------------
(* Arguments *)

\* "!is_regular_file(user_output)"
NoOutput ==
  /\ pc = "start"
  /\ case.usr = NoFile
  /\ Answer(FALSE)
  /\ UNCHANGED <<case, options, f_ans, f_usr>>

\* One round of the loop: float-diff takes the next argument, whatever it is,
\* for its subtype, and the one after that if it is a number.
ParseArgument ==
  LET args  == case.args
      float == args[i] = "float-diff" /\ i + 1 <= Len(args)
      value == float /\ i + 2 <= Len(args) /\ Stold(args[i + 2]) # NoConversion
  IN
  /\ pc = "start"
  /\ case.usr # NoFile
  /\ i <= Len(args)
  /\ type' = IF args[i] = "verbose" THEN type ELSE args[i]
  /\ subtype' = IF float THEN args[i + 1] ELSE subtype
  /\ threshold' = IF value THEN Stold(args[i + 2]) ELSE threshold
  /\ i' = IF value THEN i + 3 ELSE IF float THEN i + 2 ELSE i + 1
  /\ UNCHANGED <<case, pc, f_ans, f_usr, res>>

Subtypes == {"absolute", "relative", "absolute-relative"}

Known == type \in {"strict", "line", "white-diff"} \/ (type = "float-diff" /\ subtype \in Subtypes)

\* The j-th element of a set of numbers, in their order.
Nth(P, j) == CHOOSE k \in P : Cardinality({l \in P : l < k}) = j - 1

\* What getline returns, one line more than there are newlines.
Lines(file) ==
  LET ends == {0, Len(file) + 1} \cup {k \in DOMAIN file : file[k] = "n"}
  IN  [j \in 1 .. Cardinality(ends) - 1 |-> SubSeq(file, Nth(ends, j) + 1, Nth(ends, j + 1) - 1)]

OpenFiles ==
  /\ pc = "start"
  /\ case.usr # NoFile
  /\ i > Len(case.args)
  /\ f_ans' = IF type = "strict" THEN case.ans ELSE Lines(case.ans)
  /\ f_usr' = IF type = "strict" THEN case.usr ELSE Lines(case.usr)
  /\ IF Known THEN pc' = type /\ UNCHANGED res ELSE Answer(FALSE)
  /\ UNCHANGED <<case, options>>

-----------------------------------------------------------------------------
(* Words *)

Abs(x) == IF x < 0 THEN -x ELSE x

\* Mutant: the bounds are exclusive.
CloseExclusive(ans, usr) ==
  {ans, usr, threshold} \cap {NaN, Inf} = {} /\ Abs(ans - usr) * One < threshold * Max({One, Abs(ans)})

\* The test of a float-diff subtype.  inf - inf is no number, and with a
\* relative bound every finite number is close to an infinite answer; under an
\* infinite one every number is, but inf * 0 is none.
Close(ans, usr) ==
  IF NaN \in {ans, usr, threshold} \/ {ans, usr} = {Inf} THEN FALSE
  ELSE IF threshold = Inf THEN subtype # "relative" \/ ans # 0
  ELSE IF usr = Inf THEN FALSE
  ELSE IF ans = Inf THEN subtype # "absolute" /\ threshold > 0
  ELSE CASE subtype = "absolute" -> Abs(ans - usr) <= threshold
         [] subtype = "relative" -> Abs(ans - usr) * One <= threshold * Abs(ans)
         [] OTHER -> Abs(ans - usr) * One <= threshold * Max({One, Abs(ans)})

\* "this avoids treating integers as floating point"
CheckFloat(ans, usr) ==
  IF NoConversion \notin {Stold(ans), Stold(usr)} /\ Pointed(ans)
  THEN Close(Stold(ans), Stold(usr))
  ELSE ans = usr

SameWord(ans, usr) == IF type = "float-diff" THEN CheckFloat(ans, usr) ELSE ans = usr

-----------------------------------------------------------------------------
(* Comparison line by line *)

kWhites == IF type = "line" THEN {" "} ELSE {" ", "v"}

Blank(line) == \A k \in DOMAIN line : line[k] \in kWhites

\* Mutant: a line that ends in a white is taken for a blank one.
StripTailBlank(line) == IF line # <<>> /\ Last(line) \in kWhites THEN <<>> ELSE line

StripTail(line) == SubSeq(line, 1, Max({0} \cup {k \in DOMAIN line : line[k] \notin kWhites}))

\* The characters of a line at some positions, in their order.
Select(line, P) == [j \in 1 .. Cardinality(P) |-> line[Nth(P, j)]]

WordsOf(line) == Select(line, {k \in DOMAIN line : line[k] \notin kWhites})

\* The inner loop of WordCompare.
SameWords(s, t) ==
  /\ Len(WordsOf(s)) = Len(WordsOf(t))
  /\ \A k \in DOMAIN WordsOf(s) : SameWord(WordsOf(s)[k], WordsOf(t)[k])

SameLine(s, t) == IF type = "line" THEN StripTail(s) = StripTail(t) ELSE SameWords(s, t)

Eof(f) == f = <<>>

\* One round of the first loop.
CompareLine ==
  /\ ~Eof(f_ans) /\ ~Eof(f_usr)
  /\ f_ans' = Tail(f_ans)
  /\ f_usr' = Tail(f_usr)
  /\ IF SameLine(Head(f_ans), Head(f_usr)) THEN UNCHANGED <<pc, res>> ELSE Answer(FALSE)
  /\ UNCHANGED <<case, options>>

LineCompare == pc = "line" /\ CompareLine
WordCompare == pc \in {"white-diff", "float-diff"} /\ CompareLine

\* Both end: accepted.  One ends: the other may only have blank lines.
EndOfFile ==
  /\ pc \in {"line", "white-diff", "float-diff"}
  /\ Eof(f_ans) \/ Eof(f_usr)
  /\ IF Eof(f_ans) /\ Eof(f_usr) THEN Answer(TRUE) ELSE pc' = "tail" /\ UNCHANGED res
  /\ UNCHANGED <<case, options, f_ans, f_usr>>

\* Mutant: the rest of the user's file is not read.
TailLinesAnswerOnly ==
  /\ pc = "tail"
  /\ f_ans' = IF Eof(f_ans) THEN f_ans ELSE Tail(f_ans)
  /\ IF Eof(f_ans) /\ Eof(f_usr) THEN Answer(TRUE)
     ELSE IF Blank(IF Eof(f_ans) THEN <<>> ELSE Head(f_ans)) THEN UNCHANGED <<pc, res>>
     ELSE Answer(FALSE)
  /\ UNCHANGED <<case, options, f_usr>>

TailLines ==
  LET rest == IF Eof(f_ans) THEN f_usr ELSE f_ans
  IN
  /\ pc = "tail"
  /\ IF rest = <<>> THEN Answer(TRUE) /\ UNCHANGED <<f_ans, f_usr>>
     ELSE /\ f_ans' = IF Eof(f_ans) THEN f_ans ELSE Tail(f_ans)
          /\ f_usr' = IF Eof(f_ans) THEN Tail(f_usr) ELSE f_usr
          /\ IF Blank(Head(rest)) THEN UNCHANGED <<pc, res>> ELSE Answer(FALSE)
  /\ UNCHANGED <<case, options>>

-----------------------------------------------------------------------------
(* StrictCompare: both files in blocks *)

Gcount(f) == Min({Len(f), kBufSize})
ShortRead(f) == Len(f) < kBufSize

\* Mutant: only eof is compared.
StrictBlockEof ==
  LET n == Gcount(f_ans)
  IN
  /\ pc = "strict"
  /\ IF \/ ShortRead(f_ans) # ShortRead(f_usr)
        \/ SubSeq(f_ans, 1, n) # SubSeq(f_usr, 1, Min({n, Len(f_usr)})) THEN Answer(FALSE)
     ELSE IF ShortRead(f_ans) THEN Answer(TRUE)
     ELSE UNCHANGED <<pc, res>>
  /\ f_ans' = SubSeq(f_ans, n + 1, Len(f_ans))
  /\ f_usr' = SubSeq(f_usr, n + 1, Len(f_usr))
  /\ UNCHANGED <<case, options>>

\* A short read sets eof and fail and ends the loop; a file whose length is a
\* multiple of kBufSize takes one more, empty, read.
StrictCompare ==
  LET n == Gcount(f_ans)
  IN
  /\ pc = "strict"
  /\ IF \/ ShortRead(f_ans) # ShortRead(f_usr) \/ n # Gcount(f_usr)
        \/ SubSeq(f_ans, 1, n) # SubSeq(f_usr, 1, n) THEN Answer(FALSE)
     ELSE IF ShortRead(f_ans) THEN Answer(TRUE)
     ELSE UNCHANGED <<pc, res>>
  /\ f_ans' = SubSeq(f_ans, n + 1, Len(f_ans))
  /\ f_usr' = SubSeq(f_usr, Gcount(f_usr) + 1, Len(f_usr))
  /\ UNCHANGED <<case, options>>

-----------------------------------------------------------------------------
Next ==
  \/ NoOutput \/ ParseArgument \/ OpenFiles
  \/ LineCompare \/ WordCompare \/ EndOfFile \/ TailLines
  \/ StrictCompare

Spec == Init /\ [][Next]_vars /\ WF_vars(Next)

-----------------------------------------------------------------------------
(* Properties *)

\* A file as the comparison should see it: its lines, without the blank ones at
\* its end.
Content(file) == SubSeq(Lines(file), 1, Max({0} \cup {k \in DOMAIN Lines(file) : ~Blank(Lines(file)[k])}))

SameContent ==
  LET s == Content(case.ans)
      t == Content(case.usr)
  IN  Len(s) = Len(t) /\ \A k \in DOMAIN s : SameLine(s[k], t[k])

Reference ==
  /\ case.usr # NoFile
  /\ Known
  /\ IF type = "strict" THEN case.ans = case.usr ELSE SameContent

\* The streaming comparisons, with their eof bookkeeping, their two loops and
\* their blocks, decide what is said of whole files: equality (strict), or line
\* by line without trailing blank lines, wherever in the two files they are.
DecidesReference == pc = "done" => res = Reference

\* The words of a line, and those of a file without the lines at its end that have
\* none.
WordsIn(line) == Select(line, {k \in DOMAIN line : line[k] \in Words})
Text(lines) ==
  SubSeq([k \in DOMAIN lines |-> WordsIn(lines[k])], 1, Max({0} \cup {k \in DOMAIN lines : WordsIn(lines[k]) # <<>>}))

\* A mode accepts what a stricter one does: files that are equal up to trailing
\* whites have the same words, although "line" and "white-diff" disagree on what
\* is white.
StricterImplies ==
  pc = "done" /\ res /\ type \in {"strict", "line"} => Text(Lines(case.ans)) = Text(Lines(case.usr))

\* "match: AC for all" (test/default_scoring_test.cpp): in every known mode an
\* output that equals the answer is accepted, unless a word of it is a number
\* that is not finite (float-diff rejects "nan" and "inf" for themselves), or the
\* threshold is negative or not finite.
MatchAccepted ==
  /\ pc = "done"
  /\ case.ans = case.usr
  /\ Known
  /\ threshold \in Nat
  /\ \A c \in ToSet(case.ans) \cap Words : Stold(c) \notin {NaN, Inf}
  => res

\* The checker ends, whichever of the files ends first.
Ends == <>(pc = "done")
=============================================================================
