-------------------------- MODULE MCDefaultScoring --------------------------
(* Small instances of DefaultScoring.  A number is in tenths. *)
EXTENDS DefaultScoring

MCWords == {"a", "1", "2", "1.0", "1.2", "30.0", "33.0", "nan", "inf"}

MCStold(w) ==
  CASE w = "0" -> 0 [] w = "1" -> 10 [] w = "2" -> 20 [] w = "0.2" -> 2 [] w = "1.0" -> 10 [] w = "1.2" -> 12
    [] w = "30.0" -> 300 [] w = "33.0" -> 330 [] w = "nan" -> NaN [] w = "inf" -> Inf
    [] OTHER -> NoConversion

MCPointed(w) == w \in {"0.2", "1.0", "1.2", "30.0", "33.0", "nan", "inf"}

Joined(lines) == FlattenSeq([k \in DOMAIN lines |-> IF k = 1 THEN lines[k] ELSE <<"n">> \o lines[k]])

\* Files of up to three lines, of blanks and two words; and files of one line
\* with one or two numbers.
Line   == {<<>>, <<" ">>, <<"v">>, <<"a">>, <<"a", " ">>, <<" ", "a">>, <<"a", "v">>, <<"a", " ", "1">>}
Page   == {<<s>> : s \in Line} \cup {<<s, t>> : s \in Line, t \in Line}
          \cup {<<s, t, u>> : s \in {<<>>, <<"a">>}, t \in {<<" ">>, <<"v">>}, u \in {<<>>, <<"a">>, <<" ">>}}
Layout == {Joined(lines) : lines \in Page}
Floats == {<<w>> : w \in MCWords} \cup {<<"1.0", " ", w>> : w \in MCWords}

\* Lines undoes Joined, and Select is SelectSeq by positions.
ASSUME LinesCorrect ==
  /\ \A lines \in Page : Lines(Joined(lines)) = lines
  /\ \A line \in Line : WordsIn(line) = SelectSeq(line, LAMBDA c : c \in Words)

Plain    == {<<>>, <<"strict">>, <<"white-diff">>, <<"verbose", "line">>, <<"exact">>, <<"strict", "verbose">>}
FloatArg == {<<"float-diff">>, <<"float-diff", "verbose">>, <<"float-diff", "absolute", "0.2">>,
             <<"float-diff", "relative", "0.2", "verbose">>, <<"float-diff", "absolute", "0">>,
             <<"float-diff", "relative", "verbose">>, <<"verbose", "float-diff", "absolute-relative", "0.2">>,
             <<"float-diff", "relative", "inf">>, <<"float-diff", "absolute", "nan">>}

MCCases ==
  [args : Plain \cup {<<"float-diff">>}, ans : Layout, usr : Layout \cup {NoFile}]
  \cup [args : FloatArg, ans : Floats, usr : Floats]
=============================================================================
