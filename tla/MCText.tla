------------------------------- MODULE MCText -------------------------------
(* Short records for TLC. *)
EXTENDS Text

CONSTANT MaxChars

\* Two delimiters, white space of two kinds, and a letter.
MCRecords == BoundedSeq({"/", ":", " ", "n", "a"}, MaxChars)
MCSpace   == {" ", "n"}

\* The second delimiter is an ordinary character in first_line_only mode.
MCPathDelims      == {"/", ":"}
MCFirstLineDelims == {"/"}

\* The second mask reaches over the end of the first line, and over what the
\* first mask has put there.
MCMasks ==
  <<[pattern |-> <<"a", "a">>, placeholder |-> <<"M">>],
    [pattern |-> <<"a", "n", "a">>, placeholder |-> <<"M", ":">>]>>
=============================================================================
