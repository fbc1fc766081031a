-------------------------------- MODULE Text --------------------------------
(***************************************************************************)
(* From a record to tokens and from tokens to a template text (mask.rs,    *)
(* tokenize.rs, render_template of cluster.rs): the masks, the first line, *)
(* and the loop over the characters of a piece, against what its comments  *)
(* say tokens are.                                                         *)
(*                                                                         *)
(* A token is the place of its text in the line, with the delimiters that  *)
(* were next to it.  The pattern of a mask is a literal text here, and its *)
(* placeholder one without a `$', which replace_all would expand.          *)
(***************************************************************************)
EXTENDS Integers, SequencesExt, FiniteSetsExt

CONSTANTS
  Records,        \* what is ingested, as sequences of characters
  Space,          \* white space, Newline among it
  Newline,
  Masks,          \* options.masks, with a pattern and a placeholder each
  PathDelims,       \* options.path_delimiters
  FirstLineDelims,  \* options.first_line_path_delimiters
  None,           \* no delimiter, no suffix
  Blank           \* what render_template puts between two words

ASSUME TextAssumption ==
  /\ Newline \in Space /\ Blank \in Space
  /\ (PathDelims \cup FirstLineDelims) \cap (Space \cup {None}) = {}

VARIABLES
  suffix,     \* what follows the first line in first_line_only mode
  delims,     \* the delimiters in use
  line,       \* the text that is tokenized
  todo,       \* the pieces of it that are left: first and last place
  at,         \* the next place in the first of them
  start,      \* seg_start
  leading,    \* cur_leading
  before,     \* tokens there were before this piece
  tokens,
  template,   \* what is rendered
  rendered,   \* how many tokens of it
  phase

record == <<line, suffix, delims>>
vars   == <<record, todo, at, start, leading, before, tokens, template, rendered, phase>>

Token(first, last, lead, trail) ==
  [first |-> first, last |-> last, lead |-> lead, trail |-> trail]

-----------------------------------------------------------------------------
(* Tokens.                                                                 *)

\* A pattern matches a text at place i.
MatchAt(pattern, text, i) ==
  /\ i + Len(pattern) <= Len(text) + 1
  /\ SubSeq(text, i, i + Len(pattern) - 1) = pattern

\* replace_all, from left to right: the characters of a match are skipped.
ReplaceMatches(mask, text) ==
  LET pass(done, i) ==
        IF i < done.next THEN done
        ELSE IF MatchAt(mask.pattern, text, i)
        THEN [out |-> done.out \o mask.placeholder, next |-> i + Len(mask.pattern)]
        ELSE [out |-> Append(done.out, text[i]), next |-> i + 1]
  IN  FoldLeftDomain(pass, [out |-> <<>>, next |-> 1], text).out

\* Mutant: every mask looks at the line that came in.
MutantApplyMasks(text) ==
  FoldLeft(LAMBDA cur, mask :
             LET masked == ReplaceMatches(mask, text)
             IN  IF masked # text THEN masked ELSE cur,
           text, Masks)

\* apply_masks: each mask replaces all its matches in what the masks before it
\* have left.
ApplyMasks(text) ==
  FoldLeft(LAMBDA cur, mask : ReplaceMatches(mask, cur), text, Masks)

\* split_first_line: where the first line ends.
FirstEnd(text) ==
  LET ends == {i \in DOMAIN text : text[i] = Newline}
  IN  IF ends = {} THEN Len(text) + 1 ELSE Min(ends)

FirstLine(text) == SubSeq(text, 1, FirstEnd(text) - 1)

Rest(text) ==
  IF FirstEnd(text) > Len(text) THEN None
  ELSE SubSeq(text, FirstEnd(text) + 1, Len(text))

\* active_path_delimiters
ActiveDelims(firstOnly) ==
  IF firstOnly /\ FirstLineDelims # {} THEN FirstLineDelims ELSE PathDelims

\* The maximal runs of places of a text outside a set of characters.
Runs(text, apart) ==
  LET in(i) == i \in DOMAIN text /\ text[i] \notin apart
  IN  {r \in (DOMAIN text) \X (DOMAIN text) :
         /\ r[1] <= r[2]
         /\ \A i \in r[1]..r[2] : in(i)
         /\ ~in(r[1] - 1) /\ ~in(r[2] + 1)}

\* split_whitespace
Pieces(text) == SetToSortSeq(Runs(text, Space), LAMBDA r, s : r[1] < s[1])

\* A segment is pushed unless it is empty.
Push(first, last, lead, trail) ==
  IF first <= last THEN Append(tokens, Token(first, last, lead, trail)) ELSE tokens

\* Mutant: a delimiter after another one is not remembered.
MutantLeadAfter(delim) == IF start = at THEN leading ELSE delim

\* The delimiter that the next segment has before it.
LeadAfter(delim) == delim

\* A character of the piece.
Step ==
  /\ phase = "piece"
  /\ at <= todo[1][2]
  /\ IF line[at] \in delims
     THEN /\ tokens' = Push(start, at - 1, leading, line[at])
          /\ leading' = LeadAfter(line[at])
          /\ start' = at + 1
     ELSE UNCHANGED <<tokens, leading, start>>
  /\ at' = at + 1
  /\ UNCHANGED <<record, todo, before, template, rendered, phase>>

\* The tokens at the end of a piece: the last segment, or the piece itself
\* when it had none.
Closed(piece) ==
  LET all == Push(start, piece[2], leading, None)
  IN  IF Len(all) = before THEN Append(all, Token(piece[1], piece[2], None, None))
      ELSE all

EndPiece ==
  /\ phase = "piece"
  /\ at > todo[1][2]
  /\ tokens' = Closed(todo[1])
  /\ todo' = Tail(todo)
  /\ phase' = "between"
  /\ UNCHANGED <<record, at, start, leading, before, template, rendered>>

\* push_path_tokens on the next piece; without one, the line is tokenized.
NextPiece ==
  /\ phase = "between"
  /\ IF todo = <<>>
     THEN phase' = "render" /\ UNCHANGED <<at, start>>
     ELSE phase' = "piece" /\ at' = todo[1][1] /\ start' = todo[1][1]
  /\ leading' = None
  /\ before' = Len(tokens)
  /\ UNCHANGED <<record, todo, tokens, template, rendered>>

-----------------------------------------------------------------------------
(* render_template                                                         *)

Char(c) == IF c = None THEN <<>> ELSE <<c>>

Texts(text, toks) == [i \in DOMAIN toks |-> SubSeq(text, toks[i].first, toks[i].last)]

\* Mutant: only a token's own delimiter is put before it.
MutantJoint(prev, tok) == <<Blank>> \o Char(tok.lead)

\* What comes between a token that prev ends and the next one.
Joint(prev, tok) == IF prev = None THEN <<Blank>> \o Char(tok.lead) ELSE <<prev>>

Render ==
  /\ phase = "render"
  /\ rendered < Len(tokens)
  /\ LET tok == tokens[rendered + 1]
     IN  template' = template
           \o (IF rendered = 0 THEN Char(tok.lead) ELSE Joint(tokens[rendered].trail, tok))
           \o SubSeq(line, tok.first, tok.last)
           \o (IF rendered + 1 = Len(tokens) THEN Char(tok.trail) ELSE <<>>)
  /\ rendered' = rendered + 1
  /\ UNCHANGED <<record, todo, at, start, leading, before, tokens, phase>>

Init ==
  /\ \E text \in Records, firstOnly \in BOOLEAN :
       LET masked == ApplyMasks(text)
       IN  /\ line = IF firstOnly THEN FirstLine(masked) ELSE masked
           /\ suffix = IF firstOnly THEN Rest(masked) ELSE None
           /\ delims = ActiveDelims(firstOnly)
  /\ todo = Pieces(line)
  /\ at = 0 /\ start = 0 /\ before = 0
  /\ leading = None
  /\ tokens = <<>> /\ template = <<>> /\ rendered = 0
  /\ phase = "between"

Next == Step \/ EndPiece \/ NextPiece \/ Render

Spec == Init /\ [][Next]_vars

-----------------------------------------------------------------------------
(* Properties.                                                             *)

\* What the comments say: the segments of a piece between its delimiters,
\* each with the delimiters next to it; of a piece without any, the piece.
Segments(text, piece) ==
  LET apart == Space \cup delims
      near(i) == IF i \in DOMAIN text /\ text[i] \in delims THEN text[i] ELSE None
      runs == {r \in Runs(text, apart) : piece[1] <= r[1] /\ r[2] <= piece[2]}
  IN  IF runs = {} THEN {Token(piece[1], piece[2], None, None)}
      ELSE {Token(r[1], r[2], near(r[1] - 1), near(r[2] + 1)) : r \in runs}

TokensOf(text) ==
  SetToSortSeq(UNION {Segments(text, p) : p \in Runs(text, Space)},
               LAMBDA t, u : t.first < u.first)

\* The loop finds exactly the segments, in order, each with its neighbours.
TokensAreSegments == phase = "render" => tokens = TokensOf(line)

\* Of what a mask is there to hide nothing is left: neither in a token, nor
\* across two of them, nor in the suffix that is kept verbatim (options.rs:
\* masks "apply to the whole record, suffix included").  Placeholders must not
\* be part of a pattern, as those of the built-in masks are not.
NothingUnmasked ==
  LET whole == IF suffix = None THEN line ELSE line \o <<Newline>> \o suffix
  IN  \A k \in DOMAIN Masks : \A i \in DOMAIN whole : ~MatchAt(Masks[k].pattern, whole, i)

\* A piece ends in a delimiter and is not the last: render_template glues the
\* next word to it.
Glued == \E k \in 1..(Len(tokens) - 1) :
  tokens[k].trail # None /\ \E i \in tokens[k].last..tokens[k + 1].first : line[i] \in Space

\* A template that is not glued is tokenized like the line it renders, so that
\* it is matched in the cluster it is the template of, and its paths are cut
\* at the same delimiters; of several between two segments it keeps the first.
TemplateIsFaithful ==
  phase = "render" /\ rendered = Len(tokens) /\ ~Glued =>
    LET again == TokensOf(template)
        joined(k) == k > 1 /\ tokens[k - 1].trail # None
    IN  /\ Texts(template, again) = Texts(line, tokens)
        /\ \A k \in DOMAIN tokens :
             /\ again[k].trail = tokens[k].trail
             /\ ~joined(k) => again[k].lead = tokens[k].lead
=============================================================================
