----------------------------- MODULE Templates -----------------------------
(***************************************************************************)
(* What a template is and how a line is compared with it: the pure         *)
(* functions of the miner (similarity.rs, the token part of cluster.rs and *)
(* the descent keys of miner.rs).                                          *)
(*                                                                         *)
(* A line, and the token part of a template, is a sequence of tokens.  A   *)
(* token is an opaque value: only equality, being the wildcard and being   *)
(* all ASCII digits (is_numeric_token) can be told.  Masks, delimiter      *)
(* flags and the suffix of a line are not part of a token here.            *)
(***************************************************************************)
EXTENDS Integers, Sequences, FiniteSets

CONSTANTS
  Token,         \* texts of tokens
  Wildcard,      \* options.wildcard, itself a legal token of a masked line
  Numeric,       \* the tokens that are all ASCII digits
  PrefixLen,     \* options.prefix_len() = depth - 2
  ParamNumeric,  \* options.parametrize_numeric_tokens
  ThNum, ThDen   \* options.sim_threshold, as the fraction ThNum / ThDen

\* The bounds that MinerBuilder::build_options checks before a miner exists.
ASSUME OptionsAssumption ==
  /\ Wildcard \in Token
  /\ Numeric \subseteq Token
  /\ PrefixLen \in Nat
  /\ ParamNumeric \in BOOLEAN
  /\ ThNum \in Nat
  /\ ThDen \in Nat \ {0}
  /\ ThNum <= ThDen

Line == Seq(Token)

-----------------------------------------------------------------------------
(* Descent keys: the path of a line in the prefix tree of its shard.       *)

\* The length of the path of a line of n tokens.
PathLen(n) == IF n < PrefixLen THEN n ELSE PrefixLen

\* Mutant: numbers get a key of their own, that a generalized token loses.
MutantNumberKey(tok) ==
  IF ParamNumeric /\ tok \in Numeric THEN CHOOSE n \in Numeric : TRUE ELSE tok

Key(tok) == IF ParamNumeric /\ tok \in Numeric THEN Wildcard ELSE tok

Keys(toks) == [i \in 1..PathLen(Len(toks)) |-> Key(toks[i])]

-----------------------------------------------------------------------------
(* Similarity of a line to a template.                                     *)

\* The positions at which a template token accepts the token of the line.
Agree(tmpl, toks) ==
  {i \in DOMAIN tmpl : tmpl[i] = Wildcard \/ tmpl[i] = toks[i]}

\* Similarity is the quotient Score / Width: no score of a length mismatch,
\* and a full one between two empty lines.
Score(tmpl, toks) ==
  IF Len(tmpl) # Len(toks) THEN 0
  ELSE IF tmpl = <<>> THEN 1
  ELSE Cardinality(Agree(tmpl, toks))

Width(toks) == IF toks = <<>> THEN 1 ELSE Len(toks)

\* sim >= sim_threshold.  All the templates of a leaf have the length of the
\* line, so that scores over the same width compare like the quotients.
Accepts(score, toks) == score * ThDen >= ThNum * Width(toks)

-----------------------------------------------------------------------------
(* Generalization of a template against a line of its length.  Both loops  *)
(* of the code walk the two sequences zipped together.                     *)

\* Mutant: the prefix is taken for equal in a leaf, where numbers differ.
MutantSkipPrefix(tmpl, toks) ==
  \E i \in DOMAIN tmpl \cap DOMAIN toks :
    i > PrefixLen /\ tmpl[i] # Wildcard /\ tmpl[i] # toks[i]

WouldGeneralize(tmpl, toks) ==
  \E i \in DOMAIN tmpl \cap DOMAIN toks :
    tmpl[i] # Wildcard /\ tmpl[i] # toks[i]

\* Mutant: a difference takes over the token of the line.
MutantTakeOver(tmpl, toks) ==
  [i \in DOMAIN tmpl |->
     IF i \in DOMAIN toks /\ tmpl[i] # Wildcard THEN toks[i] ELSE tmpl[i]]

Generalize(tmpl, toks) ==
  [i \in DOMAIN tmpl |->
     IF i \in DOMAIN toks /\ tmpl[i] # toks[i] THEN Wildcard ELSE tmpl[i]]

-----------------------------------------------------------------------------
(* Vocabulary of the properties.                                           *)

\* A template stands for a line (or for all that another template does):
\* every token of it is the other's or the wildcard.
Covers(tmpl, toks) ==
  /\ Len(tmpl) = Len(toks)
  /\ \A i \in DOMAIN tmpl : tmpl[i] = Wildcard \/ tmpl[i] = toks[i]

\* The positions a template leaves open.
Holes(tmpl) == {i \in DOMAIN tmpl : tmpl[i] = Wildcard}

\* A line is similar enough to a template to be filed with it.
Matches(tmpl, toks) == Accepts(Score(tmpl, toks), toks)
=============================================================================
