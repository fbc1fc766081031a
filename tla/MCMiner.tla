------------------------------ MODULE MCMiner ------------------------------
(* Small instances of the miner for TLC.                                   *)
EXTENDS Miner, TLC

CONSTANTS Adds, Queries

\* Wildcard, two numbers and three words.
MCToken   == {"*", "1", "2", "a", "b", "c"}
MCNumeric == {"1", "2"}

\* With a prefix of one token and a threshold of 2/5 of the positions.  The
\* long lines share a leaf, their first tokens being numbers.  The first, the
\* third and the fourth agree in one position only and make three clusters;
\* the second agrees in two with the first and with the third, and opens a
\* position that makes further lines match.  The short line has a shard of its
\* own and a path shorter than the prefix would allow.
MCLines ==
  {<<"1", "a", "b">>, <<"2", "a", "b">>, <<"2", "a", "c">>, <<"1", "c", "c">>,
   <<"a">>}

\* The first two make two clusters, which evict each other from a leaf of one;
\* the third joins either of them and opens a position of it.
MCFewLines == {<<"1", "a", "b">>, <<"2", "a", "c">>, <<"2", "a", "b">>}

MCMaxCalls == [k \in Kinds |-> IF k = "add" THEN Adds ELSE Queries]

ThreadSymmetry == Permutations(Threads)
=============================================================================
