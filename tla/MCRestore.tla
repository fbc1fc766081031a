----------------------------- MODULE MCRestore -----------------------------
(* The miner with restarts, for TLC. *)
EXTENDS MinerRestore, MCMiner

\* The lines of a leaf that make two clusters, one of them of two lines, and a
\* line of another leaf.
MCSavedLines == {<<"1", "a", "b">>, <<"2", "a", "b">>, <<"1", "c", "c">>, <<"a">>}

MCLeafLines == {l \in MCLines : Len(l) = 3}
=============================================================================
