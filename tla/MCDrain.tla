------------------------------ MODULE MCDrain ------------------------------
(* The miner with one caller, for TLC. *)
EXTENDS MinerIsDrain, MCMiner

\* The lines of one leaf.
MCLeafLines == {l \in MCLines : Len(l) = 3}
=============================================================================
