------------------------------- MODULE MCFile -------------------------------
(* Small instances of the file backend, for TLC. *)
EXTENDS FileStore, TLC

Symmetry == Permutations(Blob) \cup Permutations(Savers)
=============================================================================
