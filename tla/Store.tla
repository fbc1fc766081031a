------------------------------- MODULE Store -------------------------------
(***************************************************************************)
(* What a persistence backend promises (the trait Persistence): a save     *)
(* replaces the blob that is stored, at once and as a whole.  A power      *)
(* failure may bring back a blob that was stored before, never a part of   *)
(* one.                                                                    *)
(***************************************************************************)
CONSTANTS
  Blob,    \* snapshots, as bytes
  Nothing  \* nothing is stored

VARIABLES
  stored,  \* what load returns
  kept     \* what may be stored after a power failure

Init == stored = Nothing /\ kept = {Nothing}

Save(blob) == stored' = blob /\ kept' = kept \cup {blob}

PowerFailure == stored' \in kept /\ kept' = {stored'}

Next == (\E blob \in Blob : Save(blob)) \/ PowerFailure

Spec == Init /\ [][Next]_<<stored, kept>>
=============================================================================
