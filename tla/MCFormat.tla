------------------------------ MODULE MCFormat ------------------------------
(* Small snapshots for TLC. *)
EXTENDS SnapshotFormat

MCMagic == <<7, 8>>
MCJunk  == {<<0>>, <<1, 7, 1>>}

\* Rows without tokens, members and suffix, and with one of each.
MCRows ==
  {<<1, toks, 2, 3, 4, window[1], window[2], suffix, members>> :
     toks    \in {<<>>, <<<<<<5>>, <<6>>, <<>>>>>>},
     window  \in {<<EventUnset, 0>>, <<1, 2>>},
     suffix  \in {<<>>, <<<<5>>>>},
     members \in {<<>>, <<<<>>>>}}

\* A miner without clusters, with one, and with two, and with different counters.
MCBodies ==
  {<<<< <<5>>, <<6>>, 0 >>, 3 + Len(rows), rows>> :
     rows \in {<<>>} \cup {<<r>> : r \in MCRows}
       \cup {<<r, r>> : r \in {q \in MCRows : q[8] = <<>> /\ q[9] = <<>>}}}
=============================================================================
