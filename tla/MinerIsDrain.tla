---------------------------- MODULE MinerIsDrain ----------------------------
(***************************************************************************)
(* To a single caller the concurrent miner is Drain: tree, ticks, two      *)
(* scans and two looks at the body are only how it gets there.             *)
(*                                                                         *)
(* A line takes effect when its match is touched, or when its new cluster  *)
(* enters the leaf.  Between the touch and the end of the call, the table  *)
(* already shows what the call is about to do to the body.                 *)
(***************************************************************************)
EXTENDS Miner, SequencesExt

Caller == CHOOSE t \in Threads : TRUE

ASSUME OneCaller == Threads = {Caller}

pending == pc[Caller] \in {"first", "last", "decide", "upgrade"}

\* The clusters but for one that is on its way into the index.
live == DOMAIN clusters \
  (IF pc[Caller] \in {"evict", "link"} THEN {op[Caller].id} ELSE {})

\* What is to be seen of a body, and what the call in progress adds to it.
Shown(body) ==
  [tokens |-> body.tokens, size |-> body.size, members |-> body.members,
   from |-> IF body.first = EventUnset THEN None ELSE body.first,
   to   |-> IF body.first = EventUnset THEN None ELSE body.last]

table ==
  [id \in live |->
     LET o    == op[Caller]
         body == bodies[clusters[id]]
     IN  IF pending /\ o.best.ref = clusters[id]
         THEN Shown([body EXCEPT
                !.tokens  = Generalize(@, o.line),
                !.members = @ \cup ({o.member} \ {None}),
                !.first   = IF o.ms # None /\ o.ms < @ THEN o.ms ELSE @,
                !.last    = IF o.ms # None /\ o.ms > @ THEN o.ms ELSE @])
         ELSE Shown(body)]

recent ==
  SetToSortSeq(live, LAMBDA a, b :
    bodies[clusters[a]].last_used < bodies[clusters[b]].last_used)

created ==
  counter - (IF pc[Caller] \in {"stamp", "publish", "evict", "link"} THEN 1 ELSE 0)

D == INSTANCE Drain

\* Every run of the miner with one caller is a run of Drain: the best cluster
\* of the leaf absorbs a line when it is similar enough, and a full leaf loses
\* its least recently used cluster to a new one (miner.rs, add_inner).
IsDrain == D!Spec
=============================================================================
