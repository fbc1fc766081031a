------------------------------- MODULE Drain -------------------------------
(***************************************************************************)
(* What add promises to a single caller: the Drain algorithm over a table  *)
(* of clusters, without tree, shards, locks, clocks or references.         *)
(*                                                                         *)
(* The leaf of a line is the set of live clusters of its length and its    *)
(* path; recent lists the live clusters, the least recently used first.    *)
(***************************************************************************)
EXTENDS Templates, SequencesExt

CONSTANTS
  Lines,    \* the lines callers bring
  Members,  \* member labels
  Events,   \* event timestamps
  None,     \* an absent member or timestamp
  Cap       \* clusters per leaf

VARIABLES
  table,    \* the live clusters: id -> what a caller can see of it
  recent,   \* their ids, by last use
  created   \* how many clusters were ever created

vars == <<table, recent, created>>

Leaf(line) ==
  {id \in DOMAIN table : /\ Len(table[id].tokens) = Len(line)
                         /\ Keys(table[id].tokens) = Keys(line)}

\* The most similar clusters of the leaf.
Best(line) ==
  LET score(id) == Score(table[id].tokens, line)
  IN  {id \in Leaf(line) : \A other \in Leaf(line) : score(other) <= score(id)}

\* The least recently used cluster of a full leaf.
Victims(line) ==
  LET rank(id) == CHOOSE i \in DOMAIN recent : recent[i] = id
  IN  IF Cardinality(Leaf(line)) < Cap THEN {}
      ELSE {id \in Leaf(line) : \A other \in Leaf(line) : rank(id) <= rank(other)}

Fresh(line, member, ms) ==
  [tokens |-> line, size |-> 1, members |-> {member} \ {None},
   from |-> ms, to |-> ms]

\* The cluster after one more line.
Grown(c, line, member, ms) ==
  [tokens |-> Generalize(c.tokens, line), size |-> c.size + 1,
   members |-> c.members \cup ({member} \ {None}),
   from |-> IF c.from = None \/ (ms # None /\ ms < c.from) THEN ms ELSE c.from,
   to   |-> IF c.to = None \/ (ms # None /\ ms > c.to) THEN ms ELSE c.to]

Join(id, line, member, ms) ==
  /\ Matches(table[id].tokens, line)
  /\ table' = [table EXCEPT ![id] = Grown(@, line, member, ms)]
  /\ recent' = Append(SelectSeq(recent, LAMBDA x : x # id), id)
  /\ UNCHANGED created

Create(line, member, ms) ==
  LET gone == Victims(line)
      id   == created + 1
  IN  /\ \A other \in Leaf(line) : ~Matches(table[other].tokens, line)
      /\ table' = [x \in (DOMAIN table \ gone) \cup {id} |->
                     IF x = id THEN Fresh(line, member, ms) ELSE table[x]]
      /\ recent' = Append(SelectSeq(recent, LAMBDA x : x \notin gone), id)
      /\ created' = id

Init ==
  /\ table = [id \in {} |-> 0]
  /\ recent = <<>>
  /\ created = 0

Next ==
  \E line \in Lines, member \in Members \cup {None}, ms \in Events \cup {None} :
    \/ \E id \in Best(line) : Join(id, line, member, ms)
    \/ Create(line, member, ms)

Spec == Init /\ [][Next]_vars
=============================================================================
