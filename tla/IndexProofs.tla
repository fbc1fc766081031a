---------------------------- MODULE IndexProofs ----------------------------
(***************************************************************************)
(* Proofs about the index of the miner: the leaves and the map, for any    *)
(* number of threads, lines and shards and any leaf capacity.              *)
(*                                                                         *)
(* The argument: a leaf is changed by one thread at a time (Exclusive), so *)
(* what a writer found in its leaf (that it is full, that the victim is in *)
(* it) still holds when it links the new cluster; and an id stands in one  *)
(* place only, so the removal of a victim leaves no trace of it.           *)
(***************************************************************************)
EXTENDS MinerProofs

Entering(t) == pc[t] \in {"evict", "link"}

\* Some leaf holds the id.
Listed(ts, id) == \E s \in DOMAIN ts, p \in Paths : id \in Range(ts[s][p])

\* One thread writes to a shard.
Exclusive ==
  \A t, u \in Threads :
    pc[t] \in Writing /\ pc[u] \in Writing /\ op[t].shard = op[u].shard => t = u

\* 0 is no id.
IdsPositive ==
  /\ \A b \in DOMAIN bodies : bodies[b].id # 0
  /\ \A t \in Threads : Minted(t) => op[t].id # 0

ShardsReached == \A s \in DOMAIN trees : \E c \in DOMAIN shards : shards[c] = s

LeavesLive ==
  \A s \in DOMAIN trees, p \in Paths : Range(trees[s][p]) \subseteq DOMAIN clusters

OnePlace ==
  \A s, r \in DOMAIN trees : \A p, q \in Paths :
    \A i \in DOMAIN trees[s][p], j \in DOMAIN trees[r][q] :
      trees[s][p][i] = trees[r][q][j] => s = r /\ p = q /\ i = j

MapReached ==
  \A id \in DOMAIN clusters :
    Listed(trees, id) \/ \E t \in Threads : Entering(t) /\ op[t].id = id

EntrantsApart ==
  \A t \in Threads : Entering(t) =>
    /\ op[t].id \in DOMAIN clusters
    /\ ~Listed(trees, op[t].id)
    /\ \A u \in Threads : Entering(u) /\ op[u].id = op[t].id => u = t

\* A full leaf gives up one of its ids, any other leaf none.
VictimChosen(t) ==
  LET o == op[t] IN
  /\ ~Entering(t) => o.victim = NoVictim
  /\ pc[t] = "evict" =>
       /\ Len(Leaf(t)) >= Cap
       /\ Range(o.todo) \subseteq Range(Leaf(t))
       /\ IF o.victim.id = 0 THEN o.todo = Leaf(t)
                             ELSE o.victim.id \in Range(Leaf(t))
  /\ pc[t] = "link" =>
       IF o.victim.id = 0 THEN Len(Leaf(t)) < Cap
                          ELSE o.victim.id \in Range(Leaf(t))

VictimsChosen == \A t \in Threads : VictimChosen(t)

SInv ==
  /\ Exclusive
  /\ IdsPositive
  /\ ShardsReached
  /\ LeafWithinCap
  /\ LeavesLive
  /\ OnePlace
  /\ MapReached
  /\ EntrantsApart
  /\ VictimsChosen

-----------------------------------------------------------------------------
(* Initial states, and what the parts of the index are made of.            *)

\* The empty index satisfies the structural invariant.
LEMMA InitSInv == Init => SInv
<1> SUFFICES ASSUME Init PROVE SInv
  OBVIOUS
<1>1. DOMAIN trees = {} /\ DOMAIN bodies = {} /\ DOMAIN shards = {} /\ DOMAIN clusters = {}
  BY DEF Init
<1>2. \A t \in Threads : pc[t] = "idle" /\ op[t].victim = NoVictim
  BY DEF Init, NoOp
<1> QED BY <1>1, <1>2
    DEF SInv, Exclusive, Writing, IdsPositive, Minted, ShardsReached, LeafWithinCap,
        LeavesLive, OnePlace, MapReached, EntrantsApart, Entering, VictimsChosen,
        VictimChosen

\* Leaves are sequences of ids, and a thread in a shard has a leaf of it.
LEMMA LeafTypes ==
  ASSUME IInv
  PROVE  /\ \A s \in DOMAIN trees, p \in Paths : trees[s][p] \in Seq(Nat)
         /\ \A t \in Threads : pc[t] \in InShard =>
              /\ op[t].shard \in DOMAIN trees
              /\ Keys(op[t].line) \in Paths
              /\ Leaf(t) \in Seq(Nat)
<1>1. \A s \in DOMAIN trees, p \in Paths : trees[s][p] \in Seq(Nat)
  BY DEF IInv, TypeOK
<1>2. ASSUME NEW t \in Threads, pc[t] \in InShard
      PROVE  op[t].shard \in DOMAIN trees /\ Keys(op[t].line) \in Paths
  <2>1. ThreadSound(t) /\ TypeOK
    BY DEF IInv, ThreadsSound
  <2>2. op[t].line \in Lines /\ op[t].shard \in DOMAIN trees
    BY <1>2, <2>1 DEF ThreadSound, HasLine, InShard, TypeOK
  <2> QED BY <2>2, LineTypes
<1> QED BY <1>1, <1>2 DEF Leaf

\* The ids of the map are not 0.
LEMMA MapPositive ==
  ASSUME IInv, IdsPositive
  PROVE  0 \notin DOMAIN clusters
BY DEF IInv, TypeOK, MapNamesBodies, IdsPositive

\* A step of one thread moves no other.
LEMMA OthersStay ==
  ASSUME TypeOK, NEW t \in Threads, Call(t) \/ Step(t)
  PROVE  \A u \in Threads \ {t} : pc'[u] = pc[u] /\ op'[u] = op[u]
<1> SUFFICES ASSUME NEW u \in Threads \ {t} PROVE pc'[u] = pc[u] /\ op'[u] = op[u]
  OBVIOUS
<1> USE DEF TypeOK, Goto, Return
<1>1. CASE Call(t)
  BY <1>1 DEF Call
<1>2. CASE GetShard(t) \/ EnterShard(t) \/ ReadLeaf(t) \/ Visit(t)
  BY <1>2 DEF GetShard, EnterShard, ReadLeaf, Visit
<1>3. CASE EndScan(t)
  BY <1>3 DEF EndScan
<1>4. CASE WriteLeaf(t) \/ EndRescan(t) \/ NewId(t) \/ Stamp(t)
  BY <1>4 DEF WriteLeaf, EndRescan, NewId, Stamp
<1>5. CASE Publish(t) \/ Consider(t) \/ Link(t) \/ Hit(t) \/ Touch(t)
  BY <1>5 DEF Publish, Consider, Link, Hit, Touch
<1>6. CASE ObserveFirst(t) \/ ObserveLast(t) \/ Decide(t) \/ Upgrade(t)
  BY <1>6 DEF ObserveFirst, ObserveLast, Decide, Upgrade
<1>7. CASE Lookup(t) \/ Params(t) \/ ShowFirst(t) \/ ShowLast(t)
  BY <1>7 DEF Lookup, Params, ShowFirst, ShowLast
<1> QED BY <1>1, <1>2, <1>3, <1>4, <1>5, <1>6, <1>7 DEF Step

-----------------------------------------------------------------------------
(* Steps that leave the index alone.                                       *)

\* A step outside the insertion proper keeps the structural invariant, if its
\* thread is then alone to write to its shard.
LEMMA IndexKept ==
  ASSUME IInv, SInv, NEW t \in Threads,
         UNCHANGED index,
         Len(bodies') = Len(bodies), bodies' \in Seq(Body), GrowsTo(bodies, bodies'),
         \A u \in Threads \ {t} : pc'[u] = pc[u] /\ op'[u] = op[u],
         ~Entering(t), ~Entering(t)', op'[t].victim = NoVictim,
         pc'[t] \in Writing =>
           \A u \in Threads \ {t} : pc[u] \in Writing => op[u].shard # op'[t].shard,
         Minted(t)' => op'[t].id # 0
  PROVE  SInv'
<1>1. shards' = shards /\ trees' = trees /\ clusters' = clusters
  BY DEF index
<1>2. Exclusive'
  BY DEF SInv, Exclusive
<1>3. IdsPositive'
  <2>1. bodies \in Seq(Body)
    BY DEF IInv, TypeOK
  <2>2. \A b \in DOMAIN bodies' : b \in DOMAIN bodies /\ bodies'[b].id = bodies[b].id
    BY <2>1 DEF GrowsTo
  <2> QED BY <2>2 DEF SInv, IdsPositive, Minted
<1>4. ShardsReached' /\ LeafWithinCap' /\ LeavesLive' /\ OnePlace'
  BY <1>1 DEF SInv, ShardsReached, LeafWithinCap, LeavesLive, OnePlace
<1>5. \A u \in Threads : /\ Entering(u)' <=> Entering(u)
                         /\ Entering(u) => op'[u] = op[u]
  BY DEF Entering
<1>6. \A id : Listed(trees', id) <=> Listed(trees, id)
  BY <1>1 DEF Listed
<1>7. MapReached' /\ EntrantsApart'
  BY <1>1, <1>5, <1>6 DEF SInv, MapReached, EntrantsApart
<1>8. ASSUME NEW u \in Threads PROVE VictimChosen(u)'
  <2>1. CASE u = t
    BY <2>1 DEF VictimChosen, Entering
  <2>2. CASE u # t
    <3>1. pc'[u] = pc[u] /\ op'[u] = op[u] /\ Leaf(u)' = Leaf(u)
      BY <2>2, <1>1 DEF Leaf
    <3> QED BY <3>1 DEF SInv, VictimsChosen, VictimChosen, Entering
  <2> QED BY <2>1, <2>2
<1> QED BY <1>2, <1>3, <1>4, <1>7, <1>8 DEF SInv, VictimsChosen

\* Steps after which their thread does not write to a shard.
OutsideStep(t) ==
  \/ Call(t) \/ GetShard(t) \/ ReadLeaf(t) \/ EndScan(t)
  \/ Visit(t) /\ pc[t] = "scan"
  \/ Hit(t) \/ Touch(t) \/ ObserveFirst(t) \/ ObserveLast(t) \/ Decide(t)
  \/ Upgrade(t) \/ Lookup(t) \/ Params(t) \/ ShowFirst(t) \/ ShowLast(t)

\* They leave the index and the victim of their thread alone.
LEMMA OutsideFacts ==
  ASSUME TypeOK, NEW t \in Threads, OutsideStep(t),
         op[t].victim = NoVictim
  PROVE  /\ UNCHANGED index
         /\ ~Entering(t)
         /\ pc'[t] \notin Writing
         /\ op'[t].victim = NoVictim
         /\ Len(bodies') = Len(bodies)
<1> USE DEF TypeOK, Entering, Writing, Goto
<1>1. op[t] \in Ops
  BY OpType
<1>2. NoOp.victim = NoVictim /\ NoOp \in Ops
  BY NoOpTyped DEF NoOp
<1>3. ASSUME NEW result, Return(t, result)
      PROVE  pc'[t] = "idle" /\ op'[t].victim = NoVictim
  BY <1>2, <1>3 DEF Return
<1>4. CASE Call(t)
  <2>1. ASSUME NEW kind, NEW l, NEW m, NEW e
        PROVE  Request(kind, l, m, e).victim = NoVictim
    BY DEF Request, NoOp
  <2>2. ASSUME NEW kind, NEW id
        PROVE  [NoOp EXCEPT !.kind = kind, !.best.id = id].victim = NoVictim
    BY DEF NoOp
  <2>3. ASSUME NEW o, o.victim = NoVictim, op' = [op EXCEPT ![t] = o]
        PROVE  op'[t].victim = NoVictim
    BY <2>3
  <2>4. op'[t].victim = NoVictim
    <3>1. CASE \E kind, l, m, e : op' = [op EXCEPT ![t] = Request(kind, l, m, e)]
      BY <3>1, <2>1, <2>3
    <3>2. CASE \E kind, id : op' = [op EXCEPT ![t] = [NoOp EXCEPT !.kind = kind, !.best.id = id]]
      BY <3>2, <2>2, <2>3
    <3>3. \/ \E kind, l, m, e : op' = [op EXCEPT ![t] = Request(kind, l, m, e)]
          \/ \E kind, id : op' = [op EXCEPT ![t] = [NoOp EXCEPT !.kind = kind, !.best.id = id]]
      <4>1. PICK kind \in Kinds :
              \/ \E l \in Lines, m \in Members \cup {None}, e \in Events \cup {None} :
                   op' = [op EXCEPT ![t] = Request(kind, l, m, e)]
              \/ \E l \in Lines : op' = [op EXCEPT ![t] = Request(kind, l, None, None)]
              \/ \E id \in 1..counter :
                   op' = [op EXCEPT ![t] = [NoOp EXCEPT !.kind = kind, !.best.id = id]]
        BY <1>4, Zenon DEF Call
      <4> QED BY <4>1, Zenon
    <3> QED BY <3>1, <3>2, <3>3
  <2>5. pc'[t] \in {"shard", "lookup"} /\ pc[t] = "idle"
    BY <1>4 DEF Call
  <2> QED BY <1>4, <2>4, <2>5 DEF Call
<1>5. CASE GetShard(t)
  <2>1. ASSUME NEW n, op' = [op EXCEPT ![t].shard = n] PROVE op'[t].victim = NoVictim
    BY <1>1, <2>1 DEF Ops
  <2>2. /\ pc[t] = "shard" /\ UNCHANGED <<index, bodies>>
        /\ \/ op' = [op EXCEPT ![t].shard = shards[Len(op[t].line)]] /\ Goto(t, "read")
           \/ op' = op /\ Goto(t, "enter")
           \/ Return(t, Answer(0, "miss"))
    BY <1>5 DEF GetShard
  <2>3. op'[t].victim = NoVictim /\ pc'[t] \in {"read", "enter", "idle"}
    BY <1>3, <2>1, <2>2
  <2> QED BY <2>2, <2>3
<1>6. CASE ReadLeaf(t) \/ (Visit(t) /\ pc[t] = "scan")
  <2>1. ASSUME NEW todo, NEW best,
               op' = [op EXCEPT ![t].todo = todo] \/ op' = [op EXCEPT ![t].todo = todo, ![t].best = best]
        PROVE  op'[t].victim = NoVictim
    BY <1>1, <2>1 DEF Ops
  <2>2. CASE ReadLeaf(t)
    <3>1. op'[t].victim = NoVictim
      BY <2>1, <2>2 DEF ReadLeaf
    <3> QED BY <2>2, <3>1 DEF ReadLeaf
  <2>3. CASE Visit(t) /\ pc[t] = "scan"
    <3>1. op'[t].victim = NoVictim
      <4>1. \E todo, best : op' = [op EXCEPT ![t].todo = todo, ![t].best = best]
        BY <2>3 DEF Visit
      <4> QED BY <2>1, <4>1
    <3>2. pc' = pc /\ UNCHANGED <<index, bodies>>
      BY <2>3 DEF Visit
    <3> QED BY <2>3, <3>1, <3>2
  <2> QED BY <1>6, <2>2, <2>3
<1>7. CASE EndScan(t)
  BY <1>3, <1>7 DEF EndScan
<1>8. CASE Hit(t)
  BY <1>1, <1>8 DEF Hit, Ops
<1>13. CASE Touch(t)
  BY <1>13 DEF Touch
<1>14. CASE ObserveFirst(t)
  BY <1>14 DEF ObserveFirst
<1>15. CASE ObserveLast(t)
  BY <1>15 DEF ObserveLast
<1>9. CASE Decide(t)
  <2> DEFINE needs == WouldGeneralize(bodies[op[t].best.ref].tokens, op[t].line)
  <2>1. ASSUME NEW n, op' = [op EXCEPT ![t].needs = n] PROVE op'[t].victim = NoVictim
    BY <1>1, <2>1 DEF Ops
  <2>2. /\ pc[t] = "decide" /\ UNCHANGED <<index, bodies>>
        /\ \/ op' = [op EXCEPT ![t].needs = needs] /\ Goto(t, "upgrade")
           \/ Return(t, Answer(op[t].best.id, "None"))
    BY <1>9 DEF Decide
  <2> HIDE DEF needs
  <2>3. op'[t].victim = NoVictim /\ pc'[t] \in {"upgrade", "idle"}
    BY <1>3, <2>1, <2>2
  <2> QED BY <2>2, <2>3
<1>10. CASE Upgrade(t) \/ Params(t) \/ ShowLast(t)
  BY <1>3, <1>10 DEF Upgrade, Params, ShowLast
<1>11. CASE Lookup(t)
  BY <1>1, <1>3, <1>11 DEF Lookup, Ops
<1>12. CASE ShowFirst(t)
  BY <1>1, <1>3, <1>12 DEF ShowFirst, Ops
<1> QED BY <1>4, <1>5, <1>6, <1>7, <1>8, <1>9, <1>10, <1>11, <1>12, <1>13, <1>14, <1>15
    DEF OutsideStep

\* So they keep the structural invariant.
LEMMA OutsideKept ==
  ASSUME IInv, IInv', SInv, [Next]_vars, NEW t \in Threads, Call(t) \/ Step(t), OutsideStep(t),
         ~Entering(t)
  PROVE  SInv'
<1>1. TypeOK /\ bodies' \in Seq(Body) /\ GrowsTo(bodies, bodies')
  BY NextGrows DEF IInv, TypeOK
<1>2. op[t].victim = NoVictim
  BY DEF SInv, VictimsChosen, VictimChosen
<1>3. /\ UNCHANGED index /\ pc'[t] \notin Writing
      /\ op'[t].victim = NoVictim /\ Len(bodies') = Len(bodies)
  BY <1>1, <1>2, OutsideFacts
<1>4. ~Entering(t)' /\ ~Minted(t)'
  BY <1>3 DEF Entering, Minted, Writing
<1>5. \A u \in Threads \ {t} : pc'[u] = pc[u] /\ op'[u] = op[u]
  BY <1>1, OthersStay
<1> QED BY <1>1, <1>3, <1>4, <1>5, IndexKept

\* A writer that has not published its cluster yet leaves the index alone.
LEMMA InsideFacts ==
  ASSUME TypeOK, NEW t \in Threads,
         \/ WriteLeaf(t) \/ EndRescan(t) \/ NewId(t) \/ Stamp(t)
         \/ Visit(t) /\ pc[t] = "rescan"
  PROVE  /\ UNCHANGED index /\ UNCHANGED bodies
         /\ pc[t] \in {"write", "rescan", "create", "stamp"}
         /\ pc[t] = "write" => ShardWritable(op[t].shard)
         /\ pc'[t] \in {"rescan", "create", "stamp", "publish", "hit"}
         /\ op'[t].victim = op[t].victim
         /\ op'[t].shard = op[t].shard
         /\ op'[t].line = op[t].line
         /\ Minted(t)' => op'[t].id = IF pc[t] = "create" THEN counter + 1 ELSE op[t].id
<1> USE DEF TypeOK, Goto, Minted, Ops
<1>1. op[t] \in Ops
  BY OpType
<1>2. CASE WriteLeaf(t)
  BY <1>1, <1>2 DEF WriteLeaf
<1>3. CASE EndRescan(t)
  BY <1>1, <1>3 DEF EndRescan
<1>4. CASE NewId(t)
  BY <1>1, <1>4 DEF NewId
<1>5. CASE Stamp(t)
  BY <1>1, <1>5 DEF Stamp
<1>6. CASE Visit(t) /\ pc[t] = "rescan"
  BY <1>1, <1>6 DEF Visit
<1> QED BY <1>2, <1>3, <1>4, <1>5, <1>6

\* So it keeps the structural invariant.
LEMMA InsideKept ==
  ASSUME IInv, IInv', SInv, [Next]_vars, NEW t \in Threads, Step(t),
         \/ WriteLeaf(t) \/ EndRescan(t) \/ NewId(t) \/ Stamp(t)
         \/ Visit(t) /\ pc[t] = "rescan"
  PROVE  SInv'
<1>1. TypeOK /\ bodies' \in Seq(Body) /\ GrowsTo(bodies, bodies') /\ counter \in Nat
  BY NextGrows DEF IInv, TypeOK
<1>2. /\ UNCHANGED index /\ UNCHANGED bodies
      /\ pc[t] \in {"write", "rescan", "create", "stamp"}
      /\ pc[t] = "write" => ShardWritable(op[t].shard)
      /\ pc'[t] \in {"rescan", "create", "stamp", "publish", "hit"}
      /\ op'[t].victim = op[t].victim
      /\ op'[t].shard = op[t].shard
      /\ Minted(t)' => op'[t].id = IF pc[t] = "create" THEN counter + 1 ELSE op[t].id
  BY <1>1, InsideFacts
<1>3. ~Entering(t) /\ ~Entering(t)' /\ op'[t].victim = NoVictim
  BY <1>2 DEF Entering, SInv, VictimsChosen, VictimChosen
<1>4. \A u \in Threads \ {t} : pc'[u] = pc[u] /\ op'[u] = op[u]
  BY <1>1, OthersStay
<1>5. \A u \in Threads \ {t} : pc[u] \in Writing => op[u].shard # op[t].shard
  <2>1. CASE pc[t] = "write"
    BY <1>2, <2>1 DEF ShardWritable
  <2>2. CASE pc[t] # "write"
    BY <1>2, <2>2 DEF SInv, Exclusive, Writing
  <2> QED BY <2>1, <2>2
<1>6. Minted(t)' => op'[t].id # 0
  <2>1. CASE pc[t] = "create"
    BY <1>1, <1>2, <2>1
  <2>2. CASE pc[t] = "stamp"
    BY <1>2, <2>2 DEF SInv, IdsPositive, Minted
  <2>3. CASE pc[t] = "write"
    <3>1. pc'[t] = "rescan"
      BY <1>1, <2>3 DEF WriteLeaf, EndRescan, NewId, Stamp, Goto, TypeOK
    <3> QED BY <3>1 DEF Minted
  <2>4. CASE pc[t] = "rescan"
    <3>1. pc'[t] \in {"rescan", "hit", "create"}
      BY <1>1, <2>4 DEF WriteLeaf, EndRescan, NewId, Stamp, Visit, Goto, TypeOK
    <3> QED BY <3>1 DEF Minted
  <2> QED BY <1>2, <2>1, <2>2, <2>3, <2>4
<1> QED BY <1>1, <1>2, <1>3, <1>4, <1>5, <1>6, IndexKept

-----------------------------------------------------------------------------
(* A shard enters the table, and a cluster is chosen to go.                *)

\* The new shard of EnterShard has empty leaves.
LEMMA EnterKept ==
  ASSUME IInv, IInv', SInv, [Next]_vars, NEW t \in Threads, EnterShard(t)
  PROVE  SInv'
<1> DEFINE count == Len(op[t].line)
           new == Len(trees) + 1
<1>1. /\ TypeOK /\ op[t] \in Ops /\ pc[t] = "enter" /\ pc'[t] = "read"
      /\ bodies' = bodies /\ clusters' = clusters /\ bodies \in Seq(Body)
      /\ trees \in Seq([Paths -> Seq(Nat)])
      /\ Step(t)
  BY OpType DEF IInv, EnterShard, Goto, TypeOK, Step
<1>2. op'[t].victim = NoVictim
  <2>1. op[t].victim = NoVictim
    BY <1>1 DEF SInv, VictimsChosen, VictimChosen, Entering
  <2> QED BY <1>1, <2>1 DEF EnterShard, TypeOK, Ops
<1>3. \A u \in Threads \ {t} : pc'[u] = pc[u] /\ op'[u] = op[u]
  BY <1>1, OthersStay
<1>4. /\ ~Entering(t) /\ ~Entering(t)' /\ ~Minted(t)' /\ pc'[t] \notin Writing
      /\ GrowsTo(bodies, bodies')
  BY <1>1, GrowsReflexive DEF Entering, Minted, Writing
<1>5. CASE count \in DOMAIN shards
  <2>1. UNCHANGED index
    BY <1>1, <1>5 DEF EnterShard, index
  <2> QED BY <1>1, <1>2, <1>3, <1>4, <2>1, IndexKept
<1>6. CASE count \notin DOMAIN shards
  <2>1. /\ trees' = Append(trees, [p \in Paths |-> <<>>])
        /\ shards' = Put(shards, count, new)
    BY <1>6 DEF EnterShard
  <2>2. /\ DOMAIN trees' = DOMAIN trees \cup {new} /\ new \notin DOMAIN trees
        /\ \A s \in DOMAIN trees : trees'[s] = trees[s]
        /\ \A p \in Paths : trees'[new][p] = <<>>
    BY <1>1, <2>1
  <2>3. /\ DOMAIN shards' = DOMAIN shards \cup {count}
        /\ shards'[count] = new
        /\ \A c \in DOMAIN shards : shards'[c] = shards[c]
    BY <1>6, <2>1 DEF Put
  <2>4. \A id : Listed(trees', id) <=> Listed(trees, id)
    BY <2>2 DEF Listed, Range
  <2>5. \A u \in Threads : /\ Entering(u)' <=> Entering(u)
                           /\ Entering(u) => op'[u] = op[u]
    BY <1>3, <1>4 DEF Entering
  <2>6. Exclusive' /\ IdsPositive'
    BY <1>1, <1>3, <1>4 DEF SInv, Exclusive, IdsPositive, Minted
  <2>7. ShardsReached'
    BY <2>2, <2>3 DEF SInv, ShardsReached
  <2>8. LeafWithinCap'
    <3>1. Len(<<>>) <= Cap
      BY MinerAssumption
    <3> QED BY <2>2, <3>1 DEF SInv, LeafWithinCap
  <2>9. LeavesLive'
    BY <1>1, <2>2 DEF SInv, LeavesLive, Range
  <2>10. OnePlace'
    BY <2>2 DEF SInv, OnePlace
  <2>11. MapReached' /\ EntrantsApart'
    BY <1>1, <2>4, <2>5 DEF SInv, MapReached, EntrantsApart
  <2>12. ASSUME NEW u \in Threads PROVE VictimChosen(u)'
    <3>1. CASE u = t
      BY <1>1, <1>2, <3>1 DEF VictimChosen
    <3>2. CASE u # t
      <4>1. pc'[u] = pc[u] /\ op'[u] = op[u]
        BY <1>3, <3>2
      <4>2. Entering(u) => Leaf(u)' = Leaf(u)
        BY <4>1, <2>2, LeafTypes DEF Leaf, Entering, InShard
      <4> QED BY <4>1, <4>2 DEF SInv, VictimsChosen, VictimChosen, Entering
    <3> QED BY <3>1, <3>2
  <2> QED BY <2>6, <2>7, <2>8, <2>9, <2>10, <2>11, <2>12 DEF SInv, VictimsChosen
<1> QED BY <1>5, <1>6

\* The victim is an id of the leaf, once one of a full leaf was looked at.
LEMMA EvictionChooses ==
  ASSUME TypeOK, NEW t \in Threads, Consider(t), VictimChosen(t),
         Leaf(t) \in Seq(Nat), 0 \notin Range(Leaf(t))
  PROVE  /\ pc'[t] \in {"evict", "link"}
         /\ op'[t].id = op[t].id /\ op'[t].shard = op[t].shard /\ op'[t].line = op[t].line
         /\ VictimChosen(t)'
<1> DEFINE todo == op[t].todo
           old == op[t].victim
           new == Older(old, Head(todo))
<1>1. /\ op[t] \in Ops /\ pc[t] = "evict"
      /\ UNCHANGED index /\ UNCHANGED bodies
  BY OpType DEF Consider
<1>2. /\ Len(Leaf(t)) >= Cap
      /\ Range(todo) \subseteq Range(Leaf(t))
      /\ IF old.id = 0 THEN todo = Leaf(t) ELSE old.id \in Range(Leaf(t))
  BY <1>1 DEF VictimChosen
<1>3. todo \in Seq(Nat)
  BY <1>1 DEF Ops
<1>5. CASE todo # <<>>
  <2>1. /\ pc' = pc /\ op' = [op EXCEPT ![t].todo = Tail(todo), ![t].victim = new]
    BY <1>5 DEF Consider
  <2>2. op'[t] = [op[t] EXCEPT !.todo = Tail(todo), !.victim = new]
    BY <1>1, <2>1 DEF TypeOK
  <2> HIDE DEF new
  <2>3. /\ op'[t].id = op[t].id /\ op'[t].shard = op[t].shard
        /\ op'[t].line = op[t].line /\ op'[t].todo = Tail(todo)
        /\ op'[t].victim = new
    BY <1>1, <2>2 DEF Ops
  <2>4. Head(todo) \in Range(todo) /\ Range(Tail(todo)) \subseteq Range(todo)
    <3>1. Head(todo) = todo[1] /\ 1 \in DOMAIN todo
      BY <1>3, <1>5
    <3>2. \A i \in DOMAIN Tail(todo) : Tail(todo)[i] = todo[i + 1] /\ i + 1 \in DOMAIN todo
      BY <1>3, <1>5
    <3> QED BY <3>1, <3>2 DEF Range
  <2>5. new.id \in Range(Leaf(t)) /\ new.id # 0
    <3>1. new.id = Head(todo) \/ (new = old /\ old.id # 0)
      BY DEF new, Older
    <3> QED BY <1>2, <2>4, <3>1
  <2>6. Leaf(t)' = Leaf(t)
    BY <1>1, <2>3 DEF Leaf, index
  <2> QED BY <1>1, <1>2, <2>1, <2>3, <2>4, <2>5, <2>6 DEF VictimChosen, Entering
<1>6. CASE todo = <<>>
  <2>1. op' = op /\ pc'[t] = "link"
    BY <1>1, <1>6 DEF Consider, Goto, TypeOK
  <2>2. Leaf(t)' = Leaf(t)
    BY <1>1, <2>1 DEF Leaf, index
  <2>3. old.id # 0
    BY <1>2, <1>6, MinerAssumption
  <2> QED BY <1>2, <2>1, <2>2, <2>3 DEF VictimChosen, Entering
<1> QED BY <1>5, <1>6

\* In a miner whose index is sound that is all it takes.
LEMMA ConsiderChooses ==
  ASSUME IInv, SInv, NEW t \in Threads, Consider(t)
  PROVE  /\ pc'[t] \in {"evict", "link"}
         /\ op'[t].id = op[t].id /\ op'[t].shard = op[t].shard /\ op'[t].line = op[t].line
         /\ VictimChosen(t)'
<1>1. TypeOK /\ VictimChosen(t) /\ pc[t] = "evict"
  BY DEF IInv, SInv, VictimsChosen, Consider
<1>2. /\ op[t].shard \in DOMAIN trees /\ Keys(op[t].line) \in Paths
      /\ Leaf(t) \in Seq(Nat)
  BY <1>1, LeafTypes DEF InShard
<1>3. 0 \notin Range(Leaf(t))
  BY <1>2, MapPositive DEF SInv, LeavesLive, Leaf
<1> QED BY <1>1, <1>2, <1>3, EvictionChooses

\* So a look at the next id keeps the structural invariant.
LEMMA ConsiderKept ==
  ASSUME IInv, SInv, NEW t \in Threads, Consider(t), Step(t)
  PROVE  SInv'
<1>1. /\ TypeOK /\ pc[t] = "evict" /\ UNCHANGED <<index, bodies, counter>>
      /\ pc'[t] \in {"evict", "link"}
      /\ op'[t].id = op[t].id /\ op'[t].shard = op[t].shard /\ op'[t].line = op[t].line
      /\ VictimChosen(t)'
  BY ConsiderChooses DEF IInv, Consider, clocks
<1>2. shards' = shards /\ trees' = trees /\ clusters' = clusters /\ bodies' = bodies
  BY <1>1 DEF index
<1>3. \A u \in Threads \ {t} : pc'[u] = pc[u] /\ op'[u] = op[u]
  BY <1>1, OthersStay
<1>4. \A u \in Threads :
        /\ pc'[u] \in Writing <=> pc[u] \in Writing
        /\ Entering(u)' <=> Entering(u)
        /\ op'[u].id = op[u].id /\ op'[u].shard = op[u].shard
        /\ Minted(u)' => Minted(u)
  BY <1>1, <1>3 DEF Entering, Writing, Minted
<1>5. \A id : Listed(trees', id) <=> Listed(trees, id)
  BY <1>2 DEF Listed
<1>6. Exclusive' /\ IdsPositive'
  BY <1>2, <1>4 DEF SInv, Exclusive, IdsPositive
<1>7. ShardsReached' /\ LeafWithinCap' /\ LeavesLive' /\ OnePlace'
  BY <1>2 DEF SInv, ShardsReached, LeafWithinCap, LeavesLive, OnePlace
<1>8. MapReached' /\ EntrantsApart'
  BY <1>2, <1>4, <1>5 DEF SInv, MapReached, EntrantsApart
<1>9. ASSUME NEW u \in Threads \ {t} PROVE VictimChosen(u)'
  <2>1. pc'[u] = pc[u] /\ op'[u] = op[u] /\ Leaf(u)' = Leaf(u)
    BY <1>2, <1>3 DEF Leaf
  <2> QED BY <2>1 DEF SInv, VictimsChosen, VictimChosen, Entering
<1> QED BY <1>1, <1>6, <1>7, <1>8, <1>9 DEF SInv, VictimsChosen

-----------------------------------------------------------------------------
(* A cluster enters the map, and then its leaf.                            *)

\* What Publish does to the map and to its thread.
LEMMA PublishFacts ==
  ASSUME IInv, SInv, NEW t \in Threads, Publish(t)
  PROVE  /\ trees' = trees /\ shards' = shards
         /\ DOMAIN bodies' = DOMAIN bodies \cup {Len(bodies) + 1}
         /\ \A b \in DOMAIN bodies : bodies'[b] = bodies[b]
         /\ bodies'[Len(bodies) + 1] = NewBody(op[t])
         /\ NewBody(op[t]).id = op[t].id /\ NewBody(op[t]).tokens = op[t].line
         /\ clusters' = Put(clusters, op[t].id, Len(bodies) + 1)
         /\ DOMAIN clusters' = DOMAIN clusters \cup {op[t].id}
         /\ op[t].id \notin DOMAIN clusters /\ op[t].id # 0
         /\ pc'[t] = IF IsFull(Leaf(t)) THEN "evict" ELSE "link"
         /\ IsFull(Leaf(t)) => op'[t].todo = Leaf(t)
         /\ op'[t].id = op[t].id /\ op'[t].shard = op[t].shard
         /\ op'[t].line = op[t].line /\ op'[t].victim = NoVictim
<1>1. TypeOK /\ op[t] \in Ops /\ pc[t] = "publish" /\ bodies \in Seq(Body)
  BY OpType DEF IInv, Publish, TypeOK
<1>2. /\ trees' = trees /\ shards' = shards
      /\ bodies' = Append(bodies, NewBody(op[t]))
      /\ clusters' = Put(clusters, op[t].id, Len(bodies) + 1)
  BY DEF Publish
<1>3. DOMAIN clusters' = DOMAIN clusters \cup {op[t].id}
  BY <1>2 DEF Put
<1>4. op[t].id \notin DOMAIN clusters /\ op[t].id # 0
  BY <1>1 DEF IInv, IdsUnique, MapNamesBodies, Minted, TypeOK, SInv, IdsPositive
<1>5. op[t].victim = NoVictim
  BY <1>1 DEF SInv, VictimsChosen, VictimChosen, Entering
<1>6. /\ pc'[t] = IF IsFull(Leaf(t)) THEN "evict" ELSE "link"
      /\ op'[t] = IF IsFull(Leaf(t)) THEN [op[t] EXCEPT !.todo = Leaf(t)] ELSE op[t]
  BY <1>1 DEF Publish, Goto, TypeOK
<1>7. /\ IsFull(Leaf(t)) => op'[t].todo = Leaf(t)
      /\ op'[t].id = op[t].id /\ op'[t].shard = op[t].shard
      /\ op'[t].line = op[t].line /\ op'[t].victim = NoVictim
  BY <1>1, <1>5, <1>6 DEF Ops
<1>8. NewBody(op[t]).id = op[t].id /\ NewBody(op[t]).tokens = op[t].line
  BY <1>1, NewBodyTyped
<1>9. /\ DOMAIN bodies' = DOMAIN bodies \cup {Len(bodies) + 1}
      /\ \A b \in DOMAIN bodies : bodies'[b] = bodies[b]
      /\ bodies'[Len(bodies) + 1] = NewBody(op[t])
  BY <1>1, <1>2
<1> QED BY <1>2, <1>3, <1>4, <1>6, <1>7, <1>8, <1>9

\* So the insertion into the map keeps the structural invariant.
LEMMA PublishKept ==
  ASSUME IInv, SInv, NEW t \in Threads, Publish(t), Step(t)
  PROVE  SInv'
<1> DEFINE id == op[t].id
<1>1. TypeOK /\ op[t] \in Ops /\ pc[t] = "publish"
  BY OpType DEF IInv, Publish
<1>2. /\ trees' = trees /\ shards' = shards
      /\ DOMAIN bodies' = DOMAIN bodies \cup {Len(bodies) + 1}
      /\ \A b \in DOMAIN bodies : bodies'[b] = bodies[b]
      /\ bodies'[Len(bodies) + 1].id = id
      /\ DOMAIN clusters' = DOMAIN clusters \cup {id}
      /\ id \notin DOMAIN clusters /\ id # 0
      /\ pc'[t] = IF IsFull(Leaf(t)) THEN "evict" ELSE "link"
      /\ IsFull(Leaf(t)) => op'[t].todo = Leaf(t)
      /\ op'[t].id = id /\ op'[t].shard = op[t].shard
      /\ op'[t].line = op[t].line /\ op'[t].victim = NoVictim
  BY PublishFacts
<1>3. \A u \in Threads \ {t} : pc'[u] = pc[u] /\ op'[u] = op[u]
  BY <1>1, OthersStay
<1>4. \A u \in Threads :
        /\ pc'[u] \in Writing <=> pc[u] \in Writing
        /\ Entering(u)' <=> Entering(u) \/ u = t
        /\ op'[u].id = op[u].id /\ op'[u].shard = op[u].shard
        /\ Minted(u)' => Minted(u)
  BY <1>1, <1>2, <1>3 DEF Entering, Writing, Minted
<1>5. \A x : Listed(trees', x) <=> Listed(trees, x)
  BY <1>2 DEF Listed
<1>6. ~Listed(trees, id)
  BY <1>2 DEF SInv, LeavesLive, Listed
<1>7. Exclusive' /\ IdsPositive'
  BY <1>2, <1>4 DEF SInv, Exclusive, IdsPositive
<1>8. ShardsReached' /\ LeafWithinCap' /\ LeavesLive' /\ OnePlace'
  BY <1>2 DEF SInv, ShardsReached, LeafWithinCap, LeavesLive, OnePlace
<1>9. MapReached'
  BY <1>2, <1>4, <1>5 DEF SInv, MapReached
<1>10. EntrantsApart'
  BY <1>2, <1>4, <1>5, <1>6 DEF SInv, EntrantsApart
<1>11. VictimChosen(t)'
  <2>1. Leaf(t)' = Leaf(t) /\ Len(Leaf(t)) \in Nat
    BY <1>1, <1>2, LeafTypes DEF Leaf, InShard
  <2>2. NoVictim.id = 0
    BY DEF NoVictim
  <2> QED BY <1>2, <2>1, <2>2, MinerAssumption DEF VictimChosen, Entering, IsFull
<1>12. ASSUME NEW u \in Threads \ {t} PROVE VictimChosen(u)'
  <2>1. pc'[u] = pc[u] /\ op'[u] = op[u] /\ Leaf(u)' = Leaf(u)
    BY <1>2, <1>3 DEF Leaf
  <2> QED BY <2>1 DEF SInv, VictimsChosen, VictimChosen, Entering
<1> QED BY <1>7, <1>8, <1>9, <1>10, <1>11, <1>12 DEF SInv, VictimsChosen

\* No id stands twice in the sequence.
Distinct(ids) == \A i, j \in DOMAIN ids : ids[i] = ids[j] => i = j

\* An index of a sequence that is not the last one.
LEMMA BelowTop == \A m \in Nat : \A i \in 1..m : i # m => i \in 1..(m - 1)
OBVIOUS

\* LeafBucket::remove takes out the id, keeps every other one, and does not
\* double any.
LEMMA SwapRemoveRemoves ==
  ASSUME NEW ids \in Seq(Nat), NEW id \in Nat, Distinct(ids)
  PROVE  /\ SwapRemove(ids, id) \in Seq(Nat)
         /\ Range(SwapRemove(ids, id)) = Range(ids) \ {id}
         /\ Distinct(SwapRemove(ids, id))
         /\ Len(SwapRemove(ids, id)) =
              IF id \in Range(ids) THEN Len(ids) - 1 ELSE Len(ids)
<1> DEFINE kept == SwapRemove(ids, id)
           n == Len(ids)
<1>1. n \in Nat /\ DOMAIN ids = 1..n /\ \A i \in 1..n : ids[i] \in Nat
  OBVIOUS
<1>2. CASE id \notin Range(ids)
  <2>1. \A i \in DOMAIN ids : ids[i] # id
    BY <1>2 DEF Range
  <2>2. kept = ids
    BY <2>1 DEF SwapRemove
  <2> QED BY <1>2, <2>2
<1>3. CASE id \in Range(ids)
  <2> DEFINE IsAt(i) == ids[i] = id /\ \A j \in 1..(i - 1) : ids[j] # id
             pos == CHOOSE i \in DOMAIN ids : IsAt(i)
  <2>1. PICK at \in DOMAIN ids : ids[at] = id
    BY <1>3 DEF Range
  <2>2. IsAt(at)
    BY <1>1, <2>1 DEF Distinct
  <2>3. pos \in DOMAIN ids /\ ids[pos] = id
    BY <2>1, <2>2
  <2>4. kept = [i \in 1..(n - 1) |-> IF i = pos THEN ids[n] ELSE ids[i]]
    BY <2>1 DEF SwapRemove
  <2> HIDE DEF pos, kept
  <2>5. n \in Nat \ {0} /\ pos \in 1..n
    BY <1>1, <2>3
  <2>6. /\ kept \in Seq(Nat) /\ Len(kept) = n - 1 /\ DOMAIN kept = 1..(n - 1)
        /\ \A i \in 1..(n - 1) : kept[i] = IF i = pos THEN ids[n] ELSE ids[i]
    BY <1>1, <2>4, <2>5
  <2>7. Distinct(kept)
    <3> SUFFICES ASSUME NEW i \in 1..(n - 1), NEW j \in 1..(n - 1), kept[i] = kept[j]
                 PROVE  i = j
      BY <2>6 DEF Distinct
    <3>1. i \in 1..n /\ j \in 1..n /\ n \in 1..n /\ i # n /\ j # n
      BY <2>5
    <3>2. CASE i # pos /\ j # pos
      BY <1>1, <2>6, <3>1, <3>2 DEF Distinct
    <3>3. CASE i = pos /\ j # pos
      BY <1>1, <2>6, <3>1, <3>3 DEF Distinct
    <3>4. CASE i # pos /\ j = pos
      BY <1>1, <2>6, <3>1, <3>4 DEF Distinct
    <3> QED BY <3>2, <3>3, <3>4
  <2>8. ASSUME NEW x \in Range(kept) PROVE x \in Range(ids) \ {id}
    <3>1. PICK i \in 1..(n - 1) : x = kept[i]
      BY <2>6 DEF Range
    <3>2. PICK j \in 1..n : x = ids[j] /\ j # pos
      <4>1. i \in 1..n /\ n \in 1..n /\ i # n
        BY <2>5
      <4>2. x = IF i = pos THEN ids[n] ELSE ids[i]
        BY <2>6, <3>1
      <4> QED BY <4>1, <4>2
    <3> QED BY <1>1, <2>3, <3>2 DEF Distinct, Range
  <2>9. ASSUME NEW x \in Range(ids) \ {id} PROVE x \in Range(kept)
    <3>1. PICK j \in 1..n : x = ids[j]
      BY <1>1 DEF Range
    <3>2. j # pos
      BY <2>3, <3>1
    <3>3. CASE j = n
      <4>1. pos \in 1..(n - 1)
        BY <1>1, <2>5, <3>2, <3>3, BelowTop
      <4>2. kept[pos] = IF pos = pos THEN ids[n] ELSE ids[pos]
        BY <2>6, <4>1, Zenon
      <4>3. kept[pos] = x
        BY <3>1, <3>3, <4>2
      <4> QED BY <2>6, <4>1, <4>3 DEF Range
    <3>4. CASE j # n
      <4>1. j \in 1..(n - 1)
        BY <1>1, <3>4, BelowTop
      <4>2. kept[j] = IF j = pos THEN ids[n] ELSE ids[j]
        BY <2>6, <4>1, Zenon
      <4>3. kept[j] = x
        BY <3>1, <3>2, <4>2, Zenon
      <4> QED BY <2>6, <4>1, <4>3 DEF Range
    <3> QED BY <3>3, <3>4
  <2> QED BY <1>3, <2>6, <2>7, <2>8, <2>9 DEF kept
<1> QED BY <1>2, <1>3

\* A leaf of the index holds no id twice.
LEMMA LeavesDistinct ==
  ASSUME OnePlace, NEW s \in DOMAIN trees, NEW p \in Paths
  PROVE  Distinct(trees[s][p])
BY DEF OnePlace, Distinct

\* The leaf of a thread loses the victim v and gets the new id, the map loses
\* v, and the thread is done.
LinkEffect(t, s, path, id, v) ==
  /\ pc[t] = "link" /\ pc'[t] = "idle" /\ op'[t].victim = NoVictim
  /\ shards' = shards /\ bodies' = bodies
  /\ s \in DOMAIN trees /\ path \in Paths
  /\ DOMAIN trees' = DOMAIN trees
  /\ \A r \in DOMAIN trees, q \in Paths :
       ~(r = s /\ q = path) => trees'[r][q] = trees[r][q]
  /\ trees'[s][path] \in Seq(Nat)
  /\ Range(trees'[s][path]) = (Range(trees[s][path]) \ {v}) \cup {id}
  /\ Distinct(trees'[s][path])
  /\ Len(trees'[s][path]) <= Cap
  /\ DOMAIN clusters' = DOMAIN clusters \ {v}
  /\ \A x \in DOMAIN clusters' : clusters'[x] = clusters[x]
  /\ id \in DOMAIN clusters /\ id # v /\ ~Listed(trees, id)
  /\ v \in DOMAIN clusters => v \in Range(trees[s][path])

\* This is what Link does.
LEMMA LinkFacts ==
  ASSUME IInv, SInv, NEW t \in Threads, Link(t),
         NEW s, s = op[t].shard, NEW path, path = Keys(op[t].line),
         NEW id, id = op[t].id, NEW v, v = op[t].victim.id
  PROVE  LinkEffect(t, s, path, id, v)
<1> DEFINE kept == SwapRemove(trees[s][path], v)
           leaf == Append(kept, id)
<1>1. TypeOK /\ op[t] \in Ops /\ pc[t] = "link" /\ pc'[t] = "idle"
  BY OpType DEF IInv, Link, Return, Goto, TypeOK
<1>2. /\ s \in DOMAIN trees /\ path \in Paths /\ trees[s][path] \in Seq(Nat)
      /\ v \in Nat /\ id \in Nat
  BY <1>1, LeafTypes DEF InShard, Ops
<1>3. op'[t].victim = NoVictim
  BY <1>1 DEF Link, Return, TypeOK, NoOp
<1>4. /\ id \in DOMAIN clusters /\ ~Listed(trees, id)
      /\ IF v = 0 THEN Len(trees[s][path]) < Cap ELSE v \in Range(trees[s][path])
  BY <1>1 DEF SInv, EntrantsApart, Entering, VictimsChosen, VictimChosen, Leaf
<1>5. Range(trees[s][path]) \subseteq DOMAIN clusters /\ 0 \notin DOMAIN clusters
  BY <1>2, MapPositive DEF SInv, LeavesLive
<1>6. id # v /\ (v \in DOMAIN clusters => v \in Range(trees[s][path]))
  BY <1>2, <1>4, <1>5 DEF Listed
<1>7. Distinct(trees[s][path])
  BY <1>2, LeavesDistinct DEF SInv
<1>8. /\ kept \in Seq(Nat) /\ Range(kept) = Range(trees[s][path]) \ {v}
      /\ Distinct(kept) /\ Len(kept) < Cap
  <2>1. /\ kept \in Seq(Nat) /\ Range(kept) = Range(trees[s][path]) \ {v}
        /\ Distinct(kept)
        /\ Len(kept) = IF v \in Range(trees[s][path]) THEN Len(trees[s][path]) - 1
                       ELSE Len(trees[s][path])
    BY <1>2, <1>7, SwapRemoveRemoves
  <2>2. Len(trees[s][path]) <= Cap /\ Len(trees[s][path]) \in Nat /\ Cap \in Nat
    BY <1>2, MinerAssumption DEF SInv, LeafWithinCap
  <2>3. v = 0 => v \notin Range(trees[s][path])
    BY <1>5
  <2> QED BY <1>4, <2>1, <2>2, <2>3
<1> HIDE DEF kept
<1>9. id \notin Range(kept)
  BY <1>2, <1>4, <1>8 DEF Listed
<1>10. /\ leaf \in Seq(Nat) /\ Range(leaf) = Range(kept) \cup {id}
       /\ Distinct(leaf) /\ Len(leaf) <= Cap
  <2>1. /\ leaf \in Seq(Nat) /\ Len(leaf) = Len(kept) + 1
        /\ DOMAIN leaf = 1..(Len(kept) + 1)
        /\ \A i \in 1..Len(kept) : leaf[i] = kept[i]
        /\ leaf[Len(kept) + 1] = id
    BY <1>2, <1>8, AppendProperties
  <2> HIDE DEF leaf
  <2>2. Len(kept) \in Nat /\ DOMAIN kept = 1..Len(kept) /\ Cap \in Nat
    BY <1>8, MinerAssumption
  <2>3. Len(leaf) <= Cap
    BY <1>8, <2>1, <2>2
  <2>4. \A i \in 1..Len(kept) : kept[i] # id
    BY <1>9, <2>2 DEF Range
  <2>5. Distinct(leaf)
    BY <1>8, <2>1, <2>2, <2>4 DEF Distinct
  <2>6. Range(leaf) = Range(kept) \cup {id}
    <3>1. ASSUME NEW x \in Range(leaf) PROVE x \in Range(kept) \cup {id}
      BY <2>1, <2>2 DEF Range
    <3>2. ASSUME NEW x \in Range(kept) PROVE x \in Range(leaf)
      BY <2>1, <2>2 DEF Range
    <3>3. id \in Range(leaf)
      BY <2>1, <2>2 DEF Range
    <3> QED BY <3>1, <3>2, <3>3
  <2> QED BY <2>1, <2>3, <2>5, <2>6
<1> HIDE DEF leaf
<1>11. /\ DOMAIN trees' = DOMAIN trees /\ trees'[s][path] = leaf
       /\ \A r \in DOMAIN trees, q \in Paths :
            ~(r = s /\ q = path) => trees'[r][q] = trees[r][q]
  <2> DEFINE tree == [trees[s] EXCEPT ![path] = leaf]
  <2>1. trees' = [trees EXCEPT ![s] = tree]
    BY <1>2 DEF Link, leaf, kept
  <2>2. trees[s] \in [Paths -> Seq(Nat)]
    BY <1>1, <1>2 DEF TypeOK
  <2>3. tree[path] = leaf /\ \A q \in Paths \ {path} : tree[q] = trees[s][q]
    BY <1>2, <2>2
  <2> HIDE DEF tree
  <2> QED BY <1>2, <2>1, <2>3
<1>12. /\ DOMAIN clusters' = DOMAIN clusters \ {v}
       /\ \A x \in DOMAIN clusters' : clusters'[x] = clusters[x]
       /\ shards' = shards /\ bodies' = bodies
  BY DEF Link, Without
<1> QED BY <1>1, <1>2, <1>3, <1>4, <1>6, <1>8, <1>10, <1>11, <1>12 DEF LinkEffect

\* So the victim leaves, the new cluster enters, and no other thread is
\* disturbed by it.
LEMMA LinkKept ==
  ASSUME IInv, SInv, NEW t \in Threads, Link(t), Step(t)
  PROVE  SInv'
<1>0. PICK s, path, id, v : /\ s = op[t].shard /\ path = Keys(op[t].line)
                            /\ id = op[t].id /\ v = op[t].victim.id
  OBVIOUS
<1>1. LinkEffect(t, s, path, id, v)
  BY <1>0, LinkFacts
<1> USE DEF LinkEffect
<1>2. \A u \in Threads \ {t} : pc'[u] = pc[u] /\ op'[u] = op[u]
  BY OthersStay DEF IInv
<1>3. ~Entering(t)' /\ Entering(t) /\ ~Minted(t)' /\ pc'[t] \notin Writing /\ pc[t] \in Writing
  BY <1>1 DEF Entering, Minted, Writing
<1>4. Exclusive' /\ IdsPositive' /\ ShardsReached'
  BY <1>1, <1>2, <1>3 DEF SInv, Exclusive, IdsPositive, Minted, ShardsReached
<1>5. LeafWithinCap'
  BY <1>1 DEF SInv, LeafWithinCap
<1>6. \* The victim is in no other leaf.
      \A r \in DOMAIN trees, q \in Paths :
        ~(r = s /\ q = path) => v \notin Range(trees[r][q])
  <2> SUFFICES ASSUME NEW r \in DOMAIN trees, NEW q \in Paths, ~(r = s /\ q = path),
                      v \in Range(trees[r][q])
               PROVE  FALSE
    OBVIOUS
  <2>1. v \in Range(trees[s][path])
    BY <1>1 DEF SInv, LeavesLive
  <2> QED BY <1>1, <2>1 DEF SInv, OnePlace, Range
<1>7. \A x : Listed(trees', x) <=> (Listed(trees, x) /\ x # v) \/ x = id
  <2>1. ASSUME NEW x, Listed(trees', x) PROVE (Listed(trees, x) /\ x # v) \/ x = id
    <3>1. PICK r \in DOMAIN trees, q \in Paths : x \in Range(trees'[r][q])
      BY <1>1, <2>1 DEF Listed
    <3>2. CASE r = s /\ q = path
      BY <1>1, <3>1, <3>2 DEF Listed
    <3>3. CASE ~(r = s /\ q = path)
      BY <1>1, <1>6, <3>1, <3>3 DEF Listed
    <3> QED BY <3>2, <3>3
  <2>2. ASSUME NEW x, Listed(trees, x), x # v PROVE Listed(trees', x)
    <3>1. PICK r \in DOMAIN trees, q \in Paths : x \in Range(trees[r][q])
      BY <2>2 DEF Listed
    <3>2. CASE r = s /\ q = path
      BY <1>1, <2>2, <3>1, <3>2 DEF Listed
    <3>3. CASE ~(r = s /\ q = path)
      BY <1>1, <3>1, <3>3 DEF Listed
    <3> QED BY <3>2, <3>3
  <2>3. Listed(trees', id)
    BY <1>1 DEF Listed
  <2> QED BY <2>1, <2>2, <2>3
<1>8. LeavesLive'
  <2> SUFFICES ASSUME NEW r \in DOMAIN trees, NEW q \in Paths,
                      NEW x \in Range(trees'[r][q])
               PROVE  x \in DOMAIN clusters'
    BY <1>1 DEF LeavesLive
  <2>1. Listed(trees', x)
    BY <1>1 DEF Listed
  <2>2. Listed(trees, x) => x \in DOMAIN clusters
    BY DEF Listed, SInv, LeavesLive
  <2> QED BY <1>1, <1>7, <2>1, <2>2
<1>9. OnePlace'
  <2>1. \A r \in DOMAIN trees, q \in Paths :
          ~(r = s /\ q = path) =>
            Range(trees[r][q]) \cap Range(trees'[s][path]) = {}
    <3> SUFFICES ASSUME NEW r \in DOMAIN trees, NEW q \in Paths, ~(r = s /\ q = path),
                        NEW x \in Range(trees[r][q]), x \in Range(trees'[s][path])
                 PROVE  FALSE
      OBVIOUS
    <3>1. x # id
      BY <1>1 DEF Listed
    <3>2. x \in Range(trees[s][path])
      BY <1>1, <3>1
    <3> QED BY <1>1, <3>2 DEF SInv, OnePlace, Range
  <2> SUFFICES ASSUME NEW r \in DOMAIN trees, NEW w \in DOMAIN trees,
                      NEW p \in Paths, NEW q \in Paths,
                      NEW i \in DOMAIN trees'[r][p], NEW j \in DOMAIN trees'[w][q],
                      trees'[r][p][i] = trees'[w][q][j]
               PROVE  r = w /\ p = q /\ i = j
    BY <1>1 DEF OnePlace
  <2>2. CASE (r = s /\ p = path) /\ (w = s /\ q = path)
    BY <1>1, <2>2 DEF Distinct
  <2>3. CASE (r = s /\ p = path) /\ ~(w = s /\ q = path)
    <3>1. trees'[w][q] = trees[w][q]
      BY <1>1, <2>3
    <3> QED BY <2>1, <2>3, <3>1 DEF Range
  <2>4. CASE ~(r = s /\ p = path) /\ (w = s /\ q = path)
    <3>1. trees'[r][p] = trees[r][p]
      BY <1>1, <2>4
    <3> QED BY <2>1, <2>4, <3>1 DEF Range
  <2>5. CASE ~(r = s /\ p = path) /\ ~(w = s /\ q = path)
    <3>1. trees'[w][q] = trees[w][q] /\ trees'[r][p] = trees[r][p]
      BY <1>1, <2>5
    <3> QED BY <3>1 DEF SInv, OnePlace
  <2> QED BY <2>2, <2>3, <2>4, <2>5
<1>10. \A u \in Threads : Entering(u)' => u # t /\ Entering(u) /\ op'[u] = op[u]
  BY <1>2, <1>3 DEF Entering
<1>11. \A u \in Threads : Entering(u) /\ u # t => Entering(u)' /\ op'[u] = op[u]
  BY <1>2 DEF Entering
<1>12. MapReached'
  <2> SUFFICES ASSUME NEW x \in DOMAIN clusters'
               PROVE  Listed(trees', x) \/ \E u \in Threads : Entering(u)' /\ op'[u].id = x
    BY DEF MapReached
  <2>1. x \in DOMAIN clusters /\ x # v
    BY <1>1
  <2>2. Listed(trees, x) \/ \E u \in Threads : Entering(u) /\ op[u].id = x
    BY <2>1 DEF SInv, MapReached
  <2> QED BY <1>0, <1>7, <1>11, <2>1, <2>2
<1>13. EntrantsApart'
  <2> SUFFICES ASSUME NEW u \in Threads, Entering(u)'
               PROVE  /\ op'[u].id \in DOMAIN clusters' /\ ~Listed(trees', op'[u].id)
                      /\ \A w \in Threads : Entering(w)' /\ op'[w].id = op'[u].id => w = u
    BY DEF EntrantsApart
  <2>1. u # t /\ Entering(u) /\ op'[u] = op[u]
    BY <1>10
  <2>2. op[u].id \in DOMAIN clusters /\ ~Listed(trees, op[u].id) /\ op[u].id # id
    BY <1>0, <1>3, <2>1 DEF SInv, EntrantsApart
  <2>3. op[u].id # v
    BY <1>1, <2>2 DEF Listed
  <2>4. \A w \in Threads : Entering(w)' /\ op'[w].id = op'[u].id => w = u
    BY <1>10, <2>1 DEF SInv, EntrantsApart
  <2> QED BY <1>1, <1>7, <2>1, <2>2, <2>3, <2>4
<1>14. ASSUME NEW u \in Threads PROVE VictimChosen(u)'
  <2>1. CASE u = t
    BY <1>1, <2>1 DEF VictimChosen
  <2>2. CASE u # t
    <3>1. pc'[u] = pc[u] /\ op'[u] = op[u]
      BY <1>2, <2>2
    <3>2. Entering(u) => Leaf(u)' = Leaf(u)
      <4> SUFFICES ASSUME Entering(u) PROVE Leaf(u)' = Leaf(u)
        OBVIOUS
      <4>1. op[u].shard # s
        BY <1>0, <1>3, <2>2 DEF SInv, Exclusive, Entering, Writing
      <4>2. op[u].shard \in DOMAIN trees /\ Keys(op[u].line) \in Paths
        BY LeafTypes DEF Entering, InShard
      <4> QED BY <1>1, <3>1, <4>1, <4>2 DEF Leaf
    <3> QED BY <3>1, <3>2 DEF SInv, VictimsChosen, VictimChosen, Entering
  <2> QED BY <2>1, <2>2
<1> QED BY <1>4, <1>5, <1>8, <1>9, <1>12, <1>13, <1>14 DEF SInv, VictimsChosen

-----------------------------------------------------------------------------
(* The specification keeps the structural invariant.                       *)

\* Every step of every thread keeps the structural invariant.
LEMMA NextSInv ==
  ASSUME IInv, IInv', SInv, [Next]_vars
  PROVE  SInv'
<1>1. ASSUME NEW t \in Threads, Call(t) PROVE SInv'
  <2>1. ~Entering(t)
    BY <1>1 DEF Call, Entering
  <2> QED BY <1>1, <2>1, OutsideKept DEF OutsideStep
<1>2. ASSUME NEW t \in Threads, Step(t) PROVE SInv'
  <2>1. CASE OutsideStep(t)
    <3>1. ~Entering(t)
      BY <2>1 DEF OutsideStep, Entering, Call, GetShard, ReadLeaf, EndScan, Hit, Touch,
                  ObserveFirst, ObserveLast, Decide, Upgrade, Lookup, Params,
                  ShowFirst, ShowLast
    <3> QED BY <1>2, <2>1, <3>1, OutsideKept
  <2>2. CASE \/ WriteLeaf(t) \/ EndRescan(t) \/ NewId(t) \/ Stamp(t)
             \/ Visit(t) /\ pc[t] = "rescan"
    BY <1>2, <2>2, InsideKept
  <2>3. CASE EnterShard(t)
    BY <1>2, <2>3, EnterKept
  <2>4. CASE Publish(t) \/ Consider(t) \/ Link(t)
    BY <1>2, <2>4, PublishKept, ConsiderKept, LinkKept
  <2>5. Visit(t) => pc[t] \in {"scan", "rescan"}
    BY DEF Visit
  <2> QED BY <1>2, <2>1, <2>2, <2>3, <2>4, <2>5 DEF Step, OutsideStep
<1>3. CASE UNCHANGED vars
  <2>1. UNCHANGED <<shards, trees, clusters, bodies, pc, op>>
    BY <1>3 DEF vars
  <2>2. Exclusive' /\ IdsPositive' /\ ShardsReached' /\ LeafWithinCap'
    BY <2>1 DEF SInv, Exclusive, IdsPositive, Minted, ShardsReached, LeafWithinCap
  <2>3. LeavesLive' /\ OnePlace' /\ MapReached' /\ EntrantsApart'
    BY <2>1 DEF SInv, LeavesLive, OnePlace, MapReached, EntrantsApart, Listed, Entering
  <2>4. VictimsChosen'
    BY <2>1 DEF SInv, VictimsChosen, VictimChosen, Entering, Leaf
  <2> QED BY <2>2, <2>3, <2>4 DEF SInv
<1>4. Rest => UNCHANGED vars
  BY DEF Rest
<1> QED BY <1>1, <1>2, <1>3, <1>4 DEF Next

\* In every reachable state of the miner the structural invariant holds.
LEMMA StructureInductive == Spec => [](IInv /\ SInv)
<1>1. Init => IInv /\ SInv
  BY InitIInv, InitSInv
<1>2. IInv /\ SInv /\ [Next]_vars => (IInv /\ SInv)'
  BY NextIInv, NextSInv
<1> QED BY <1>1, <1>2, PTL DEF Spec

-----------------------------------------------------------------------------
(* What follows for the callers.                                           *)

\* However many threads add to a leaf at once, it never holds more clusters
\* than max_clusters_per_leaf: the one who links has seen the leaf full, or
\* not, under the write guard that it still holds.
THEOREM LeavesStayWithinCap == Spec => []LeafWithinCap
<1>1. SInv => LeafWithinCap
  BY DEF SInv
<1> QED BY <1>1, StructureInductive, PTL

\* The two invariants say that the map and the leaves agree.
LEMMA MapFollows ==
  ASSUME IInv, SInv
  PROVE  MapIsTheLeaves
<1> DEFINE leafOf(x) == trees[shards[x[1]]][x[2]]
           places == {x \in (DOMAIN shards) \X Paths \X (1..(Cap + 1)) :
                        x[3] \in DOMAIN leafOf(x)}
           idAt(x) == leafOf(x)[x[3]]
           entering == {op[t].id : t \in {u \in Threads : pc[u] \in {"evict", "link"}}}
<1>1. \A c \in DOMAIN shards : shards[c] \in DOMAIN trees
  BY DEF IInv, TypeOK
<1>2. ASSUME NEW x \in places
      PROVE  /\ x[1] \in DOMAIN shards /\ x[2] \in Paths
             /\ shards[x[1]] \in DOMAIN trees
             /\ x = <<x[1], x[2], x[3]>>
             /\ x[3] \in DOMAIN leafOf(x)
  BY <1>1
<1>3. ASSUME NEW x \in places, NEW y \in places, idAt(x) = idAt(y)
      PROVE  x = y
  <2> HIDE DEF places
  <2>1. shards[x[1]] = shards[y[1]] /\ x[2] = y[2] /\ x[3] = y[3]
    BY <1>2, <1>3 DEF SInv, OnePlace
  <2>2. x[1] = y[1]
    BY <1>2, <2>1 DEF IInv, ShardsDistinct
  <2> QED BY <1>2, <2>1, <2>2
<1>4. ASSUME NEW x \in places PROVE idAt(x) \in DOMAIN clusters
  <2> HIDE DEF places
  <2> QED BY <1>2 DEF SInv, LeavesLive, Range
<1>5. entering \subseteq DOMAIN clusters
  BY DEF SInv, EntrantsApart, Entering
<1>6. ASSUME NEW id \in DOMAIN clusters
      PROVE  id \in {idAt(x) : x \in places} \cup entering
  <2>1. CASE \E t \in Threads : Entering(t) /\ op[t].id = id
    BY <2>1 DEF Entering
  <2>2. CASE Listed(trees, id)
    <3>1. PICK s \in DOMAIN trees, p \in Paths : id \in Range(trees[s][p])
      BY <2>2 DEF Listed
    <3>2. PICK i \in DOMAIN trees[s][p] : trees[s][p][i] = id
      BY <3>1 DEF Range
    <3>3. PICK c \in DOMAIN shards : shards[c] = s
      BY DEF SInv, ShardsReached
    <3>4. i \in 1..(Cap + 1)
      <4>1. trees[s][p] \in Seq(Nat) /\ Len(trees[s][p]) <= Cap
        BY LeafTypes DEF SInv, LeafWithinCap
      <4> QED BY <3>2, <4>1, MinerAssumption
    <3>5. <<c, p, i>> \in places /\ idAt(<<c, p, i>>) = id
      BY <3>1, <3>2, <3>3, <3>4
    <3> QED BY <3>5
  <2> QED BY <2>1, <2>2 DEF SInv, MapReached
<1>7. DOMAIN clusters = {idAt(x) : x \in places} \cup entering
  BY <1>4, <1>5, <1>6
<1> QED BY <1>3, <1>7 DEF MapIsTheLeaves

\* The map and the leaves agree at every step, but for the ids in the hands of
\* a thread that is about to link them: an eviction leaves no orphan in
\* clusters_by_id and no dangling id in a leaf, and no id stands in two places.
THEOREM IndexAgrees == Spec => []MapIsTheLeaves
<1>1. IInv /\ SInv => MapIsTheLeaves
  BY MapFollows
<1> QED BY <1>1, StructureInductive, PTL

-----------------------------------------------------------------------------
(* Where a cluster is filed.  A body never leaves the path that its first  *)
(* line had, for generalizing turns into the wildcard only tokens whose    *)
(* key was the wildcard already.                                           *)

\* The body of the id is looked up under the path.
FiledIn(bs, id, p) == \E b \in DOMAIN bs : bs[b].id = id /\ Keys(bs[b].tokens) = p

\* From one heap to the next no body changes its id or its path.
KeysKept(bs, cs) ==
  \A b \in DOMAIN bs :
    /\ b \in DOMAIN cs
    /\ cs[b].id = bs[b].id
    /\ Keys(cs[b].tokens) = Keys(bs[b].tokens)

\* Where a thread of an add still has its best match in hand.
Holding == Scanning \cup (Applying \ {"params"})

ThreadFiled(t) ==
  LET o == op[t] IN
  /\ pc[t] \in Holding /\ o.best.ref # 0 =>
       /\ o.best.ref \in DOMAIN bodies
       /\ Keys(bodies[o.best.ref].tokens) = Keys(o.line)
  /\ pc[t] \in {"scan", "rescan"} =>
       \A id \in Range(o.todo) : FiledIn(bodies, id, Keys(o.line))
  /\ Entering(t) => FiledIn(bodies, o.id, Keys(o.line))

ThreadsFiled == \A t \in Threads : ThreadFiled(t)

LeavesFiled ==
  \A s \in DOMAIN trees, p \in Paths :
    \A id \in Range(trees[s][p]) : FiledIn(bodies, id, p)

KInv == LeavesFiled /\ ThreadsFiled


-----------------------------------------------------------------------------
(* No body leaves its path.                                                *)

\* What is filed stays filed.
LEMMA FiledStays ==
  ASSUME NEW bs, NEW cs, KeysKept(bs, cs), NEW id, NEW p, FiledIn(bs, id, p)
  PROVE  FiledIn(cs, id, p)
BY DEF KeysKept, FiledIn

\* The empty miner files nothing.
LEMMA InitKInv == Init => KInv
BY DEF Init, KInv, LeavesFiled, ThreadsFiled, ThreadFiled, Holding, Scanning, Applying,
       Entering, NoOp, NoBest

\* No step moves a body to another path.
LEMMA NextKeysKept ==
  ASSUME IInv, SInv, KInv, [Next]_vars
  PROVE  KeysKept(bodies, bodies')
<1>1. ASSUME UNCHANGED bodies PROVE KeysKept(bodies, bodies')
  BY <1>1 DEF KeysKept
<1>2. ASSUME NEW t \in Threads, Call(t) \/ Step(t) PROVE KeysKept(bodies, bodies')
  <2>1. CASE Upgrade(t)
    <3> DEFINE ref == op[t].best.ref
               tmpl == bodies[ref].tokens
    <3>1. pc[t] = "upgrade" /\ ThreadSound(t) /\ ThreadFiled(t)
      BY <2>1 DEF Upgrade, IInv, ThreadsSound, KInv, ThreadsFiled
    <3>2. /\ ref \in DOMAIN bodies /\ tmpl \in Line
          /\ op[t].line \in Line /\ Len(tmpl) = Len(op[t].line)
      BY <3>1, ApplierBody, BodyFields, LineTypes
         DEF ThreadSound, HasLine, Applying, Similar
    <3>3. bodies \in Seq(Body)
      BY DEF IInv, TypeOK
    <3>4. Keys(tmpl) = Keys(op[t].line)
      BY <3>1, <3>2, <3>3 DEF ThreadFiled, Holding, Applying
    <3>5. Keys(NewTokens(op[t].needs, tmpl, op[t].line)) = Keys(tmpl)
      BY <3>2, <3>4, KeysStable DEF NewTokens
    <3> QED BY <2>1, <3>5, UpgradeTokens DEF KeysKept, GrowsTo
  <2>2. CASE Touch(t) \/ ObserveFirst(t) \/ ObserveLast(t)
    BY <2>2, TouchingTokens DEF KeysKept
  <2>3. CASE Publish(t)
    BY <2>3, PublishFacts DEF KeysKept
  <2>4. CASE Call(t) \/ GetShard(t) \/ EnterShard(t) \/ ReadLeaf(t) \/ Visit(t)
    BY <2>4, <1>1 DEF Call, GetShard, EnterShard, ReadLeaf, Visit
  <2>5. CASE EndScan(t) \/ WriteLeaf(t) \/ EndRescan(t) \/ NewId(t) \/ Stamp(t)
    BY <2>5, <1>1 DEF EndScan, WriteLeaf, EndRescan, NewId, Stamp
  <2>6. CASE Consider(t) \/ Link(t) \/ Hit(t) \/ Decide(t)
    BY <2>6, <1>1 DEF Consider, Link, Hit, Decide
  <2>7. CASE Lookup(t) \/ Params(t) \/ ShowFirst(t) \/ ShowLast(t)
    BY <2>7, <1>1 DEF Lookup, Params, ShowFirst, ShowLast
  <2> QED BY <1>2, <2>1, <2>2, <2>3, <2>4, <2>5, <2>6, <2>7 DEF Step
<1>3. CASE Rest \/ UNCHANGED vars
  BY <1>3, <1>1 DEF Rest, vars
<1> QED BY <1>2, <1>3 DEF Next

\* A thread that keeps its best match and its line keeps what it holds.
LEMMA HoldingStays ==
  ASSUME NEW u \in Threads, KeysKept(bodies, bodies'), ThreadFiled(u),
         op'[u].best = op[u].best, op'[u].line = op[u].line, pc[u] \in Holding
  PROVE  op'[u].best.ref # 0 =>
           /\ op'[u].best.ref \in DOMAIN bodies'
           /\ Keys(bodies'[op'[u].best.ref].tokens) = Keys(op'[u].line)
BY DEF KeysKept, ThreadFiled

\* A thread that does not move keeps what it knows of paths.
LEMMA BystanderFiled ==
  ASSUME NEW u \in Threads, KeysKept(bodies, bodies'), ThreadFiled(u),
         pc'[u] = pc[u], op'[u] = op[u]
  PROVE  ThreadFiled(u)'
<1>1. pc'[u] \in Holding /\ op'[u].best.ref # 0 =>
        /\ op'[u].best.ref \in DOMAIN bodies'
        /\ Keys(bodies'[op'[u].best.ref].tokens) = Keys(op'[u].line)
  BY HoldingStays
<1>2. pc'[u] \in {"scan", "rescan"} =>
        \A id \in Range(op'[u].todo) : FiledIn(bodies', id, Keys(op'[u].line))
  BY FiledStays DEF ThreadFiled
<1>3. Entering(u)' => FiledIn(bodies', op'[u].id, Keys(op'[u].line))
  BY FiledStays DEF ThreadFiled, Entering
<1> QED BY <1>1, <1>2, <1>3 DEF ThreadFiled

\* Steps after which a thread has the best match in hand that it had before,
\* or none.
LEMMA HoldingSteps ==
  ASSUME TypeOK, NEW t \in Threads,
         \/ GetShard(t) \/ EnterShard(t) \/ EndScan(t) \/ EndRescan(t)
         \/ Hit(t) \/ Touch(t) \/ ObserveFirst(t) \/ ObserveLast(t) \/ Decide(t)
  PROVE  /\ pc[t] \in Holding
         /\ pc'[t] \notin {"scan", "rescan", "evict", "link"}
         /\ pc'[t] \in Holding => op'[t].best = op[t].best /\ op'[t].line = op[t].line
<1> USE DEF TypeOK, Goto, Holding, Scanning, Applying
<1>1. op[t] \in Ops
  BY OpType
<1>2. ASSUME NEW result, Return(t, result) PROVE pc'[t] = "idle"
  BY <1>2 DEF Return
<1>3. CASE GetShard(t)
  <2>1. /\ pc[t] = "shard"
        /\ \/ op' = [op EXCEPT ![t].shard = shards[Len(op[t].line)]] /\ Goto(t, "read")
           \/ op' = op /\ Goto(t, "enter")
           \/ Return(t, Answer(0, "miss"))
    BY <1>3 DEF GetShard
  <2>2. ASSUME NEW n, op' = [op EXCEPT ![t].shard = n]
        PROVE  op'[t].best = op[t].best /\ op'[t].line = op[t].line
    BY <1>1, <2>2 DEF Ops
  <2> QED BY <1>2, <2>1, <2>2
<1>4. CASE EnterShard(t)
  <2>1. PICK n : op'[t] = [op[t] EXCEPT !.shard = n]
    BY <1>4 DEF EnterShard
  <2> QED BY <1>1, <1>4, <2>1 DEF EnterShard, Ops
<1>5. CASE EndScan(t)
  BY <1>2, <1>5 DEF EndScan
<1>6. CASE EndRescan(t)
  BY <1>6 DEF EndRescan
<1>7. CASE Hit(t)
  BY <1>1, <1>7 DEF Hit, Ops
<1>8. CASE Touch(t)
  BY <1>8 DEF Touch
<1>9. CASE ObserveFirst(t)
  BY <1>9 DEF ObserveFirst
<1>10. CASE ObserveLast(t)
  BY <1>10 DEF ObserveLast
<1>11. CASE Decide(t)
  <2> DEFINE needs == WouldGeneralize(bodies[op[t].best.ref].tokens, op[t].line)
  <2>1. ASSUME NEW n, op' = [op EXCEPT ![t].needs = n]
        PROVE  op'[t].best = op[t].best /\ op'[t].line = op[t].line
    BY <1>1, <2>1 DEF Ops
  <2>2. /\ pc[t] = "decide"
        /\ \/ op' = [op EXCEPT ![t].needs = needs] /\ Goto(t, "upgrade")
           \/ Return(t, Answer(op[t].best.id, "None"))
    BY <1>11 DEF Decide
  <2> HIDE DEF needs
  <2> QED BY <1>2, <2>1, <2>2
<1> QED BY <1>3, <1>4, <1>5, <1>6, <1>7, <1>8, <1>9, <1>10, <1>11

\* Steps after which a thread has no best match in hand.
LEMMA EmptyHandedSteps ==
  ASSUME TypeOK, NEW t \in Threads,
         \/ NewId(t) \/ Stamp(t) \/ Upgrade(t) \/ Lookup(t) \/ Params(t)
         \/ ShowFirst(t) \/ ShowLast(t) \/ Link(t)
  PROVE  pc'[t] \in {"stamp", "publish", "idle", "params", "load", "show"}
BY DEF TypeOK, Goto, Return, NewId, Stamp, Upgrade, Lookup, Params, ShowFirst,
       ShowLast, Link

\* The ids of the leaf of a thread are filed under the path of its line.
LEMMA LeafFiled ==
  ASSUME IInv, KInv, NEW t \in Threads, pc[t] \in InShard
  PROVE  \A id \in Range(Leaf(t)) : FiledIn(bodies, id, Keys(op[t].line))
BY LeafTypes DEF KInv, LeavesFiled, Leaf

\* An id that is filed under a path and found in the map leads to a body there.
LEMMA FiledBody ==
  ASSUME IInv, NEW id \in DOMAIN clusters, NEW p, FiledIn(bodies, id, p)
  PROVE  /\ clusters[id] \in DOMAIN bodies
         /\ Keys(bodies[clusters[id]].tokens) = p
<1>1. clusters[id] \in DOMAIN bodies /\ bodies[clusters[id]].id = id
  BY DEF IInv, TypeOK, MapNamesBodies
<1> QED BY <1>1 DEF FiledIn, IInv, IdsUnique

\* What Visit does to its thread.
LEMMA VisitFacts ==
  ASSUME TypeOK, NEW t \in Threads, Visit(t)
  PROVE  /\ pc[t] \in {"scan", "rescan"} /\ pc' = pc /\ bodies' = bodies
         /\ op[t].todo \in Seq(Nat) /\ op[t].todo # <<>>
         /\ Head(op[t].todo) \in Range(op[t].todo)
         /\ Range(op[t].todo) = Range(Tail(op[t].todo)) \cup {Head(op[t].todo)}
         /\ op'[t].todo = Tail(op[t].todo)
         /\ op'[t].best = Better(op[t].best, Head(op[t].todo), op[t].line)
         /\ op'[t].line = op[t].line /\ op'[t].shard = op[t].shard
<1> DEFINE todo == op[t].todo
           new == Better(op[t].best, Head(todo), op[t].line)
<1>1. op[t] \in Ops /\ todo \in Seq(Nat) /\ todo # <<>>
  BY OpType DEF Visit, Ops
<1>2. op'[t] = [op[t] EXCEPT !.todo = Tail(todo), !.best = new]
  BY DEF Visit, TypeOK
<1> HIDE DEF new
<1>3. /\ op'[t].todo = Tail(todo) /\ op'[t].best = new
      /\ op'[t].line = op[t].line /\ op'[t].shard = op[t].shard
  BY <1>1, <1>2 DEF Ops
<1>4. /\ Len(todo) \in Nat \ {0} /\ DOMAIN todo = 1..Len(todo)
      /\ Head(todo) = todo[1]
      /\ DOMAIN Tail(todo) = 1..(Len(todo) - 1)
      /\ \A i \in 1..(Len(todo) - 1) : Tail(todo)[i] = todo[i + 1]
  BY <1>1
<1>5. Range(todo) = Range(Tail(todo)) \cup {Head(todo)}
  <2>1. ASSUME NEW x \in Range(todo) PROVE x \in Range(Tail(todo)) \cup {Head(todo)}
    <3>1. PICK i \in 1..Len(todo) : x = todo[i]
      BY <1>4 DEF Range
    <3>2. CASE i # 1
      <4>1. i - 1 \in 1..(Len(todo) - 1) /\ Tail(todo)[i - 1] = x
        BY <1>4, <3>1, <3>2
      <4> QED BY <1>4, <4>1 DEF Range
    <3> QED BY <1>4, <3>1, <3>2
  <2>2. ASSUME NEW x \in Range(Tail(todo)) PROVE x \in Range(todo)
    <3>1. PICK i \in 1..(Len(todo) - 1) : x = todo[i + 1]
      BY <1>4, <2>2 DEF Range
    <3>2. i + 1 \in DOMAIN todo
      BY <1>4
    <3> QED BY <3>1, <3>2 DEF Range
  <2>3. Head(todo) \in Range(todo)
    BY <1>4 DEF Range
  <2> QED BY <2>1, <2>2, <2>3
<1> QED BY <1>1, <1>3, <1>5 DEF Visit, new

\* Whatever the step, its thread knows the path of what it holds.
LEMMA MoverFiled ==
  ASSUME IInv, SInv, KInv, NEW t \in Threads, Call(t) \/ Step(t),
         KeysKept(bodies, bodies')
  PROVE  ThreadFiled(t)'
<1>1. TypeOK /\ ThreadFiled(t) /\ op[t] \in Ops
  BY OpType DEF IInv, KInv, ThreadsFiled
<1>2. CASE Call(t)
  <2>1. ASSUME NEW kind, NEW l, NEW m, NEW e
        PROVE  Request(kind, l, m, e).best.ref = 0
    BY DEF Request, NoOp, NoBest
  <2>2. PICK kind \in Kinds :
          \/ /\ \E l \in Lines, m \in Members \cup {None}, e \in Events \cup {None} :
                  op' = [op EXCEPT ![t] = Request(kind, l, m, e)]
             /\ Goto(t, "shard")
          \/ /\ \E l \in Lines : op' = [op EXCEPT ![t] = Request(kind, l, None, None)]
             /\ Goto(t, "shard")
          \/ Goto(t, "lookup")
    BY <1>2, Zenon DEF Call
  <2>3. CASE Goto(t, "lookup")
    <3>1. pc'[t] = "lookup"
      BY <1>1, <2>3 DEF Goto, TypeOK
    <3> QED BY <3>1 DEF ThreadFiled, Holding, Scanning, Applying, Entering
  <2>4. CASE /\ \E l, m, e : op' = [op EXCEPT ![t] = Request(kind, l, m, e)]
             /\ Goto(t, "shard")
    <3>1. op'[t].best.ref = 0 /\ pc'[t] = "shard"
      BY <1>1, <2>1, <2>4 DEF Goto, TypeOK
    <3> QED BY <3>1 DEF ThreadFiled, Entering
  <2> QED BY <2>2, <2>3, <2>4
<1>3. CASE \/ GetShard(t) \/ EnterShard(t) \/ EndScan(t) \/ EndRescan(t)
           \/ Hit(t) \/ Touch(t) \/ ObserveFirst(t) \/ ObserveLast(t) \/ Decide(t)
  <2>1. /\ pc[t] \in Holding
        /\ pc'[t] \notin {"scan", "rescan", "evict", "link"}
        /\ pc'[t] \in Holding => op'[t].best = op[t].best /\ op'[t].line = op[t].line
    BY <1>1, <1>3, HoldingSteps
  <2>2. pc'[t] \in Holding /\ op'[t].best.ref # 0 =>
          /\ op'[t].best.ref \in DOMAIN bodies'
          /\ Keys(bodies'[op'[t].best.ref].tokens) = Keys(op'[t].line)
    BY <1>1, <2>1, HoldingStays
  <2> QED BY <2>1, <2>2 DEF ThreadFiled, Entering
<1>4. CASE \/ NewId(t) \/ Stamp(t) \/ Upgrade(t) \/ Lookup(t) \/ Params(t)
           \/ ShowFirst(t) \/ ShowLast(t) \/ Link(t)
  <2>1. pc'[t] \in {"stamp", "publish", "idle", "params", "load", "show"}
    BY <1>1, <1>4, EmptyHandedSteps
  <2> QED BY <2>1 DEF ThreadFiled, Holding, Scanning, Applying, Entering
<1>5. CASE ReadLeaf(t) \/ WriteLeaf(t)
  <2>1. /\ pc'[t] \in {"scan", "rescan"} /\ bodies' = bodies
        /\ op'[t].todo = Leaf(t) /\ op'[t].line = op[t].line
        /\ op'[t].best = NoBest \/ (op'[t].best = op[t].best /\ pc[t] \in Holding)
    BY <1>1, <1>5 DEF ReadLeaf, WriteLeaf, Goto, TypeOK, Ops, Holding, Scanning
  <2>2. \A id \in Range(op'[t].todo) : FiledIn(bodies', id, Keys(op'[t].line))
    <3>1. pc[t] \in InShard
      BY <1>5 DEF ReadLeaf, WriteLeaf, InShard
    <3> QED BY <2>1, <3>1, LeafFiled
  <2>3. op'[t].best.ref # 0 =>
          /\ op'[t].best.ref \in DOMAIN bodies'
          /\ Keys(bodies'[op'[t].best.ref].tokens) = Keys(op'[t].line)
    BY <1>1, <2>1, HoldingStays DEF NoBest
  <2> QED BY <2>1, <2>2, <2>3 DEF ThreadFiled, Entering
<1>6. CASE Visit(t)
  <2> DEFINE id == Head(op[t].todo)
             old == op[t].best
             new == Better(old, id, op[t].line)
  <2>1. /\ pc[t] \in {"scan", "rescan"} /\ pc' = pc /\ bodies' = bodies
        /\ id \in Range(op[t].todo)
        /\ Range(op[t].todo) = Range(Tail(op[t].todo)) \cup {id}
        /\ op'[t].todo = Tail(op[t].todo)
        /\ op'[t].best = new
        /\ op'[t].line = op[t].line
    BY <1>1, <1>6, VisitFacts
  <2>2. \A x \in Range(op[t].todo) : FiledIn(bodies, x, Keys(op[t].line))
    BY <1>1, <2>1 DEF ThreadFiled
  <2>3. new = old \/ (id \in DOMAIN clusters /\ new.ref = clusters[id])
    BY DEF Better
  <2>4. old.ref # 0 => /\ old.ref \in DOMAIN bodies
                       /\ Keys(bodies[old.ref].tokens) = Keys(op[t].line)
    BY <1>1, <2>1 DEF ThreadFiled, Holding, Scanning
  <2> HIDE DEF new
  <2>5. new.ref # 0 => /\ new.ref \in DOMAIN bodies
                       /\ Keys(bodies[new.ref].tokens) = Keys(op[t].line)
    BY <2>1, <2>2, <2>3, <2>4, FiledBody
  <2> QED BY <2>1, <2>2, <2>5 DEF ThreadFiled, Entering
<1>7. CASE Publish(t)
  <2>1. /\ pc'[t] \in {"evict", "link"}
        /\ Len(bodies) + 1 \in DOMAIN bodies'
        /\ bodies'[Len(bodies) + 1] = NewBody(op[t])
        /\ NewBody(op[t]).id = op[t].id /\ NewBody(op[t]).tokens = op[t].line
        /\ op'[t].id = op[t].id /\ op'[t].line = op[t].line
    BY <1>7, PublishFacts
  <2> QED BY <2>1 DEF ThreadFiled, FiledIn, Entering, Holding, Scanning, Applying
<1>8. CASE Consider(t)
  <2>1. /\ pc'[t] \in {"evict", "link"} /\ bodies' = bodies /\ Entering(t)
        /\ op'[t].id = op[t].id /\ op'[t].line = op[t].line
    BY <1>8, ConsiderChooses DEF Consider, Entering
  <2> QED BY <1>1, <2>1 DEF ThreadFiled, Entering, Holding, Scanning, Applying
<1> QED BY <1>2, <1>3, <1>4, <1>5, <1>6, <1>7, <1>8 DEF Step

\* Whatever the step, the leaves hold what is filed there.
LEMMA LeavesKeepFiling ==
  ASSUME IInv, SInv, KInv, NEW t \in Threads, Call(t) \/ Step(t),
         KeysKept(bodies, bodies')
  PROVE  LeavesFiled'
<1>1. CASE Link(t)
  <2>1. PICK s, path, id, v : /\ s = op[t].shard /\ path = Keys(op[t].line)
                              /\ id = op[t].id /\ v = op[t].victim.id
    OBVIOUS
  <2>2. LinkEffect(t, s, path, id, v)
    BY <1>1, <2>1, LinkFacts
  <2>3. FiledIn(bodies, id, path)
    BY <2>1, <2>2 DEF LinkEffect, KInv, ThreadsFiled, ThreadFiled, Entering
  <2> SUFFICES ASSUME NEW r \in DOMAIN trees, NEW q \in Paths, NEW x \in Range(trees'[r][q])
               PROVE  FiledIn(bodies, x, q)
    BY <2>2 DEF LeavesFiled, LinkEffect
  <2>4. CASE r = s /\ q = path
    BY <2>2, <2>3, <2>4 DEF LinkEffect, KInv, LeavesFiled
  <2>5. CASE ~(r = s /\ q = path)
    BY <2>2, <2>5 DEF LinkEffect, KInv, LeavesFiled
  <2> QED BY <2>4, <2>5
<1>2. CASE EnterShard(t) /\ trees' # trees
  <2>1. trees' = Append(trees, [p \in Paths |-> <<>>]) /\ bodies' = bodies
    BY <1>2 DEF EnterShard
  <2>2. trees \in Seq([Paths -> Seq(Nat)])
    BY DEF IInv, TypeOK
  <2>3. \A r \in DOMAIN trees', q \in Paths :
          trees'[r][q] = IF r \in DOMAIN trees THEN trees[r][q] ELSE <<>>
    BY <2>1, <2>2
  <2>4. Range(<<>>) = {}
    BY DEF Range
  <2> SUFFICES ASSUME NEW r \in DOMAIN trees', NEW q \in Paths, NEW x \in Range(trees'[r][q])
               PROVE  FiledIn(bodies, x, q)
    BY <2>1 DEF LeavesFiled
  <2>5. r \in DOMAIN trees /\ x \in Range(trees[r][q])
    BY <2>3, <2>4
  <2> QED BY <2>5 DEF KInv, LeavesFiled
<1>3. CASE trees' = trees
  BY <1>3, FiledStays DEF KInv, LeavesFiled
<1>4. trees' = trees \/ EnterShard(t) \/ Link(t)
  BY DEF Step, index, Call, GetShard, ReadLeaf, Visit, EndScan, WriteLeaf, EndRescan,
         NewId, Stamp, Publish, Consider, Hit, Touch, ObserveFirst, ObserveLast,
         Decide, Upgrade, Lookup, Params, ShowFirst, ShowLast
<1> QED BY <1>1, <1>2, <1>3, <1>4

\* Every step of every thread keeps the clusters filed.
LEMMA NextKInv ==
  ASSUME IInv, SInv, KInv, [Next]_vars
  PROVE  KInv'
<1>1. KeysKept(bodies, bodies')
  BY NextKeysKept
<1>2. ASSUME NEW t \in Threads, Call(t) \/ Step(t) PROVE KInv'
  <2>1. \A u \in Threads \ {t} : pc'[u] = pc[u] /\ op'[u] = op[u]
    BY <1>2, OthersStay DEF IInv
  <2>2. ASSUME NEW u \in Threads \ {t} PROVE ThreadFiled(u)'
    BY <1>1, <2>1, BystanderFiled DEF KInv, ThreadsFiled
  <2> QED BY <1>1, <1>2, <2>2, MoverFiled, LeavesKeepFiling DEF KInv, ThreadsFiled
<1>3. CASE UNCHANGED vars
  <2>1. trees' = trees /\ bodies' = bodies /\ pc' = pc /\ op' = op
    BY <1>3 DEF vars
  <2> QED BY <2>1 DEF KInv, LeavesFiled, ThreadsFiled, ThreadFiled, Entering
<1>4. Rest => UNCHANGED vars
  BY DEF Rest
<1> QED BY <1>2, <1>3, <1>4 DEF Next

\* However templates are generalized and whoever evicts what, every id of a
\* leaf names a live cluster that a line of its own template is looked up in.
THEOREM ClustersStayFiled == Spec => []FiledUnderItsKeys
<1>1. Init => IInv /\ SInv /\ KInv
  BY InitIInv, InitSInv, InitKInv
<1>2. IInv /\ SInv /\ KInv /\ [Next]_vars => (IInv /\ SInv /\ KInv)'
  BY NextIInv, NextSInv, NextKInv
<1>3. IInv /\ SInv /\ KInv => FiledUnderItsKeys
  <2> SUFFICES ASSUME IInv, SInv, KInv, NEW c \in DOMAIN shards, NEW p \in Paths,
                      NEW i \in DOMAIN trees[shards[c]][p],
                      NEW id, id = trees[shards[c]][p][i]
               PROVE  /\ id \in DOMAIN clusters
                      /\ bodies[clusters[id]].id = id
                      /\ Len(bodies[clusters[id]].tokens) = c
                      /\ Keys(bodies[clusters[id]].tokens) = p
    BY DEF FiledUnderItsKeys
  <2>1. shards[c] \in DOMAIN trees /\ id \in Range(trees[shards[c]][p])
    BY DEF IInv, TypeOK, Range
  <2>2. id \in DOMAIN clusters /\ FiledIn(bodies, id, p) /\ Shaped(bodies, id, c)
    BY <2>1 DEF SInv, LeavesLive, KInv, LeavesFiled, IInv, LeavesShaped
  <2>3. clusters[id] \in DOMAIN bodies /\ bodies[clusters[id]].id = id
    BY <2>2 DEF IInv, TypeOK, MapNamesBodies
  <2>4. Len(bodies[clusters[id]].tokens) = c
    BY <2>2, <2>3 DEF Shaped, IInv, IdsUnique
  <2> QED BY <2>2, <2>3, <2>4, FiledBody
<1> QED BY <1>1, <1>2, <1>3, PTL DEF Spec

-----------------------------------------------------------------------------
(* The seed of a cluster is the line that it was created for; no two       *)
(* clusters of a leaf could have been one.                                 *)

SeedOf(hs, cs, id) == hs[cs[id]].seed

SeedsCounted == \A b \in DOMAIN history : history[b].seed \in history[b].lines

\* What the second scan has found out about the clusters of the leaf.
ThreadAlone(t) ==
  LET o == op[t] IN
  /\ pc[t] = "rescan" =>
       \A id \in Range(Leaf(t)) :
         \/ id \in Range(o.todo)
         \/ o.best.ref # 0 /\ Score(SeedOf(history, clusters, id), o.line) <= o.best.score
  /\ pc[t] \in Writing \ {"rescan"} =>
       \A id \in Range(Leaf(t)) : ~Matches(SeedOf(history, clusters, id), o.line)
  /\ pc[t] \in Writing \ {"rescan", "create"} =>
       \A id \in Range(Leaf(t)) : id < o.id
  /\ Entering(t) => SeedOf(history, clusters, o.id) = o.line

ThreadsAlone == \A t \in Threads : ThreadAlone(t)

\* NoTwinTemplates, by ids instead of places.
Twinless ==
  \A s \in DOMAIN trees, p \in Paths :
    \A a, b \in Range(trees[s][p]) :
      a < b => ~Matches(SeedOf(history, clusters, a), SeedOf(history, clusters, b))

TInv == SeedsCounted /\ ThreadsAlone /\ Twinless

\* The empty miner has no twins.
LEMMA InitTInv == Init => TInv
BY DEF Init, TInv, SeedsCounted, ThreadsAlone, ThreadAlone, Writing, Entering, Twinless

\* The bodies of the map have a history.
LEMMA MapHistory ==
  ASSUME IInv, NEW id \in DOMAIN clusters
  PROVE  /\ clusters[id] \in DOMAIN history
         /\ clusters[id] \in DOMAIN bodies
         /\ history[clusters[id]] \in Histories
BY DEF IInv, TypeOK, HistoryAligned

\* The seed of a live cluster is a line that its template stands for.
LEMMA SeedCovered ==
  ASSUME IInv, SeedsCounted, NEW id \in DOMAIN clusters
  PROVE  /\ SeedOf(history, clusters, id) \in Line
         /\ Covers(bodies[clusters[id]].tokens, SeedOf(history, clusters, id))
<1>1. /\ clusters[id] \in DOMAIN history /\ clusters[id] \in DOMAIN bodies
      /\ history[clusters[id]] \in Histories
  BY MapHistory
<1> QED BY <1>1 DEF SeedsCounted, SeedOf, IInv, AbsorbedCovered, Histories

\* From one history to the next, no body loses its seed.
SeedsStay ==
  /\ \A b \in DOMAIN history :
       b \in DOMAIN history' /\ history'[b].seed = history[b].seed
  /\ SeedsCounted'

\* A line that is absorbed is no new seed.
LEMMA AbsorbKeepsSeed ==
  ASSUME IInv, SeedsCounted, NEW ref, NEW o, NEW changed,
         history' = [history EXCEPT ![ref] = Absorb(@, o, changed)]
  PROVE  SeedsStay
<1>1. history \in Seq(Histories)
  BY DEF IInv, TypeOK
<1>2. ASSUME NEW b \in DOMAIN history
      PROVE  /\ b \in DOMAIN history'
             /\ history'[b].seed = history[b].seed
             /\ history[b].lines \subseteq history'[b].lines
  <2>1. history[b] \in Histories
    BY <1>1
  <2>2. ASSUME NEW n, NEW ls, NEW es
        PROVE  LET g == [history[b] EXCEPT !.lines = ls, !.events = es, !.changes = n]
               IN  g.seed = history[b].seed /\ g.lines = ls
    BY <2>1 DEF Histories
  <2>3. /\ Absorb(history[b], o, changed).seed = history[b].seed
        /\ Absorb(history[b], o, changed).lines = history[b].lines \cup {o.line}
    BY <2>2 DEF Absorb
  <2> QED BY <2>3
<1>3. DOMAIN history' = DOMAIN history
  OBVIOUS
<1> QED BY <1>2, <1>3 DEF SeedsStay, SeedsCounted

\* Whatever the step, seeds stay.
LEMMA NextSeedsStay ==
  ASSUME IInv, SeedsCounted, NEW t \in Threads, Call(t) \/ Step(t)
  PROVE  SeedsStay
<1>1. CASE history' = history
  BY <1>1 DEF SeedsStay, SeedsCounted
<1>2. CASE Upgrade(t)
  <2>1. PICK ref, changed : history' = [history EXCEPT ![ref] = Absorb(@, op[t], changed)]
    BY <1>2 DEF Upgrade
  <2> QED BY <2>1, AbsorbKeepsSeed
<1>3. CASE Decide(t) /\ history' # history
  <2>1. PICK ref : history' = [history EXCEPT ![ref] = Absorb(@, op[t], FALSE)]
    BY <1>3 DEF Decide
  <2> QED BY <2>1, AbsorbKeepsSeed
<1>4. CASE Publish(t)
  <2> DEFINE h == [seed |-> op[t].line, lines |-> {op[t].line},
                   events |-> {op[t].ms} \ {None}, changes |-> 0]
  <2>1. history' = Append(history, h) /\ history \in Seq(Histories)
    BY <1>4 DEF Publish, IInv, TypeOK
  <2>2. h.seed \in h.lines
    OBVIOUS
  <2> HIDE DEF h
  <2>3. /\ DOMAIN history' = DOMAIN history \cup {Len(history) + 1}
        /\ \A b \in DOMAIN history : history'[b] = history[b]
        /\ history'[Len(history) + 1] = h
    BY <2>1
  <2> QED BY <2>2, <2>3 DEF SeedsStay, SeedsCounted
<1>5. history' = history \/ Upgrade(t) \/ Decide(t) \/ Publish(t)
  BY DEF Step, Call, GetShard, EnterShard, ReadLeaf, Visit, EndScan, WriteLeaf,
         EndRescan, NewId, Stamp, Consider, Link, Hit, Touch, ObserveFirst,
         ObserveLast, Lookup, Params, ShowFirst, ShowLast
<1> QED BY <1>1, <1>2, <1>3, <1>4, <1>5

\* An id that stays in the map keeps its seed.
LEMMA LiveSeedStays ==
  ASSUME IInv, SInv, SeedsStay, NEW t \in Threads, Call(t) \/ Step(t)
  PROVE  \A id \in DOMAIN clusters :
           id \in DOMAIN clusters' =>
             SeedOf(history', clusters', id) = SeedOf(history, clusters, id)
<1>1. \A id \in DOMAIN clusters : id \in DOMAIN clusters' => clusters'[id] = clusters[id]
  <2>1. CASE Publish(t)
    BY <2>1, PublishFacts DEF Put
  <2>2. CASE Link(t)
    BY <2>2 DEF Link, Without
  <2>3. clusters' = clusters \/ Publish(t) \/ Link(t)
    BY DEF Step, index, Call, GetShard, EnterShard, ReadLeaf, Visit, EndScan, WriteLeaf,
           EndRescan, NewId, Stamp, Consider, Hit, Touch, ObserveFirst, ObserveLast,
           Decide, Upgrade, Lookup, Params, ShowFirst, ShowLast
  <2> QED BY <2>1, <2>2, <2>3
<1> QED BY <1>1, MapHistory DEF SeedOf, SeedsStay

-----------------------------------------------------------------------------
(* A writer's leaf is its own.                                             *)

\* What another thread does leaves the leaf of a writer as it is.
LEMMA WritersLeafStays ==
  ASSUME IInv, SInv, NEW t \in Threads, Call(t) \/ Step(t),
         NEW u \in Threads \ {t}, pc[u] \in Writing
  PROVE  /\ Leaf(u)' = Leaf(u)
         /\ op[u].shard \in DOMAIN trees'
         /\ Keys(op[u].line) \in Paths
<1>1. pc'[u] = pc[u] /\ op'[u] = op[u]
  BY OthersStay DEF IInv
<1>2. op[u].shard \in DOMAIN trees /\ Keys(op[u].line) \in Paths
  BY LeafTypes DEF Writing, InShard
<1>3. CASE Link(t)
  <2>1. PICK s, path, id, v : /\ s = op[t].shard /\ path = Keys(op[t].line)
                              /\ id = op[t].id /\ v = op[t].victim.id
    OBVIOUS
  <2>2. LinkEffect(t, s, path, id, v)
    BY <1>3, <2>1, LinkFacts
  <2>3. op[u].shard # s
    BY <2>1, <2>2 DEF LinkEffect, SInv, Exclusive, Writing
  <2> QED BY <1>1, <1>2, <2>2, <2>3 DEF LinkEffect, Leaf
<1>4. CASE EnterShard(t) /\ trees' # trees
  <2>1. trees' = Append(trees, [p \in Paths |-> <<>>]) /\ trees \in Seq([Paths -> Seq(Nat)])
    BY <1>4 DEF EnterShard, IInv, TypeOK
  <2>2. \A r \in DOMAIN trees : r \in DOMAIN trees' /\ trees'[r] = trees[r]
    BY <2>1
  <2> QED BY <1>1, <1>2, <2>2 DEF Leaf
<1>5. CASE trees' = trees
  BY <1>1, <1>2, <1>5 DEF Leaf
<1>6. trees' = trees \/ EnterShard(t) \/ Link(t)
  BY DEF Step, index, Call, GetShard, ReadLeaf, Visit, EndScan, WriteLeaf, EndRescan,
         NewId, Stamp, Publish, Consider, Hit, Touch, ObserveFirst, ObserveLast,
         Decide, Upgrade, Lookup, Params, ShowFirst, ShowLast
<1> QED BY <1>3, <1>4, <1>5, <1>6

\* A thread that does not move keeps what it found out about its leaf.
LEMMA BystanderAlone ==
  ASSUME IInv, SInv, SInv', SeedsStay, NEW t \in Threads, Call(t) \/ Step(t),
         NEW u \in Threads \ {t}, ThreadAlone(u)
  PROVE  ThreadAlone(u)'
<1>1. pc'[u] = pc[u] /\ op'[u] = op[u]
  BY OthersStay DEF IInv
<1>2. CASE pc[u] \notin Writing
  BY <1>1, <1>2 DEF ThreadAlone, Writing, Entering
<1>3. CASE pc[u] \in Writing
  <2>1. /\ Leaf(u)' = Leaf(u) /\ op[u].shard \in DOMAIN trees'
        /\ Keys(op[u].line) \in Paths
    BY <1>3, WritersLeafStays
  <2>2. op[u].shard \in DOMAIN trees
    BY <1>3, LeafTypes DEF Writing, InShard
  <2>3. \A id \in Range(Leaf(u)) : id \in DOMAIN clusters /\ id \in DOMAIN clusters'
    BY <1>1, <2>1, <2>2 DEF SInv, LeavesLive, Leaf
  <2>4. \A id \in Range(Leaf(u)) :
          SeedOf(history', clusters', id) = SeedOf(history, clusters, id)
    BY <2>3, LiveSeedStays
  <2>5. Entering(u) =>
          SeedOf(history', clusters', op[u].id) = SeedOf(history, clusters, op[u].id)
    <3> SUFFICES ASSUME Entering(u)
                 PROVE  SeedOf(history', clusters', op[u].id) = SeedOf(history, clusters, op[u].id)
      OBVIOUS
    <3>1. op[u].id \in DOMAIN clusters /\ op[u].id \in DOMAIN clusters'
      BY <1>1 DEF SInv, EntrantsApart, Entering
    <3> QED BY <3>1, LiveSeedStays
  <2> QED BY <1>1, <2>1, <2>4, <2>5 DEF ThreadAlone, Entering
<1> QED BY <1>2, <1>3

-----------------------------------------------------------------------------
(* What the writer finds out.                                              *)

\* A visit of the second scan leaves the visited cluster with a score that is
\* no better than that of the best match in hand.
LEMMA VisitCompares ==
  ASSUME IInv, SInv, SeedsCounted, NEW t \in Threads, Visit(t), pc[t] = "rescan",
         ThreadAlone(t),
         NEW id \in Range(Leaf(t)),
         NEW old, old = op[t].best, NEW line, line = op[t].line,
         NEW new, new = Better(old, Head(op[t].todo), line)
  PROVE  \/ id \in Range(Tail(op[t].todo))
         \/ new.ref # 0 /\ Score(SeedOf(history, clusters, id), line) <= new.score
<1> DEFINE seed == SeedOf(history, clusters, id)
           tokens == bodies[clusters[id]].tokens
           sim == Score(tokens, line)
<1>1. /\ TypeOK /\ op[t] \in Ops /\ ThreadSound(t)
      /\ Range(op[t].todo) = Range(Tail(op[t].todo)) \cup {Head(op[t].todo)}
  BY OpType, VisitFacts DEF IInv, ThreadsSound
<1>2. id \in DOMAIN clusters
  <2>1. op[t].shard \in DOMAIN trees /\ Keys(op[t].line) \in Paths
    BY LeafTypes DEF InShard
  <2> QED BY <2>1 DEF SInv, LeavesLive, Leaf
<1>3. /\ line \in Line /\ seed \in Line /\ tokens \in Line /\ Covers(tokens, seed)
      /\ clusters[id] \in DOMAIN bodies
  BY <1>1, <1>2, SeedCovered, MapHistory, BodyFields DEF Ops, TypeOK
<1>4. sim \in Nat /\ Score(seed, line) \in Nat /\ Score(seed, line) <= sim
  BY <1>3, ScoreMonotone
<1>5. old.score \in Nat \cup {-1}
      /\ (old.score \in Nat => old.ref # 0)
  <2>1. BestSound(bodies, old, line) /\ bodies \in Seq(Body)
    BY <1>1 DEF ThreadSound, Scanning, TypeOK
  <2> QED BY <1>1, <2>1 DEF BestSound, NoBest, Ops
<1>6. CASE id = Head(op[t].todo)
  <2>1. new = IF sim > old.score THEN [id |-> id, ref |-> clusters[id], score |-> sim]
              ELSE old
    BY <1>2, <1>6 DEF Better
  <2>2. clusters[id] # 0
    BY <1>1, <1>3 DEF TypeOK
  <2>3. CASE sim > old.score
    BY <1>4, <2>1, <2>2, <2>3
  <2>4. CASE ~(sim > old.score)
    BY <1>4, <1>5, <2>1, <2>4
  <2> QED BY <2>3, <2>4
<1>7. CASE id # Head(op[t].todo) /\ id \notin Range(Tail(op[t].todo))
  <2>1. old.ref # 0 /\ Score(seed, line) <= old.score
    BY <1>1, <1>7 DEF ThreadAlone
  <2>2. \/ new = old
        \/ \E x \in DOMAIN clusters :
             /\ new = [id |-> x, ref |-> clusters[x],
                       score |-> Score(bodies[clusters[x]].tokens, line)]
             /\ new.score > old.score
    BY DEF Better
  <2>3. CASE new = old
    BY <2>1, <2>3
  <2>4. CASE new # old
    <3>1. PICK x \in DOMAIN clusters :
             /\ new = [id |-> x, ref |-> clusters[x],
                       score |-> Score(bodies[clusters[x]].tokens, line)]
             /\ new.score > old.score
      BY <2>2, <2>4
    <3>2. clusters[x] \in DOMAIN bodies /\ clusters[x] # 0
          /\ bodies[clusters[x]].tokens \in Line
      BY <1>1, BodyFields DEF TypeOK
    <3>3. new.score \in Nat
      BY <1>3, <3>1, <3>2, ScoreType
    <3> QED BY <1>4, <1>5, <2>1, <3>1, <3>2, <3>3
  <2> QED BY <2>3, <2>4
<1> QED BY <1>6, <1>7

\* A second scan without a match: the line is similar to no seed of the leaf.
LEMMA NoneFound ==
  ASSUME IInv, SInv, SeedsCounted, NEW t \in Threads, pc[t] = "rescan",
         op[t].todo = <<>>, ~Found(t), ThreadAlone(t),
         NEW id \in Range(Leaf(t))
  PROVE  ~Matches(SeedOf(history, clusters, id), op[t].line)
<1> DEFINE seed == SeedOf(history, clusters, id)
           best == op[t].best
<1>1. TypeOK /\ op[t] \in Ops /\ ThreadSound(t) /\ Range(op[t].todo) = {}
  BY OpType DEF IInv, ThreadsSound, Range
<1>2. best.ref # 0 /\ Score(seed, op[t].line) <= best.score
  BY <1>1 DEF ThreadAlone
<1>3. best.score \in Nat
  <2>1. BestSound(bodies, best, op[t].line)
    BY <1>1 DEF ThreadSound, Scanning
  <2> QED BY <1>2, <2>1 DEF BestSound, NoBest
<1>4. seed \in Line /\ op[t].line \in Line
  <2>1. op[t].shard \in DOMAIN trees /\ Keys(op[t].line) \in Paths
    BY LeafTypes DEF InShard
  <2>2. id \in DOMAIN clusters
    BY <2>1 DEF SInv, LeavesLive, Leaf
  <2> QED BY <1>1, <2>2, SeedCovered DEF Ops
<1>5. Score(seed, op[t].line) \in Nat
  BY <1>4, ScoreType
<1>6. ~Accepts(best.score, op[t].line)
  BY <1>2 DEF Found
<1> QED BY <1>2, <1>3, <1>4, <1>5, <1>6, AcceptsMonotone DEF Matches

\* A thread that writes, and has not published yet, finds out more about its
\* leaf, or acts on what it found out.
LEMMA InsideAlone ==
  ASSUME IInv, SInv, SeedsCounted, NEW t \in Threads, ThreadAlone(t),
         \/ WriteLeaf(t) \/ EndRescan(t) \/ NewId(t) \/ Stamp(t)
         \/ Visit(t) /\ pc[t] = "rescan"
  PROVE  ThreadAlone(t)'
<1>1. /\ TypeOK /\ op[t] \in Ops
      /\ trees' = trees /\ clusters' = clusters
      /\ op'[t].shard = op[t].shard /\ op'[t].line = op[t].line
      /\ pc'[t] \in {"rescan", "create", "stamp", "publish", "hit"}
  <2>1. TypeOK
    BY DEF IInv
  <2> QED BY <2>1, OpType, InsideFacts DEF index
<1>2. history' = history
  BY DEF WriteLeaf, EndRescan, NewId, Stamp, Visit
<1>3. Leaf(t)' = Leaf(t)
  BY <1>1 DEF Leaf
<1>4. ~Entering(t)'
  BY <1>1 DEF Entering
<1> USE DEF Writing
<1>5. CASE WriteLeaf(t)
  <2>1. pc'[t] = "rescan" /\ op'[t].todo = Leaf(t)
    BY <1>1, <1>5 DEF WriteLeaf, Goto, TypeOK, Ops
  <2> QED BY <1>3, <1>4, <2>1 DEF ThreadAlone
<1>6. CASE EndRescan(t)
  <2>1. /\ pc[t] = "rescan" /\ op[t].todo = <<>>
        /\ pc'[t] = IF Found(t) THEN "hit" ELSE "create"
    BY <1>1, <1>6 DEF EndRescan, Goto, TypeOK
  <2>2. CASE Found(t)
    BY <1>4, <2>1, <2>2 DEF ThreadAlone
  <2>3. CASE ~Found(t)
    <3>1. \A id \in Range(Leaf(t)) :
            ~Matches(SeedOf(history, clusters, id), op[t].line)
      BY <2>1, <2>3, NoneFound
    <3> QED BY <1>1, <1>2, <1>3, <1>4, <2>1, <2>3, <3>1 DEF ThreadAlone
  <2> QED BY <2>2, <2>3
<1>7. CASE NewId(t)
  <2>1. /\ pc[t] = "create" /\ pc'[t] = "stamp" /\ op'[t].id = counter + 1
        /\ counter \in Nat
    BY <1>1, <1>7 DEF NewId, Goto, TypeOK, Ops
  <2>2. \A id \in Range(Leaf(t)) : id < counter + 1
    <3> SUFFICES ASSUME NEW i \in DOMAIN Leaf(t) PROVE Leaf(t)[i] < counter + 1
      BY DEF Range
    <3>1. Shaped(bodies, Leaf(t)[i], Len(op[t].line)) /\ Leaf(t)[i] \in Nat
      BY <2>1, LeafShaped DEF InShard
    <3>2. Leaf(t)[i] <= counter
      BY <3>1 DEF Shaped, IInv, IdsUnique
    <3> QED BY <2>1, <3>1, <3>2
  <2> QED BY <1>1, <1>2, <1>3, <1>4, <2>1, <2>2 DEF ThreadAlone
<1>8. CASE Stamp(t)
  <2>1. pc[t] = "stamp" /\ pc'[t] = "publish" /\ op'[t].id = op[t].id
    BY <1>1, <1>8 DEF Stamp, Goto, TypeOK, Ops
  <2> QED BY <1>1, <1>2, <1>3, <1>4, <2>1 DEF ThreadAlone
<1>9. CASE Visit(t) /\ pc[t] = "rescan"
  <2>1. /\ pc'[t] = "rescan" /\ op'[t].todo = Tail(op[t].todo)
        /\ op'[t].best = Better(op[t].best, Head(op[t].todo), op[t].line)
    BY <1>1, <1>9, VisitFacts
  <2>2. PICK old, line, new : /\ old = op[t].best /\ line = op[t].line
                              /\ new = Better(old, Head(op[t].todo), line)
    OBVIOUS
  <2>3. \A id \in Range(Leaf(t)) :
          \/ id \in Range(Tail(op[t].todo))
          \/ new.ref # 0 /\ Score(SeedOf(history, clusters, id), line) <= new.score
    BY <1>9, <2>2, VisitCompares
  <2>4. op'[t].best = new /\ op'[t].line = line
    BY <1>1, <2>1, <2>2
  <2> QED BY <1>1, <1>2, <1>3, <1>4, <2>1, <2>3, <2>4 DEF ThreadAlone
<1> QED BY <1>5, <1>6, <1>7, <1>8, <1>9

\* Whatever the step, its thread knows its leaf as well as it should.
LEMMA MoverAlone ==
  ASSUME IInv, SInv, SeedsCounted, SeedsStay, NEW t \in Threads, Call(t) \/ Step(t),
         ThreadAlone(t)
  PROVE  ThreadAlone(t)'
<1>1. TypeOK
  BY DEF IInv
<1>2. CASE pc'[t] \notin Writing
  BY <1>2 DEF ThreadAlone, Writing, Entering
<1>3. CASE \/ WriteLeaf(t) \/ EndRescan(t) \/ NewId(t) \/ Stamp(t)
           \/ Visit(t) /\ pc[t] = "rescan"
  BY <1>3, InsideAlone
<1>4. CASE Publish(t)
  <2>1. /\ trees' = trees /\ pc[t] = "publish" /\ pc'[t] \in {"evict", "link"}
        /\ op'[t].id = op[t].id /\ op'[t].shard = op[t].shard
        /\ op'[t].line = op[t].line
        /\ clusters' = Put(clusters, op[t].id, Len(bodies) + 1)
        /\ DOMAIN clusters' = DOMAIN clusters \cup {op[t].id}
    BY <1>4, PublishFacts DEF Publish
  <2>2. Leaf(t)' = Leaf(t)
    BY <2>1 DEF Leaf
  <2>3. \A id \in Range(Leaf(t)) :
          SeedOf(history', clusters', id) = SeedOf(history, clusters, id)
    <3>1. op[t].shard \in DOMAIN trees /\ Keys(op[t].line) \in Paths
      BY <2>1, LeafTypes DEF InShard
    <3>2. Range(Leaf(t)) \subseteq DOMAIN clusters
      BY <3>1 DEF SInv, LeavesLive, Leaf
    <3> QED BY <2>1, <3>2, LiveSeedStays
  <2>4. SeedOf(history', clusters', op[t].id) = op[t].line
    <3> DEFINE h == [seed |-> op[t].line, lines |-> {op[t].line},
                     events |-> {op[t].ms} \ {None}, changes |-> 0]
    <3>1. clusters'[op[t].id] = Len(bodies) + 1
      BY <2>1 DEF Put
    <3>2. history' = Append(history, h) /\ history \in Seq(Histories)
          /\ Len(history) = Len(bodies)
      BY <1>4 DEF Publish, IInv, TypeOK, HistoryAligned
    <3>3. history'[Len(bodies) + 1] = h
      BY <3>2
    <3> QED BY <3>1, <3>3 DEF SeedOf
  <2> QED BY <2>1, <2>2, <2>3, <2>4 DEF ThreadAlone, Writing
<1>5. CASE Consider(t)
  <2>1. /\ trees' = trees /\ clusters' = clusters /\ history' = history
        /\ pc[t] = "evict" /\ pc'[t] \in {"evict", "link"}
        /\ op'[t].id = op[t].id /\ op'[t].shard = op[t].shard
        /\ op'[t].line = op[t].line
    BY <1>5, ConsiderChooses DEF Consider, index
  <2>2. Leaf(t)' = Leaf(t)
    BY <2>1 DEF Leaf
  <2> QED BY <2>1, <2>2 DEF ThreadAlone, Writing, Entering
<1>6. ASSUME OutsideStep(t) PROVE pc'[t] \notin Writing
  <2>1. ~Entering(t)
    BY <1>6 DEF OutsideStep, Entering, Call, GetShard, ReadLeaf, EndScan, Visit, Hit,
                Touch, ObserveFirst, ObserveLast, Decide, Upgrade, Lookup, Params,
                ShowFirst, ShowLast
  <2>2. op[t].victim = NoVictim
    BY <2>1 DEF SInv, VictimsChosen, VictimChosen
  <2> QED BY <1>1, <1>6, <2>2, OutsideFacts
<1>7. CASE EnterShard(t) \/ Link(t)
  <2>1. pc'[t] \notin Writing
    BY <1>1, <1>7 DEF EnterShard, Link, Return, Goto, TypeOK, Writing
  <2> QED BY <1>2, <2>1
<1>8. Visit(t) => pc[t] \in {"scan", "rescan"}
  BY DEF Visit
<1> QED BY <1>2, <1>3, <1>4, <1>5, <1>6, <1>7, <1>8 DEF Step, OutsideStep

\* Whatever the step, no leaf gets a twin.
LEMMA NextTwinless ==
  ASSUME IInv, SInv, SInv', TInv, SeedsStay, NEW t \in Threads, Call(t) \/ Step(t)
  PROVE  Twinless'
<1>1. \A r \in DOMAIN trees, q \in Paths : \A a \in Range(trees[r][q]) : a \in DOMAIN clusters
  BY DEF SInv, LeavesLive
<1>2. \A r \in DOMAIN trees', q \in Paths : \A a \in Range(trees'[r][q]) : a \in DOMAIN clusters'
  BY DEF SInv, LeavesLive
<1>3. \A id \in DOMAIN clusters : id \in DOMAIN clusters' =>
        SeedOf(history', clusters', id) = SeedOf(history, clusters, id)
  BY LiveSeedStays
<1>4. ASSUME NEW r \in DOMAIN trees, r \in DOMAIN trees', NEW q \in Paths,
             trees'[r][q] = trees[r][q],
             NEW a \in Range(trees'[r][q]), NEW b \in Range(trees'[r][q]), a < b
      PROVE  ~Matches(SeedOf(history', clusters', a), SeedOf(history', clusters', b))
  <2>1. a \in DOMAIN clusters /\ b \in DOMAIN clusters
        /\ a \in DOMAIN clusters' /\ b \in DOMAIN clusters'
    BY <1>1, <1>2, <1>4
  <2> QED BY <1>3, <1>4, <2>1 DEF TInv, Twinless
<1>5. CASE trees' = trees
  BY <1>4, <1>5 DEF Twinless
<1>6. CASE EnterShard(t) /\ trees' # trees
  <2>1. trees' = Append(trees, [p \in Paths |-> <<>>]) /\ trees \in Seq([Paths -> Seq(Nat)])
    BY <1>6 DEF EnterShard, IInv, TypeOK
  <2>2. \A r \in DOMAIN trees', q \in Paths :
          trees'[r][q] = IF r \in DOMAIN trees THEN trees[r][q] ELSE <<>>
    BY <2>1
  <2>3. Range(<<>>) = {}
    BY DEF Range
  <2> QED BY <1>4, <2>2, <2>3 DEF Twinless
<1>7. CASE Link(t)
  <2>1. PICK s, path, id, v : /\ s = op[t].shard /\ path = Keys(op[t].line)
                              /\ id = op[t].id /\ v = op[t].victim.id
    OBVIOUS
  <2>2. LinkEffect(t, s, path, id, v)
    BY <1>7, <2>1, LinkFacts
  <2>3. /\ pc[t] = "link" /\ s \in DOMAIN trees /\ path \in Paths
        /\ DOMAIN trees' = DOMAIN trees
        /\ Range(trees'[s][path]) = (Range(trees[s][path]) \ {v}) \cup {id}
        /\ id \in DOMAIN clusters /\ id # v /\ DOMAIN clusters' = DOMAIN clusters \ {v}
    BY <2>2 DEF LinkEffect
  <2>4. /\ SeedOf(history, clusters, id) = op[t].line
        /\ \A x \in Range(trees[s][path]) :
             x < id /\ ~Matches(SeedOf(history, clusters, x), op[t].line)
    BY <2>1, <2>3 DEF TInv, ThreadsAlone, ThreadAlone, Writing, Entering, Leaf
  <2>5. id \in Nat /\ \A x \in Range(trees[s][path]) : x \in Nat
    <3>1. op[t] \in Ops /\ trees[s][path] \in Seq(Nat)
      BY <2>3, OpType, LeafTypes DEF IInv
    <3>2. id \in Nat
      BY <2>1, <3>1 DEF Ops
    <3>3. trees[s][path] \in [1..Len(trees[s][path]) -> Nat]
      BY <3>1
    <3>4. Range(trees[s][path]) \subseteq Nat
      BY <3>3 DEF Range
    <3> QED BY <3>2, <3>4
  <2> SUFFICES ASSUME NEW r \in DOMAIN trees, NEW q \in Paths,
                      NEW a \in Range(trees'[r][q]), NEW b \in Range(trees'[r][q]), a < b
               PROVE  ~Matches(SeedOf(history', clusters', a), SeedOf(history', clusters', b))
    BY <2>3 DEF Twinless
  <2>6. CASE r = s /\ q = path
    <3>1. /\ a = id \/ a \in Range(trees[s][path]) \ {v}
          /\ b = id \/ b \in Range(trees[s][path]) \ {v}
      BY <2>3, <2>6
    <3>2. /\ a \in DOMAIN clusters /\ b \in DOMAIN clusters
          /\ a \in DOMAIN clusters' /\ b \in DOMAIN clusters'
      BY <1>1, <2>3, <3>1
    <3>3. /\ SeedOf(history', clusters', a) = SeedOf(history, clusters, a)
          /\ SeedOf(history', clusters', b) = SeedOf(history, clusters, b)
      BY <1>3, <3>2
    <3>4. a # id
      BY <2>4, <2>5, <3>1
    <3>5. CASE b = id
      BY <2>4, <3>1, <3>3, <3>4, <3>5
    <3>6. CASE b # id
      BY <2>3, <3>1, <3>3, <3>4, <3>6 DEF TInv, Twinless
    <3> QED BY <3>5, <3>6
  <2>7. CASE ~(r = s /\ q = path)
    <3>1. trees'[r][q] = trees[r][q]
      BY <2>2, <2>7 DEF LinkEffect
    <3> QED BY <1>4, <2>3, <3>1
  <2> QED BY <2>6, <2>7
<1>8. trees' = trees \/ EnterShard(t) \/ Link(t)
  BY DEF Step, index, Call, GetShard, ReadLeaf, Visit, EndScan, WriteLeaf, EndRescan,
         NewId, Stamp, Publish, Consider, Hit, Touch, ObserveFirst, ObserveLast,
         Decide, Upgrade, Lookup, Params, ShowFirst, ShowLast
<1> QED BY <1>5, <1>6, <1>7, <1>8

\* Every step of every thread keeps the leaves without twins.
LEMMA NextTInv ==
  ASSUME IInv, SInv, SInv', TInv, [Next]_vars
  PROVE  TInv'
<1>1. ASSUME NEW t \in Threads, Call(t) \/ Step(t) PROVE TInv'
  <2>1. SeedsStay
    BY <1>1, NextSeedsStay DEF TInv
  <2>2. ASSUME NEW u \in Threads PROVE ThreadAlone(u)'
    <3>1. CASE u = t
      BY <1>1, <2>1, <3>1, MoverAlone DEF TInv, ThreadsAlone
    <3>2. CASE u # t
      BY <1>1, <2>1, <3>2, BystanderAlone DEF TInv, ThreadsAlone
    <3> QED BY <3>1, <3>2
  <2>3. Twinless'
    BY <1>1, <2>1, NextTwinless
  <2> QED BY <2>1, <2>2, <2>3 DEF TInv, ThreadsAlone, SeedsStay
<1>2. CASE UNCHANGED vars
  <2>1. UNCHANGED <<trees, clusters, history, pc, op>>
    BY <1>2 DEF vars
  <2>2. SeedsCounted' /\ Twinless'
    BY <2>1 DEF TInv, SeedsCounted, Twinless
  <2>3. ThreadsAlone'
    BY <2>1 DEF TInv, ThreadsAlone, ThreadAlone, Entering, Leaf
  <2> QED BY <2>2, <2>3 DEF TInv
<1>3. Rest => UNCHANGED vars
  BY DEF Rest
<1> QED BY <1>1, <1>2, <1>3 DEF Next

\* Of two live clusters of a leaf the later one was created for a line that is
\* not similar to the seed of the earlier: however adds of similar lines race,
\* the second scan under the write guard lets one of them create.
THEOREM NoTwins == Spec => []NoTwinTemplates
<1>1. Init => IInv /\ SInv /\ TInv
  BY InitIInv, InitSInv, InitTInv
<1>2. IInv /\ SInv /\ TInv /\ [Next]_vars => (IInv /\ SInv /\ TInv)'
  BY NextIInv, NextSInv, NextTInv
<1>3. TInv => NoTwinTemplates
  BY DEF TInv, Twinless, NoTwinTemplates, SeedOf, Range
<1> QED BY <1>1, <1>2, <1>3, PTL DEF Spec
=============================================================================
