---------------------------- MODULE RestoreProofs ----------------------------
(***************************************************************************)
(* Proofs about snapshots, restarts and loads, for any number of threads,  *)
(* saves, loads and lines, any leaf capacity and any options: what a load  *)
(* restores, as long as nobody calls the miner while it loads              *)
(* (Hot = FALSE), and, from the section "A load under callers" on, what    *)
(* callers can rely on though it does (Hot = TRUE).                        *)
(*                                                                         *)
(* The argument for the first: while the shards and the map are cleared no *)
(* invariant of the miner holds, but no thread looks; once both are empty  *)
(* all of them hold again, and every row that is replayed keeps them,      *)
(* because a snapshot is a list of clusters that the miner had: their ids  *)
(* differ, none is above the counter that was read after them, and their   *)
(* lines are on the path that they are replayed to.                        *)
(*                                                                         *)
(* The argument for the second: a thread that has found a shard or a body  *)
(* holds a reference of it, which no load takes away, bodies only grow,    *)
(* and their templates only become more general; so what a thread knows it *)
(* keeps, whatever the table and the map are made to name meanwhile.       *)
(***************************************************************************)
EXTENDS MinerRestore, IndexProofs, Induction

-----------------------------------------------------------------------------
(* The inductive invariant.                                                *)

\* The lines counted on a body are looked up where its template is.
LinesFiled ==
  \A b \in DOMAIN bodies : \A l \in history[b].lines : Keys(l) = Keys(bodies[b].tokens)

\* What holds of the miner whenever it is not being cleared.
MInv == IInv /\ SInv /\ KInv /\ LinesFiled

\* The types that hold even then.
Typed ==
  /\ shards \in [DOMAIN shards -> Nat]
  /\ clusters \in [DOMAIN clusters -> Nat]
  /\ counter \in Nat
  /\ tick \in Nat
  /\ calls \in [Kinds -> Nat]
  /\ pc \in [Threads -> Places]
  /\ op \in [Threads -> Ops]
  /\ answer \in [Threads -> Answers]

\* No call runs, and none has left a victim behind.
Still == Quiet /\ \A t \in Threads : op[t].victim = NoVictim

NoLeaves   == DOMAIN shards = {} /\ trees = <<>>
NoClusters == DOMAIN clusters = {} /\ bodies = <<>> /\ history = <<>>

Rows == [id: Nat, tokens: Line, size: Nat, first: Nat, last: Nat,
         members: SUBSET Members, past: Histories]

\* A row could be a cluster of a miner: it has an id, a path, and lines that
\* its template stands for and that are looked up on its path.
RowSound(row) ==
  /\ row.id # 0
  /\ Keys(row.tokens) \in Paths
  /\ \A l \in row.past.lines : Covers(row.tokens, l) /\ Keys(l) = Keys(row.tokens)

\* The rows of a snapshot, no id twice and none above the limit.
RowsSound(rows, limit) ==
  /\ rows \in Seq(Rows)
  /\ \A i \in DOMAIN rows : RowSound(rows[i]) /\ rows[i].id <= limit
  /\ \A i, j \in DOMAIN rows : rows[i].id = rows[j].id => i = j

SavedSound == saved.counter \in Nat /\ RowsSound(saved.rows, saved.counter)

Stages == {"rest", "collect", "load", "shards", "clear", "rewind", "replay", "loaded"}

AdminTyped ==
  /\ admin = [at |-> admin.at, due |-> admin.due, passed |-> admin.passed, rows |-> admin.rows]
  /\ admin.at \in Stages
  /\ admin.rows \in Seq(Rows)

CollectSound ==
  At("collect") =>
    /\ RowsSound(admin.rows, counter)
    /\ \A i \in DOMAIN admin.rows : admin.rows[i].id \in admin.passed

\* What is left of a map that is being cleared is still due.
ClearSound ==
  /\ Starting => Still
  /\ At("load") => admin.passed = {}
  /\ At("shards") => DOMAIN shards \subseteq admin.due \ admin.passed
  /\ At("clear") => NoLeaves /\ DOMAIN clusters \subseteq admin.due \ admin.passed
  /\ At("rewind") => NoLeaves /\ NoClusters

Crowded(row) == ~(Cardinality(Peers(row)) <= Cap)

\* The first rows are the bodies, the others are still to be replayed; one
\* that is not in the map any more was crowded out of its leaf.
ReplaySound ==
  At("replay") \/ At("loaded") =>
    /\ counter = saved.counter
    /\ Len(saved.rows) = Len(bodies) + Len(admin.rows)
    /\ \A i \in DOMAIN admin.rows : admin.rows[i] = saved.rows[Len(bodies) + i]
    /\ \A b \in DOMAIN bodies :
         /\ bodies[b] = Restored(saved.rows[b])
         /\ history[b] = saved.rows[b].past
         /\ saved.rows[b].id \in DOMAIN clusters \/ Crowded(saved.rows[b])
    /\ At("loaded") => admin.rows = <<>>

RInv ==
  /\ Typed
  /\ SavedSound
  /\ AdminTyped
  /\ CollectSound
  /\ ClearSound
  /\ ReplaySound
  /\ admin.at \notin {"shards", "clear"} => MInv

-----------------------------------------------------------------------------
(* The calls keep what holds of the miner.                                 *)

\* A line is counted on a body of its own path.
LEMMA NextLinesFiled ==
  ASSUME IInv, SInv, KInv, LinesFiled, IInv', [Next]_vars
  PROVE  LinesFiled'
<1>1. /\ KeysKept(bodies, bodies')
      /\ DOMAIN history = DOMAIN bodies /\ DOMAIN history' = DOMAIN bodies'
      /\ history \in Seq(Histories) /\ bodies \in Seq(Body)
  BY NextKeysKept DEF IInv, TypeOK, HistoryAligned
<1>2. CASE history' = history
  BY <1>1, <1>2 DEF LinesFiled, KeysKept
<1>3. ASSUME NEW t \in Threads, NEW changed \in BOOLEAN, pc[t] \in {"decide", "upgrade"},
             history' = [history EXCEPT ![op[t].best.ref] = Absorb(@, op[t], changed)]
      PROVE  LinesFiled'
  <2> DEFINE ref == op[t].best.ref
  <2>1. /\ ref \in DOMAIN bodies /\ op[t] \in Ops /\ op[t].line \in Lines
    BY <1>3, ApplierBody, OpType
       DEF IInv, ThreadsSound, ThreadSound, HasLine, Applying
  <2>2. Keys(op[t].line) = Keys(bodies[ref].tokens)
    BY <1>1, <1>3, <2>1 DEF KInv, ThreadsFiled, ThreadFiled, Holding, Applying
  <2>3. Absorb(history[ref], op[t], changed).lines = history[ref].lines \cup {op[t].line}
    BY <1>1, <1>3, <2>1, AbsorbTyped
  <2>4. \A b \in DOMAIN history : history'[b].lines =
          IF b = ref THEN history[b].lines \cup {op[t].line} ELSE history[b].lines
    BY <1>1, <1>3, <2>1, <2>3
  <2>5. DOMAIN history' = DOMAIN history
    BY <1>3
  <2> SUFFICES ASSUME NEW b \in DOMAIN bodies, NEW l \in history'[b].lines
               PROVE  Keys(l) = Keys(bodies'[b].tokens)
    BY <1>1, <2>5 DEF LinesFiled
  <2>6. Keys(bodies'[b].tokens) = Keys(bodies[b].tokens)
    BY <1>1 DEF KeysKept
  <2> QED BY <1>1, <2>2, <2>4, <2>6 DEF LinesFiled
<1>4. ASSUME NEW t \in Threads, Publish(t) PROVE LinesFiled'
  <2> DEFINE h == [seed |-> op[t].line, lines |-> {op[t].line},
                   events |-> {op[t].ms} \ {None}, changes |-> 0]
  <2>1. history' = Append(history, h) /\ h.lines = {op[t].line}
    BY <1>4 DEF Publish
  <2> HIDE DEF h
  <2>2. /\ \A b \in DOMAIN history : history'[b] = history[b]
        /\ history'[Len(bodies) + 1] = h
    BY <1>1, <2>1 DEF IInv, HistoryAligned
  <2>3. /\ DOMAIN bodies' = DOMAIN bodies \cup {Len(bodies) + 1}
        /\ \A b \in DOMAIN bodies : bodies'[b] = bodies[b]
        /\ bodies'[Len(bodies) + 1].tokens = op[t].line
    BY <1>4, PublishFacts
  <2> QED BY <1>1, <2>1, <2>2, <2>3 DEF LinesFiled
<1>5. ASSUME NEW t \in Threads, Call(t) \/ Step(t) PROVE LinesFiled'
  <2>1. history' = history \/ Upgrade(t) \/ Decide(t) \/ Publish(t)
    BY <1>5 DEF Step, Call, GetShard, EnterShard, ReadLeaf, Visit, EndScan, WriteLeaf,
           EndRescan, NewId, Stamp, Consider, Link, Hit, Touch, ObserveFirst,
           ObserveLast, Lookup, Params, ShowFirst, ShowLast
  <2>2. CASE Upgrade(t)
    <3> DEFINE changed == Changed(op[t].needs, bodies[op[t].best.ref].tokens, op[t].line)
    <3>1. op[t].needs \in BOOLEAN
      BY OpType DEF IInv, Ops
    <3>2. changed \in BOOLEAN
      BY <3>1 DEF Changed
    <3>3. /\ pc[t] = "upgrade"
          /\ history' = [history EXCEPT ![op[t].best.ref] = Absorb(@, op[t], changed)]
      BY <2>2 DEF Upgrade
    <3> HIDE DEF changed
    <3> QED BY <1>3, <3>2, <3>3
  <2>3. CASE Decide(t) /\ history' # history
    <3>1. /\ pc[t] = "decide"
          /\ history' = [history EXCEPT ![op[t].best.ref] = Absorb(@, op[t], FALSE)]
      BY <2>3 DEF Decide
    <3> QED BY <1>3, <3>1
  <2> QED BY <1>2, <1>4, <2>1, <2>2, <2>3
<1>6. Rest \/ UNCHANGED vars => history' = history
  BY DEF Rest, vars
<1> QED BY <1>2, <1>5, <1>6 DEF Next

\* Every step of the miner keeps what holds of it.
LEMMA NextMInv ==
  ASSUME MInv, [Next]_vars
  PROVE  MInv'
<1>1. IInv'
  BY NextIInv DEF MInv
<1>2. SInv'
  BY <1>1, NextSInv DEF MInv
<1> QED BY <1>1, <1>2, NextKInv, NextLinesFiled DEF MInv

\* Ids are not taken back.
LEMMA CounterGrows ==
  ASSUME TypeOK, NEW t \in Threads, Call(t) \/ Step(t)
  PROVE  counter' >= counter
<1>1. counter \in Nat
  BY DEF TypeOK
<1>2. CASE NewId(t)
  BY <1>1, <1>2 DEF NewId
<1>3. CASE counter' = counter
  BY <1>1, <1>3
<1>4. NewId(t) \/ counter' = counter
  BY DEF Step, Call, clocks, GetShard, EnterShard, ReadLeaf, Visit, EndScan, WriteLeaf,
         EndRescan, Stamp, Publish, Consider, Link, Hit, Touch, ObserveFirst, ObserveLast,
         Decide, Upgrade, Lookup, Params, ShowFirst, ShowLast
<1> QED BY <1>2, <1>3, <1>4

\* An empty miner that nobody calls satisfies whatever holds of a miner.
LEMMA EmptyMiner == Typed /\ Still /\ NoLeaves /\ NoClusters => MInv
<1> SUFFICES ASSUME Typed, Still, NoLeaves, NoClusters PROVE MInv
  OBVIOUS
<1>1. /\ DOMAIN trees = {} /\ DOMAIN bodies = {} /\ DOMAIN history = {}
      /\ DOMAIN shards = {} /\ DOMAIN clusters = {}
  BY DEF NoLeaves, NoClusters
<1>2. \A t \in Threads : pc[t] = "idle" /\ op[t].victim = NoVictim
  BY DEF Still, Quiet
<1>3. TypeOK
  <2>1. shards \in [DOMAIN shards -> DOMAIN trees] /\ clusters \in [DOMAIN clusters -> DOMAIN bodies]
    BY <1>1 DEF Typed
  <2> QED BY <2>1 DEF Typed, NoLeaves, NoClusters, TypeOK
<1>4. IInv
  BY <1>1, <1>2, <1>3
     DEF IInv, HistoryAligned, NoClusters, IdsUnique, Minted, MapNamesBodies,
         ShardsDistinct, LeavesShaped, AbsorbedCovered, ThreadsSound, ThreadSound,
         HasLine, InShard, Scanning, Applying
<1>5. SInv
  BY <1>1, <1>2
    DEF SInv, Exclusive, Writing, IdsPositive, Minted, ShardsReached, LeafWithinCap,
        LeavesLive, OnePlace, MapReached, EntrantsApart, Entering, VictimsChosen,
        VictimChosen
<1>6. KInv /\ LinesFiled
  BY <1>1, <1>2 DEF KInv, LeavesFiled, ThreadsFiled, ThreadFiled, Holding, Scanning,
                    Applying, Entering, LinesFiled
<1> QED BY <1>4, <1>5, <1>6 DEF MInv

\* The types follow from what holds of the miner.
LEMMA MinerTyped == MInv => Typed
<1> SUFFICES ASSUME MInv PROVE Typed
  OBVIOUS
<1>1. TypeOK
  BY DEF MInv, IInv
<1>2. DOMAIN trees \subseteq Nat /\ DOMAIN bodies \subseteq Nat
  BY <1>1 DEF TypeOK
<1> QED BY <1>1, <1>2 DEF TypeOK, Typed

-----------------------------------------------------------------------------
(* Consequences of the invariant.                                          *)

\* A line that a template stands for is similar enough to it, whatever the
\* threshold.
LEMMA CoversMatches ==
  ASSUME NEW tmpl \in Line, NEW toks \in Line, Covers(tmpl, toks)
  PROVE  Matches(tmpl, toks)
<1>1. /\ Len(tmpl) = Len(toks) /\ Len(toks) \in Nat /\ DOMAIN tmpl = 1..Len(toks)
      /\ Agree(tmpl, toks) = 1..Len(toks)
  <2>1. Len(tmpl) = Len(toks) /\ Len(toks) \in Nat /\ DOMAIN tmpl = 1..Len(tmpl)
    BY DEF Covers, Line
  <2>2. Agree(tmpl, toks) = DOMAIN tmpl
    BY DEF Covers, Agree
  <2> QED BY <2>1, <2>2
<1>2. Score(tmpl, toks) = Width(toks)
  <2>1. CASE tmpl = <<>>
    <3>1. toks = <<>>
      BY <1>1, <2>1 DEF Line
    <3> QED BY <1>1, <2>1, <3>1 DEF Score, Width
  <2>2. CASE tmpl # <<>>
    <3>1. toks # <<>>
      BY <1>1, <2>2 DEF Line
    <3>2. Cardinality(1..Len(toks)) = Len(toks)
      <4>1. ASSUME NEW n \in Nat PROVE Cardinality(1..n) = n
        BY FS_Interval
      <4> QED BY <1>1, <4>1
    <3> QED BY <1>1, <2>2, <3>1, <3>2 DEF Score, Width
  <2> QED BY <2>1, <2>2
<1>3. Width(toks) \in Nat /\ ThNum \in Nat /\ ThDen \in Nat /\ ThNum <= ThDen
  BY <1>1, OptionsAssumption DEF Width
<1>4. \A w, m, n \in Nat : m <= n => w * n >= m * w
  OBVIOUS
<1> QED BY <1>2, <1>3, <1>4 DEF Matches, Accepts

\* An id that a thread is about to enter is in no map: it was never stored, and
\* the counter was set above every id that was.
LEMMA FreshFollows == RInv => FreshIds
<1> SUFFICES ASSUME RInv, NEW t \in Threads, pc[t] \in {"stamp", "publish"}
             PROVE  op[t].id \notin DOMAIN clusters
  BY DEF FreshIds
<1>1. MInv
  BY DEF RInv, ClearSound, Still, Quiet, Starting
<1>2. /\ \A b \in DOMAIN bodies : bodies[b].id # op[t].id
      /\ \A id \in DOMAIN clusters : clusters[id] \in DOMAIN bodies /\ bodies[clusters[id]].id = id
  BY <1>1 DEF MInv, IInv, TypeOK, IdsUnique, Minted, MapNamesBodies
<1> QED BY <1>2

\* Outside the clearing the map is the leaves.
LEMMA AgainFollows == RInv => MapIsTheLeavesAgain
BY MapFollows DEF RInv, MInv, MapIsTheLeavesAgain

\* What is known of a body once the last row is replayed.
LEMMA LoadedBodies ==
  ASSUME RInv, At("loaded"), NEW row \in ToSet(saved.rows)
  PROVE  /\ MInv
         /\ \E b \in DOMAIN bodies :
              /\ row = saved.rows[b] /\ bodies[b] = Restored(row) /\ history[b] = row.past
              /\ row.id \in DOMAIN clusters \/ Crowded(row)
              /\ row.id \in DOMAIN clusters => clusters[row.id] = b
<1>1. MInv /\ saved.rows \in Seq(Rows) /\ admin.rows = <<>>
  BY DEF RInv, At, SavedSound, RowsSound, ReplaySound
<1>2. bodies \in Seq(Body) /\ Len(saved.rows) = Len(bodies)
  <2>1. bodies \in Seq(Body) /\ Len(saved.rows) = Len(bodies) + Len(admin.rows)
    BY <1>1 DEF RInv, ReplaySound, MInv, IInv, TypeOK
  <2> QED BY <1>1, <2>1
<1>3. PICK b \in DOMAIN bodies : row = saved.rows[b]
  <2>1. DOMAIN saved.rows = DOMAIN bodies
    BY <1>1, <1>2
  <2> QED BY <2>1 DEF ToSet
<1>4. /\ bodies[b] = Restored(row) /\ history[b] = row.past
      /\ row.id \in DOMAIN clusters \/ Crowded(row)
  BY <1>3 DEF RInv, ReplaySound
<1>5. bodies[b].id = row.id
  BY <1>4 DEF Restored
<1>6. row.id \in DOMAIN clusters => clusters[row.id] = b
  BY <1>1, <1>5 DEF MInv, IInv, TypeOK, MapNamesBodies, IdsUnique
<1> QED BY <1>1, <1>3, <1>4, <1>6

\* A row is again what the snapshot would take of the body it became.
LEMMA RowAgain ==
  ASSUME NEW b, NEW row \in Rows, bodies[b] = Restored(row), history[b] = row.past
  PROVE  Row(b) = row
<1>1. row = [id |-> row.id, tokens |-> row.tokens, size |-> row.size,
             first |-> row.first, last |-> row.last,
             members |-> row.members, past |-> row.past]
  BY DEF Rows
<1> QED BY <1>1 DEF Row, Restored

\* Every row is a cluster again unless its leaf was crowded, and every cluster
\* is a row.
LEMMA RestoredFollows == RInv => RestoredAsSaved
<1> SUFFICES ASSUME RInv, At("loaded") PROVE RestoredAsSaved
  BY DEF RestoredAsSaved
<1>1. ASSUME NEW id \in DOMAIN clusters PROVE id \in {row.id : row \in ToSet(saved.rows)}
  <2>1. MInv /\ saved.rows \in Seq(Rows) /\ admin.rows = <<>>
    BY DEF RInv, At, SavedSound, RowsSound, ReplaySound
  <2>2. /\ bodies \in Seq(Body) /\ Len(saved.rows) = Len(bodies) + Len(admin.rows)
        /\ clusters[id] \in DOMAIN bodies /\ bodies[clusters[id]].id = id
    BY <1>1, <2>1 DEF RInv, ReplaySound, MInv, IInv, TypeOK, MapNamesBodies
  <2>3. clusters[id] \in DOMAIN saved.rows
    BY <2>1, <2>2
  <2>4. bodies[clusters[id]] = Restored(saved.rows[clusters[id]])
    BY <2>2 DEF RInv, ReplaySound
  <2>5. saved.rows[clusters[id]].id = id
    BY <2>2, <2>4 DEF Restored
  <2> QED BY <2>3, <2>5 DEF ToSet
<1>2. ASSUME NEW row \in ToSet(saved.rows), Cardinality(Peers(row)) <= Cap
      PROVE  row.id \in DOMAIN clusters /\ Row(clusters[row.id]) = row
  <2>1. ~Crowded(row) /\ row \in Rows
    <3>1. saved.rows \in Seq(Rows)
      BY DEF RInv, SavedSound, RowsSound
    <3> QED BY <1>2, <3>1 DEF Crowded, ToSet
  <2>2. PICK b : /\ bodies[b] = Restored(row) /\ history[b] = row.past
                 /\ row.id \in DOMAIN clusters \/ Crowded(row)
                 /\ row.id \in DOMAIN clusters => clusters[row.id] = b
    BY LoadedBodies
  <2> QED BY <2>1, <2>2, RowAgain
<1> QED BY <1>1, <1>2 DEF RestoredAsSaved

\* The lines of a row descend to the leaf that its cluster was put in.
LEMMA LinesFollow == RInv => SavedLinesStillMatch
<1> SUFFICES ASSUME RInv, At("loaded"), NEW row \in ToSet(saved.rows),
                    Cardinality(Peers(row)) <= Cap, NEW line \in row.past.lines
             PROVE  \E i \in DOMAIN trees[shards[Len(line)]][Keys(line)] :
                      LET id == trees[shards[Len(line)]][Keys(line)][i]
                      IN  Matches(bodies[clusters[id]].tokens, line)
  BY DEF SavedLinesStillMatch
<1>1. MInv
  BY LoadedBodies
<1>2. row.id \in DOMAIN clusters /\ Row(clusters[row.id]) = row
  BY RestoredFollows DEF RestoredAsSaved
<1>3. PICK b : b = clusters[row.id]
  OBVIOUS
<1>4. /\ b \in DOMAIN bodies /\ bodies[b].id = row.id /\ bodies[b].tokens = row.tokens
      /\ history[b] = row.past
  BY <1>1, <1>2, <1>3 DEF Row, MInv, IInv, TypeOK
<1>5. /\ row.tokens \in Line /\ line \in Line /\ Covers(row.tokens, line)
      /\ Keys(line) = Keys(row.tokens)
  <2>1. bodies \in Seq(Body) /\ history \in Seq(Histories) /\ Len(history) = Len(bodies)
    BY <1>1 DEF MInv, IInv, TypeOK, HistoryAligned
  <2>2. row.tokens \in Line
    BY <1>4, <2>1, BodyFields
  <2>3. history[b] \in Histories
    BY <1>4, <2>1
  <2>4. line \in Lines
    BY <1>4, <2>3 DEF Histories
  <2>5. Covers(row.tokens, line) /\ Keys(line) = Keys(row.tokens)
    BY <1>1, <1>4 DEF MInv, IInv, AbsorbedCovered, LinesFiled
  <2> QED BY <2>2, <2>4, <2>5, MinerAssumption
<1>6. PICK s \in DOMAIN trees, p \in Paths : row.id \in Range(trees[s][p])
  <2>1. \A t \in Threads : pc[t] = "idle"
    BY DEF RInv, ClearSound, Starting, At, Still, Quiet
  <2> QED BY <1>1, <1>2, <2>1 DEF MInv, SInv, MapReached, Entering, Listed
<1>7. PICK c \in DOMAIN shards : shards[c] = s
  BY <1>1 DEF MInv, SInv, ShardsReached
<1>8. PICK i \in DOMAIN trees[s][p] : trees[s][p][i] = row.id
  BY <1>6 DEF Range
<1>9. Len(bodies[b].tokens) = c
  <2>1. PICK a \in DOMAIN bodies : bodies[a].id = row.id /\ Len(bodies[a].tokens) = c
    BY <1>1, <1>7, <1>8 DEF MInv, IInv, LeavesShaped, Shaped
  <2> QED BY <1>1, <1>4, <2>1 DEF MInv, IInv, IdsUnique
<1>10. Keys(bodies[b].tokens) = p
  BY <1>1, <1>2, <1>3, <1>6, FiledBody DEF MInv, KInv, LeavesFiled
<1>11. Len(line) = c /\ Keys(line) = p
  BY <1>4, <1>5, <1>9, <1>10 DEF Covers
<1>12. Matches(row.tokens, line)
  BY <1>5, CoversMatches
<1> QED BY <1>3, <1>4, <1>7, <1>8, <1>11, <1>12

-----------------------------------------------------------------------------
(* Steps of the operator that leave the miner alone.                       *)

\* What is known of a miner stays known of it.
LEMMA MinerKept ==
  ASSUME UNCHANGED vars
  PROVE  /\ MInv => MInv'
         /\ Typed => Typed'
         /\ Still => Still'
         /\ NoLeaves => NoLeaves'
         /\ NoClusters => NoClusters'
<1>1. MInv => MInv'
  BY NextMInv
<1>2. UNCHANGED <<shards, trees, clusters, bodies, counter, tick, calls, pc, op, answer, history>>
  BY DEF vars
<1>3. Typed => Typed'
  BY <1>2 DEF Typed
<1>4. Still => Still'
  BY <1>2 DEF Still, Quiet
<1> QED BY <1>1, <1>2, <1>3, <1>4 DEF NoLeaves, NoClusters

\* When no call runs in a sound miner, none has left a victim behind.
LEMMA QuietIsStill ==
  ASSUME MInv, Quiet
  PROVE  Still
BY DEF MInv, SInv, VictimsChosen, VictimChosen, Entering, Still, Quiet

\* Where nothing was started or everything is done, only the rows that the
\* backend holds are to be known.
LEMMA ToRest ==
  ASSUME RInv, UNCHANGED <<vars, saved>>, admin.at \notin {"shards", "clear"},
         (admin' = [Resting EXCEPT !.at = "load"] /\ Quiet) \/ admin' = Resting
  PROVE  RInv'
<1>1. admin'.at \in {"rest", "load"} /\ admin'.passed = {} /\ AdminTyped'
  <2>1. PICK at \in {"rest", "load"} :
          admin' = [at |-> at, due |-> {}, passed |-> {}, rows |-> <<>>]
    BY DEF Resting
  <2>2. /\ admin'.at = at /\ admin'.due = {} /\ admin'.passed = {} /\ admin'.rows = <<>>
    BY <2>1
  <2> QED BY <2>1, <2>2, EmptySeq DEF AdminTyped, Stages
<1>2. MInv /\ MInv' /\ Typed'
  BY MinerKept DEF RInv
<1>3. SavedSound'
  BY DEF RInv, SavedSound, RowsSound, RowSound
<1>4. admin'.at = "load" => Still'
  BY <1>2, QuietIsStill, MinerKept DEF Resting
<1>5. CollectSound' /\ ClearSound' /\ ReplaySound'
  BY <1>1, <1>4 DEF CollectSound, ClearSound, ReplaySound, At, Starting
<1> QED BY <1>2, <1>1, <1>3, <1>5 DEF RInv

\* A snapshot starts with no rows.
LEMMA StartSnapshotStep ==
  ASSUME RInv, StartSnapshot
  PROVE  RInv'
<1>1. admin.at = "rest" /\ UNCHANGED vars /\ saved' = saved
  BY DEF StartSnapshot, At
<1>2. MInv /\ MInv' /\ Typed'
  BY <1>1, MinerKept DEF RInv
<1>3. admin' = [at |-> "collect", due |-> DOMAIN clusters, passed |-> {}, rows |-> <<>>]
  BY DEF StartSnapshot, Resting
<1>4. admin'.at = "collect" /\ admin'.rows = <<>> /\ AdminTyped'
  BY <1>3, EmptySeq DEF AdminTyped, Stages
<1>5. SavedSound'
  BY <1>1 DEF RInv, SavedSound, RowsSound, RowSound
<1>6. CollectSound'
  <2>1. \A limit : RowsSound(<<>>, limit)
    BY EmptySeq DEF RowsSound
  <2> QED BY <1>4, <2>1 DEF CollectSound
<1>7. ClearSound' /\ ReplaySound'
  BY <1>4 DEF ClearSound, ReplaySound, At, Starting
<1> QED BY <1>2, <1>4, <1>5, <1>6, <1>7 DEF RInv

\* What the iterator visits can be replayed one day.
LEMMA RowOfCluster ==
  ASSUME MInv, NEW id \in DOMAIN clusters
  PROVE  /\ Row(clusters[id]) \in Rows
         /\ RowSound(Row(clusters[id]))
         /\ Row(clusters[id]).id = id /\ id <= counter
<1>1. PICK b \in DOMAIN bodies : b = clusters[id] /\ bodies[b].id = id
  BY DEF MInv, IInv, TypeOK, MapNamesBodies
<1>2. /\ bodies \in Seq(Body) /\ history \in Seq(Histories) /\ Len(history) = Len(bodies)
  BY DEF MInv, IInv, TypeOK, HistoryAligned
<1>3. bodies[b] \in Body /\ history[b] \in Histories
  BY <1>1, <1>2
<1>4. Row(b) \in Rows
  BY <1>3 DEF Row, Rows, Body
<1>5. Row(b).id = id /\ Row(b).tokens = bodies[b].tokens /\ Row(b).past = history[b]
  BY <1>1 DEF Row
<1>6. id # 0 /\ id <= counter
  BY <1>1 DEF MInv, SInv, IdsPositive, IInv, IdsUnique
<1>7. Keys(bodies[b].tokens) \in Paths
  <2>1. CASE Listed(trees, id)
    <3>1. PICK s \in DOMAIN trees, p \in Paths : id \in Range(trees[s][p])
      BY <2>1 DEF Listed
    <3>2. FiledIn(bodies, id, p)
      BY <3>1 DEF MInv, KInv, LeavesFiled
    <3> QED BY <1>1, <3>2, FiledBody DEF MInv
  <2>2. CASE \E t \in Threads : Entering(t) /\ op[t].id = id
    <3>1. PICK t \in Threads : Entering(t) /\ op[t].id = id
      BY <2>2
    <3>2. FiledIn(bodies, id, Keys(op[t].line))
      BY <3>1 DEF MInv, KInv, ThreadsFiled, ThreadFiled
    <3>3. op[t].line \in Lines
      BY <3>1 DEF MInv, IInv, ThreadsSound, ThreadSound, Entering, HasLine
    <3> QED BY <1>1, <3>2, <3>3, FiledBody, LineTypes DEF MInv
  <2> QED BY <2>1, <2>2 DEF MInv, SInv, MapReached
<1>8. \A l \in history[b].lines :
        Covers(bodies[b].tokens, l) /\ Keys(l) = Keys(bodies[b].tokens)
  BY DEF MInv, IInv, AbsorbedCovered, LinesFiled
<1> QED BY <1>1, <1>4, <1>5, <1>6, <1>7, <1>8 DEF RowSound

\* A row more keeps the rows sound if its id is new.
LEMMA RowAdded ==
  ASSUME NEW rows, NEW limit, RowsSound(rows, limit), NEW row \in Rows,
         RowSound(row), row.id <= limit,
         \A i \in DOMAIN rows : rows[i].id # row.id
  PROVE  /\ RowsSound(Append(rows, row), limit)
         /\ \A i \in DOMAIN Append(rows, row) :
              Append(rows, row)[i] = row \/ \E j \in DOMAIN rows : Append(rows, row)[i] = rows[j]
<1> DEFINE more == Append(rows, row)
<1>1. rows \in Seq(Rows)
  BY DEF RowsSound
<1>2. /\ more \in Seq(Rows) /\ DOMAIN more = DOMAIN rows \cup {Len(rows) + 1}
      /\ more[Len(rows) + 1] = row
      /\ \A i \in DOMAIN rows : more[i] = rows[i]
  BY <1>1
<1> HIDE DEF more
<1>3. \A i \in DOMAIN more : RowSound(more[i]) /\ more[i].id <= limit
  BY <1>2 DEF RowsSound
<1>4. \A i, j \in DOMAIN more : more[i].id = more[j].id => i = j
  BY <1>2 DEF RowsSound
<1>5. \A i \in DOMAIN more : more[i] = row \/ \E j \in DOMAIN rows : more[i] = rows[j]
  BY <1>2
<1>6. RowsSound(more, limit)
  BY <1>2, <1>3, <1>4 DEF RowsSound
<1> QED BY <1>5, <1>6 DEF more

\* The rows collected stay sound with every visit.
LEMMA CollectStep ==
  ASSUME RInv, Collect
  PROVE  RInv'
<1>1. admin.at = "collect" /\ UNCHANGED vars /\ saved' = saved
  BY DEF Collect, At
<1>2. MInv /\ MInv' /\ Typed' /\ AdminTyped /\ counter' = counter
  BY <1>1, MinerKept DEF RInv, vars
<1>3. PICK id \in DOMAIN clusters \ admin.passed :
        \E row : /\ row = Row(clusters[id])
                 /\ admin' = [admin EXCEPT !.passed = @ \cup {id}, !.rows = Append(@, row)]
  BY DEF Collect
<1>0. PICK row : /\ row = Row(clusters[id])
                 /\ admin' = [admin EXCEPT !.passed = @ \cup {id}, !.rows = Append(@, row)]
  BY <1>3
<1>4. row \in Rows /\ RowSound(row) /\ row.id = id /\ id <= counter
  BY <1>2, <1>0, RowOfCluster
<1>5. /\ admin'.at = "collect" /\ admin'.due = admin.due
      /\ admin'.passed = admin.passed \cup {id}
      /\ admin'.rows = Append(admin.rows, row)
      /\ admin' = [at |-> admin'.at, due |-> admin'.due,
                   passed |-> admin'.passed, rows |-> admin'.rows]
  BY <1>1, <1>2, <1>0 DEF AdminTyped
<1>6. RowsSound(admin.rows, counter) /\ \A i \in DOMAIN admin.rows : admin.rows[i].id \in admin.passed
  BY <1>1 DEF RInv, CollectSound, At
<1>7. /\ RowsSound(admin'.rows, counter')
      /\ \A i \in DOMAIN admin'.rows :
           admin'.rows[i] = row \/ \E j \in DOMAIN admin.rows : admin'.rows[i] = admin.rows[j]
  <2>1. \A i \in DOMAIN admin.rows : admin.rows[i].id # row.id
    BY <1>3, <1>4, <1>6
  <2> QED BY <1>2, <1>4, <1>5, <1>6, <2>1, RowAdded
<1>8. AdminTyped'
  BY <1>5, <1>7 DEF AdminTyped, Stages, RowsSound
<1>9. CollectSound'
  BY <1>4, <1>5, <1>6, <1>7 DEF CollectSound
<1>10. SavedSound'
  BY <1>1 DEF RInv, SavedSound, RowsSound, RowSound
<1>11. ClearSound' /\ ReplaySound'
  BY <1>5 DEF ClearSound, ReplaySound, At, Starting
<1> QED BY <1>2, <1>8, <1>9, <1>10, <1>11 DEF RInv

\* The counter is read after the last visit: no row has an id above it.
LEMMA EndSnapshotStep ==
  ASSUME RInv, EndSnapshot
  PROVE  RInv'
<1>1. admin.at = "collect" /\ UNCHANGED vars /\ admin' = Resting
  BY DEF EndSnapshot, At
<1>2. saved'.counter = counter /\ saved'.rows = admin.rows
  BY DEF EndSnapshot
<1>3. MInv' /\ Typed'
  BY <1>1, MinerKept DEF RInv
<1>4. SavedSound'
  BY <1>1, <1>2 DEF RInv, CollectSound, At, SavedSound, RowsSound, RowSound, Typed
<1>5. admin'.at = "rest" /\ AdminTyped'
  BY <1>1, EmptySeq DEF Resting, AdminTyped, Stages
<1>6. CollectSound' /\ ClearSound' /\ ReplaySound'
  BY <1>5 DEF CollectSound, ClearSound, ReplaySound, At, Starting
<1> QED BY <1>3, <1>4, <1>5, <1>6 DEF RInv

-----------------------------------------------------------------------------
(* The miner is cleared, and the counter is set.                           *)

\* What the backend holds stays sound as long as nothing is saved.
LEMMA SavedKept ==
  ASSUME RInv, saved' = saved
  PROVE  SavedSound'
BY DEF RInv, SavedSound, RowsSound, RowSound

\* A step from one phase of a load to another.
LEMMA AdminMoves ==
  ASSUME AdminTyped, NEW at \in Stages, NEW due,
         \/ admin' = [admin EXCEPT !.at = at]
         \/ admin' = [admin EXCEPT !.at = at, !.due = due]
         \/ admin' = [Resting EXCEPT !.at = at, !.due = due]
         \/ admin' = [Resting EXCEPT !.at = at]
  PROVE  /\ AdminTyped' /\ admin'.at = at
         /\ \/ admin'.passed = admin.passed /\ admin'.rows = admin.rows
            \/ admin'.passed = {} /\ admin'.rows = <<>>
<1>1. PICK d, passed, rows :
        /\ admin' = [at |-> at, due |-> d, passed |-> passed, rows |-> rows]
        /\ \/ passed = admin.passed /\ rows = admin.rows
           \/ passed = {} /\ rows = <<>>
  BY DEF AdminTyped, Resting
<1>2. admin'.at = at /\ admin'.due = d /\ admin'.passed = passed /\ admin'.rows = rows
  BY <1>1
<1>3. rows \in Seq(Rows)
  BY <1>1, EmptySeq DEF AdminTyped
<1> QED BY <1>1, <1>2, <1>3 DEF AdminTyped

\* A load begins with all shards due, or ends where nothing was saved.
LEMMA LoadStep ==
  ASSUME RInv, Load
  PROVE  RInv'
<1>1. admin.at = "load" /\ UNCHANGED <<vars, saved>>
  BY DEF Load, At
<1>2. CASE admin' = Resting
  BY <1>1, <1>2, ToRest
<1>3. CASE admin' = [admin EXCEPT !.at = "shards", !.due = DOMAIN shards]
  <2>1. admin'.at = "shards" /\ AdminTyped'
    BY <1>3, AdminMoves DEF RInv, Stages
  <2>2. admin'.due = DOMAIN shards /\ admin'.passed = admin.passed /\ admin.passed = {}
    BY <1>1, <1>3 DEF RInv, AdminTyped, ClearSound, At
  <2>3. Still /\ Still' /\ Typed' /\ shards' = shards
    BY <1>1, MinerKept DEF RInv, ClearSound, Starting, vars
  <2>4. ClearSound' /\ CollectSound' /\ ReplaySound'
    BY <2>1, <2>2, <2>3 DEF ClearSound, CollectSound, ReplaySound, At
  <2> QED BY <1>1, <2>1, <2>3, <2>4, SavedKept DEF RInv
<1> QED BY <1>2, <1>3 DEF Load

\* Shard by shard; after the last one there are no leaves.
LEMMA ClearShardsStep ==
  ASSUME RInv, ClearShards
  PROVE  RInv'
<1>1. /\ admin.at = "shards" /\ saved' = saved
      /\ UNCHANGED <<clusters, bodies, counter, tick, calls, pc, op, answer, history>>
  BY DEF ClearShards, At, clocks, local
<1>2. /\ Still /\ Typed /\ AdminTyped
      /\ DOMAIN shards \subseteq admin.due \ admin.passed
  BY <1>1 DEF RInv, ClearSound, Starting, At
<1>3. Still'
  BY <1>1, <1>2 DEF Still, Quiet
<1>4. CASE \E count \in DOMAIN shards \ admin.passed :
             /\ shards' = Without(shards, count)
             /\ admin' = [admin EXCEPT !.passed = @ \cup {count}]
  <2>1. PICK count \in DOMAIN shards \ admin.passed :
          /\ shards' = Without(shards, count)
          /\ admin' = [admin EXCEPT !.passed = @ \cup {count}]
    BY <1>4
  <2>2. /\ admin'.at = "shards" /\ admin'.due = admin.due /\ admin'.rows = admin.rows
        /\ admin'.passed = admin.passed \cup {count}
        /\ admin' = [at |-> admin'.at, due |-> admin'.due,
                     passed |-> admin'.passed, rows |-> admin'.rows]
    BY <1>1, <1>2, <2>1 DEF AdminTyped
  <2>3. AdminTyped'
    BY <1>2, <2>2 DEF AdminTyped, Stages
  <2>4. DOMAIN shards' = DOMAIN shards \ {count} /\ shards' \in [DOMAIN shards' -> Nat]
    BY <1>2, <2>1 DEF Without, Typed
  <2>5. Typed'
    BY <1>1, <1>2, <2>4 DEF Typed
  <2>6. ClearSound' /\ CollectSound' /\ ReplaySound'
    BY <1>2, <1>3, <2>2, <2>4 DEF ClearSound, CollectSound, ReplaySound, At
  <2> QED BY <1>1, <2>2, <2>3, <2>5, <2>6, SavedKept DEF RInv
<1>5. CASE /\ admin.due \cap DOMAIN shards \subseteq admin.passed
           /\ admin' = [Resting EXCEPT !.at = "clear", !.due = DOMAIN clusters]
           /\ trees' = IF Quiet /\ DOMAIN shards = {} THEN <<>> ELSE trees
           /\ shards' = shards
  <2>1. DOMAIN shards = {}
    BY <1>2, <1>5
  <2>2. NoLeaves'
    BY <1>2, <1>5, <2>1 DEF NoLeaves, Still
  <2>3. admin'.at = "clear" /\ AdminTyped'
    BY <1>2, <1>5, AdminMoves DEF Stages
  <2>4. admin'.due = DOMAIN clusters /\ admin'.passed = {}
    BY <1>5 DEF Resting
  <2>5. Typed'
    BY <1>1, <1>2, <1>5 DEF Typed
  <2>6. ClearSound' /\ CollectSound' /\ ReplaySound'
    BY <1>1, <1>3, <2>2, <2>3, <2>4 DEF ClearSound, CollectSound, ReplaySound, At
  <2> QED BY <1>1, <2>3, <2>5, <2>6, SavedKept DEF RInv
<1> QED BY <1>4, <1>5 DEF ClearShards

\* Cluster by cluster; after the last one the miner is empty.
LEMMA ClearMapStep ==
  ASSUME RInv, ClearMap
  PROVE  RInv'
<1>1. /\ admin.at = "clear" /\ saved' = saved
      /\ UNCHANGED <<shards, trees, counter, tick, calls, pc, op, answer>>
  BY DEF ClearMap, At, clocks, local
<1>2. /\ Still /\ Typed /\ AdminTyped /\ NoLeaves
      /\ DOMAIN clusters \subseteq admin.due \ admin.passed
  BY <1>1 DEF RInv, ClearSound, Starting, At
<1>3. Still' /\ NoLeaves'
  BY <1>1, <1>2 DEF Still, Quiet, NoLeaves
<1>4. CASE \E id \in DOMAIN clusters \ admin.passed :
             /\ clusters' = Without(clusters, id)
             /\ admin' = [admin EXCEPT !.passed = @ \cup {id}]
  <2>1. PICK id \in DOMAIN clusters \ admin.passed :
          /\ clusters' = Without(clusters, id)
          /\ admin' = [admin EXCEPT !.passed = @ \cup {id}]
    BY <1>4
  <2>2. /\ admin'.at = "clear" /\ admin'.due = admin.due /\ admin'.rows = admin.rows
        /\ admin'.passed = admin.passed \cup {id}
        /\ admin' = [at |-> admin'.at, due |-> admin'.due,
                     passed |-> admin'.passed, rows |-> admin'.rows]
    BY <1>1, <1>2, <2>1 DEF AdminTyped
  <2>3. AdminTyped'
    BY <1>2, <2>2 DEF AdminTyped, Stages
  <2>4. DOMAIN clusters' = DOMAIN clusters \ {id} /\ clusters' \in [DOMAIN clusters' -> Nat]
    BY <1>2, <2>1 DEF Without, Typed
  <2>5. Typed'
    BY <1>1, <1>2, <2>4 DEF Typed
  <2>6. ClearSound' /\ CollectSound' /\ ReplaySound'
    BY <1>2, <1>3, <2>2, <2>4 DEF ClearSound, CollectSound, ReplaySound, At
  <2> QED BY <1>1, <2>2, <2>3, <2>5, <2>6, SavedKept DEF RInv
<1>5. CASE /\ admin.due \cap DOMAIN clusters \subseteq admin.passed
           /\ admin' = [Resting EXCEPT !.at = "rewind"]
           /\ Quiet /\ DOMAIN clusters = {} => bodies' = <<>> /\ history' = <<>>
           /\ clusters' = clusters
  <2>1. DOMAIN clusters = {}
    BY <1>2, <1>5
  <2>2. NoClusters'
    BY <1>2, <1>5, <2>1 DEF NoClusters, Still
  <2>3. admin'.at = "rewind" /\ AdminTyped'
    BY <1>2, <1>5, AdminMoves DEF Stages
  <2>4. Typed'
    BY <1>1, <1>2, <1>5 DEF Typed
  <2>5. MInv'
    BY <1>3, <2>2, <2>4, EmptyMiner, PTL
  <2>6. ClearSound' /\ CollectSound' /\ ReplaySound'
    BY <1>3, <2>2, <2>3 DEF ClearSound, CollectSound, ReplaySound, At
  <2> QED BY <1>1, <2>3, <2>4, <2>5, <2>6, SavedKept DEF RInv
<1> QED BY <1>4, <1>5 DEF ClearMap

\* The replay starts with an empty miner and all rows of the snapshot.
LEMMA RewindStep ==
  ASSUME RInv, Rewind
  PROVE  RInv'
<1>1. /\ admin.at = "rewind" /\ saved' = saved /\ counter' = saved.counter
      /\ UNCHANGED <<shards, trees, clusters, bodies, tick, calls, pc, op, answer, history>>
  BY DEF Rewind, At, index, local
<1>2. /\ Still /\ Typed /\ AdminTyped /\ NoLeaves /\ NoClusters
      /\ saved.counter \in Nat /\ saved.rows \in Seq(Rows)
  BY <1>1 DEF RInv, ClearSound, Starting, At, SavedSound, RowsSound
<1>3. Still' /\ NoLeaves' /\ NoClusters' /\ Typed'
  BY <1>1, <1>2 DEF Still, Quiet, NoLeaves, NoClusters, Typed
<1>4. MInv'
  BY <1>3, EmptyMiner, PTL
<1>5. /\ admin'.at = "replay" /\ admin'.rows = saved.rows
      /\ admin' = [at |-> admin'.at, due |-> admin'.due,
                   passed |-> admin'.passed, rows |-> admin'.rows]
  BY <1>2 DEF AdminTyped, Rewind
<1>6. AdminTyped'
  BY <1>2, <1>5 DEF AdminTyped, Stages
<1>7. ReplaySound'
  <2>1. bodies' = <<>> /\ Len(<<>>) = 0 /\ DOMAIN bodies' = {}
    BY <1>3 DEF NoClusters
  <2>2. Len(saved.rows) \in Nat
    BY <1>2
  <2>3. Len(saved.rows) = Len(bodies') + Len(admin'.rows)
    BY <1>5, <2>1, <2>2
  <2>4. \A i \in DOMAIN admin'.rows : admin'.rows[i] = saved.rows[Len(bodies') + i]
    BY <1>2, <1>5, <2>1
  <2> QED BY <1>1, <1>5, <2>1, <2>3, <2>4 DEF ReplaySound, At
<1>8. ClearSound' /\ CollectSound'
  BY <1>3, <1>5 DEF ClearSound, CollectSound, At
<1> QED BY <1>1, <1>3, <1>4, <1>6, <1>7, <1>8, SavedKept DEF RInv

-----------------------------------------------------------------------------
(* The end of a load, a restart, and the calls in between.                 *)

\* After the last row the bodies are the rows.
LEMMA EndLoadStep ==
  ASSUME RInv, EndLoad
  PROVE  RInv'
<1>1. admin.at = "replay" /\ admin.rows = <<>> /\ UNCHANGED vars /\ saved' = saved
  BY DEF EndLoad, At
<1>2. MInv' /\ Typed' /\ Still' /\ AdminTyped
  BY <1>1, MinerKept DEF RInv, ClearSound, Starting
<1>3. admin'.at = "loaded" /\ admin'.rows = admin.rows /\ AdminTyped'
  <2>1. admin' = [admin EXCEPT !.at = "loaded"]
    BY DEF EndLoad
  <2>2. admin'.at = "loaded" /\ AdminTyped'
    BY <1>2, <2>1, AdminMoves DEF Stages
  <2>3. admin'.rows = admin.rows
    BY <1>2, <2>1 DEF AdminTyped
  <2> QED BY <2>2, <2>3
<1>4. ReplaySound'
  <2>1. \A row : Crowded(row)' <=> Crowded(row)
    BY <1>1 DEF Crowded, Peers
  <2> QED BY <1>1, <1>3, <2>1 DEF RInv, ReplaySound, At, vars
<1>5. ClearSound' /\ CollectSound'
  BY <1>2, <1>3 DEF ClearSound, CollectSound, At
<1> QED BY <1>1, <1>2, <1>3, <1>4, <1>5, SavedKept DEF RInv

\* The operator is done.
LEMMA LoadedStep ==
  ASSUME RInv, Loaded
  PROVE  RInv'
BY ToRest DEF Loaded, At

\* A load is asked for while nobody calls.
LEMMA ReloadStep ==
  ASSUME RInv, Reload, ~Hot
  PROVE  RInv'
BY ToRest DEF Reload, At

\* The next process starts with an empty miner.
LEMMA RestartEmpties ==
  ASSUME calls \in [Kinds -> Nat], Restart
  PROVE  Typed' /\ Still' /\ NoLeaves' /\ NoClusters' /\ saved' = saved
<1>1. /\ DOMAIN shards' = {} /\ DOMAIN clusters' = {}
      /\ shards' \in [DOMAIN shards' -> Nat] /\ clusters' \in [DOMAIN clusters' -> Nat]
      /\ trees' = <<>> /\ bodies' = <<>> /\ history' = <<>>
      /\ counter' = 0 /\ tick' = 0 /\ calls' = calls /\ saved' = saved
      /\ pc' = [t \in Threads |-> "idle"]
      /\ op' = [t \in Threads |-> NoOp]
      /\ answer' = [t \in Threads |-> NoAnswer]
  BY DEF Restart
<1>2. Typed'
  <2>1. NoAnswer \in Answers /\ "idle" \in Places
    BY DEF NoAnswer, Answer, Answers, Places
  <2>2. op' \in [Threads -> Ops] /\ pc' \in [Threads -> Places] /\ answer' \in [Threads -> Answers]
    BY <1>1, <2>1, NoOpTyped
  <2> QED BY <1>1, <2>2 DEF Typed
<1>3. NoLeaves' /\ NoClusters'
  BY <1>1 DEF NoLeaves, NoClusters
<1>4. Still'
  BY <1>1 DEF Still, Quiet, NoOp
<1> QED BY <1>1, <1>2, <1>3, <1>4

\* Whatever the process was doing, the next one starts empty.
LEMMA RestartStep ==
  ASSUME RInv, Restart
  PROVE  RInv'
<1>1. Typed' /\ Still' /\ NoLeaves' /\ NoClusters' /\ saved' = saved
  BY RestartEmpties DEF RInv, Typed
<1>2. MInv'
  BY <1>1, EmptyMiner, PTL
<1>3. admin' = [Resting EXCEPT !.at = "load"] /\ AdminTyped
  BY DEF Restart, RInv
<1>4. admin'.at = "load" /\ AdminTyped'
  BY <1>3, AdminMoves DEF Stages
<1>5. admin'.passed = {}
  BY <1>3 DEF Resting
<1>6. ClearSound' /\ CollectSound' /\ ReplaySound'
  BY <1>1, <1>4, <1>5 DEF ClearSound, CollectSound, ReplaySound, At
<1> QED BY <1>1, <1>2, <1>4, <1>6, SavedKept DEF RInv

\* A call is served only outside a load; it may run during a snapshot.
LEMMA ServeStep ==
  ASSUME RInv, Serve, ~Hot
  PROVE  RInv'
<1>1. admin.at \in {"rest", "collect"} /\ admin' = admin /\ saved' = saved
  BY DEF Serve, Starting, store
<1>2. PICK t \in Threads : Call(t) \/ Step(t)
  BY DEF Serve
<1>3. MInv /\ MInv' /\ TypeOK
  BY <1>1, <1>2, NextMInv DEF RInv, Next, MInv, IInv
<1>4. Typed'
  BY <1>3, MinerTyped, PTL
<1>5. AdminTyped'
  BY <1>1 DEF RInv, AdminTyped
<1>6. CollectSound'
  <2> SUFFICES ASSUME admin.at = "collect" PROVE CollectSound'
    BY <1>1 DEF CollectSound, At
  <2>1. RowsSound(admin.rows, counter) /\ \A i \in DOMAIN admin.rows : admin.rows[i].id \in admin.passed
    BY DEF RInv, CollectSound, At
  <2>2. counter \in Nat /\ counter' \in Nat /\ counter' >= counter
    BY <1>2, <1>3, <1>4, CounterGrows DEF TypeOK, Typed
  <2>3. \A i \in DOMAIN admin.rows : admin.rows[i].id \in Nat
    <3>1. admin.rows \in Seq(Rows)
      BY <2>1 DEF RowsSound
    <3>2. \A i \in DOMAIN admin.rows : admin.rows[i] \in Rows
      BY <3>1
    <3> QED BY <3>2 DEF Rows
  <2>4. RowsSound(admin.rows, counter')
    BY <2>1, <2>2, <2>3 DEF RowsSound
  <2>5. RowsSound(admin'.rows, counter')
    BY <1>1, <2>4
  <2> QED BY <1>1, <2>1, <2>5 DEF CollectSound, RowsSound, RowSound
<1>7. ClearSound' /\ ReplaySound'
  BY <1>1 DEF ClearSound, ReplaySound, At, Starting
<1> QED BY <1>1, <1>3, <1>4, <1>5, <1>6, <1>7, SavedKept DEF RInv

\* A stuttering step keeps everything.
LEMMA StutterKeeps ==
  ASSUME RInv, UNCHANGED allVars
  PROVE  RInv'
<1>1. /\ UNCHANGED vars /\ saved' = saved /\ admin' = admin
      /\ counter' = counter /\ DOMAIN shards' = DOMAIN shards /\ DOMAIN clusters' = DOMAIN clusters
      /\ bodies' = bodies /\ history' = history
  BY DEF allVars, store, vars
<1>2. /\ Typed' /\ (MInv => MInv') /\ (Still => Still') /\ (NoLeaves => NoLeaves')
      /\ (NoClusters => NoClusters')
  BY <1>1, MinerKept DEF RInv
<1>3. AdminTyped'
  BY <1>1 DEF RInv, AdminTyped
<1>4. CollectSound'
  BY <1>1 DEF RInv, CollectSound, At, RowsSound, RowSound
<1>5. ClearSound'
  BY <1>1, <1>2 DEF RInv, ClearSound, At, Starting
<1>6. ReplaySound'
  <2>1. \A row : Crowded(row)' <=> Crowded(row)
    BY <1>1 DEF Crowded, Peers
  <2> QED BY <1>1, <2>1 DEF RInv, ReplaySound, At
<1> QED BY <1>1, <1>2, <1>3, <1>4, <1>5, <1>6, SavedKept DEF RInv

-----------------------------------------------------------------------------
(* A miner at rest, as an index and a heap.                                *)

\* Every shard is some count's, and only its.
ShardsNamed(sh, ts) ==
  /\ sh \in [DOMAIN sh -> DOMAIN ts]
  /\ ts \in Seq([Paths -> Seq(Nat)])
  /\ \A c, d \in DOMAIN sh : sh[c] = sh[d] => c = d
  /\ \A s \in DOMAIN ts : \E c \in DOMAIN sh : sh[c] = s

\* Leaves hold ids of the map, as many as fit, whose bodies are filed there.
LeavesHold(ts, cs, bs) ==
  \A s \in DOMAIN ts, p \in Paths :
    /\ Len(ts[s][p]) <= Cap
    /\ Range(ts[s][p]) \subseteq DOMAIN cs
    /\ \A id \in Range(ts[s][p]) : FiledIn(bs, id, p)

PlacesApart(ts) ==
  \A s, r \in DOMAIN ts : \A p, q \in Paths :
    \A i \in DOMAIN ts[s][p], j \in DOMAIN ts[r][q] :
      ts[s][p][i] = ts[r][q][j] => s = r /\ p = q /\ i = j

ShapesKept(sh, ts, bs) ==
  \A c \in DOMAIN sh, p \in Paths :
    \A id \in Range(ts[sh[c]][p]) : Shaped(bs, id, c)

AllListed(ts, cs) == \A id \in DOMAIN cs : Listed(ts, id)

\* Leaves, shards and map agree, and the leaves hold what is filed there.
IndexSound(sh, ts, cs, bs) ==
  /\ ShardsNamed(sh, ts)
  /\ LeavesHold(ts, cs, bs)
  /\ PlacesApart(ts)
  /\ ShapesKept(sh, ts, bs)
  /\ AllListed(ts, cs)

\* Bodies have distinct ids, which the map names them by, and stand for the
\* lines counted on them.
HeapSound(cs, bs, hs, limit) ==
  /\ cs \in [DOMAIN cs -> DOMAIN bs]
  /\ bs \in Seq(Body)
  /\ hs \in Seq(Histories)
  /\ Len(hs) = Len(bs)
  /\ \A b \in DOMAIN bs :
       /\ bs[b].id # 0 /\ bs[b].id <= limit
       /\ \A l \in hs[b].lines : Covers(bs[b].tokens, l) /\ Keys(l) = Keys(bs[b].tokens)
  /\ \A a, b \in DOMAIN bs : bs[a].id = bs[b].id => a = b
  /\ \A id \in DOMAIN cs : bs[cs[id]].id = id

AtRest ==
  /\ IndexSound(shards, trees, clusters, bodies)
  /\ HeapSound(clusters, bodies, history, counter)

\* For a miner that nobody calls this is all that holds of it.
LEMMA RestOfMiner ==
  ASSUME MInv, Still
  PROVE  AtRest
<1>1. \A t \in Threads : pc[t] = "idle"
  BY DEF Still, Quiet
<1>2. HeapSound(clusters, bodies, history, counter)
  BY DEF MInv, IInv, SInv, TypeOK, HistoryAligned, IdsUnique, IdsPositive,
         MapNamesBodies, AbsorbedCovered, LinesFiled, HeapSound
<1>3. /\ shards \in [DOMAIN shards -> DOMAIN trees]
      /\ trees \in Seq([Paths -> Seq(Nat)])
      /\ \A c, d \in DOMAIN shards : shards[c] = shards[d] => c = d
      /\ \A s \in DOMAIN trees : \E c \in DOMAIN shards : shards[c] = s
  BY DEF MInv, IInv, SInv, TypeOK, ShardsDistinct, ShardsReached
<1>4. \A s \in DOMAIN trees, p \in Paths :
        /\ Len(trees[s][p]) <= Cap
        /\ Range(trees[s][p]) \subseteq DOMAIN clusters
        /\ \A id \in Range(trees[s][p]) : FiledIn(bodies, id, p)
  BY DEF MInv, SInv, KInv, LeafWithinCap, LeavesLive, LeavesFiled
<1>5. \A c \in DOMAIN shards, p \in Paths :
        \A id \in Range(trees[shards[c]][p]) : Shaped(bodies, id, c)
  BY DEF MInv, IInv, LeavesShaped, Range
<1>6. \A id \in DOMAIN clusters : Listed(trees, id)
  BY <1>1 DEF MInv, SInv, MapReached, Entering
<1>7. OnePlace
  BY DEF MInv, SInv
<1> QED BY <1>2, <1>3, <1>4, <1>5, <1>6, <1>7
  DEF IndexSound, ShardsNamed, LeavesHold, PlacesApart, ShapesKept, AllListed, OnePlace,
      AtRest

\* And it is enough.
LEMMA MinerAtRest == AtRest /\ Typed /\ Still => MInv
<1> SUFFICES ASSUME AtRest, Typed, Still PROVE MInv
  OBVIOUS
<1>1. \A t \in Threads : pc[t] = "idle" /\ op[t].victim = NoVictim
  BY DEF Still, Quiet
<1> USE DEF AtRest
<1>2. TypeOK /\ HistoryAligned /\ MapNamesBodies /\ AbsorbedCovered /\ LinesFiled
  BY DEF Typed, IndexSound, ShardsNamed, LeavesHold, PlacesApart, ShapesKept, AllListed,
         HeapSound, TypeOK, HistoryAligned, MapNamesBodies, AbsorbedCovered, LinesFiled
<1>3. IdsUnique /\ IdsPositive
  BY <1>1 DEF HeapSound, IdsUnique, IdsPositive, Minted
<1>4. ShardsDistinct /\ ShardsReached /\ LeafWithinCap /\ LeavesLive /\ LeavesFiled
      /\ OnePlace
  BY DEF IndexSound, ShardsNamed, LeavesHold, PlacesApart, ShapesKept, AllListed,
         ShardsDistinct, ShardsReached, LeafWithinCap, LeavesLive, LeavesFiled, OnePlace
<1>5. LeavesShaped
  BY DEF IndexSound, ShardsNamed, LeavesHold, PlacesApart, ShapesKept, AllListed,
         LeavesShaped, Range
<1>6. ThreadsSound /\ Exclusive /\ EntrantsApart /\ VictimsChosen /\ ThreadsFiled
  BY <1>1
     DEF ThreadsSound, ThreadSound, HasLine, InShard, Scanning, Applying, Exclusive, Writing,
         EntrantsApart, Entering, VictimsChosen, VictimChosen, ThreadsFiled, ThreadFiled,
         Holding
<1>7. MapReached
  BY DEF IndexSound, ShardsNamed, LeavesHold, PlacesApart, ShapesKept, AllListed, MapReached
<1> QED BY <1>2, <1>3, <1>4, <1>5, <1>6, <1>7 DEF MInv, IInv, SInv, KInv

-----------------------------------------------------------------------------
(* insert_existing: the shard, the victim, the new cluster.                *)

\* A new shard has nothing in its leaves.
LEMMA ShardAdded ==
  ASSUME NEW sh, NEW ts, NEW cs, NEW bs, IndexSound(sh, ts, cs, bs),
         NEW count, count \notin DOMAIN sh,
         NEW more, more = Append(ts, [p \in Paths |-> <<>>]),
         NEW to, to = Put(sh, count, Len(ts) + 1)
  PROVE  IndexSound(to, more, cs, bs)
<1> USE DEF IndexSound
<1>1. ts \in Seq([Paths -> Seq(Nat)]) /\ sh \in [DOMAIN sh -> DOMAIN ts]
  BY DEF ShardsNamed
<1>2. [p \in Paths |-> <<>>] \in [Paths -> Seq(Nat)]
  BY EmptySeq
<1>3. /\ more \in Seq([Paths -> Seq(Nat)])
      /\ DOMAIN more = DOMAIN ts \cup {Len(ts) + 1}
      /\ Len(ts) + 1 \notin DOMAIN ts
      /\ \A s \in DOMAIN ts : more[s] = ts[s]
      /\ more[Len(ts) + 1] = [p \in Paths |-> <<>>]
  BY <1>1, <1>2
<1>4. /\ DOMAIN to = DOMAIN sh \cup {count} /\ to \in [DOMAIN to -> DOMAIN more]
      /\ to[count] = Len(ts) + 1
      /\ \A c \in DOMAIN sh : to[c] = sh[c] /\ sh[c] \in DOMAIN ts
  BY <1>1, <1>3 DEF Put
<1>5. /\ Range(<<>>) = {} /\ DOMAIN <<>> = {} /\ Len(<<>>) = 0
      /\ 0 <= Cap
  BY MinerAssumption DEF Range
<1>6. \A s \in DOMAIN more, p \in Paths :
        more[s][p] = IF s \in DOMAIN ts THEN ts[s][p] ELSE <<>>
  BY <1>3
<1>7. ASSUME NEW s \in DOMAIN more, NEW p \in Paths
      PROVE  /\ Len(more[s][p]) <= Cap
             /\ Range(more[s][p]) \subseteq DOMAIN cs
             /\ \A id \in Range(more[s][p]) : FiledIn(bs, id, p)
  <2>1. CASE s \in DOMAIN ts
    <3>1. more[s][p] = ts[s][p]
      BY <1>6, <2>1
    <3> QED BY <2>1, <3>1 DEF LeavesHold
  <2>2. CASE s \notin DOMAIN ts
    <3>1. more[s][p] = <<>>
      BY <1>6, <2>2
    <3> QED BY <1>5, <3>1
  <2> QED BY <2>1, <2>2
<1>8. ASSUME NEW s \in DOMAIN more, NEW r \in DOMAIN more, NEW p \in Paths, NEW q \in Paths,
             NEW i \in DOMAIN more[s][p], NEW j \in DOMAIN more[r][q],
             more[s][p][i] = more[r][q][j]
      PROVE  s = r /\ p = q /\ i = j
  <2>1. s \in DOMAIN ts /\ r \in DOMAIN ts
    BY <1>5, <1>6
  <2>2. more[s][p] = ts[s][p] /\ more[r][q] = ts[r][q]
    BY <1>6, <2>1
  <2> QED BY <1>8, <2>1, <2>2 DEF PlacesApart
<1>9. ASSUME NEW c \in DOMAIN to, NEW p \in Paths, NEW id \in Range(more[to[c]][p])
      PROVE  Shaped(bs, id, c)
  <2>1. c \in DOMAIN sh
    <3>1. CASE c = count
      <4>1. more[to[c]][p] = <<>>
        BY <1>3, <1>4, <1>6, <3>1
      <4> QED BY <1>5, <4>1
    <3> QED BY <1>4, <3>1
  <2>2. more[to[c]][p] = ts[sh[c]][p]
    BY <1>3, <1>4, <2>1
  <2> QED BY <2>1, <2>2 DEF ShapesKept
<1>10. ASSUME NEW id \in DOMAIN cs PROVE Listed(more, id)
  <2>1. PICK s \in DOMAIN ts, p \in Paths : id \in Range(ts[s][p])
    BY DEF AllListed, Listed
  <2>2. s \in DOMAIN more /\ more[s][p] = ts[s][p]
    BY <1>3, <1>6, <2>1
  <2> QED BY <2>1, <2>2 DEF Listed
<1>11. ASSUME NEW c \in DOMAIN to, NEW d \in DOMAIN to, to[c] = to[d] PROVE c = d
  <2>1. CASE c = count \/ d = count
    BY <1>3, <1>4, <1>11, <2>1
  <2>2. CASE c \in DOMAIN sh /\ d \in DOMAIN sh
    <3>1. sh[c] = sh[d]
      BY <1>4, <1>11, <2>2
    <3> QED BY <2>2, <3>1 DEF ShardsNamed
  <2> QED BY <1>4, <2>1, <2>2
<1>12. ASSUME NEW s \in DOMAIN more PROVE \E c \in DOMAIN to : to[c] = s
  <2>1. CASE s = Len(ts) + 1
    BY <1>4, <2>1
  <2>2. CASE s \in DOMAIN ts
    <3>1. PICK c \in DOMAIN sh : sh[c] = s
      BY <2>2 DEF ShardsNamed
    <3> QED BY <1>4, <3>1
  <2> QED BY <1>3, <2>1, <2>2
<1>13. ShardsNamed(to, more)
  BY <1>3, <1>4, <1>11, <1>12 DEF ShardsNamed
<1>14. LeavesHold(more, cs, bs)
  BY <1>7 DEF LeavesHold
<1>15. PlacesApart(more)
  BY <1>8 DEF PlacesApart
<1>16. ShapesKept(to, more, bs)
  BY <1>9 DEF ShapesKept
<1>17. AllListed(more, cs)
  BY <1>10 DEF AllListed
<1> QED BY <1>13, <1>14, <1>15, <1>16, <1>17

\* A full leaf gives up one of its ids, any other leaf none.
LEMMA VictimIsListed ==
  ASSUME NEW ids \in Seq(Nat), clusters \in [DOMAIN clusters -> DOMAIN bodies],
         bodies \in Seq(Body)
  PROVE  IF Len(ids) >= Cap THEN Victim(ids) \in Range(ids) ELSE Victim(ids) = 0
<1>1. CASE ~(Len(ids) >= Cap)
  BY <1>1 DEF Victim, IsFull
<1>2. CASE Len(ids) >= Cap
  <2> DEFINE keys == {Recency(ids[i]) : i \in DOMAIN ids}
             oldest == {i \in DOMAIN ids : \A j \in DOMAIN ids :
                          Recency(ids[i]) <= Recency(ids[j])}
  <2>1. \A id : Recency(id) \in Nat
    <3>1. \A b \in DOMAIN bodies : bodies[b].last_used \in Nat
      BY BodyFields DEF Body
    <3> QED BY <3>1 DEF Recency
  <2>2. DOMAIN ids \subseteq Nat /\ 1 \in DOMAIN ids
    <3>1. Len(ids) \in Nat /\ Cap \in Nat \ {0} /\ DOMAIN ids = 1..Len(ids)
      BY MinerAssumption
    <3> QED BY <1>2, <3>1
  <2>3. keys \subseteq Nat /\ keys # {}
    BY <2>1, <2>2
  <2>4. PICK k \in keys : \A m \in keys : k <= m
    BY <2>3, LeastNumber
  <2>5. oldest # {} /\ oldest \subseteq DOMAIN ids
    BY <2>4
  <2> HIDE DEF oldest
  <2>6. \E i \in oldest : \A j \in oldest : i <= j
    BY <2>2, <2>5, LeastNumber
  <2>7. Min(oldest) \in oldest
    BY <2>6 DEF Min
  <2>8. Victim(ids) = ids[Min(oldest)]
    BY <1>2 DEF Victim, IsFull, oldest
  <2> QED BY <1>2, <2>5, <2>7, <2>8 DEF Range
<1> QED BY <1>1, <1>2

\* A body more keeps the heap sound if its id is new; the victim leaves the
\* map.
LEMMA HeapGrown ==
  ASSUME NEW cs, NEW bs, NEW hs, NEW limit, HeapSound(cs, bs, hs, limit),
         NEW body \in Body, NEW h \in Histories, NEW v,
         body.id # 0, body.id <= limit,
         \A b \in DOMAIN bs : bs[b].id # body.id,
         \A l \in h.lines : Covers(body.tokens, l) /\ Keys(l) = Keys(body.tokens),
         NEW ds, ds = Put(Without(cs, v), body.id, Len(bs) + 1)
  PROVE  HeapSound(ds, Append(bs, body), Append(hs, h), limit)
<1>1. PICK more : more = Append(bs, body)
  OBVIOUS
<1>2. PICK past : past = Append(hs, h)
  OBVIOUS
<1>3. /\ bs \in Seq(Body) /\ hs \in Seq(Histories) /\ Len(hs) = Len(bs)
      /\ cs \in [DOMAIN cs -> DOMAIN bs]
  BY DEF HeapSound
<1>4. /\ more \in Seq(Body) /\ DOMAIN more = DOMAIN bs \cup {Len(bs) + 1}
      /\ more[Len(bs) + 1] = body /\ \A b \in DOMAIN bs : more[b] = bs[b]
      /\ Len(more) = Len(bs) + 1
  BY <1>1, <1>3
<1>5. /\ past \in Seq(Histories) /\ Len(past) = Len(more)
      /\ past[Len(bs) + 1] = h /\ \A b \in DOMAIN bs : past[b] = hs[b]
  BY <1>2, <1>3, <1>4
<1>6. /\ DOMAIN ds = (DOMAIN cs \ {v}) \cup {body.id} /\ ds[body.id] = Len(bs) + 1
      /\ \A id \in DOMAIN ds \ {body.id} : id \in DOMAIN cs /\ ds[id] = cs[id]
      /\ ds \in [DOMAIN ds -> DOMAIN more]
  BY <1>3, <1>4 DEF Put, Without
<1>7. ASSUME NEW b \in DOMAIN more
      PROVE  /\ more[b].id # 0 /\ more[b].id <= limit
             /\ \A l \in past[b].lines :
                  Covers(more[b].tokens, l) /\ Keys(l) = Keys(more[b].tokens)
  <2>1. CASE b \in DOMAIN bs
    BY <1>4, <1>5, <2>1 DEF HeapSound
  <2>2. CASE b = Len(bs) + 1
    BY <1>4, <1>5, <2>2
  <2> QED BY <1>4, <2>1, <2>2
<1>8. \A a, b \in DOMAIN more : more[a].id = more[b].id => a = b
  BY <1>4 DEF HeapSound
<1>9. \A id \in DOMAIN ds : more[ds[id]].id = id
  BY <1>3, <1>4, <1>6 DEF HeapSound
<1>10. HeapSound(ds, more, past, limit)
  BY <1>4, <1>5, <1>6, <1>7, <1>8, <1>9 DEF HeapSound
<1> QED BY <1>1, <1>2, <1>10

\* The leaf that gives up the victim, if any, and gets the new id.
LEMMA LeafReplaced ==
  ASSUME NEW leaf \in Seq(Nat), Distinct(leaf), Len(leaf) <= Cap,
         NEW v \in Nat, IF v = 0 THEN Len(leaf) < Cap ELSE v \in Range(leaf),
         0 \notin Range(leaf), NEW id \in Nat, id \notin Range(leaf),
         NEW next, next = Append(SwapRemove(leaf, v), id)
  PROVE  /\ next \in Seq(Nat) /\ Distinct(next) /\ Len(next) <= Cap
         /\ Range(next) = (Range(leaf) \ {v}) \cup {id}
<1>1. PICK kept : kept = SwapRemove(leaf, v)
  OBVIOUS
<1>2. /\ kept \in Seq(Nat) /\ Range(kept) = Range(leaf) \ {v} /\ Distinct(kept)
      /\ Len(kept) = IF v \in Range(leaf) THEN Len(leaf) - 1 ELSE Len(leaf)
  BY <1>1, SwapRemoveRemoves
<1>3. Len(kept) \in Nat /\ Len(leaf) \in Nat /\ Cap \in Nat /\ DOMAIN kept = 1..Len(kept)
  BY <1>2, MinerAssumption
<1>4. Len(kept) < Cap
  BY <1>2, <1>3
<1>5. /\ next \in Seq(Nat) /\ Len(next) = Len(kept) + 1
      /\ DOMAIN next = 1..(Len(kept) + 1)
      /\ \A i \in 1..Len(kept) : next[i] = kept[i]
      /\ next[Len(kept) + 1] = id
  BY <1>1, <1>2, AppendProperties
<1>6. \A i \in 1..Len(kept) : kept[i] # id
  BY <1>2, <1>3 DEF Range
<1>7. Distinct(next)
  <2> SUFFICES ASSUME NEW i \in DOMAIN next, NEW j \in DOMAIN next, next[i] = next[j]
               PROVE  i = j
    BY DEF Distinct
  <2>1. CASE i \in 1..Len(kept) /\ j \in 1..Len(kept)
    <3>1. kept[i] = kept[j]
      BY <1>5, <2>1
    <3> QED BY <1>2, <1>3, <2>1, <3>1 DEF Distinct
  <2>2. CASE i = Len(kept) + 1 \/ j = Len(kept) + 1
    BY <1>3, <1>5, <1>6, <2>2
  <2> QED BY <1>3, <1>5, <2>1, <2>2
<1>8. Range(next) = Range(kept) \cup {id}
  <2>1. ASSUME NEW x \in Range(next) PROVE x \in Range(kept) \cup {id}
    BY <1>3, <1>5 DEF Range
  <2>2. ASSUME NEW x \in Range(kept) PROVE x \in Range(next)
    BY <1>3, <1>5 DEF Range
  <2>3. id \in Range(next)
    BY <1>3, <1>5 DEF Range
  <2> QED BY <2>1, <2>2, <2>3
<1> QED BY <1>2, <1>3, <1>4, <1>5, <1>7, <1>8

\* What a replay makes of the leaves: one leaf gave up the victim and got the
\* new id; the victim was in no other leaf and the new id in none.
LeafPut(ts, us, s, path, v, id) ==
  /\ DOMAIN us = DOMAIN ts
  /\ us \in Seq([Paths -> Seq(Nat)])
  /\ Distinct(us[s][path])
  /\ Len(us[s][path]) <= Cap
  /\ Range(us[s][path]) = (Range(ts[s][path]) \ {v}) \cup {id}
  /\ \A r \in DOMAIN ts, q \in Paths :
       /\ id \notin Range(ts[r][q])
       /\ ~(r = s /\ q = path) => us[r][q] = ts[r][q] /\ v \notin Range(ts[r][q])

\* The new list of ids is put into the leaf.
LEMMA LeafIsPut ==
  ASSUME NEW sh, NEW ts, NEW cs, NEW bs, IndexSound(sh, ts, cs, bs),
         NEW id \in Nat, 0 \notin DOMAIN cs, id \notin DOMAIN cs,
         NEW path \in Paths, NEW s \in DOMAIN ts,
         NEW v \in Nat, IF v = 0 THEN Len(ts[s][path]) < Cap ELSE v \in Range(ts[s][path]),
         NEW us, us = [ts EXCEPT ![s][path] = Append(SwapRemove(ts[s][path], v), id)]
  PROVE  LeafPut(ts, us, s, path, v, id)
<1>1. ts \in Seq([Paths -> Seq(Nat)]) /\ LeavesHold(ts, cs, bs) /\ PlacesApart(ts)
  BY DEF IndexSound, ShardsNamed
<1>2. ts[s] \in [Paths -> Seq(Nat)] /\ ts[s][path] \in Seq(Nat)
  BY <1>1
<1>3. PICK next : next = Append(SwapRemove(ts[s][path], v), id)
  OBVIOUS
<1>4. /\ next \in Seq(Nat) /\ Distinct(next) /\ Len(next) <= Cap
      /\ Range(next) = (Range(ts[s][path]) \ {v}) \cup {id}
  <2>1. Distinct(ts[s][path])
    BY <1>1 DEF PlacesApart, Distinct
  <2>2. Range(ts[s][path]) \subseteq DOMAIN cs /\ Len(ts[s][path]) <= Cap
    BY <1>1 DEF LeavesHold
  <2>3. 0 \notin Range(ts[s][path]) /\ id \notin Range(ts[s][path])
    BY <2>2
  <2>4. PICK leaf \in Seq(Nat) : leaf = ts[s][path]
    BY <1>2
  <2>5. /\ Distinct(leaf) /\ Len(leaf) <= Cap /\ 0 \notin Range(leaf) /\ id \notin Range(leaf)
        /\ IF v = 0 THEN Len(leaf) < Cap ELSE v \in Range(leaf)
        /\ next = Append(SwapRemove(leaf, v), id)
    BY <1>3, <2>1, <2>2, <2>3, <2>4
  <2>6. /\ next \in Seq(Nat) /\ Distinct(next) /\ Len(next) <= Cap
        /\ Range(next) = (Range(leaf) \ {v}) \cup {id}
    BY <2>5, LeafReplaced
  <2> QED BY <2>4, <2>6
<1>5. PICK tree : tree = [ts[s] EXCEPT ![path] = next]
  OBVIOUS
<1>6. us = [ts EXCEPT ![s] = tree]
  BY <1>3, <1>5
<1>7. /\ tree \in [Paths -> Seq(Nat)] /\ tree[path] = next
      /\ \A q \in Paths \ {path} : tree[q] = ts[s][q]
  BY <1>2, <1>4, <1>5
<1>8. /\ DOMAIN us = DOMAIN ts /\ us \in Seq([Paths -> Seq(Nat)]) /\ us[s] = tree
      /\ \A r \in DOMAIN ts \ {s} : us[r] = ts[r]
  <2>1. PICK T : T = [Paths -> Seq(Nat)]
    OBVIOUS
  <2>2. ts \in Seq(T) /\ tree \in T
    BY <1>1, <1>7, <2>1
  <2>3. us \in Seq(T) /\ DOMAIN us = DOMAIN ts
    <3>1. s \in 1..Len(ts)
      BY <2>2
    <3>2. [ts EXCEPT ![s] = tree] \in Seq(T)
      BY <2>2, <3>1, ExceptSeq
    <3> QED BY <1>6, <3>2
  <2>4. us[s] = tree /\ \A r \in DOMAIN ts \ {s} : us[r] = ts[r]
    BY <1>6
  <2> QED BY <2>1, <2>3, <2>4
<1>9. ASSUME NEW r \in DOMAIN ts, NEW q \in Paths
      PROVE  /\ id \notin Range(ts[r][q])
             /\ ~(r = s /\ q = path) => us[r][q] = ts[r][q] /\ v \notin Range(ts[r][q])
  <2>1. Range(ts[r][q]) \subseteq DOMAIN cs
    BY <1>1 DEF LeavesHold
  <2>2. ~(r = s /\ q = path) => us[r][q] = ts[r][q]
    BY <1>7, <1>8
  <2>3. ASSUME v \in Range(ts[r][q]) PROVE r = s /\ q = path
    <3>1. v # 0
      BY <2>1, <2>3
    <3>2. PICK i \in DOMAIN ts[s][path] : ts[s][path][i] = v
      BY <3>1 DEF Range
    <3>3. PICK j \in DOMAIN ts[r][q] : ts[r][q][j] = v
      BY <2>3 DEF Range
    <3>4. ts[s][path][i] = ts[r][q][j]
      BY <3>2, <3>3
    <3> QED BY <1>1, <3>4 DEF PlacesApart
  <2> QED BY <2>1, <2>2, <2>3
<1> QED BY <1>4, <1>7, <1>8, <1>9 DEF LeafPut

\* No id gets a second place.
LEMMA PutApart ==
  ASSUME NEW ts, NEW us, NEW s \in DOMAIN ts, NEW path \in Paths, NEW v, NEW id,
         PlacesApart(ts), LeafPut(ts, us, s, path, v, id)
  PROVE  PlacesApart(us)
<1> DEFINE Here(r, q) == r = s /\ q = path
<1>1. ASSUME NEW r \in DOMAIN ts, NEW q \in Paths, ~Here(r, q),
             NEW i \in DOMAIN us[s][path], NEW j \in DOMAIN us[r][q],
             us[s][path][i] = us[r][q][j]
      PROVE  FALSE
  <2>1. us[r][q] = ts[r][q] /\ id \notin Range(ts[r][q])
    BY <1>1 DEF LeafPut
  <2>2. us[r][q][j] \in Range(ts[r][q]) /\ us[s][path][i] \in Range(us[s][path])
    BY <2>1 DEF Range
  <2>3. us[s][path][i] \in Range(ts[s][path])
    BY <1>1, <2>1, <2>2 DEF LeafPut
  <2>4. PICK k \in DOMAIN ts[s][path] : ts[s][path][k] = us[r][q][j]
    BY <1>1, <2>3 DEF Range
  <2>5. ts[r][q][j] = ts[s][path][k] /\ j \in DOMAIN ts[r][q]
    BY <2>1, <2>4
  <2> QED BY <1>1, <2>5 DEF PlacesApart
<1>2. ASSUME NEW r \in DOMAIN ts, NEW w \in DOMAIN ts, NEW p \in Paths, NEW q \in Paths,
             NEW i \in DOMAIN us[r][p], NEW j \in DOMAIN us[w][q],
             us[r][p][i] = us[w][q][j]
      PROVE  r = w /\ p = q /\ i = j
  <2>1. CASE Here(r, p) /\ Here(w, q)
    BY <1>2, <2>1 DEF LeafPut, Distinct
  <2>2. CASE Here(r, p) /\ ~Here(w, q)
    BY <1>1, <1>2, <2>2
  <2>3. CASE ~Here(r, p) /\ Here(w, q)
    <3>1. us[w][q][j] = us[r][p][i]
      BY <1>2
    <3> QED BY <1>1, <2>3, <3>1
  <2>4. CASE ~Here(r, p) /\ ~Here(w, q)
    <3>1. us[w][q] = ts[w][q] /\ us[r][p] = ts[r][p]
      BY <2>4 DEF LeafPut
    <3> QED BY <1>2, <3>1 DEF PlacesApart
  <2> QED BY <2>1, <2>2, <2>3, <2>4
<1>3. DOMAIN us = DOMAIN ts
  BY DEF LeafPut
<1> QED BY <1>2, <1>3 DEF PlacesApart

\* One body more, and bodies are still filed and shaped as they were.
LEMMA BodyAdded ==
  ASSUME NEW bs \in Seq(Body), NEW body \in Body, NEW more, more = Append(bs, body)
  PROVE  /\ \A x, p : FiledIn(bs, x, p) => FiledIn(more, x, p)
         /\ \A x, n : Shaped(bs, x, n) => Shaped(more, x, n)
         /\ FiledIn(more, body.id, Keys(body.tokens))
         /\ Shaped(more, body.id, Len(body.tokens))
<1>1. /\ \A b \in DOMAIN bs : b \in DOMAIN more /\ more[b] = bs[b]
      /\ Len(bs) + 1 \in DOMAIN more /\ more[Len(bs) + 1] = body
  OBVIOUS
<1>2. \A x, p : FiledIn(bs, x, p) => FiledIn(more, x, p)
  BY <1>1, Zenon DEF FiledIn
<1>3. \A x, n : Shaped(bs, x, n) => Shaped(more, x, n)
  BY <1>1, Zenon DEF Shaped
<1>4. FiledIn(more, body.id, Keys(body.tokens)) /\ Shaped(more, body.id, Len(body.tokens))
  BY <1>1, Zenon DEF FiledIn, Shaped
<1> QED BY <1>2, <1>3, <1>4

\* The leaves hold what is in the map, the victim gone and the new id come.
LEMMA PutHolds ==
  ASSUME NEW ts, NEW us, NEW s \in DOMAIN ts, NEW path \in Paths, NEW v, NEW id,
         NEW cs, NEW ds, NEW bs, NEW more,
         LeavesHold(ts, cs, bs), LeafPut(ts, us, s, path, v, id),
         DOMAIN ds = (DOMAIN cs \ {v}) \cup {id},
         \A x, p : FiledIn(bs, x, p) => FiledIn(more, x, p), FiledIn(more, id, path)
  PROVE  LeavesHold(us, ds, more)
<1>1. ASSUME NEW r \in DOMAIN ts, NEW q \in Paths
      PROVE  /\ Len(us[r][q]) <= Cap
             /\ Range(us[r][q]) \subseteq DOMAIN ds
             /\ \A x \in Range(us[r][q]) : FiledIn(more, x, q)
  <2>1. /\ Len(ts[r][q]) <= Cap /\ Range(ts[r][q]) \subseteq DOMAIN cs
        /\ \A x \in Range(ts[r][q]) : FiledIn(bs, x, q)
    BY DEF LeavesHold
  <2>2. CASE r = s /\ q = path
    BY <2>1, <2>2 DEF LeafPut
  <2>3. CASE ~(r = s /\ q = path)
    <3>1. us[r][q] = ts[r][q] /\ v \notin Range(ts[r][q])
      BY <2>3 DEF LeafPut
    <3> QED BY <2>1, <3>1
  <2> QED BY <2>2, <2>3
<1>2. DOMAIN us = DOMAIN ts
  BY DEF LeafPut
<1> QED BY <1>1, <1>2 DEF LeavesHold

\* Templates of a shard are all of its length.
LEMMA PutShaped ==
  ASSUME NEW ts, NEW us, NEW sh, NEW path \in Paths, NEW v, NEW id,
         NEW count \in DOMAIN sh, NEW bs, NEW more,
         ShardsNamed(sh, ts), ShapesKept(sh, ts, bs), LeafPut(ts, us, sh[count], path, v, id),
         \A x, n : Shaped(bs, x, n) => Shaped(more, x, n), Shaped(more, id, count)
  PROVE  ShapesKept(sh, us, more)
<1>1. ASSUME NEW c \in DOMAIN sh, NEW p \in Paths, NEW x \in Range(us[sh[c]][p])
      PROVE  Shaped(more, x, c)
  <2>1. sh[c] \in DOMAIN ts
    BY DEF ShardsNamed
  <2>2. \A y \in Range(ts[sh[c]][p]) : Shaped(bs, y, c)
    BY DEF ShapesKept
  <2>3. CASE sh[c] = sh[count] /\ p = path
    <3>1. c = count
      BY <2>3 DEF ShardsNamed
    <3>2. x = id \/ x \in Range(ts[sh[c]][p])
      BY <1>1, <2>3 DEF LeafPut
    <3> QED BY <2>2, <3>1, <3>2
  <2>4. CASE ~(sh[c] = sh[count] /\ p = path)
    <3>1. us[sh[c]][p] = ts[sh[c]][p]
      BY <2>1, <2>4 DEF LeafPut
    <3> QED BY <1>1, <2>2, <3>1
  <2> QED BY <2>3, <2>4
<1> QED BY <1>1 DEF ShapesKept

\* Whatever is in the map has a place.
LEMMA PutListed ==
  ASSUME NEW ts, NEW us, NEW s \in DOMAIN ts, NEW path \in Paths, NEW v, NEW id,
         NEW cs, NEW ds, AllListed(ts, cs), LeafPut(ts, us, s, path, v, id),
         DOMAIN ds = (DOMAIN cs \ {v}) \cup {id}
  PROVE  AllListed(us, ds)
<1>1. ASSUME NEW x \in DOMAIN ds PROVE Listed(us, x)
  <2>1. DOMAIN us = DOMAIN ts
    BY DEF LeafPut
  <2>2. CASE x = id
    <3>1. x \in Range(us[s][path])
      BY <2>2 DEF LeafPut
    <3> QED BY <2>1, <3>1 DEF Listed
  <2>3. CASE x # id
    <3>1. x \in DOMAIN cs /\ x # v
      BY <2>3
    <3>2. PICK r \in DOMAIN ts, q \in Paths : x \in Range(ts[r][q])
      BY <3>1 DEF AllListed, Listed
    <3>3. CASE r = s /\ q = path
      <4>1. x \in Range(us[r][q])
        BY <3>1, <3>2, <3>3 DEF LeafPut
      <4> QED BY <2>1, <3>2, <4>1 DEF Listed
    <3>4. CASE ~(r = s /\ q = path)
      <4>1. us[r][q] = ts[r][q]
        BY <3>2, <3>4 DEF LeafPut
      <4> QED BY <2>1, <3>2, <4>1 DEF Listed
    <3> QED BY <3>3, <3>4
  <2> QED BY <2>2, <2>3
<1> QED BY <1>1 DEF AllListed

\* The victim leaves leaf and map, the new id enters both.
LEMMA ClusterPut ==
  ASSUME NEW sh, NEW ts, NEW cs, NEW bs \in Seq(Body), IndexSound(sh, ts, cs, bs),
         NEW body \in Body, 0 \notin DOMAIN cs, body.id \notin DOMAIN cs,
         NEW count \in DOMAIN sh, count = Len(body.tokens),
         NEW path \in Paths, path = Keys(body.tokens),
         NEW s, s = sh[count],
         NEW v \in Nat, IF v = 0 THEN Len(ts[s][path]) < Cap ELSE v \in Range(ts[s][path]),
         NEW us, us = [ts EXCEPT ![s][path] = Append(SwapRemove(ts[s][path], v), body.id)],
         NEW ds, DOMAIN ds = (DOMAIN cs \ {v}) \cup {body.id}
  PROVE  IndexSound(sh, us, ds, Append(bs, body))
<1>1. /\ ShardsNamed(sh, ts) /\ LeavesHold(ts, cs, bs) /\ PlacesApart(ts)
      /\ ShapesKept(sh, ts, bs) /\ AllListed(ts, cs)
  BY DEF IndexSound
<1>2. PICK more : more = Append(bs, body)
  OBVIOUS
<1>3. PICK id : id = body.id
  OBVIOUS
<1>4. id \in Nat
  BY <1>3 DEF Body
<1>5. s \in DOMAIN ts
  BY <1>1 DEF ShardsNamed
<1>6. LeafPut(ts, us, s, path, v, id)
  BY <1>3, <1>4, <1>5, LeafIsPut
<1>7. /\ \A x, p : FiledIn(bs, x, p) => FiledIn(more, x, p)
      /\ \A x, n : Shaped(bs, x, n) => Shaped(more, x, n)
      /\ FiledIn(more, id, path) /\ Shaped(more, id, count)
  BY <1>2, <1>3, BodyAdded
<1>8. LeavesHold(us, ds, more)
  BY <1>1, <1>3, <1>5, <1>6, <1>7, PutHolds
<1>9. PlacesApart(us)
  BY <1>1, <1>5, <1>6, PutApart
<1>10. ShapesKept(sh, us, more)
  BY <1>1, <1>6, <1>7, PutShaped
<1>11. AllListed(us, ds)
  BY <1>1, <1>3, <1>5, <1>6, PutListed
<1>12. ShardsNamed(sh, us)
  BY <1>1, <1>6 DEF ShardsNamed, LeafPut
<1> QED BY <1>2, <1>8, <1>9, <1>10, <1>11, <1>12 DEF IndexSound

-----------------------------------------------------------------------------
(* A leaf whose rows are more than fit.                                    *)

\* More peers than fit in a leaf, counted by a function, are a crowd.
LEMMA ManyPeers ==
  ASSUME saved.rows \in Seq(Rows), NEW row, NEW n \in Nat, ~(n <= Cap),
         NEW f \in Injection(1..n, Peers(row))
  PROVE  Crowded(row)
<1>1. IsFiniteSet(ToSet(saved.rows))
  <2> DEFINE g == [i \in DOMAIN saved.rows |-> saved.rows[i]]
             S == DOMAIN saved.rows
  <2>1. g \in Surjection(S, ToSet(saved.rows))
    BY DEF Surjection, ToSet
  <2>2. IsFiniteSet(S)
    <3>1. Len(saved.rows) \in Nat /\ S = 1..Len(saved.rows)
      OBVIOUS
    <3>2. ASSUME NEW m \in Nat PROVE IsFiniteSet(1..m)
      BY FS_Interval
    <3> QED BY <3>1, <3>2
  <2> QED BY <2>1, <2>2, FS_Surjection
<1>2. IsFiniteSet(Peers(row))
  BY <1>1, FS_Subset DEF Peers
<1>3. Cardinality(1..n) = n
  BY FS_Interval
<1>4. n <= Cardinality(Peers(row))
  BY <1>2, <1>3, FS_Injection
<1>5. Cardinality(Peers(row)) \in Nat /\ Cap \in Nat
  BY <1>2, FS_CardinalityType, MinerAssumption
<1> QED BY <1>4, <1>5 DEF Crowded

\* The ids of a full leaf and one more, all of rows that go to that leaf: each
\* of these rows was crowded.
LEMMA FullLeafCrowds ==
  ASSUME RowsSound(saved.rows, saved.counter),
         NEW leaf \in Seq(Nat), Distinct(leaf), Len(leaf) >= Cap,
         NEW row \in ToSet(saved.rows), row.id \notin Range(leaf),
         \A i \in DOMAIN leaf : \E r \in ToSet(saved.rows) :
           r.id = leaf[i] /\ Len(r.tokens) = Len(row.tokens) /\ Keys(r.tokens) = Keys(row.tokens),
         NEW peer \in ToSet(saved.rows), peer.id \in Range(leaf)
  PROVE  Crowded(peer)
<1>1. saved.rows \in Seq(Rows) /\ Len(leaf) \in Nat /\ Cap \in Nat /\ DOMAIN leaf = 1..Len(leaf)
  BY MinerAssumption DEF RowsSound
<1>2. \A r, q \in ToSet(saved.rows) : r.id = q.id => r = q
  BY DEF RowsSound, ToSet
<1>3. Len(peer.tokens) = Len(row.tokens) /\ Keys(peer.tokens) = Keys(row.tokens)
  BY <1>2 DEF Range
<1>4. \A r \in ToSet(saved.rows) :
        Len(r.tokens) = Len(row.tokens) /\ Keys(r.tokens) = Keys(row.tokens) => r \in Peers(peer)
  BY <1>3 DEF Peers
<1> DEFINE n == Len(leaf) + 1
           Of(i) == CHOOSE r \in Peers(peer) : r.id = leaf[i]
           f == [i \in 1..n |-> IF i \in DOMAIN leaf THEN Of(i) ELSE row]
<1>5. \A i \in DOMAIN leaf : Of(i) \in Peers(peer) /\ Of(i).id = leaf[i]
  <2> SUFFICES ASSUME NEW i \in DOMAIN leaf
               PROVE  Of(i) \in Peers(peer) /\ Of(i).id = leaf[i]
    OBVIOUS
  <2>1. \E r \in Peers(peer) : r.id = leaf[i]
    BY <1>4
  <2> QED BY <2>1
<1>6. row \in Peers(peer)
  BY <1>4
<1> HIDE DEF Of
<1>7. f \in [1..n -> Peers(peer)]
  BY <1>5, <1>6
<1>8. \A i \in 1..n : f[i].id = IF i \in DOMAIN leaf THEN leaf[i] ELSE row.id
  BY <1>5
<1>9. \A i \in 1..n : i \in DOMAIN leaf \/ i = n
  BY <1>1
<1> HIDE DEF f
<1>10. ASSUME NEW i \in 1..n, NEW j \in 1..n, f[i] = f[j] PROVE i = j
  <2>1. \A k \in DOMAIN leaf : leaf[k] # row.id
    BY DEF Range
  <2>2. f[i].id = f[j].id
    BY <1>10
  <2>3. i \in DOMAIN leaf <=> j \in DOMAIN leaf
    BY <1>8, <2>1, <2>2
  <2>4. CASE i \in DOMAIN leaf
    <3>1. leaf[i] = leaf[j] /\ j \in DOMAIN leaf
      BY <1>8, <2>2, <2>3, <2>4
    <3> QED BY <2>4, <3>1 DEF Distinct
  <2> QED BY <1>9, <2>3, <2>4
<1>11. f \in Injection(1..n, Peers(peer))
  BY <1>7, <1>10 DEF Injection, IsInjective
<1>12. n \in Nat /\ ~(n <= Cap)
  BY <1>1
<1> QED BY <1>1, <1>11, <1>12, ManyPeers

-----------------------------------------------------------------------------
(* insert_existing as a whole.                                             *)

\* What a replay of the row does, once its shard is there.
ReplaysRow(row, count, path) ==
  \E ts, s, v :
    /\ IndexSound(shards', ts, clusters, bodies)
    /\ count \in DOMAIN shards' /\ s = shards'[count]
    /\ v = Victim(ts[s][path])
    /\ trees' = [ts EXCEPT ![s][path] = Append(SwapRemove(ts[s][path], v), row.id)]
    /\ clusters' = Put(Without(clusters, v), row.id, Len(bodies) + 1)

\* The shard is found, or it is made first.
LEMMA ReplayEffect ==
  ASSUME Replay, IndexSound(shards, trees, clusters, bodies)
  PROVE  ReplaysRow(Head(admin.rows), Len(Head(admin.rows).tokens), Keys(Head(admin.rows).tokens))
<1>1. PICK row : row = Head(admin.rows)
  OBVIOUS
<1>2. PICK count, path : count = Len(row.tokens) /\ path = Keys(row.tokens)
  OBVIOUS
<1> SUFFICES ReplaysRow(row, count, path)
  BY <1>1, <1>2
<1>3. CASE count \notin DOMAIN shards
  <2>1. PICK more : more = Append(trees, [p \in Paths |-> <<>>])
    OBVIOUS
  <2>2. PICK s : s = Len(trees) + 1
    OBVIOUS
  <2>3. PICK v : v = Victim(more[s][path])
    OBVIOUS
  <2>4. /\ shards' = Put(shards, count, s)
        /\ trees' = [more EXCEPT ![s][path] = Append(SwapRemove(more[s][path], v), row.id)]
        /\ clusters' = Put(Without(clusters, v), row.id, Len(bodies) + 1)
    BY <1>3, <1>1, <1>2, <2>1, <2>2, <2>3 DEF Replay, Place
  <2>5. IndexSound(shards', more, clusters, bodies)
    BY <1>3, <2>1, <2>2, <2>4, ShardAdded
  <2>6. count \in DOMAIN shards' /\ shards'[count] = s
    BY <2>4 DEF Put
  <2> QED BY <2>3, <2>4, <2>5, <2>6 DEF ReplaysRow
<1>4. CASE count \in DOMAIN shards
  <2>1. PICK s : s = shards[count]
    OBVIOUS
  <2>2. PICK v : v = Victim(trees[s][path])
    OBVIOUS
  <2>3. /\ shards' = Put(shards, count, s)
        /\ trees' = [trees EXCEPT ![s][path] = Append(SwapRemove(trees[s][path], v), row.id)]
        /\ clusters' = Put(Without(clusters, v), row.id, Len(bodies) + 1)
    BY <1>4, <1>1, <1>2, <2>1, <2>2 DEF Replay, Place
  <2>4. shards' = shards
    <3>1. shards = [x \in DOMAIN shards |-> shards[x]] /\ DOMAIN shards \cup {count} = DOMAIN shards
      <4>1. shards \in [DOMAIN shards -> DOMAIN trees]
        BY DEF IndexSound, ShardsNamed
      <4>2. shards = [x \in DOMAIN shards |-> shards[x]]
        BY <4>1
      <4> QED BY <1>4, <4>2
    <3>2. shards' = [x \in DOMAIN shards |-> shards[x]]
      BY <2>1, <2>3, <3>1 DEF Put
    <3> QED BY <3>1, <3>2
  <2> QED BY <1>4, <2>1, <2>2, <2>3, <2>4 DEF ReplaysRow
<1> QED BY <1>3, <1>4

\* The next row becomes the next body; it is in the map unless its leaf is
\* crowded.
LEMMA ReplayStep ==
  ASSUME RInv, Replay
  PROVE  RInv'
<1>1. /\ admin.at = "replay" /\ admin.rows # <<>> /\ saved' = saved
      /\ UNCHANGED <<counter, tick, calls, pc, op, answer>>
      /\ admin' = [admin EXCEPT !.rows = Tail(@)]
  BY DEF Replay, At, clocks, local
<1>2. /\ MInv /\ Still /\ Typed /\ AdminTyped /\ AtRest
      /\ RowsSound(saved.rows, saved.counter) /\ counter = saved.counter
      /\ admin.rows \in Seq(Rows) /\ saved.rows \in Seq(Rows)
  BY <1>1, RestOfMiner DEF RInv, ClearSound, Starting, At, SavedSound, ReplaySound, AdminTyped,
                           RowsSound
<1>3. /\ IndexSound(shards, trees, clusters, bodies)
      /\ HeapSound(clusters, bodies, history, counter)
      /\ bodies \in Seq(Body) /\ clusters \in [DOMAIN clusters -> DOMAIN bodies]
  BY <1>2 DEF AtRest, HeapSound
<1>4. PICK row : row = Head(admin.rows)
  OBVIOUS
<1>5. PICK k : k = Len(bodies) + 1
  OBVIOUS
<1>6. /\ k \in DOMAIN saved.rows /\ k \notin DOMAIN bodies
      /\ saved.rows[k] = row /\ row \in Rows /\ row \in ToSet(saved.rows)
      /\ RowSound(row) /\ row.id <= counter
  <2>1. /\ Len(saved.rows) = Len(bodies) + Len(admin.rows)
        /\ \A i \in DOMAIN admin.rows : admin.rows[i] = saved.rows[Len(bodies) + i]
    BY <1>1 DEF RInv, ReplaySound, At
  <2>2. 1 \in DOMAIN admin.rows /\ row = admin.rows[1] /\ Len(admin.rows) \in Nat
        /\ Len(admin.rows) > 0
    BY <1>1, <1>2, <1>4
  <2>3. Len(bodies) \in Nat /\ DOMAIN bodies = 1..Len(bodies)
        /\ DOMAIN saved.rows = 1..Len(saved.rows)
    BY <1>2, <1>3
  <2>4. k \in DOMAIN saved.rows /\ k \notin DOMAIN bodies
    BY <1>5, <2>1, <2>2, <2>3
  <2>5. saved.rows[k] = row
    BY <1>5, <2>1, <2>2
  <2> QED BY <1>2, <2>4, <2>5 DEF RowsSound, ToSet
<1>7. /\ \A b \in DOMAIN bodies : /\ b \in DOMAIN saved.rows
                                  /\ bodies[b] = Restored(saved.rows[b])
                                  /\ history[b] = saved.rows[b].past
                                  /\ saved.rows[b].id \in DOMAIN clusters \/ Crowded(saved.rows[b])
      /\ \A b \in DOMAIN bodies : bodies[b].id = saved.rows[b].id
                                  /\ bodies[b].tokens = saved.rows[b].tokens
  <2>1. \A b \in DOMAIN bodies : /\ bodies[b] = Restored(saved.rows[b])
                                 /\ history[b] = saved.rows[b].past
                                 /\ saved.rows[b].id \in DOMAIN clusters \/ Crowded(saved.rows[b])
    BY <1>1 DEF RInv, ReplaySound, At
  <2>2. DOMAIN bodies \subseteq DOMAIN saved.rows
    <3>1. /\ DOMAIN bodies = 1..Len(bodies) /\ DOMAIN saved.rows = 1..Len(saved.rows)
          /\ Len(bodies) \in Nat
      BY <1>2, <1>3
    <3> QED BY <1>5, <1>6, <3>1
  <2> QED BY <2>1, <2>2 DEF Restored
<1>8. /\ \A b \in DOMAIN bodies : bodies[b].id # row.id
      /\ row.id \notin DOMAIN clusters /\ 0 \notin DOMAIN clusters
      /\ row.id \in Nat
  <2>1. \A b \in DOMAIN bodies : bodies[b].id # row.id
    BY <1>2, <1>6, <1>7 DEF RowsSound
  <2>2. \A id \in DOMAIN clusters : clusters[id] \in DOMAIN bodies /\ bodies[clusters[id]].id = id
    BY <1>3 DEF HeapSound
  <2>3. \A b \in DOMAIN bodies : bodies[b].id # 0
    BY <1>3 DEF HeapSound
  <2>4. row.id \in Nat
    BY <1>6 DEF Rows
  <2> QED BY <2>1, <2>2, <2>3, <2>4
<1>9. PICK body : body = Restored(row)
  OBVIOUS
<1>10. /\ body \in Body /\ body.id = row.id /\ body.tokens = row.tokens
  BY <1>6, <1>9 DEF Restored, Body, Rows
<1>11. bodies' = Append(bodies, body) /\ history' = Append(history, row.past)
  BY <1>4, <1>9 DEF Replay
<1>12. PICK count, path : count = Len(row.tokens) /\ path = Keys(row.tokens)
  OBVIOUS
<1>13. PICK ts, s, v :
         /\ IndexSound(shards', ts, clusters, bodies)
         /\ count \in DOMAIN shards' /\ s = shards'[count]
         /\ v = Victim(ts[s][path])
         /\ trees' = [ts EXCEPT ![s][path] = Append(SwapRemove(ts[s][path], v), row.id)]
         /\ clusters' = Put(Without(clusters, v), row.id, Len(bodies) + 1)
  <2>1. ReplaysRow(row, count, path)
    BY <1>3, <1>4, <1>12, ReplayEffect
  <2> QED BY <2>1 DEF ReplaysRow
<1>14. PICK leaf : leaf = ts[s][path]
  OBVIOUS
<1>15. /\ path \in Paths /\ s \in DOMAIN ts
       /\ ts \in Seq([Paths -> Seq(Nat)]) /\ leaf \in Seq(Nat)
  <2>1. path \in Paths
    BY <1>6, <1>12 DEF RowSound
  <2>2. s \in DOMAIN ts /\ ts \in Seq([Paths -> Seq(Nat)])
    BY <1>13 DEF IndexSound, ShardsNamed
  <2>3. ts[s] \in [Paths -> Seq(Nat)]
    BY <2>2
  <2> QED BY <1>14, <2>1, <2>2, <2>3
<1>16. /\ Range(leaf) \subseteq DOMAIN clusters
       /\ \A id \in Range(leaf) : FiledIn(bodies, id, path) /\ Shaped(bodies, id, count)
       /\ Distinct(leaf)
  <2>1. LeavesHold(ts, clusters, bodies) /\ PlacesApart(ts) /\ ShapesKept(shards', ts, bodies)
    BY <1>13 DEF IndexSound
  <2>2. Range(leaf) \subseteq DOMAIN clusters /\ \A id \in Range(leaf) : FiledIn(bodies, id, path)
    BY <1>14, <1>15, <2>1 DEF LeavesHold
  <2>3. \A id \in Range(leaf) : Shaped(bodies, id, count)
    BY <1>13, <1>14, <1>15, <2>1 DEF ShapesKept
  <2>4. Distinct(leaf)
    BY <1>14, <1>15, <2>1 DEF PlacesApart, Distinct
  <2> QED BY <2>2, <2>3, <2>4
<1>17. /\ v \in Nat
       /\ IF v = 0 THEN Len(leaf) < Cap ELSE v \in Range(leaf)
       /\ v # 0 => Len(leaf) >= Cap
  <2>1. IF Len(leaf) >= Cap THEN v \in Range(leaf) ELSE v = 0
    BY <1>3, <1>13, <1>14, <1>15, VictimIsListed
  <2>2. Len(leaf) \in Nat /\ Cap \in Nat
    BY <1>15, MinerAssumption
  <2>3. Range(leaf) \subseteq Nat
    BY <1>15 DEF Range
  <2> QED BY <1>8, <1>16, <2>1, <2>2, <2>3
<1>18. DOMAIN clusters' = (DOMAIN clusters \ {v}) \cup {body.id}
  BY <1>10, <1>13 DEF Put, Without
<1>19. IndexSound(shards', trees', clusters', Append(bodies, body))
  <2>1. count = Len(body.tokens) /\ path = Keys(body.tokens)
    BY <1>10, <1>12
  <2>2. trees' = [ts EXCEPT ![s][path] = Append(SwapRemove(ts[s][path], v), body.id)]
    BY <1>10, <1>13
  <2>3. IF v = 0 THEN Len(ts[s][path]) < Cap ELSE v \in Range(ts[s][path])
    BY <1>14, <1>17
  <2>4. body.id \notin DOMAIN clusters
    BY <1>8, <1>10
  <2>5. IndexSound(shards', ts, clusters, bodies) /\ count \in DOMAIN shards' /\ s = shards'[count]
    BY <1>13
  <2> QED BY <1>3, <1>8, <1>10, <1>15, <1>17, <1>18, <2>1, <2>2, <2>3, <2>4, <2>5,
             ClusterPut, Zenon
<1>20. HeapSound(clusters', Append(bodies, body), Append(history, row.past), counter)
  <2>1. row.past \in Histories
    BY <1>6 DEF Rows
  <2>2. /\ body.id # 0 /\ body.id <= counter
        /\ \A l \in row.past.lines : Covers(body.tokens, l) /\ Keys(l) = Keys(body.tokens)
    BY <1>6, <1>10 DEF RowSound
  <2>3. \A b \in DOMAIN bodies : bodies[b].id # body.id
    BY <1>8, <1>10
  <2>4. clusters' = Put(Without(clusters, v), body.id, Len(bodies) + 1)
    BY <1>10, <1>13
  <2> QED BY <1>3, <1>10, <2>1, <2>2, <2>3, <2>4, HeapGrown
<1>21. AtRest'
  BY <1>1, <1>11, <1>19, <1>20 DEF AtRest
<1>22. Still'
  BY <1>1, <1>2 DEF Still, Quiet
<1>23. Typed'
  <2>1. shards' \in [DOMAIN shards' -> Nat]
    <3>1. shards' \in [DOMAIN shards' -> DOMAIN ts] /\ DOMAIN ts \subseteq Nat
      BY <1>13, <1>15 DEF IndexSound, ShardsNamed
    <3> QED BY <3>1
  <2>2. clusters' \in [DOMAIN clusters' -> Nat]
    <3>1. PICK more : more = Append(bodies, body)
      OBVIOUS
    <3>2. clusters' \in [DOMAIN clusters' -> DOMAIN more] /\ more \in Seq(Body)
      BY <1>20, <3>1 DEF HeapSound
    <3>3. DOMAIN more \subseteq Nat
      BY <3>2
    <3> QED BY <3>2, <3>3
  <2> QED BY <1>1, <1>2, <2>1, <2>2 DEF Typed
<1>24. MInv'
  BY <1>21, <1>22, <1>23, MinerAtRest, PTL
<1>25. /\ admin'.at = "replay" /\ admin'.rows = Tail(admin.rows)
       /\ admin' = [at |-> admin'.at, due |-> admin'.due,
                    passed |-> admin'.passed, rows |-> admin'.rows]
  BY <1>1, <1>2 DEF AdminTyped
<1>26. AdminTyped'
  <2>1. Tail(admin.rows) \in Seq(Rows)
    BY <1>1, <1>2
  <2> QED BY <1>25, <2>1 DEF AdminTyped, Stages
<1>27. \* Whoever is evicted was in a crowd.
       \A b \in DOMAIN bodies : saved.rows[b].id = v => Crowded(saved.rows[b])
  <2> SUFFICES ASSUME NEW b \in DOMAIN bodies, saved.rows[b].id = v
               PROVE  Crowded(saved.rows[b])
    OBVIOUS
  <2>1. saved.rows[b] \in ToSet(saved.rows)
    BY <1>7 DEF ToSet
  <2>2. v # 0
    BY <1>2, <1>7 DEF RowsSound, RowSound
  <2>3. ASSUME NEW i \in DOMAIN leaf
        PROVE  \E r \in ToSet(saved.rows) : /\ r.id = leaf[i]
                                            /\ Len(r.tokens) = Len(row.tokens)
                                            /\ Keys(r.tokens) = Keys(row.tokens)
    <3>1. leaf[i] \in Range(leaf)
      BY DEF Range
    <3>2. PICK a \in DOMAIN bodies : bodies[a].id = leaf[i] /\ Keys(bodies[a].tokens) = path
      BY <1>16, <3>1 DEF FiledIn
    <3>3. PICK d \in DOMAIN bodies : bodies[d].id = leaf[i] /\ Len(bodies[d].tokens) = count
      BY <1>16, <3>1 DEF Shaped
    <3>4. a = d
      BY <1>3, <3>2, <3>3 DEF HeapSound
    <3>5. saved.rows[a] \in ToSet(saved.rows)
      BY <1>7 DEF ToSet
    <3> QED BY <1>7, <1>12, <3>2, <3>3, <3>4, <3>5
  <2>4. row.id \notin Range(leaf)
    BY <1>8, <1>16
  <2>5. Len(leaf) >= Cap /\ saved.rows[b].id \in Range(leaf)
    BY <1>17, <2>2
  <2>6. RowsSound(saved.rows, saved.counter) /\ Distinct(leaf) /\ leaf \in Seq(Nat)
    BY <1>2, <1>15, <1>16
  <2>7. row \in ToSet(saved.rows)
    BY <1>6
  <2> QED BY <2>1, <2>3, <2>4, <2>5, <2>6, <2>7, FullLeafCrowds
<1>28. \A r : Crowded(r)' <=> Crowded(r)
  BY <1>1 DEF Crowded, Peers
<1>29. \A b \in DOMAIN bodies' :
         /\ bodies'[b] = Restored(saved.rows[b])
         /\ history'[b] = saved.rows[b].past
         /\ saved.rows[b].id \in DOMAIN clusters' \/ Crowded(saved.rows[b])
  <2>1. /\ DOMAIN bodies' = DOMAIN bodies \cup {k} /\ bodies'[k] = body
        /\ \A b \in DOMAIN bodies : bodies'[b] = bodies[b]
    BY <1>3, <1>5, <1>11
  <2>2. history'[k] = row.past /\ \A b \in DOMAIN bodies : history'[b] = history[b]
    <3>1. history \in Seq(Histories) /\ Len(history) = Len(bodies)
      BY <1>3 DEF HeapSound
    <3> QED BY <1>3, <1>5, <1>11, <3>1
  <2>3. ASSUME NEW b \in DOMAIN bodies
        PROVE  saved.rows[b].id \in DOMAIN clusters' \/ Crowded(saved.rows[b])
    BY <1>7, <1>18, <1>27
  <2>4. row.id \in DOMAIN clusters'
    BY <1>10, <1>18
  <2> QED BY <1>6, <1>7, <1>9, <2>1, <2>2, <2>3, <2>4
<1>30. /\ Len(saved.rows) = Len(bodies') + Len(admin'.rows)
       /\ \A i \in DOMAIN admin'.rows : admin'.rows[i] = saved.rows[Len(bodies') + i]
  <2>1. /\ Len(saved.rows) = Len(bodies) + Len(admin.rows)
        /\ \A i \in DOMAIN admin.rows : admin.rows[i] = saved.rows[Len(bodies) + i]
    BY <1>1 DEF RInv, ReplaySound, At
  <2>2. Len(bodies') = k /\ k = Len(bodies) + 1 /\ Len(bodies) \in Nat
    BY <1>3, <1>5, <1>11
  <2>3. PICK rest : rest = Tail(admin.rows)
    OBVIOUS
  <2>4. PICK n \in Nat : n = Len(rest)
    BY <1>1, <1>2, <2>3
  <2>5. /\ Len(admin.rows) = n + 1 /\ DOMAIN rest = 1..n /\ DOMAIN admin.rows = 1..(n + 1)
        /\ \A i \in 1..n : rest[i] = admin.rows[i + 1]
    BY <1>1, <1>2, <2>3, <2>4, HeadTailProperties
  <2>6. ASSUME NEW i \in 1..n PROVE rest[i] = saved.rows[k + i]
    <3>1. i + 1 \in 1..(n + 1) /\ Len(bodies) + (i + 1) = k + i
      BY <2>2
    <3>2. admin.rows[i + 1] = saved.rows[Len(bodies) + (i + 1)]
      BY <2>1, <2>5, <3>1
    <3> QED BY <2>5, <3>1, <3>2
  <2>7. Len(saved.rows) = k + n
    BY <2>1, <2>2, <2>5
  <2> QED BY <1>25, <2>2, <2>3, <2>4, <2>5, <2>6, <2>7
<1>31. ReplaySound'
  BY <1>1, <1>2, <1>25, <1>28, <1>29, <1>30 DEF ReplaySound, At
<1>32. ClearSound' /\ CollectSound'
  BY <1>22, <1>25 DEF ClearSound, CollectSound, At
<1> QED BY <1>1, <1>23, <1>24, <1>26, <1>31, <1>32, SavedKept DEF RInv

-----------------------------------------------------------------------------
(* All steps, and the theorems.                                            *)

\* A new miner and an empty backend.
LEMMA InitRInv == RestoreInit => RInv
<1> SUFFICES ASSUME RestoreInit PROVE RInv
  OBVIOUS
<1>1. Init /\ saved = NoSnapshot /\ admin = Resting
  BY DEF RestoreInit
<1>2. TypeOK
  BY <1>1, InitIInv DEF IInv
<1>3. Typed
  <2>1. DOMAIN trees \subseteq Nat /\ DOMAIN bodies \subseteq Nat
    BY <1>2 DEF TypeOK
  <2> QED BY <1>2, <2>1 DEF Typed, TypeOK
<1>4. Still /\ NoLeaves /\ NoClusters
  BY <1>1 DEF Init, Still, Quiet, NoOp, NoLeaves, NoClusters
<1>5. MInv
  BY <1>3, <1>4, EmptyMiner
<1>6. /\ admin.at = "rest" /\ admin.rows = <<>> /\ saved.counter = 0 /\ saved.rows = <<>>
      /\ admin = [at |-> admin.at, due |-> admin.due, passed |-> admin.passed, rows |-> admin.rows]
  BY <1>1 DEF Resting, NoSnapshot
<1>7. AdminTyped /\ SavedSound
  BY <1>6, EmptySeq DEF AdminTyped, Stages, SavedSound, RowsSound
<1> QED BY <1>3, <1>4, <1>5, <1>6, <1>7
  DEF RInv, CollectSound, ClearSound, ReplaySound, At, Starting

\* Every step keeps the invariant.
LEMMA NextRInv ==
  ASSUME RInv, [RestoreNext]_allVars, ~Hot
  PROVE  RInv'
<1>1. CASE Serve
  BY <1>1, ServeStep
<1>2. CASE Operate
  BY <1>2, StartSnapshotStep, CollectStep, EndSnapshotStep DEF Operate
<1>3. CASE LoadSteps
  BY <1>3, LoadStep, ClearShardsStep, ClearMapStep, RewindStep, ReplayStep, EndLoadStep,
     LoadedStep DEF LoadSteps
<1>4. CASE Restart
  BY <1>4, RestartStep
<1>5. CASE Reload
  BY <1>5, ReloadStep
<1>6. CASE UNCHANGED allVars
  BY <1>6, StutterKeeps
<1> QED BY <1>1, <1>2, <1>3, <1>4, <1>5, <1>6 DEF RestoreNext

\* Through calls, snapshots, stops at any step and loads, the miner is sound
\* whenever it is not being cleared, and what the backend holds is a list of
\* clusters with different ids, none above the counter saved with them.
THEOREM RestoreInductive ==
  ASSUME ~Hot
  PROVE  RestoreSpec => []RInv
<1>1. RestoreInit => RInv
  BY InitRInv
<1>2. RInv /\ [RestoreNext]_allVars => RInv'
  BY NextRInv
<1> QED BY <1>1, <1>2, PTL DEF RestoreSpec

\* The id that a call is about to give to a new cluster is not in the map,
\* whatever was created while the snapshot was taken: snapshot reads the counter
\* after the clusters, and restore stores it before it inserts one.
THEOREM IdsStayFresh ==
  ASSUME ~Hot
  PROVE  RestoreSpec => []FreshIds
<1>1. RInv => FreshIds
  BY FreshFollows
<1> QED BY <1>1, RestoreInductive, PTL

\* Except while they are cleared, leaves and map hold the same clusters: a load
\* into a miner that was used leaves nothing of what it held in either.
THEOREM MapIsTheLeavesAfterLoads ==
  ASSUME ~Hot
  PROVE  RestoreSpec => []MapIsTheLeavesAgain
<1>1. RInv => MapIsTheLeavesAgain
  BY AgainFollows
<1> QED BY <1>1, RestoreInductive, PTL

\* When load_state returns, the miner holds no cluster that was not saved, and
\* every one that was saved with all a caller can see of it, but for those of a
\* leaf of which more were saved than fit.
THEOREM LoadsRestore ==
  ASSUME ~Hot
  PROVE  RestoreSpec => []RestoredAsSaved
<1>1. RInv => RestoredAsSaved
  BY RestoredFollows
<1> QED BY <1>1, RestoreInductive, PTL

\* When load_state returns, every line that was counted on a saved cluster
\* descends to a leaf with a cluster that is similar enough to it.
THEOREM SavedLinesMatch ==
  ASSUME ~Hot
  PROVE  RestoreSpec => []SavedLinesStillMatch
<1>1. RInv => SavedLinesStillMatch
  BY LinesFollow
<1> QED BY <1>1, RestoreInductive, PTL

-----------------------------------------------------------------------------
(* A load under callers.                                                   *)
(*                                                                         *)
(* Nothing above says what holds while callers are served during a load    *)
(* (Hot = TRUE): then an id may name two bodies, an entry of the map may   *)
(* have no leaf, and a thread may hold a shard that the table has lost.    *)
(* What is left is what a thread knows of the bodies it holds a reference  *)
(* of, and what a leaf is to the thread that holds its guard.              *)

\* What best_match keeps is a lower bound of the score of the body it names.
ScoreHeld(bs, best, line) ==
  best = NoBest \/
  /\ best.ref \in DOMAIN bs
  /\ best.score \in Nat
  /\ best.score <= Score(bs[best.ref].tokens, line)

\* A body that a match of the line may be applied to, whatever id it has.
Apt(bs, b, line) ==
  /\ b \in DOMAIN bs
  /\ ThNum # 0 => Len(bs[b].tokens) = Len(line) /\ Matches(bs[b].tokens, line)

HasPlainLine == HasLine \ {"params"}
Changing     == Applying \ {"params"}

\* What a thread at a place with these locals needs of bodies and shards.
Held(where, o, bs, ts) ==
  /\ where \in HasPlainLine => o.line \in Lines
  /\ where \in InShard => o.shard \in DOMAIN ts
  /\ where \in Scanning => ScoreHeld(bs, o.best, o.line)
  /\ where \in Changing => Apt(bs, o.best.ref, o.line)
  /\ where = "upgrade" /\ ~o.needs /\ ThNum # 0 => Covers(bs[o.best.ref].tokens, o.line)
  /\ where \in {"first", "last"} => o.ms \in Nat
  /\ where \in {"load", "show"} => o.best.ref \in DOMAIN bs
  /\ where \in {"stamp", "publish", "evict", "link"} => o.id # 0

\* A body, or a row, has an id and a path.
Lasting(id, tokens) == id # 0 /\ Keys(tokens) \in Paths

BodiesLasting == \A b \in DOMAIN bodies : Lasting(bodies[b].id, bodies[b].tokens)

\* With a threshold of 0 a line may be counted on a template of another length.
Absorbed == ThNum # 0 => AbsorbedCovered

ThreadsHeld == \A t \in Threads : Held(pc[t], op[t], bodies, trees)

UInv ==
  /\ TypeOK
  /\ HistoryAligned
  /\ Absorbed
  /\ BodiesLasting
  /\ ThreadsHeld

LeavesNumbered == \A s \in DOMAIN trees, p \in Paths : 0 \notin Range(trees[s][p])

LInv ==
  /\ Exclusive
  /\ LeavesNumbered
  /\ LeafWithinCap
  /\ VictimsChosen

RowsLasting(rows) ==
  /\ rows \in Seq(Rows)
  /\ \A i \in DOMAIN rows :
       /\ Lasting(rows[i].id, rows[i].tokens)
       /\ ThNum # 0 => \A l \in rows[i].past.lines : Covers(rows[i].tokens, l)

AdminHeld ==
  /\ AdminTyped
  /\ RowsLasting(admin.rows)
  /\ RowsLasting(saved.rows)
  /\ saved.counter \in Nat

\* Until the first load nothing is lost.
FirstMiner ==
  /\ loads \in Nat /\ reloads \in Nat
  /\ loads = 0 /\ reloads = 0 => ~Starting /\ IInv

HotInv == UInv /\ LInv /\ AdminHeld /\ FirstMiner

-----------------------------------------------------------------------------
(* Templates, whatever the line they are generalized against.              *)

\* Generalize opens tokens of the template and does nothing else, also against
\* a line of another length.
LEMMA GeneralizeOpens ==
  ASSUME NEW tmpl \in Line, NEW toks \in Line
  PROVE  /\ Generalize(tmpl, toks) \in Line
         /\ Covers(Generalize(tmpl, toks), tmpl)
<1>1. PICK g : g = Generalize(tmpl, toks)
  OBVIOUS
<1>2. DOMAIN tmpl = 1..Len(tmpl) /\ DOMAIN toks = 1..Len(toks) /\ Wildcard \in Token
  BY OptionsAssumption DEF Line
<1>3. /\ g = [i \in 1..Len(tmpl) |-> g[i]]
      /\ \A i \in 1..Len(tmpl) : g[i] \in Token /\ (g[i] = Wildcard \/ g[i] = tmpl[i])
  BY <1>1, <1>2 DEF Generalize, Line
<1>4. g \in Seq(Token) /\ Len(g) = Len(tmpl) /\ DOMAIN g = 1..Len(tmpl)
  BY <1>3 DEF Line
<1> QED BY <1>1, <1>3, <1>4 DEF Covers, Line

\* The path of the new template is again one of a line with positions open.
LEMMA OpenedPath ==
  ASSUME NEW tmpl \in Line, NEW toks \in Line, Keys(tmpl) \in Paths
  PROVE  Keys(Generalize(tmpl, toks)) \in Paths
<1>1. PICK g : g = Generalize(tmpl, toks)
  OBVIOUS
<1>2. PICK n : n = PathLen(Len(tmpl))
  OBVIOUS
<1>3. /\ DOMAIN tmpl = 1..Len(tmpl) /\ Len(tmpl) \in Nat /\ n \in Nat
      /\ n <= Len(tmpl) /\ n <= PrefixLen /\ PrefixLen \in Nat
  BY <1>2, OptionsAssumption DEF Line, PathLen
<1>4. Len(g) = Len(tmpl)
  BY <1>1, GeneralizeOpens DEF Covers
<1>5. PICK diff : diff = {i \in 1..n : i \in DOMAIN toks /\ tmpl[i] # toks[i]}
  OBVIOUS
<1>6. Key(Wildcard) = Wildcard
  BY DEF Key
<1>7. \A i \in 1..n : Key(g[i]) = IF i \in diff THEN Wildcard ELSE Key(tmpl[i])
  BY <1>1, <1>3, <1>5, <1>6 DEF Generalize
<1>8. PICK l \in Lines, open \in SUBSET (1..PrefixLen) : Keys(tmpl) = WithOpen(Keys(l), open)
  BY DEF Paths
<1>9. PICK keys : keys = Keys(l)
  OBVIOUS
<1>10. /\ DOMAIN keys = 1..n
       /\ \A i \in 1..n : Key(tmpl[i]) = IF i \in open THEN Wildcard ELSE keys[i]
  BY <1>2, <1>8, <1>9 DEF WithOpen, Keys
<1>11. Keys(g) = [i \in 1..n |-> Key(g[i])]
  BY <1>2, <1>4 DEF Keys
<1>12. Keys(g) = WithOpen(keys, open \cup diff)
  <2>1. \A i \in 1..n : Key(g[i]) = IF i \in open \cup diff THEN Wildcard ELSE keys[i]
    BY <1>7, <1>10
  <2>2. WithOpen(keys, open \cup diff)
          = [i \in 1..n |-> IF i \in open \cup diff THEN Wildcard ELSE keys[i]]
    BY <1>10 DEF WithOpen
  <2> QED BY <1>11, <2>1, <2>2
<1>13. open \cup diff \in SUBSET (1..PrefixLen)
  <2>1. 1..n \subseteq 1..PrefixLen
    BY <1>3
  <2>2. diff \subseteq 1..PrefixLen
    BY <1>5, <2>1
  <2> QED BY ONLY <1>8, <2>2, open \in SUBSET (1..PrefixLen)
<1> QED BY <1>1, <1>9, <1>12, <1>13 DEF Paths

\* With a threshold above 0 a template of another length is not similar.
LEMMA MatchesHaveLength ==
  ASSUME NEW tmpl \in Line, NEW toks \in Line, ThNum # 0, Matches(tmpl, toks)
  PROVE  Len(tmpl) = Len(toks)
<1> SUFFICES ASSUME Len(tmpl) # Len(toks) PROVE FALSE
  OBVIOUS
<1>1. Score(tmpl, toks) = 0
  BY DEF Score
<1>2. Len(toks) \in Nat /\ (toks # <<>> => Len(toks) # 0)
  BY DEF Line
<1>3. Width(toks) \in Nat /\ Width(toks) # 0
  BY <1>2 DEF Width
<1>4. ThNum \in Nat /\ ThNum # 0 /\ ThDen \in Nat
  BY OptionsAssumption
<1>5. \A m, n \in Nat : m # 0 /\ n # 0 => m * n > 0
  OBVIOUS
<1>6. ThNum * Width(toks) > 0 /\ 0 * ThDen = 0
  BY <1>3, <1>4, <1>5
<1>7. ThNum * Width(toks) \in Nat
  BY <1>3, <1>4
<1> QED BY <1>1, <1>6, <1>7 DEF Matches, Accepts

-----------------------------------------------------------------------------
(* Threads that do not move.                                               *)

\* What a thread knows survives the growth of the bodies and of the heap of
\* shards.
LEMMA HeldStays ==
  ASSUME NEW bs \in Seq(Body), NEW cs \in Seq(Body), GrowsTo(bs, cs),
         NEW ts, NEW us, DOMAIN ts \subseteq DOMAIN us,
         NEW where, NEW o \in Ops, Held(where, o, bs, ts)
  PROVE  Held(where, o, cs, us)
<1>1. PICK line \in Line : line = o.line
  BY DEF Ops
<1>2. ASSUME NEW b \in DOMAIN bs
      PROVE  /\ b \in DOMAIN cs
             /\ bs[b].tokens \in Line /\ cs[b].tokens \in Line
             /\ Covers(cs[b].tokens, bs[b].tokens)
             /\ Len(cs[b].tokens) = Len(bs[b].tokens)
  BY BodyFields DEF GrowsTo, Covers
<1>3. ASSUME NEW b \in DOMAIN bs
      PROVE  /\ Score(bs[b].tokens, line) \in Nat
             /\ Score(cs[b].tokens, line) \in Nat
             /\ Score(bs[b].tokens, line) <= Score(cs[b].tokens, line)
  BY <1>2, ScoreMonotone
<1>4. ScoreHeld(bs, o.best, line) => ScoreHeld(cs, o.best, line)
  <2> SUFFICES ASSUME ScoreHeld(bs, o.best, line), o.best # NoBest
               PROVE  ScoreHeld(cs, o.best, line)
    BY DEF ScoreHeld
  <2>1. PICK b \in DOMAIN bs : b = o.best.ref
    BY DEF ScoreHeld
  <2>2. PICK n \in Nat : n = o.best.score /\ n <= Score(bs[b].tokens, line)
    BY <2>1 DEF ScoreHeld
  <2>3. n <= Score(cs[b].tokens, line)
    BY <2>2, <1>3
  <2> QED BY <1>2, <2>1, <2>2, <2>3 DEF ScoreHeld
<1>5. Apt(bs, o.best.ref, line) => Apt(cs, o.best.ref, line)
  BY <1>2, <1>3, AcceptsMonotone DEF Apt, Matches
<1>6. o.best.ref \in DOMAIN bs /\ Covers(bs[o.best.ref].tokens, line)
        => Covers(cs[o.best.ref].tokens, line)
  BY <1>2, CoversTransitive
<1>7. where = "upgrade" => o.best.ref \in DOMAIN bs
  BY DEF Held, Changing, Applying, Apt
<1> QED BY <1>1, <1>2, <1>4, <1>5, <1>6, <1>7 DEF Held

\* A step of one thread: what the others know they keep.
LEMMA HotStep ==
  ASSUME UInv, NEW t \in Threads,
         TypeOK', HistoryAligned', Absorbed', BodiesLasting',
         GrowsTo(bodies, bodies'), DOMAIN trees \subseteq DOMAIN trees',
         \A u \in Threads \ {t} : pc'[u] = pc[u] /\ op'[u] = op[u],
         Held(pc'[t], op'[t], bodies', trees')
  PROVE  UInv'
<1>1. bodies \in Seq(Body) /\ bodies' \in Seq(Body) /\ \A u \in Threads : op[u] \in Ops
  BY DEF UInv, TypeOK
<1>2. ASSUME NEW u \in Threads \ {t} PROVE Held(pc'[u], op'[u], bodies', trees')
  <2>1. Held(pc[u], op[u], bodies, trees)
    BY DEF UInv, ThreadsHeld
  <2>2. Held(pc[u], op[u], bodies', trees')
    BY <1>1, <2>1, HeldStays
  <2> QED BY <2>2
<1>3. ThreadsHeld'
  BY <1>2 DEF ThreadsHeld
<1> QED BY <1>3 DEF UInv

\* A thread goes on to another place; the bodies stay as they are.
LEMMA HotMove ==
  ASSUME UInv, NEW t \in Threads, NEW where \in Places, NEW o \in Ops,
         op' = [op EXCEPT ![t] = o], Goto(t, where),
         UNCHANGED <<index, bodies, history>>,
         counter' \in Nat, tick' \in Nat, calls' \in [Kinds -> Nat],
         answer' \in [Threads -> Answers],
         Held(where, o, bodies, trees)
  PROVE  UInv'
<1>1. TypeOK /\ bodies \in Seq(Body)
  BY DEF UInv, TypeOK
<1>2. /\ op' \in [Threads -> Ops] /\ pc' \in [Threads -> Places]
      /\ op'[t] = o /\ pc'[t] = where
      /\ \A u \in Threads \ {t} : pc'[u] = pc[u] /\ op'[u] = op[u]
  BY <1>1, Moves
<1>3. shards' = shards /\ trees' = trees /\ clusters' = clusters
  BY DEF index
<1>4. TypeOK'
  BY <1>1, <1>2, <1>3 DEF TypeOK
<1>5. HistoryAligned' /\ Absorbed' /\ BodiesLasting'
  BY DEF UInv, HistoryAligned, Absorbed, AbsorbedCovered, BodiesLasting
<1>6. GrowsTo(bodies, bodies')
  BY <1>1, GrowsReflexive
<1> QED BY <1>2, <1>3, <1>4, <1>5, <1>6, HotStep

\* A call returns; the bodies stay as they are.
LEMMA HotReturn ==
  ASSUME UInv, NEW t \in Threads, NEW result \in Answers, Return(t, result),
         UNCHANGED <<index, bodies, clocks, calls, history>>
  PROVE  UInv'
<1>1. TypeOK
  BY DEF UInv
<1>2. op' = [op EXCEPT ![t] = NoOp] /\ NoOp \in Ops /\ Goto(t, "idle")
  BY NoOpTyped DEF Return
<1>3. answer' \in [Threads -> Answers]
  BY <1>1, ReturnTyped
<1>4. Held("idle", NoOp, bodies, trees)
  BY DEF Held, HasPlainLine, HasLine, InShard, Scanning, Changing, Applying
<1>5. "idle" \in Places
  BY DEF Places
<1> QED BY <1>1, <1>2, <1>3, <1>4, <1>5, HotMove DEF TypeOK, clocks

\* A thread goes on with the locals it has.
LEMMA HotGoesOn ==
  ASSUME UInv, NEW t \in Threads, NEW where \in Places,
         UNCHANGED <<index, bodies, clocks, calls, op, answer, history>>,
         Goto(t, where), Held(where, op[t], bodies, trees)
  PROVE  UInv'
<1>1. op' = [op EXCEPT ![t] = op[t]] /\ op[t] \in Ops
  BY DEF UInv, TypeOK
<1> QED BY <1>1, HotMove DEF UInv, TypeOK, clocks

-----------------------------------------------------------------------------
(* The steps of a call, whatever a load does meanwhile.                    *)

\* What is known of the thread that takes a step.
LEMMA HotThread ==
  ASSUME UInv, NEW t \in Threads
  PROVE  TypeOK /\ op[t] \in Ops /\ Held(pc[t], op[t], bodies, trees)
BY OpType DEF UInv, ThreadsHeld

\* A thread that has a shard has a leaf in it.
LEMMA HotLeaf ==
  ASSUME UInv, NEW t \in Threads, pc[t] \in InShard
  PROVE  /\ op[t].line \in Lines /\ op[t].shard \in DOMAIN trees
         /\ Keys(op[t].line) \in Paths
         /\ trees[op[t].shard] \in [Paths -> Seq(Nat)]
         /\ Leaf(t) \in Seq(Nat)
<1>1. op[t].line \in Lines /\ op[t].shard \in DOMAIN trees
  BY HotThread DEF Held, InShard, HasPlainLine, HasLine
<1>2. trees[op[t].shard] \in [Paths -> Seq(Nat)]
  BY <1>1 DEF UInv, TypeOK
<1> QED BY <1>1, <1>2, LineTypes DEF Leaf

\* A caller makes a call.
LEMMA HotCall ==
  ASSUME UInv, NEW t \in Threads, Call(t)
  PROVE  UInv'
<1>1. TypeOK
  BY DEF UInv
<1>2. PICK kind \in Kinds : calls' = [calls EXCEPT ![kind] = @ + 1]
        /\ \/ /\ kind = "add"
              /\ \E l \in Lines, m \in Members \cup {None}, e \in Events \cup {None} :
                   op' = [op EXCEPT ![t] = Request(kind, l, m, e)]
              /\ Goto(t, "shard")
           \/ /\ kind \in {"match", "extract"}
              /\ \E l \in Lines : op' = [op EXCEPT ![t] = Request(kind, l, None, None)]
              /\ Goto(t, "shard")
           \/ /\ kind = "get"
              /\ \E id \in 1..counter :
                   op' = [op EXCEPT ![t] =
                            [NoOp EXCEPT !.kind = kind, !.best.id = id]]
              /\ Goto(t, "lookup")
  BY DEF Call
<1>3. UNCHANGED <<index, bodies, history>> /\ counter' \in Nat /\ tick' \in Nat
  BY <1>1 DEF Call, clocks, TypeOK
<1>4. calls' \in [Kinds -> Nat]
  <2>1. calls' = [calls EXCEPT ![kind] = calls[kind] + 1]
    BY <1>2
  <2> QED BY <1>1, <2>1 DEF TypeOK
<1>5. answer' \in [Threads -> Answers]
  <2>1. NoAnswer \in Answers
    BY DEF NoAnswer, Answer, Answers
  <2> QED BY <1>1, <2>1 DEF Call, TypeOK
<1>6. CASE kind = "get"
  <2>1. PICK id \in 1..counter :
          /\ op' = [op EXCEPT ![t] = [NoOp EXCEPT !.kind = kind, !.best.id = id]]
          /\ Goto(t, "lookup")
    BY <1>2, <1>6
  <2>2. id \in Nat
    BY <1>1 DEF TypeOK
  <2>3. [NoOp EXCEPT !.kind = kind, !.best.id = id] \in Ops
    <3>1. ASSUME NEW o \in Ops PROVE [o EXCEPT !.kind = kind, !.best.id = id] \in Ops
      BY <2>2 DEF Ops
    <3> QED BY <3>1, NoOpTyped
  <2>4. Held("lookup", [NoOp EXCEPT !.kind = kind, !.best.id = id], bodies, trees)
    BY DEF Held, HasPlainLine, HasLine, InShard, Scanning, Changing, Applying
  <2>5. "lookup" \in Places
    BY DEF Places
  <2> QED BY <1>3, <1>4, <1>5, <2>1, <2>3, <2>4, <2>5, HotMove
<1>7. CASE kind # "get"
  <2>1. PICK l \in Lines, m \in Members \cup {None}, e \in Nat \cup {None} :
          op' = [op EXCEPT ![t] = Request(kind, l, m, e)] /\ Goto(t, "shard")
    <3>1. Events \subseteq Nat
      BY MinerAssumption
    <3> QED BY <1>2, <1>7, <3>1
  <2>2. PICK o : o = Request(kind, l, m, e)
    OBVIOUS
  <2>3. o \in Ops /\ o.line = l /\ o.best = NoBest
    BY <2>2, MinerAssumption, RequestTyped
  <2>4. Held("shard", o, bodies, trees)
    BY <2>3 DEF Held, HasPlainLine, HasLine, InShard, Scanning, Changing, Applying, ScoreHeld
  <2>5. "shard" \in Places
    BY DEF Places
  <2> QED BY <1>3, <1>4, <1>5, <2>1, <2>2, <2>3, <2>4, <2>5, HotMove
<1> QED BY <1>6, <1>7

\* A thread that has the shard of its token count goes on to read its leaf.
LEMMA HotEnters ==
  ASSUME UInv, NEW t \in Threads, pc[t] \in {"shard", "enter"},
         Len(op[t].line) \in DOMAIN shards,
         op' = [op EXCEPT ![t].shard = shards[Len(op[t].line)]], Goto(t, "read"),
         UNCHANGED <<index, bodies, clocks, calls, answer, history>>
  PROVE  UInv'
<1>1. TypeOK /\ op[t] \in Ops /\ Held(pc[t], op[t], bodies, trees)
  BY HotThread
<1>2. PICK s : s = shards[Len(op[t].line)] /\ s \in DOMAIN trees /\ s \in Nat
  BY <1>1 DEF TypeOK
<1>3. PICK o : o = [op[t] EXCEPT !.shard = s]
  OBVIOUS
<1>4. o \in Ops /\ o.line = op[t].line /\ o.best = op[t].best /\ o.shard = s
  BY <1>1, <1>2, <1>3 DEF Ops
<1>5. op' = [op EXCEPT ![t] = o]
  BY <1>1, <1>2, <1>3 DEF TypeOK
<1>6. Held("read", o, bodies, trees)
  BY <1>1, <1>2, <1>4 DEF Held, HasPlainLine, HasLine, InShard, Scanning, Changing, Applying
<1>7. "read" \in Places
  BY DEF Places
<1> QED BY <1>1, <1>4, <1>5, <1>6, <1>7, HotMove DEF clocks, TypeOK

\* The lookup of a shard, by shard_for and match_only.
LEMMA HotGetShard ==
  ASSUME UInv, NEW t \in Threads, GetShard(t)
  PROVE  UInv'
<1>1. TypeOK /\ op[t] \in Ops /\ Held(pc[t], op[t], bodies, trees) /\ pc[t] = "shard"
  BY HotThread DEF GetShard
<1>2. CASE Len(op[t].line) \in DOMAIN shards
  BY <1>1, <1>2, HotEnters DEF GetShard
<1>3. CASE Len(op[t].line) \notin DOMAIN shards /\ op[t].kind = "add"
  <2>1. Held("enter", op[t], bodies, trees) /\ "enter" \in Places
    BY <1>1 DEF Held, HasPlainLine, HasLine, InShard, Scanning, Changing, Applying, Places
  <2> QED BY <1>3, <2>1, HotGoesOn DEF GetShard
<1>4. CASE Len(op[t].line) \notin DOMAIN shards /\ op[t].kind # "add"
  <2>1. Answer(0, "miss") \in Answers
    BY DEF Answer, Answers
  <2> QED BY <1>4, <2>1, HotReturn DEF GetShard
<1> QED BY <1>2, <1>3, <1>4

\* best_match starts under the read guard.
LEMMA HotReadLeaf ==
  ASSUME UInv, NEW t \in Threads, ReadLeaf(t)
  PROVE  UInv'
<1>1. TypeOK /\ op[t] \in Ops /\ Held(pc[t], op[t], bodies, trees) /\ pc[t] = "read"
  BY HotThread DEF ReadLeaf
<1>2. Leaf(t) \in Seq(Nat)
  BY <1>1, HotLeaf DEF InShard
<1>3. PICK o : o = [op[t] EXCEPT !.todo = Leaf(t)]
  OBVIOUS
<1>4. o \in Ops /\ o.line = op[t].line /\ o.best = op[t].best /\ o.shard = op[t].shard
  BY <1>1, <1>2, <1>3 DEF Ops
<1>5. op' = [op EXCEPT ![t] = o] /\ Goto(t, "scan")
  BY <1>1, <1>3 DEF ReadLeaf, TypeOK
<1>6. Held("scan", o, bodies, trees) /\ "scan" \in Places
  BY <1>1, <1>4 DEF Held, HasPlainLine, HasLine, InShard, Scanning, Changing, Applying, Places
<1> QED BY <1>1, <1>4, <1>5, <1>6, HotMove DEF ReadLeaf, clocks, TypeOK

\* The second best_match starts under the write guard.
LEMMA HotWriteLeaf ==
  ASSUME UInv, NEW t \in Threads, WriteLeaf(t)
  PROVE  UInv'
<1>1. TypeOK /\ op[t] \in Ops /\ Held(pc[t], op[t], bodies, trees) /\ pc[t] = "write"
  BY HotThread DEF WriteLeaf
<1>2. Leaf(t) \in Seq(Nat)
  BY <1>1, HotLeaf DEF InShard
<1>3. PICK o : o = [op[t] EXCEPT !.todo = Leaf(t), !.best = NoBest]
  OBVIOUS
<1>4. NoBest \in [id: Nat, ref: Nat, score: Nat \cup {-1}]
  BY DEF NoBest
<1>5. o \in Ops /\ o.line = op[t].line /\ o.best = NoBest /\ o.shard = op[t].shard
  BY <1>1, <1>2, <1>3, <1>4 DEF Ops
<1>6. op' = [op EXCEPT ![t] = o] /\ Goto(t, "rescan")
  BY <1>1, <1>3 DEF WriteLeaf, TypeOK
<1>7. Held("rescan", o, bodies, trees) /\ "rescan" \in Places
  BY <1>1, <1>5 DEF Held, HasPlainLine, HasLine, InShard, Scanning, Changing, Applying,
                    ScoreHeld, Places, Writing
<1> QED BY <1>1, <1>5, <1>6, <1>7, HotMove DEF WriteLeaf, clocks, TypeOK

\* What best_match keeps after a visit names a body that scores that much.
LEMMA HotBetter ==
  ASSUME TypeOK, NEW line \in Line, NEW id \in Nat,
         NEW best \in [id: Nat, ref: Nat, score: Nat \cup {-1}],
         ScoreHeld(bodies, best, line)
  PROVE  /\ Better(best, id, line) \in [id: Nat, ref: Nat, score: Nat \cup {-1}]
         /\ ScoreHeld(bodies, Better(best, id, line), line)
<1>1. CASE id \notin DOMAIN clusters
  BY <1>1 DEF Better
<1>2. CASE id \in DOMAIN clusters
  <2>1. PICK ref : ref = clusters[id]
    OBVIOUS
  <2>2. ref \in DOMAIN bodies /\ ref \in Nat /\ bodies[ref].tokens \in Line
    BY <1>2, <2>1, BodyFields DEF TypeOK
  <2>3. PICK n \in Nat : n = Score(bodies[ref].tokens, line)
    BY <2>2, ScoreType
  <2>4. PICK new : new = [id |-> id, ref |-> ref, score |-> n]
    OBVIOUS
  <2>5. new \in [id: Nat, ref: Nat, score: Nat \cup {-1}] /\ ScoreHeld(bodies, new, line)
    BY <2>2, <2>3, <2>4 DEF ScoreHeld
  <2>6. Better(best, id, line) = IF n > best.score THEN new ELSE best
    BY <1>2, <2>1, <2>3, <2>4 DEF Better
  <2> QED BY <2>5, <2>6
<1> QED BY <1>1, <1>2

\* best_match visits a cluster.
LEMMA HotVisit ==
  ASSUME UInv, NEW t \in Threads, Visit(t)
  PROVE  UInv'
<1>1. /\ TypeOK /\ op[t] \in Ops /\ Held(pc[t], op[t], bodies, trees)
      /\ pc[t] \in {"scan", "rescan"} /\ op[t].todo # <<>>
  BY HotThread DEF Visit
<1>2. /\ op[t].todo \in Seq(Nat) /\ op[t].line \in Line
      /\ op[t].best \in [id: Nat, ref: Nat, score: Nat \cup {-1}]
      /\ ScoreHeld(bodies, op[t].best, op[t].line)
  BY <1>1 DEF Ops, Held, Scanning
<1>3. Head(op[t].todo) \in Nat /\ Tail(op[t].todo) \in Seq(Nat)
  BY <1>1, <1>2
<1>4. PICK new : new = Better(op[t].best, Head(op[t].todo), op[t].line)
  OBVIOUS
<1>5. new \in [id: Nat, ref: Nat, score: Nat \cup {-1}] /\ ScoreHeld(bodies, new, op[t].line)
  BY <1>1, <1>2, <1>3, <1>4, HotBetter
<1>6. PICK o : o = [op[t] EXCEPT !.todo = Tail(op[t].todo), !.best = new]
  OBVIOUS
<1>7. o \in Ops /\ o.line = op[t].line /\ o.best = new /\ o.shard = op[t].shard
  BY <1>1, <1>3, <1>5, <1>6 DEF Ops
<1>8. op' = [op EXCEPT ![t] = o] /\ Goto(t, pc[t]) /\ pc[t] \in Places
  BY <1>1, <1>4, <1>6 DEF Visit, TypeOK, Goto
<1>9. Held(pc[t], o, bodies, trees)
  BY <1>1, <1>5, <1>7 DEF Held, HasPlainLine, HasLine, InShard, Scanning, Changing, Applying
<1> QED BY <1>1, <1>7, <1>8, <1>9, HotMove DEF Visit, clocks, TypeOK

\* The end of a scan that found a body: the line may be applied to it.
LEMMA FoundApt ==
  ASSUME UInv, NEW t \in Threads, pc[t] \in Scanning, Found(t)
  PROVE  Apt(bodies, op[t].best.ref, op[t].line)
<1>1. /\ TypeOK /\ op[t] \in Ops /\ op[t].line \in Line
      /\ ScoreHeld(bodies, op[t].best, op[t].line) /\ op[t].best # NoBest
  BY HotThread DEF Held, Found, NoBest, Ops
<1>2. PICK b \in DOMAIN bodies : b = op[t].best.ref
  BY <1>1 DEF ScoreHeld
<1>3. PICK line \in Line : line = op[t].line
  BY <1>1
<1>4. PICK n \in Nat : n = op[t].best.score /\ n <= Score(bodies[b].tokens, line)
  BY <1>1, <1>2, <1>3 DEF ScoreHeld
<1>5. bodies[b].tokens \in Line /\ Score(bodies[b].tokens, line) \in Nat
  BY <1>1, ScoreType, BodyFields DEF TypeOK
<1>6. Matches(bodies[b].tokens, line)
  BY <1>3, <1>4, <1>5, AcceptsMonotone DEF Found, Matches
<1> QED BY <1>2, <1>3, <1>5, <1>6, MatchesHaveLength DEF Apt

\* The end of best_match under the read guard.
LEMMA HotEndScan ==
  ASSUME UInv, NEW t \in Threads, EndScan(t)
  PROVE  UInv'
<1>1. TypeOK /\ op[t] \in Ops /\ Held(pc[t], op[t], bodies, trees) /\ pc[t] = "scan"
  BY HotThread DEF EndScan
<1>2. Found(t) => Apt(bodies, op[t].best.ref, op[t].line)
  BY <1>1, FoundApt DEF Scanning
<1> USE DEF Held, HasPlainLine, HasLine, InShard, Scanning, Changing, Applying, Places
<1>3. CASE op[t].kind = "add" /\ Found(t)
  <2>1. Held("hit", op[t], bodies, trees) /\ Goto(t, "hit")
    BY <1>1, <1>2, <1>3 DEF EndScan
  <2> QED BY <1>3, <2>1, HotGoesOn DEF EndScan
<1>4. CASE op[t].kind = "add" /\ ~Found(t)
  <2>1. Held("write", op[t], bodies, trees) /\ Goto(t, "write")
    BY <1>1, <1>4 DEF EndScan
  <2> QED BY <1>4, <2>1, HotGoesOn DEF EndScan
<1>5. CASE op[t].kind = "extract" /\ Found(t)
  <2>1. Held("lookup", op[t], bodies, trees)
    OBVIOUS
  <2> QED BY <1>5, <2>1, HotGoesOn DEF EndScan
<1>6. CASE op[t].kind # "add" /\ ~(op[t].kind = "extract" /\ Found(t))
  <2>1. Answer(op[t].best.id, "match") \in Answers /\ Answer(0, "miss") \in Answers
    BY <1>1 DEF Answer, Answers, Ops
  <2> QED BY <1>6, <2>1, HotReturn DEF EndScan
<1> QED BY <1>3, <1>4, <1>5, <1>6

\* The end of best_match under the write guard.
LEMMA HotEndRescan ==
  ASSUME UInv, NEW t \in Threads, EndRescan(t)
  PROVE  UInv'
<1>1. TypeOK /\ op[t] \in Ops /\ Held(pc[t], op[t], bodies, trees) /\ pc[t] = "rescan"
  BY HotThread DEF EndRescan
<1>2. Found(t) => Apt(bodies, op[t].best.ref, op[t].line)
  BY <1>1, FoundApt DEF Scanning
<1> USE DEF Held, HasPlainLine, HasLine, InShard, Scanning, Changing, Applying, Places, Writing
<1>3. CASE Found(t)
  <2>1. Held("hit", op[t], bodies, trees) /\ Goto(t, "hit")
    BY <1>1, <1>2, <1>3 DEF EndRescan
  <2> QED BY <2>1, HotGoesOn DEF EndRescan
<1>4. CASE ~Found(t)
  <2>1. Held("create", op[t], bodies, trees) /\ Goto(t, "create")
    BY <1>1, <1>4 DEF EndRescan
  <2> QED BY <2>1, HotGoesOn DEF EndRescan
<1> QED BY <1>3, <1>4

\* An id is taken from the counter.
LEMMA HotNewId ==
  ASSUME UInv, NEW t \in Threads, NewId(t)
  PROVE  UInv'
<1>1. /\ TypeOK /\ op[t] \in Ops /\ Held(pc[t], op[t], bodies, trees) /\ pc[t] = "create"
      /\ counter \in Nat
  BY HotThread DEF NewId, TypeOK
<1>2. PICK n \in Nat : n = counter + 1 /\ n # 0
  BY <1>1
<1>3. PICK o : o = [op[t] EXCEPT !.id = n]
  OBVIOUS
<1>4. o \in Ops /\ o.line = op[t].line /\ o.shard = op[t].shard /\ o.id = n
  BY <1>1, <1>3 DEF Ops
<1>5. op' = [op EXCEPT ![t] = o] /\ Goto(t, "stamp") /\ counter' = n
  BY <1>1, <1>2, <1>3 DEF NewId, TypeOK
<1>6. Held("stamp", o, bodies, trees) /\ "stamp" \in Places
  BY <1>1, <1>2, <1>4 DEF Held, HasPlainLine, HasLine, InShard, Scanning, Changing,
                          Applying, Places, Writing
<1> QED BY <1>1, <1>4, <1>5, <1>6, HotMove DEF NewId, TypeOK

\* The tick of a body that is being built.
LEMMA HotStamp ==
  ASSUME UInv, NEW t \in Threads, Stamp(t)
  PROVE  UInv'
<1>1. /\ TypeOK /\ op[t] \in Ops /\ Held(pc[t], op[t], bodies, trees) /\ pc[t] = "stamp"
      /\ tick \in Nat
  BY HotThread DEF Stamp, TypeOK
<1>2. PICK o : o = [op[t] EXCEPT !.tick = tick]
  OBVIOUS
<1>3. o \in Ops /\ o.line = op[t].line /\ o.shard = op[t].shard /\ o.id = op[t].id
  BY <1>1, <1>2 DEF Ops
<1>4. op' = [op EXCEPT ![t] = o] /\ Goto(t, "publish") /\ tick' \in Nat
  BY <1>1, <1>2 DEF Stamp, TypeOK
<1>5. Held("publish", o, bodies, trees) /\ "publish" \in Places
  BY <1>1, <1>3 DEF Held, HasPlainLine, HasLine, InShard, Scanning, Changing,
                    Applying, Places, Writing
<1> QED BY <1>1, <1>3, <1>4, <1>5, HotMove DEF Stamp, TypeOK

\* The tick of a hit.
LEMMA HotHit ==
  ASSUME UInv, NEW t \in Threads, Hit(t)
  PROVE  UInv'
<1>1. /\ TypeOK /\ op[t] \in Ops /\ Held(pc[t], op[t], bodies, trees) /\ pc[t] = "hit"
      /\ tick \in Nat
  BY HotThread DEF Hit, TypeOK
<1>2. PICK o : o = [op[t] EXCEPT !.tick = tick]
  OBVIOUS
<1>3. o \in Ops /\ o.line = op[t].line /\ o.best = op[t].best
  BY <1>1, <1>2 DEF Ops
<1>4. op' = [op EXCEPT ![t] = o] /\ Goto(t, "touch") /\ tick' \in Nat
  BY <1>1, <1>2 DEF Hit, TypeOK
<1>5. Held("touch", o, bodies, trees) /\ "touch" \in Places
  BY <1>1, <1>3 DEF Held, HasPlainLine, HasLine, InShard, Scanning, Changing,
                    Applying, Places, Reading
<1> QED BY <1>1, <1>3, <1>4, <1>5, HotMove DEF Hit, TypeOK

\* The recency of an id is a number.
LEMMA RecencyType ==
  ASSUME TypeOK, NEW id
  PROVE  Recency(id) \in Nat
<1>1. CASE id \in DOMAIN clusters
  <2>1. bodies[clusters[id]] \in Body
    BY <1>1, BodyFields DEF TypeOK
  <2>2. bodies[clusters[id]].last_used \in Nat
    BY <2>1 DEF Body
  <2> QED BY <1>1, <2>2 DEF Recency
<1> QED BY <1>1 DEF Recency

\* evict_if_full looks at the recency of a cluster.
LEMMA HotConsider ==
  ASSUME UInv, NEW t \in Threads, Consider(t)
  PROVE  UInv'
<1>1. TypeOK /\ op[t] \in Ops /\ Held(pc[t], op[t], bodies, trees) /\ pc[t] = "evict"
  BY HotThread DEF Consider
<1>2. CASE op[t].todo # <<>>
  <2>1. op[t].todo \in Seq(Nat) /\ op[t].victim \in [id: Nat, recency: Nat]
    BY <1>1 DEF Ops
  <2>2. PICK id \in Nat : id = Head(op[t].todo)
    BY <1>2, <2>1
  <2>3. PICK todo \in Seq(Nat) : todo = Tail(op[t].todo)
    <3>1. Tail(op[t].todo) \in Seq(Nat)
      BY <1>2, <2>1
    <3> QED BY <3>1
  <2>4. PICK new \in [id: Nat, recency: Nat] : new = Older(op[t].victim, id)
    <3>1. Recency(id) \in Nat
      BY <1>1, RecencyType
    <3> QED BY <2>1, <3>1 DEF Older
  <2>5. PICK o : o = [op[t] EXCEPT !.todo = todo, !.victim = new]
    OBVIOUS
  <2>6. o \in Ops /\ o.line = op[t].line /\ o.shard = op[t].shard /\ o.id = op[t].id
    BY <1>1, <2>5 DEF Ops
  <2>7. op' = [op EXCEPT ![t] = o] /\ Goto(t, "evict")
    BY <1>1, <1>2, <2>2, <2>3, <2>4, <2>5 DEF Consider, TypeOK, Goto
  <2>8. Held("evict", o, bodies, trees) /\ "evict" \in Places
    BY <1>1, <2>6 DEF Held, HasPlainLine, HasLine, InShard, Scanning, Changing,
                      Applying, Places, Writing
  <2> QED BY <1>1, <2>6, <2>7, <2>8, HotMove DEF Consider, clocks, TypeOK
<1>3. CASE op[t].todo = <<>>
  <2>1. Held("link", op[t], bodies, trees) /\ "link" \in Places
    BY <1>1 DEF Held, HasPlainLine, HasLine, InShard, Scanning, Changing,
                Applying, Places, Writing
  <2> QED BY <1>3, <2>1, HotGoesOn DEF Consider
<1> QED BY <1>2, <1>3

\* The second lookup of extract, and the one of cluster(id).
LEMMA HotLookup ==
  ASSUME UInv, NEW t \in Threads, Lookup(t)
  PROVE  UInv'
<1>1. TypeOK /\ op[t] \in Ops
  BY HotThread
<1>2. CASE op[t].best.id \in DOMAIN clusters
  <2>1. PICK ref \in Nat : ref = clusters[op[t].best.id] /\ ref \in DOMAIN bodies
    BY <1>1, <1>2 DEF TypeOK
  <2>2. PICK o : o = [op[t] EXCEPT !.best.ref = ref]
    OBVIOUS
  <2>3. o \in Ops /\ o.best.ref = ref
    BY <1>1, <2>1, <2>2 DEF Ops
  <2>4. PICK where : where = IF op[t].kind = "get" THEN "load" ELSE "params"
    OBVIOUS
  <2>5. op' = [op EXCEPT ![t] = o] /\ Goto(t, where)
    BY <1>1, <1>2, <2>1, <2>2, <2>4 DEF Lookup, TypeOK
  <2>6. Held(where, o, bodies, trees) /\ where \in Places
    BY <2>1, <2>3, <2>4 DEF Held, HasPlainLine, HasLine, InShard, Scanning, Changing,
                            Applying, Places
  <2> QED BY <1>1, <1>2, <2>3, <2>5, <2>6, HotMove DEF Lookup, clocks, TypeOK
<1>3. CASE op[t].best.id \notin DOMAIN clusters
  <2>1. Answer(0, "miss") \in Answers
    BY DEF Answer, Answers
  <2> QED BY <1>3, <2>1, HotReturn DEF Lookup
<1> QED BY <1>2, <1>3

\* extract collects the parameters; to_public reads the event window.
LEMMA HotReads ==
  ASSUME UInv, NEW t \in Threads, Params(t) \/ ShowFirst(t) \/ ShowLast(t)
  PROVE  UInv'
<1>1. TypeOK /\ op[t] \in Ops /\ Held(pc[t], op[t], bodies, trees)
  BY HotThread
<1>2. op[t].best.id \in Nat /\ op[t].ms \in Nat \cup {None}
  BY <1>1 DEF Ops
<1>3. ASSUME pc[t] \in {"load", "show"}
      PROVE  /\ op[t].best.ref \in DOMAIN bodies
             /\ bodies[op[t].best.ref].first \in Nat /\ bodies[op[t].best.ref].last \in Nat
  <2>1. op[t].best.ref \in DOMAIN bodies
    BY <1>1, <1>3 DEF Held
  <2>2. bodies[op[t].best.ref] \in Body
    BY <1>1, <2>1, BodyFields DEF TypeOK
  <2> QED BY <2>1, <2>2 DEF Body
<1>4. CASE Params(t)
  <2>1. Answer(op[t].best.id, "params") \in Answers
    BY <1>2 DEF Answer, Answers
  <2> QED BY <1>4, <2>1, HotReturn DEF Params
<1>5. CASE ShowFirst(t)
  <2>1. PICK first \in Nat : first = bodies[op[t].best.ref].first
    BY <1>3, <1>5 DEF ShowFirst
  <2>2. CASE first = EventUnset
    <3>1. Answer(op[t].best.id, "shown") \in Answers
      BY <1>2 DEF Answer, Answers
    <3> QED BY <1>5, <2>1, <2>2, <3>1, HotReturn DEF ShowFirst
  <2>3. CASE first # EventUnset
    <3>1. PICK o : o = [op[t] EXCEPT !.ms = first]
      OBVIOUS
    <3>2. o \in Ops /\ o.best = op[t].best
      BY <1>1, <3>1 DEF Ops
    <3>3. op' = [op EXCEPT ![t] = o] /\ Goto(t, "show")
      BY <1>1, <1>5, <2>1, <2>3, <3>1 DEF ShowFirst, TypeOK
    <3>4. Held("show", o, bodies, trees) /\ "show" \in Places
      BY <1>3, <1>5, <3>2 DEF ShowFirst, Held, HasPlainLine, HasLine, InShard, Scanning,
                              Changing, Applying, Places, Reading
    <3> QED BY <1>1, <1>5, <2>1, <2>3, <3>2, <3>3, <3>4, HotMove
            DEF ShowFirst, clocks, TypeOK
  <2> QED BY <2>2, <2>3
<1>6. CASE ShowLast(t)
  <2>1. PICK shown : shown = [Answer(op[t].best.id, "shown") EXCEPT
                                !.first = op[t].ms, !.last = bodies[op[t].best.ref].last]
    OBVIOUS
  <2>2. shown \in Answers
    <3>1. PICK m \in Nat : m = bodies[op[t].best.ref].last
      BY <1>3, <1>6 DEF ShowLast
    <3> QED BY <1>2, <2>1, <3>1 DEF Answer, Answers
  <2> QED BY <1>6, <2>1, <2>2, HotReturn DEF ShowLast
<1> QED BY <1>4, <1>5, <1>6

\* shard_for creates the shard, or finds that another thread has.
LEMMA HotEnterShard ==
  ASSUME UInv, NEW t \in Threads, EnterShard(t)
  PROVE  UInv'
<1>1. TypeOK /\ op[t] \in Ops /\ Held(pc[t], op[t], bodies, trees) /\ pc[t] = "enter"
  BY HotThread DEF EnterShard
<1>2. PICK count : count = Len(op[t].line)
  OBVIOUS
<1>3. CASE count \in DOMAIN shards
  <2>1. UNCHANGED <<index, bodies, clocks, calls, answer, history>>
    BY <1>2, <1>3 DEF EnterShard, index
  <2> QED BY <1>1, <1>2, <1>3, <2>1, HotEnters DEF EnterShard
<1>4. CASE count \notin DOMAIN shards
  <2>1. /\ trees \in Seq([Paths -> Seq(Nat)]) /\ bodies \in Seq(Body)
        /\ Len(trees) \in Nat /\ DOMAIN trees = 1..Len(trees)
    BY <1>1 DEF TypeOK
  <2>2. PICK new \in Nat : new = Len(trees) + 1
    BY <2>1
  <2>3. /\ trees' = Append(trees, [p \in Paths |-> <<>>])
        /\ shards' = Put(shards, count, new)
        /\ op' = [op EXCEPT ![t].shard = new]
        /\ Goto(t, "read")
        /\ UNCHANGED <<clusters, bodies, clocks, calls, answer, history>>
    BY <1>2, <1>4, <2>2 DEF EnterShard
  <2>4. [p \in Paths |-> <<>>] \in [Paths -> Seq(Nat)]
    OBVIOUS
  <2>5. trees' \in Seq([Paths -> Seq(Nat)]) /\ DOMAIN trees' = 1..new
    BY <2>1, <2>2, <2>3, <2>4, AppendProperties
  <2>6. DOMAIN trees \subseteq DOMAIN trees' /\ new \in DOMAIN trees'
    BY <2>1, <2>2, <2>5
  <2>7. shards' \in [DOMAIN shards' -> DOMAIN trees']
    BY <1>1, <2>3, <2>6 DEF Put, TypeOK
  <2>8. PICK o : o = [op[t] EXCEPT !.shard = new]
    OBVIOUS
  <2>9. o \in Ops /\ o.line = op[t].line /\ o.best = op[t].best /\ o.shard = new
    BY <1>1, <2>8 DEF Ops
  <2>10. op' = [op EXCEPT ![t] = o] /\ "read" \in Places
    BY <1>1, <2>3, <2>8 DEF TypeOK, Places
  <2>11. /\ op' \in [Threads -> Ops] /\ pc' \in [Threads -> Places]
         /\ op'[t] = o /\ pc'[t] = "read"
         /\ \A u \in Threads \ {t} : pc'[u] = pc[u] /\ op'[u] = op[u]
    BY <1>1, <2>3, <2>9, <2>10, Moves
  <2>12. TypeOK'
    BY <1>1, <2>3, <2>5, <2>7, <2>11 DEF TypeOK, clocks
  <2>13. HistoryAligned' /\ Absorbed' /\ BodiesLasting'
    BY <2>3 DEF UInv, HistoryAligned, Absorbed, AbsorbedCovered, BodiesLasting
  <2>14. GrowsTo(bodies, bodies')
    BY <2>1, <2>3, GrowsReflexive
  <2>15. Held(pc'[t], op'[t], bodies', trees')
    BY <1>1, <2>3, <2>6, <2>9, <2>11
       DEF Held, HasPlainLine, HasLine, InShard, Scanning, Changing, Applying
  <2> QED BY <2>6, <2>11, <2>12, <2>13, <2>14, <2>15, HotStep
<1> QED BY <1>3, <1>4

\* A thread that applies a match has a body, with its types.
LEMMA HotBody ==
  ASSUME UInv, NEW t \in Threads, pc[t] \in Changing
  PROVE  /\ op[t].best.ref \in DOMAIN bodies
         /\ bodies[op[t].best.ref] \in Body /\ bodies[op[t].best.ref].tokens \in Line
         /\ bodies \in Seq(Body)
         /\ op[t].line \in Lines /\ op[t].line \in Line
         /\ Apt(bodies, op[t].best.ref, op[t].line)
<1>1. /\ op[t].best.ref \in DOMAIN bodies /\ op[t].line \in Lines
      /\ Apt(bodies, op[t].best.ref, op[t].line)
  BY HotThread DEF Held, Changing, Applying, HasPlainLine, HasLine, Apt
<1> QED BY <1>1, BodyFields, MinerAssumption DEF UInv, TypeOK

\* A thread with a match goes on after changing what is not the template.
LEMMA HotTouching ==
  ASSUME UInv, NEW t \in Threads, pc[t] \in Changing, NEW body \in Body,
         NEW ref, ref = op[t].best.ref,
         NEW where \in Changing \ {"upgrade"},
         body.id = bodies[ref].id, body.tokens = bodies[ref].tokens,
         bodies' = [bodies EXCEPT ![ref] = body],
         Goto(t, where), where \in {"first", "last"} => op[t].ms \in Nat,
         UNCHANGED <<index, clocks, calls, op, answer, history>>
  PROVE  UInv'
<1>1. TypeOK /\ op[t] \in Ops /\ Held(pc[t], op[t], bodies, trees)
  BY HotThread
<1>2. /\ ref \in DOMAIN bodies /\ bodies \in Seq(Body) /\ bodies[ref].tokens \in Line
      /\ op[t].line \in Lines /\ op[t].line \in Line
      /\ Apt(bodies, ref, op[t].line)
  BY HotBody
<1>3. Covers(body.tokens, bodies[ref].tokens)
  BY <1>2, CoversReflexive
<1>4. /\ bodies' \in Seq(Body) /\ Len(bodies') = Len(bodies) /\ bodies'[ref] = body
      /\ \A b \in DOMAIN bodies \ {ref} : bodies'[b] = bodies[b]
      /\ GrowsTo(bodies, bodies')
  BY <1>2, <1>3, BodyStep
<1>5. /\ DOMAIN bodies' = DOMAIN bodies
      /\ \A b \in DOMAIN bodies : /\ bodies'[b].id = bodies[b].id
                                  /\ bodies'[b].tokens = bodies[b].tokens
  BY <1>2, <1>4
<1>6. pc'[t] = where /\ pc' \in [Threads -> Places]
      /\ \A u \in Threads \ {t} : pc'[u] = pc[u] /\ op'[u] = op[u]
  BY <1>1 DEF Goto, TypeOK, Changing, Applying, Places, Reading
<1>7. TypeOK'
  BY <1>1, <1>4, <1>5, <1>6 DEF TypeOK, index, clocks
<1>8. HistoryAligned' /\ Absorbed' /\ BodiesLasting'
  BY <1>4, <1>5 DEF UInv, HistoryAligned, Absorbed, AbsorbedCovered, BodiesLasting
<1>9. Apt(bodies', ref, op[t].line)
  BY <1>2, <1>5 DEF Apt
<1>10. Held(where, op[t], bodies', trees')
  BY <1>2, <1>9 DEF Held, HasPlainLine, HasLine, InShard, Scanning, Changing, Applying
<1> QED BY <1>4, <1>6, <1>7, <1>8, <1>10, HotStep DEF index

\* ClusterInner::touch and observe_event.
LEMMA HotTouches ==
  ASSUME UInv, NEW t \in Threads, Touch(t) \/ ObserveFirst(t) \/ ObserveLast(t)
  PROVE  UInv'
<1>1. pc[t] \in Changing /\ TypeOK /\ op[t] \in Ops /\ Held(pc[t], op[t], bodies, trees)
  BY HotThread DEF Touch, ObserveFirst, ObserveLast, Changing, Applying
<1>2. PICK ref : ref = op[t].best.ref
  OBVIOUS
<1>3. PICK old \in Body : old = bodies[ref] /\ ref \in DOMAIN bodies
  BY <1>1, <1>2, HotBody
<1>4. {"decide", "first", "last"} \subseteq Changing \ {"upgrade"}
  BY DEF Changing, Applying
<1>5. old.first \in Nat /\ old.last \in Nat /\ op[t].tick \in Nat /\ op[t].ms \in Nat \cup {None}
  BY <1>1 DEF Body, Ops
<1>6. CASE Touch(t)
  <2>1. PICK body : body = Touched(old, op[t].tick)
    OBVIOUS
  <2>2. body \in Body /\ body.id = old.id /\ body.tokens = old.tokens
    BY <1>5, <2>1, BodyUpdates
  <2>3. PICK where : where = IF Unset(op[t].ms) THEN "decide" ELSE "first"
    OBVIOUS
  <2>4. where \in Changing \ {"upgrade"} /\ (where \in {"first", "last"} => op[t].ms \in Nat)
    BY <1>4, <1>5, <2>3 DEF Unset
  <2>5. bodies' = [bodies EXCEPT ![ref] = body] /\ Goto(t, where)
    BY <1>2, <1>3, <1>6, <2>1, <2>3 DEF Touch
  <2> QED BY <1>1, <1>2, <1>3, <1>6, <2>2, <2>4, <2>5, HotTouching DEF Touch
<1>7. CASE ObserveFirst(t)
  <2>1. op[t].ms \in Nat
    BY <1>1, <1>7 DEF ObserveFirst, Held
  <2>2. PICK n \in Nat : n = IF op[t].ms < old.first THEN op[t].ms ELSE old.first
    BY <1>5, <2>1
  <2>3. PICK body : body = [old EXCEPT !.first = n]
    OBVIOUS
  <2>4. body \in Body
    BY <2>3, BodyUpdates
  <2>5. body.id = old.id /\ body.tokens = old.tokens
    BY <2>3 DEF Body
  <2>6. bodies' = [bodies EXCEPT ![ref] = body] /\ Goto(t, "last")
    BY <1>2, <1>3, <1>7, <2>2, <2>3 DEF ObserveFirst
  <2> QED BY <1>1, <1>2, <1>3, <1>4, <1>7, <2>1, <2>4, <2>5, <2>6, HotTouching DEF ObserveFirst
<1>8. CASE ObserveLast(t)
  <2>1. op[t].ms \in Nat
    BY <1>1, <1>8 DEF ObserveLast, Held
  <2>2. PICK n \in Nat : n = IF op[t].ms > old.last THEN op[t].ms ELSE old.last
    BY <1>5, <2>1
  <2>3. PICK body : body = [old EXCEPT !.last = n]
    OBVIOUS
  <2>4. body \in Body
    BY <2>3, BodyUpdates
  <2>5. body.id = old.id /\ body.tokens = old.tokens
    BY <2>3 DEF Body
  <2>6. bodies' = [bodies EXCEPT ![ref] = body] /\ Goto(t, "decide")
    BY <1>2, <1>3, <1>8, <2>2, <2>3 DEF ObserveLast
  <2> QED BY <1>1, <1>2, <1>3, <1>4, <1>8, <2>4, <2>5, <2>6, HotTouching DEF ObserveLast
<1> QED BY <1>6, <1>7, <1>8

\* A line is counted on a body whose template stands for it by then.
LEMMA HotAbsorb ==
  ASSUME UInv, bodies' \in Seq(Body), GrowsTo(bodies, bodies'),
         Len(bodies') = Len(bodies),
         NEW ref \in DOMAIN bodies, NEW line \in Lines, NEW h \in Histories,
         h.lines = history[ref].lines \cup {line},
         history' = [history EXCEPT ![ref] = h],
         ThNum # 0 => Covers(bodies'[ref].tokens, line)
  PROVE  history' \in Seq(Histories) /\ HistoryAligned' /\ Absorbed'
<1>1. /\ bodies \in Seq(Body) /\ history \in Seq(Histories)
      /\ Len(history) = Len(bodies)
      /\ DOMAIN history = 1..Len(bodies) /\ DOMAIN bodies = 1..Len(bodies)
      /\ DOMAIN bodies' = 1..Len(bodies)
  BY DEF UInv, TypeOK, HistoryAligned
<1>2. history' \in Seq(Histories)
  BY <1>1, ExceptSeq, ZenonT(60)
<1>3. Len(history') = Len(history)
  BY <1>1, ExceptSeq, ZenonT(60)
<1>4. \A b \in 1..Len(bodies) : history'[b] = IF b = ref THEN h ELSE history[b]
  BY <1>1
<1>5. ASSUME ThNum # 0, NEW b \in DOMAIN bodies, NEW l \in history[b].lines
      PROVE  Covers(bodies'[b].tokens, l)
  <2>1. history[b] \in Histories
    BY <1>1
  <2>2. l \in Line
    BY <2>1, MinerAssumption DEF Histories
  <2>3. Covers(bodies[b].tokens, l)
    BY <1>5 DEF UInv, Absorbed, AbsorbedCovered
  <2> QED BY <1>1, <2>2, <2>3, StableFacts
<1>6. Absorbed'
  BY <1>1, <1>4, <1>5 DEF Absorbed, AbsorbedCovered
<1> QED BY <1>1, <1>2, <1>3, <1>6 DEF HistoryAligned

\* A call returns after a body has grown in place and a line was counted.
LEMMA HotCounted ==
  ASSUME UInv, NEW t \in Threads, NEW result \in Answers, Return(t, result),
         UNCHANGED <<index, clocks, calls>>,
         bodies' \in Seq(Body), GrowsTo(bodies, bodies'), Len(bodies') = Len(bodies),
         BodiesLasting', history' \in Seq(Histories), HistoryAligned', Absorbed'
  PROVE  UInv'
<1>1. TypeOK /\ DOMAIN bodies' = DOMAIN bodies
  BY DEF UInv, TypeOK
<1>2. /\ op' \in [Threads -> Ops] /\ answer' \in [Threads -> Answers]
      /\ pc' \in [Threads -> Places] /\ pc'[t] = "idle"
      /\ \A u \in Threads \ {t} : pc'[u] = pc[u] /\ op'[u] = op[u]
  BY <1>1, ReturnTyped
<1>3. TypeOK'
  BY <1>1, <1>2 DEF TypeOK, index, clocks
<1>4. Held(pc'[t], op'[t], bodies', trees')
  BY <1>2 DEF Held, HasPlainLine, HasLine, InShard, Scanning, Changing, Applying
<1> QED BY <1>2, <1>3, <1>4, HotStep DEF index

\* would_generalize under the read guard, and the early return of apply_match.
LEMMA HotDecide ==
  ASSUME UInv, NEW t \in Threads, Decide(t)
  PROVE  UInv'
<1>1. /\ TypeOK /\ op[t] \in Ops /\ pc[t] = "decide" /\ pc[t] \in Changing
  BY HotThread DEF Decide, Changing, Applying
<1>2. PICK ref : ref = op[t].best.ref
  OBVIOUS
<1>3. /\ ref \in DOMAIN bodies /\ bodies[ref].tokens \in Line /\ bodies \in Seq(Body)
      /\ op[t].line \in Lines /\ op[t].line \in Line
      /\ Apt(bodies, ref, op[t].line)
  BY <1>1, <1>2, HotBody
<1>4. PICK needs \in BOOLEAN : needs = WouldGeneralize(bodies[ref].tokens, op[t].line)
  BY DEF WouldGeneralize
<1>5. ThNum # 0 /\ ~needs => Covers(bodies[ref].tokens, op[t].line)
  BY <1>3, <1>4, NothingToGeneralize DEF Apt
<1>6. UNCHANGED <<index, bodies, clocks, calls>>
  BY DEF Decide
<1>7. CASE needs \/ op[t].member # None
  <2>1. PICK o : o = [op[t] EXCEPT !.needs = needs]
    OBVIOUS
  <2>2. o \in Ops /\ o.line = op[t].line /\ o.best = op[t].best /\ o.needs = needs
    BY <1>1, <2>1 DEF Ops
  <2>3. op' = [op EXCEPT ![t] = o] /\ Goto(t, "upgrade") /\ UNCHANGED <<answer, history>>
    BY <1>1, <1>2, <1>4, <1>7, <2>1 DEF Decide, TypeOK
  <2>4. Held("upgrade", o, bodies, trees) /\ "upgrade" \in Places
    BY <1>2, <1>3, <1>5, <2>2
       DEF Held, HasPlainLine, HasLine, InShard, Scanning, Changing, Applying, Places
  <2> QED BY <1>1, <1>6, <2>2, <2>3, <2>4, HotMove DEF clocks, TypeOK
<1>8. CASE ~needs /\ op[t].member = None
  <2>1. /\ Return(t, Answer(op[t].best.id, "None"))
        /\ history' = [history EXCEPT ![ref] = Absorb(@, op[t], FALSE)]
    BY <1>2, <1>4, <1>8 DEF Decide
  <2>2. Answer(op[t].best.id, "None") \in Answers
    BY <1>1 DEF Ops, Answer, Answers
  <2>3. history[ref] \in Histories /\ ref \in DOMAIN history
    BY <1>1, <1>3 DEF UInv, TypeOK, HistoryAligned
  <2>4. PICK h : h = Absorb(history[ref], op[t], FALSE)
    OBVIOUS
  <2>5. h \in Histories /\ h.lines = history[ref].lines \cup {op[t].line}
    BY <1>1, <1>3, <2>3, <2>4, AbsorbTyped
  <2>6. history' = [history EXCEPT ![ref] = h]
    BY <2>1, <2>3, <2>4
  <2>7. /\ bodies' \in Seq(Body) /\ Len(bodies') = Len(bodies) /\ bodies' = bodies
        /\ GrowsTo(bodies, bodies')
    BY <1>3, <1>6, GrowsReflexive
  <2>8. history' \in Seq(Histories) /\ HistoryAligned' /\ Absorbed'
    BY <1>3, <1>5, <1>8, <2>5, <2>6, <2>7, HotAbsorb
  <2>9. BodiesLasting'
    BY <2>7 DEF UInv, BodiesLasting
  <2> QED BY <1>6, <2>1, <2>2, <2>7, <2>8, <2>9, HotCounted
<1> QED BY <1>7, <1>8

\* The write section of apply_match: the body is looked at again.
LEMMA HotUpgrade ==
  ASSUME UInv, NEW t \in Threads, Upgrade(t)
  PROVE  UInv'
<1>1. /\ TypeOK /\ op[t] \in Ops /\ Held(pc[t], op[t], bodies, trees)
      /\ pc[t] = "upgrade" /\ pc[t] \in Changing
  BY HotThread DEF Upgrade, Changing, Applying
<1>2. PICK ref : ref = op[t].best.ref
  OBVIOUS
<1>3. /\ ref \in DOMAIN bodies /\ bodies[ref] \in Body /\ bodies \in Seq(Body)
      /\ op[t].line \in Lines /\ Apt(bodies, ref, op[t].line)
  BY <1>1, <1>2, HotBody
<1>4. PICK tmpl, line \in Line : tmpl = bodies[ref].tokens /\ line = op[t].line
  BY <1>1, <1>2, HotBody
<1>5. PICK tokens : tokens = NewTokens(op[t].needs, tmpl, line)
  OBVIOUS
<1>6. tokens \in Line /\ Covers(tokens, tmpl)
  BY <1>4, <1>5, GeneralizeOpens, CoversReflexive DEF NewTokens
<1>7. ThNum # 0 => Covers(tokens, line)
  <2> SUFFICES ASSUME ThNum # 0 PROVE Covers(tokens, line)
    OBVIOUS
  <2>1. Len(tmpl) = Len(line) /\ (~op[t].needs => Covers(tmpl, line))
    BY <1>1, <1>2, <1>3, <1>4 DEF Apt, Held
  <2> QED BY <1>4, <1>5, <2>1, GeneralizeCovers DEF NewTokens
<1>8. Keys(tokens) \in Paths
  <2>1. Keys(tmpl) \in Paths
    BY <1>3, <1>4 DEF UInv, BodiesLasting, Lasting
  <2> QED BY <1>4, <1>5, <2>1, OpenedPath DEF NewTokens
<1>9. PICK members : members = bodies[ref].members \cup ({op[t].member} \ {None})
  OBVIOUS
<1>10. members \in SUBSET Members
  BY <1>1, <1>3, <1>9 DEF Ops, Body
<1>11. PICK body : body = [bodies[ref] EXCEPT !.tokens = tokens, !.members = members]
  OBVIOUS
<1>12. body \in Body /\ body.id = bodies[ref].id /\ body.tokens = tokens
  BY <1>3, <1>6, <1>10, <1>11 DEF Body
<1>13. bodies' = [bodies EXCEPT ![ref] = body]
  <2>1. bodies' = [bodies EXCEPT ![ref].tokens = tokens,
                                 ![ref].members = @ \cup ({op[t].member} \ {None})]
    BY <1>2, <1>4, <1>5 DEF Upgrade
  <2> QED BY <1>3, <1>9, <1>11, <2>1 DEF Body
<1>14. /\ bodies' \in Seq(Body) /\ Len(bodies') = Len(bodies) /\ bodies'[ref] = body
       /\ \A b \in DOMAIN bodies \ {ref} : bodies'[b] = bodies[b]
       /\ GrowsTo(bodies, bodies')
  BY <1>3, <1>4, <1>6, <1>12, <1>13, BodyStep
<1>15. BodiesLasting'
  <2>1. DOMAIN bodies' = DOMAIN bodies
    BY <1>3, <1>14
  <2> QED BY <1>3, <1>8, <1>12, <1>14, <2>1 DEF UInv, BodiesLasting, Lasting
<1>16. PICK changed : changed = Changed(op[t].needs, tmpl, line)
  OBVIOUS
<1>17. changed \in BOOLEAN
  BY <1>1, <1>16 DEF Changed, Ops, WouldGeneralize
<1>18. history[ref] \in Histories /\ ref \in DOMAIN history
  BY <1>1, <1>3 DEF UInv, TypeOK, HistoryAligned
<1>19. PICK h : h = Absorb(history[ref], op[t], changed)
  OBVIOUS
<1>20. h \in Histories /\ h.lines = history[ref].lines \cup {line}
  BY <1>1, <1>3, <1>4, <1>17, <1>18, <1>19, AbsorbTyped
<1>21. /\ history' = [history EXCEPT ![ref] = h]
       /\ Return(t, Answer(op[t].best.id, IF changed THEN "TemplateChanged" ELSE "None"))
       /\ UNCHANGED <<index, clocks, calls>>
  BY <1>2, <1>4, <1>16, <1>18, <1>19 DEF Upgrade
<1>22. history' \in Seq(Histories) /\ HistoryAligned' /\ Absorbed'
  BY <1>3, <1>4, <1>7, <1>12, <1>14, <1>20, <1>21, HotAbsorb
<1>23. Answer(op[t].best.id, IF changed THEN "TemplateChanged" ELSE "None") \in Answers
  BY <1>1 DEF Ops, Answer, Answers
<1> QED BY <1>14, <1>15, <1>21, <1>22, <1>23, HotCounted

-----------------------------------------------------------------------------
(* Leaves, whatever ids they hold.                                         *)

\* LeafBucket::remove makes a leaf that holds the id shorter by one.
LEMMA SwapRemoveLen ==
  ASSUME NEW ids \in Seq(Nat), NEW id \in Nat
  PROVE  Len(SwapRemove(ids, id)) = IF id \in Range(ids) THEN Len(ids) - 1 ELSE Len(ids)
<1>1. CASE id \notin Range(ids)
  <2>1. \A i \in DOMAIN ids : ids[i] # id
    BY <1>1 DEF Range
  <2>2. SwapRemove(ids, id) = ids
    BY <2>1 DEF SwapRemove
  <2> QED BY <1>1, <2>2
<1>2. CASE id \in Range(ids)
  <2>1. \E i \in DOMAIN ids : ids[i] = id
    BY <1>2 DEF Range
  <2>2. Len(ids) \in Nat \ {0}
    BY <2>1
  <2>3. PICK pos : SwapRemove(ids, id) =
          [i \in 1..(Len(ids) - 1) |-> IF i = pos THEN ids[Len(ids)] ELSE ids[i]]
    BY <2>1 DEF SwapRemove
  <2>4. PICK n \in Nat : n = Len(ids) - 1
    BY <2>2
  <2>5. \A f : Len([i \in 1..n |-> f[i]]) = n
    OBVIOUS
  <2>6. PICK kept : kept = SwapRemove(ids, id)
    OBVIOUS
  <2>7. kept = [i \in 1..n |-> kept[i]]
    BY <2>3, <2>4, <2>6
  <2>8. Len(kept) = n
    BY <2>5, <2>7
  <2> QED BY <1>2, <2>4, <2>6, <2>8
<1> QED BY <1>1, <1>2

\* A leaf that gives up its victim, if it is full, has room for the new id.
LEMMA LeafGets ==
  ASSUME NEW leaf \in Seq(Nat), Len(leaf) <= Cap, 0 \notin Range(leaf),
         NEW v \in Nat, IF v = 0 THEN Len(leaf) < Cap ELSE v \in Range(leaf),
         NEW id \in Nat, id # 0,
         NEW next, next = Append(SwapRemove(leaf, v), id)
  PROVE  Len(next) <= Cap /\ 0 \notin Range(next)
<1>1. PICK kept : kept = SwapRemove(leaf, v)
  OBVIOUS
<1>2. kept \in Seq(Nat) /\ \A i \in DOMAIN kept : kept[i] # 0
  BY <1>1, SwapRemoveElements DEF Range
<1>3. Len(kept) = IF v \in Range(leaf) THEN Len(leaf) - 1 ELSE Len(leaf)
  BY <1>1, SwapRemoveLen
<1>4. Len(kept) \in Nat /\ Len(leaf) \in Nat /\ Cap \in Nat /\ DOMAIN kept = 1..Len(kept)
  BY <1>2, MinerAssumption
<1>5. Len(kept) < Cap
  BY <1>3, <1>4
<1>6. /\ next \in Seq(Nat) /\ Len(next) = Len(kept) + 1
      /\ DOMAIN next = 1..(Len(kept) + 1)
      /\ \A i \in 1..Len(kept) : next[i] = kept[i]
      /\ next[Len(kept) + 1] = id
  BY <1>1, <1>2, AppendProperties
<1>7. 0 \notin Range(next)
  BY <1>2, <1>4, <1>6 DEF Range
<1> QED BY <1>4, <1>5, <1>6, <1>7

\* One leaf is replaced.
LEMMA PutLeaf ==
  ASSUME NEW ts \in Seq([Paths -> Seq(Nat)]), NEW s \in DOMAIN ts, NEW path \in Paths,
         NEW leaf \in Seq(Nat), NEW us, us = [ts EXCEPT ![s][path] = leaf]
  PROVE  /\ us \in Seq([Paths -> Seq(Nat)]) /\ DOMAIN us = DOMAIN ts
         /\ \A r \in DOMAIN ts, p \in Paths :
              us[r][p] = IF r = s /\ p = path THEN leaf ELSE ts[r][p]
<1>1. PICK T : T = [Paths -> Seq(Nat)]
  OBVIOUS
<1>2. ts \in Seq(T) /\ ts[s] \in T
  BY <1>1
<1>3. PICK tree : tree = [ts[s] EXCEPT ![path] = leaf]
  OBVIOUS
<1>4. tree \in T /\ \A p \in Paths : tree[p] = IF p = path THEN leaf ELSE ts[s][p]
  BY <1>1, <1>2, <1>3
<1>5. us = [ts EXCEPT ![s] = tree]
  BY <1>3
<1>6. us \in Seq(T)
  <2>1. s \in 1..Len(ts)
    BY <1>2
  <2>2. [ts EXCEPT ![s] = tree] \in Seq(T)
    BY <1>2, <1>4, <2>1, ExceptSeq
  <2> QED BY <1>5, <2>2
<1>7. DOMAIN us = DOMAIN ts /\ \A r \in DOMAIN ts : us[r] = IF r = s THEN tree ELSE ts[r]
  BY <1>5
<1> QED BY <1>1, <1>4, <1>6, <1>7

\* SwapRemove and Append make a leaf of a leaf.
LEMMA LeafNext ==
  ASSUME NEW leaf \in Seq(Nat), NEW v \in Nat, NEW id \in Nat
  PROVE  Append(SwapRemove(leaf, v), id) \in Seq(Nat)
<1>1. PICK kept : kept = SwapRemove(leaf, v)
  OBVIOUS
<1>2. kept \in Seq(Nat)
  BY <1>1, SwapRemoveElements
<1> QED BY <1>1, <1>2, AppendProperties

-----------------------------------------------------------------------------
(* A cluster enters the map, and then its leaf.                            *)

\* A new body, of a line of the caller or of a row, is published.
LEMMA HotGrown ==
  ASSUME UInv, NEW body \in Body, NEW h \in Histories,
         bodies' = Append(bodies, body), history' = Append(history, h),
         Lasting(body.id, body.tokens),
         ThNum # 0 => \A l \in h.lines : Covers(body.tokens, l)
  PROVE  /\ bodies' \in Seq(Body) /\ history' \in Seq(Histories)
         /\ DOMAIN bodies' = DOMAIN bodies \cup {Len(bodies) + 1}
         /\ GrowsTo(bodies, bodies')
         /\ HistoryAligned' /\ Absorbed' /\ BodiesLasting'
<1>1. PICK ref : ref = Len(bodies) + 1
  OBVIOUS
<1>2. /\ bodies \in Seq(Body) /\ history \in Seq(Histories)
      /\ Len(history) = Len(bodies)
  BY DEF UInv, TypeOK, HistoryAligned
<1>3. /\ bodies' \in Seq(Body) /\ Len(bodies') = ref
      /\ \A b \in DOMAIN bodies : bodies'[b] = bodies[b]
      /\ bodies'[ref] = body
      /\ DOMAIN bodies' = DOMAIN bodies \cup {ref}
  BY <1>1, <1>2, AppendProperties
<1>4. /\ history' \in Seq(Histories) /\ Len(history') = ref
      /\ \A b \in DOMAIN bodies : history'[b] = history[b]
      /\ history'[ref] = h
  BY <1>1, <1>2, AppendProperties
<1>5. GrowsTo(bodies, bodies')
  BY <1>2, <1>3, BodyFields, CoversReflexive DEF GrowsTo
<1>6. Absorbed'
  <2> SUFFICES ASSUME ThNum # 0, NEW b \in DOMAIN bodies', NEW l \in history'[b].lines
               PROVE  Covers(bodies'[b].tokens, l)
    BY DEF Absorbed, AbsorbedCovered
  <2>1. CASE b = ref
    BY <1>3, <1>4, <2>1
  <2>2. CASE b \in DOMAIN bodies
    BY <1>3, <1>4, <2>2 DEF UInv, Absorbed, AbsorbedCovered
  <2> QED BY <1>3, <2>1, <2>2
<1>7. BodiesLasting'
  BY <1>3 DEF UInv, BodiesLasting
<1>8. HistoryAligned'
  BY <1>3, <1>4 DEF HistoryAligned
<1> QED BY <1>1, <1>3, <1>4, <1>5, <1>6, <1>7, <1>8

\* What Publish does to its thread.
LEMMA HotPublishes ==
  ASSUME UInv, NEW t \in Threads, Publish(t)
  PROVE  /\ pc[t] = "publish" /\ UNCHANGED <<shards, trees, counter, tick, calls, answer>>
         /\ clusters' = Put(clusters, op[t].id, Len(bodies) + 1)
         /\ pc'[t] = IF IsFull(Leaf(t)) THEN "evict" ELSE "link"
         /\ op'[t] \in Ops /\ op'[t].victim = op[t].victim
         /\ op'[t].id = op[t].id /\ op'[t].shard = op[t].shard /\ op'[t].line = op[t].line
         /\ IsFull(Leaf(t)) => op'[t].todo = Leaf(t)
         /\ op' \in [Threads -> Ops] /\ pc' \in [Threads -> Places]
         /\ \A u \in Threads \ {t} : pc'[u] = pc[u] /\ op'[u] = op[u]
<1>1. TypeOK /\ op[t] \in Ops /\ pc[t] = "publish"
  BY HotThread DEF Publish
<1>2. PICK leaf \in Seq(Nat) : leaf = Leaf(t)
  BY <1>1, HotLeaf DEF InShard
<1>3. PICK o : o = IF IsFull(leaf) THEN [op[t] EXCEPT !.todo = leaf] ELSE op[t]
  OBVIOUS
<1>4. /\ o \in Ops /\ o.line = op[t].line /\ o.id = op[t].id /\ o.shard = op[t].shard
      /\ o.victim = op[t].victim /\ (IsFull(leaf) => o.todo = leaf)
  BY <1>1, <1>2, <1>3 DEF Ops
<1>5. PICK where \in {"evict", "link"} : where = IF IsFull(leaf) THEN "evict" ELSE "link"
  OBVIOUS
<1>6. op' = [op EXCEPT ![t] = o] /\ Goto(t, where)
  BY <1>1, <1>2, <1>3, <1>5 DEF Publish, TypeOK
<1>7. {"evict", "link"} \subseteq Places
  BY DEF Places, Writing
<1>8. /\ op' \in [Threads -> Ops] /\ pc' \in [Threads -> Places]
      /\ op'[t] = o /\ pc'[t] = where
      /\ \A u \in Threads \ {t} : pc'[u] = pc[u] /\ op'[u] = op[u]
  BY <1>1, <1>4, <1>6, <1>7, Moves
<1>9. /\ UNCHANGED <<shards, trees, counter, tick, calls, answer>>
      /\ clusters' = Put(clusters, op[t].id, Len(bodies) + 1)
  BY DEF Publish, clocks
<1> QED BY <1>1, <1>2, <1>4, <1>5, <1>8, <1>9

\* clusters_by_id.insert of the new body.
LEMMA HotPublish ==
  ASSUME UInv, NEW t \in Threads, Publish(t)
  PROVE  UInv'
<1>1. TypeOK /\ op[t] \in Ops /\ Held(pc[t], op[t], bodies, trees) /\ pc[t] = "publish"
  BY HotThread DEF Publish
<1>2. /\ UNCHANGED <<shards, trees, counter, tick, calls, answer>>
      /\ clusters' = Put(clusters, op[t].id, Len(bodies) + 1)
      /\ pc'[t] \in {"evict", "link"}
      /\ op'[t] \in Ops /\ op'[t].id = op[t].id
      /\ op'[t].shard = op[t].shard /\ op'[t].line = op[t].line
      /\ op' \in [Threads -> Ops] /\ pc' \in [Threads -> Places]
      /\ \A u \in Threads \ {t} : pc'[u] = pc[u] /\ op'[u] = op[u]
  BY HotPublishes
<1>3. PICK line \in Lines : line = op[t].line /\ line \in Line /\ Keys(line) \in Paths
  BY <1>1, HotLeaf, MinerAssumption DEF InShard
<1>4. op[t].id \in Nat /\ op[t].id # 0 /\ op[t].shard \in DOMAIN trees
  BY <1>1 DEF Held, InShard, Ops
<1>5. PICK body \in Body : body = NewBody(op[t]) /\ body.id = op[t].id /\ body.tokens = line
  BY <1>1, <1>3, NewBodyTyped
<1>6. PICK h : h = [seed |-> line, lines |-> {line}, events |-> {op[t].ms} \ {None},
                    changes |-> 0]
  OBVIOUS
<1>7. h \in Histories /\ h.lines = {line}
  <2>1. op[t].ms \in Nat \cup {None}
    BY <1>1 DEF Ops
  <2> QED BY <1>3, <1>6, <2>1 DEF Histories
<1>8. bodies' = Append(bodies, body) /\ history' = Append(history, h)
  BY <1>3, <1>5, <1>6 DEF Publish
<1>9. Lasting(body.id, body.tokens)
  BY <1>3, <1>4, <1>5 DEF Lasting
<1>10. \A l \in h.lines : Covers(body.tokens, l)
  BY <1>3, <1>5, <1>7, CoversReflexive
<1>11. /\ bodies' \in Seq(Body) /\ history' \in Seq(Histories)
       /\ DOMAIN bodies' = DOMAIN bodies \cup {Len(bodies) + 1}
       /\ GrowsTo(bodies, bodies')
       /\ HistoryAligned' /\ Absorbed' /\ BodiesLasting'
  BY <1>7, <1>8, <1>9, <1>10, HotGrown
<1>12. clusters' \in [DOMAIN clusters' -> DOMAIN bodies']
  BY <1>1, <1>2, <1>11 DEF Put, TypeOK
<1>13. TypeOK'
  BY <1>1, <1>2, <1>11, <1>12 DEF TypeOK
<1>14. Held(pc'[t], op'[t], bodies', trees')
  BY <1>2, <1>3, <1>4 DEF Held, HasPlainLine, HasLine, InShard, Scanning, Changing, Applying
<1> QED BY <1>2, <1>11, <1>13, <1>14, HotStep

\* What Link does to the leaves.
LEMMA HotLinks ==
  ASSUME UInv, NEW t \in Threads, Link(t)
  PROVE  /\ pc[t] = "link" /\ pc'[t] = "idle"
         /\ UNCHANGED <<shards, bodies, counter, tick, calls, history>>
         /\ clusters' = Without(clusters, op[t].victim.id)
         /\ trees' \in Seq([Paths -> Seq(Nat)]) /\ DOMAIN trees' = DOMAIN trees
         /\ \A r \in DOMAIN trees, p \in Paths :
              trees'[r][p] = IF r = op[t].shard /\ p = Keys(op[t].line)
                             THEN Append(SwapRemove(Leaf(t), op[t].victim.id), op[t].id)
                             ELSE trees[r][p]
         /\ op' \in [Threads -> Ops] /\ pc' \in [Threads -> Places]
         /\ answer' \in [Threads -> Answers] /\ op'[t] = NoOp
         /\ \A u \in Threads \ {t} : pc'[u] = pc[u] /\ op'[u] = op[u]
<1>1. TypeOK /\ op[t] \in Ops /\ pc[t] = "link"
  BY HotThread DEF Link
<1>2. PICK s, path : s = op[t].shard /\ path = Keys(op[t].line)
  OBVIOUS
<1>3. s \in DOMAIN trees /\ path \in Paths /\ Leaf(t) \in Seq(Nat)
  BY <1>1, <1>2, HotLeaf DEF InShard
<1>4. PICK next : next = Append(SwapRemove(Leaf(t), op[t].victim.id), op[t].id)
  OBVIOUS
<1>5. op[t].id \in Nat /\ op[t].victim.id \in Nat
  BY <1>1 DEF Ops
<1>6. next \in Seq(Nat)
  BY <1>3, <1>4, <1>5, LeafNext
<1>7. /\ trees' = [trees EXCEPT ![s][path] = next]
      /\ clusters' = Without(clusters, op[t].victim.id)
      /\ Return(t, Answer(op[t].id, "Created"))
      /\ UNCHANGED <<shards, bodies, counter, tick, calls, history>>
  BY <1>2, <1>4 DEF Link, clocks, Leaf
<1>8. trees \in Seq([Paths -> Seq(Nat)])
  BY <1>1 DEF TypeOK
<1>9. /\ trees' \in Seq([Paths -> Seq(Nat)]) /\ DOMAIN trees' = DOMAIN trees
      /\ \A r \in DOMAIN trees, p \in Paths :
           trees'[r][p] = IF r = s /\ p = path THEN next ELSE trees[r][p]
  BY <1>3, <1>6, <1>7, <1>8, PutLeaf
<1>10. Answer(op[t].id, "Created") \in Answers
  BY <1>5 DEF Answer, Answers
<1>11. /\ op' \in [Threads -> Ops] /\ pc' \in [Threads -> Places]
       /\ answer' \in [Threads -> Answers] /\ pc'[t] = "idle"
       /\ \A u \in Threads \ {t} : pc'[u] = pc[u] /\ op'[u] = op[u]
  BY <1>1, <1>7, <1>10, ReturnTyped
<1>12. op'[t] = NoOp
  BY <1>1, <1>7 DEF Return, TypeOK
<1> QED BY <1>1, <1>2, <1>4, <1>7, <1>9, <1>11, <1>12

\* The victim leaves the index, and the new id enters the leaf.
LEMMA HotLink ==
  ASSUME UInv, NEW t \in Threads, Link(t)
  PROVE  UInv'
<1>1. TypeOK /\ bodies \in Seq(Body)
  BY DEF UInv, TypeOK
<1>2. /\ pc'[t] = "idle" /\ UNCHANGED <<shards, bodies, counter, tick, calls, history>>
      /\ clusters' = Without(clusters, op[t].victim.id)
      /\ trees' \in Seq([Paths -> Seq(Nat)]) /\ DOMAIN trees' = DOMAIN trees
      /\ op' \in [Threads -> Ops] /\ pc' \in [Threads -> Places]
      /\ answer' \in [Threads -> Answers]
      /\ \A u \in Threads \ {t} : pc'[u] = pc[u] /\ op'[u] = op[u]
  BY HotLinks
<1>3. clusters' \in [DOMAIN clusters' -> DOMAIN bodies']
  BY <1>1, <1>2 DEF Without, TypeOK
<1>4. TypeOK'
  BY <1>1, <1>2, <1>3 DEF TypeOK
<1>5. HistoryAligned' /\ Absorbed' /\ BodiesLasting'
  BY <1>2 DEF UInv, HistoryAligned, Absorbed, AbsorbedCovered, BodiesLasting
<1>6. GrowsTo(bodies, bodies')
  BY <1>1, <1>2, GrowsReflexive
<1>7. Held(pc'[t], op'[t], bodies', trees')
  BY <1>2 DEF Held, HasPlainLine, HasLine, InShard, Scanning, Changing, Applying
<1> QED BY <1>2, <1>4, <1>5, <1>6, <1>7, HotStep

\* Every step of a call keeps what the threads know.
LEMMA HotServed ==
  ASSUME UInv, NEW t \in Threads, Call(t) \/ Step(t)
  PROVE  UInv'
<1>1. CASE Call(t)
  BY <1>1, HotCall
<1>2. CASE GetShard(t) \/ EnterShard(t) \/ ReadLeaf(t) \/ Visit(t) \/ EndScan(t)
  BY <1>2, HotGetShard, HotEnterShard, HotReadLeaf, HotVisit, HotEndScan
<1>3. CASE WriteLeaf(t) \/ EndRescan(t) \/ NewId(t) \/ Stamp(t) \/ Publish(t)
  BY <1>3, HotWriteLeaf, HotEndRescan, HotNewId, HotStamp, HotPublish
<1>4. CASE Consider(t) \/ Link(t) \/ Hit(t) \/ Decide(t) \/ Upgrade(t)
  BY <1>4, HotConsider, HotLink, HotHit, HotDecide, HotUpgrade
<1>5. CASE Touch(t) \/ ObserveFirst(t) \/ ObserveLast(t)
  BY <1>5, HotTouches
<1>6. CASE Lookup(t) \/ Params(t) \/ ShowFirst(t) \/ ShowLast(t)
  BY <1>6, HotLookup, HotReads
<1> QED BY <1>1, <1>2, <1>3, <1>4, <1>5, <1>6 DEF Step

-----------------------------------------------------------------------------
(* The leaves, whatever a load does meanwhile.                             *)

\* A thread that leaves the leaves as they are, and at most adds empty ones, is
\* alone to write to its shard and has chosen its victim.
LEMMA LeavesKept ==
  ASSUME UInv, LInv, NEW t \in Threads,
         \A u \in Threads \ {t} : pc'[u] = pc[u] /\ op'[u] = op[u],
         DOMAIN trees \subseteq DOMAIN trees',
         \A s \in DOMAIN trees, p \in Paths : trees'[s][p] = trees[s][p],
         \A s \in DOMAIN trees' \ DOMAIN trees, p \in Paths : trees'[s][p] = <<>>,
         VictimChosen(t)',
         pc'[t] \in Writing =>
           \A u \in Threads \ {t} : pc[u] \in Writing => op[u].shard # op'[t].shard
  PROVE  LInv'
<1>1. Exclusive'
  BY DEF LInv, Exclusive
<1>2. LeavesNumbered'
  BY DEF LInv, LeavesNumbered, Range
<1>3. LeafWithinCap'
  <2>1. Len(<<>>) <= Cap
    BY MinerAssumption
  <2> QED BY <2>1 DEF LInv, LeafWithinCap
<1>4. ASSUME NEW u \in Threads \ {t} PROVE VictimChosen(u)'
  <2>1. pc'[u] = pc[u] /\ op'[u] = op[u] /\ VictimChosen(u)
    BY DEF LInv, VictimsChosen
  <2>2. Entering(u) => Leaf(u)' = Leaf(u)
    <3> SUFFICES ASSUME Entering(u) PROVE Leaf(u)' = Leaf(u)
      OBVIOUS
    <3>1. op[u].shard \in DOMAIN trees /\ Keys(op[u].line) \in Paths
      BY HotLeaf DEF Entering, InShard
    <3> QED BY <2>1, <3>1 DEF Leaf
  <2> QED BY <2>1, <2>2 DEF VictimChosen, Entering
<1> QED BY <1>1, <1>2, <1>3, <1>4 DEF LInv, VictimsChosen

\* Steps of a thread that has published nothing that is not in its leaf yet.
LEMMA HotQuietLeaves ==
  ASSUME UInv, LInv, NEW t \in Threads, Call(t) \/ Step(t), ~Entering(t),
         UNCHANGED trees, ~Entering(t)', op'[t].victim = op[t].victim,
         pc'[t] \in Writing =>
           \A u \in Threads \ {t} : pc[u] \in Writing => op[u].shard # op'[t].shard
  PROVE  LInv'
<1>1. \A u \in Threads \ {t} : pc'[u] = pc[u] /\ op'[u] = op[u]
  BY OthersStay DEF UInv
<1>2. VictimChosen(t)'
  BY DEF LInv, VictimsChosen, VictimChosen, Entering
<1> QED BY <1>1, <1>2, LeavesKept

\* A writer is alone in its shard, and so is a thread that becomes one.
LEMMA HotAlone ==
  ASSUME LInv, NEW t \in Threads,
         pc[t] \in Writing \/ (pc[t] = "write" /\ ShardWritable(op[t].shard))
  PROVE  \A u \in Threads \ {t} : pc[u] \in Writing => op[u].shard # op[t].shard
<1>1. CASE pc[t] \in Writing
  BY <1>1 DEF LInv, Exclusive
<1>2. CASE pc[t] = "write" /\ ShardWritable(op[t].shard)
  BY <1>2 DEF ShardWritable
<1> QED BY <1>1, <1>2

\* shard_for adds a shard of empty leaves, or finds one.
LEMMA HotShardEntered ==
  ASSUME UInv, LInv, NEW t \in Threads, EnterShard(t)
  PROVE  LInv'
<1>1. /\ TypeOK /\ op[t] \in Ops /\ pc[t] = "enter" /\ pc'[t] = "read" /\ Step(t)
      /\ trees \in Seq([Paths -> Seq(Nat)])
  BY HotThread DEF EnterShard, Goto, TypeOK, Step
<1>2. op'[t].victim = op[t].victim
  <2>1. \A o \in Ops : \A s : [o EXCEPT !.shard = s].victim = o.victim
    BY DEF Ops
  <2>2. \E s : op'[t] = [op[t] EXCEPT !.shard = s]
    BY <1>1 DEF EnterShard, TypeOK
  <2> QED BY <1>1, <2>1, <2>2
<1>3. pc'[t] \notin Writing /\ ~Entering(t) /\ ~Entering(t)'
  BY <1>1 DEF Writing, Entering
<1>4. CASE trees' = trees
  BY <1>1, <1>2, <1>3, <1>4, HotQuietLeaves
<1>5. CASE trees' = Append(trees, [p \in Paths |-> <<>>])
  <2>1. /\ DOMAIN trees' = DOMAIN trees \cup {Len(trees) + 1}
        /\ Len(trees) + 1 \notin DOMAIN trees
        /\ \A s \in DOMAIN trees : trees'[s] = trees[s]
        /\ trees'[Len(trees) + 1] = [p \in Paths |-> <<>>]
    BY <1>1, <1>5
  <2>2. /\ DOMAIN trees \subseteq DOMAIN trees'
        /\ \A s \in DOMAIN trees, p \in Paths : trees'[s][p] = trees[s][p]
        /\ \A s \in DOMAIN trees' \ DOMAIN trees, p \in Paths : trees'[s][p] = <<>>
    BY <2>1
  <2>3. \A u \in Threads \ {t} : pc'[u] = pc[u] /\ op'[u] = op[u]
    BY <1>1, OthersStay
  <2>4. VictimChosen(t)'
    BY <1>1, <1>2, <1>3 DEF LInv, VictimsChosen, VictimChosen, Entering
  <2> QED BY <1>3, <2>2, <2>3, <2>4, LeavesKept
<1> QED BY <1>4, <1>5 DEF EnterShard

\* evict_if_full looks at the next id of the leaf.
LEMMA HotConsidered ==
  ASSUME UInv, LInv, NEW t \in Threads, Consider(t)
  PROVE  LInv'
<1>1. TypeOK /\ pc[t] = "evict" /\ trees' = trees /\ Step(t)
  BY DEF UInv, Consider, index, Step
<1>2. /\ op[t].shard \in DOMAIN trees /\ Keys(op[t].line) \in Paths
      /\ Leaf(t) \in Seq(Nat)
  BY <1>1, HotLeaf DEF InShard
<1>3. 0 \notin Range(Leaf(t)) /\ VictimChosen(t)
  BY <1>2 DEF LInv, LeavesNumbered, Leaf, VictimsChosen
<1>4. op'[t].shard = op[t].shard /\ VictimChosen(t)'
  BY <1>1, <1>2, <1>3, EvictionChooses
<1>5. \A u \in Threads \ {t} : pc[u] \in Writing => op[u].shard # op'[t].shard
  BY <1>1, <1>4, HotAlone DEF Writing
<1>6. \A u \in Threads \ {t} : pc'[u] = pc[u] /\ op'[u] = op[u]
  BY <1>1, OthersStay
<1> QED BY <1>1, <1>4, <1>5, <1>6, LeavesKept

\* The writer that has published its cluster knows whether its leaf is full.
LEMMA HotPublished ==
  ASSUME UInv, LInv, NEW t \in Threads, Publish(t)
  PROVE  LInv'
<1>1. /\ pc[t] = "publish" /\ trees' = trees
      /\ pc'[t] = IF IsFull(Leaf(t)) THEN "evict" ELSE "link"
      /\ op'[t].victim = op[t].victim
      /\ op'[t].shard = op[t].shard /\ op'[t].line = op[t].line
      /\ IsFull(Leaf(t)) => op'[t].todo = Leaf(t)
      /\ \A u \in Threads \ {t} : pc'[u] = pc[u] /\ op'[u] = op[u]
  BY HotPublishes
<1>2. Leaf(t)' = Leaf(t) /\ Leaf(t) \in Seq(Nat)
  BY <1>1, HotLeaf DEF Leaf, InShard
<1>3. op'[t].victim = NoVictim /\ NoVictim.id = 0
  BY <1>1 DEF LInv, VictimsChosen, VictimChosen, Entering, NoVictim
<1>4. Len(Leaf(t)) \in Nat /\ Cap \in Nat
  BY <1>2, MinerAssumption
<1>5. VictimChosen(t)'
  BY <1>1, <1>2, <1>3, <1>4 DEF VictimChosen, Entering, IsFull
<1>6. \A u \in Threads \ {t} : pc[u] \in Writing => op[u].shard # op'[t].shard
  BY <1>1, HotAlone DEF Writing
<1> QED BY <1>1, <1>5, <1>6, LeavesKept

\* The leaf of a writer gives up its victim and gets the new id; no other
\* writer has that leaf.
LEMMA HotLinked ==
  ASSUME UInv, LInv, NEW t \in Threads, Link(t)
  PROVE  LInv'
<1>1. /\ pc[t] = "link" /\ pc'[t] = "idle" /\ op'[t] = NoOp
      /\ DOMAIN trees' = DOMAIN trees
      /\ \A r \in DOMAIN trees, p \in Paths :
           trees'[r][p] = IF r = op[t].shard /\ p = Keys(op[t].line)
                          THEN Append(SwapRemove(Leaf(t), op[t].victim.id), op[t].id)
                          ELSE trees[r][p]
      /\ \A u \in Threads \ {t} : pc'[u] = pc[u] /\ op'[u] = op[u]
  BY HotLinks
<1>2. PICK next : next = Append(SwapRemove(Leaf(t), op[t].victim.id), op[t].id)
  OBVIOUS
<1>3. op[t] \in Ops /\ Held(pc[t], op[t], bodies, trees)
  BY HotThread
<1>4. op[t].id \in Nat /\ op[t].id # 0 /\ op[t].victim.id \in Nat
  BY <1>1, <1>3 DEF Held, Ops
<1>5. /\ op[t].shard \in DOMAIN trees /\ Keys(op[t].line) \in Paths
      /\ Leaf(t) \in Seq(Nat)
  BY <1>1, HotLeaf DEF InShard
<1>6. /\ Len(Leaf(t)) <= Cap /\ 0 \notin Range(Leaf(t))
      /\ IF op[t].victim.id = 0 THEN Len(Leaf(t)) < Cap ELSE op[t].victim.id \in Range(Leaf(t))
  BY <1>1, <1>5 DEF LInv, LeafWithinCap, LeavesNumbered, VictimsChosen, VictimChosen, Leaf
<1>7. Len(next) <= Cap /\ 0 \notin Range(next)
  BY <1>2, <1>4, <1>5, <1>6, LeafGets
<1>8. LeafWithinCap' /\ LeavesNumbered'
  BY <1>1, <1>2, <1>7 DEF LInv, LeafWithinCap, LeavesNumbered
<1>9. Exclusive'
  BY <1>1 DEF LInv, Exclusive, Writing
<1>10. ASSUME NEW u \in Threads PROVE VictimChosen(u)'
  <2>1. CASE u = t
    BY <1>1, <2>1 DEF VictimChosen, Entering, NoOp
  <2>2. CASE u # t
    <3>1. pc'[u] = pc[u] /\ op'[u] = op[u] /\ VictimChosen(u)
      BY <1>1, <2>2 DEF LInv, VictimsChosen
    <3>2. Entering(u) => Leaf(u)' = Leaf(u)
      <4> SUFFICES ASSUME Entering(u) PROVE Leaf(u)' = Leaf(u)
        OBVIOUS
      <4>1. op[u].shard \in DOMAIN trees /\ Keys(op[u].line) \in Paths
        BY HotLeaf DEF Entering, InShard
      <4>2. op[u].shard # op[t].shard
        BY <1>1, <2>2 DEF LInv, Exclusive, Entering, Writing
      <4> QED BY <1>1, <3>1, <4>1, <4>2 DEF Leaf
    <3> QED BY <3>1, <3>2 DEF VictimChosen, Entering
  <2> QED BY <2>1, <2>2
<1> QED BY <1>8, <1>9, <1>10 DEF LInv, VictimsChosen

\* Every step of a call keeps the leaves.
LEMMA HotLeaves ==
  ASSUME UInv, LInv, NEW t \in Threads, Call(t) \/ Step(t)
  PROVE  LInv'
<1>0. TypeOK
  BY DEF UInv
<1>1. CASE OutsideStep(t)
  <2>1. ~Entering(t)
    BY <1>1 DEF OutsideStep, Entering, Call, GetShard, ReadLeaf, EndScan, Hit, Touch,
                ObserveFirst, ObserveLast, Decide, Upgrade, Lookup, Params,
                ShowFirst, ShowLast
  <2>2. op[t].victim = NoVictim
    BY <2>1 DEF LInv, VictimsChosen, VictimChosen
  <2>3. trees' = trees /\ pc'[t] \notin Writing /\ op'[t].victim = NoVictim
    BY <1>0, <1>1, <2>2, OutsideFacts DEF index
  <2>4. ~Entering(t)'
    BY <2>3 DEF Entering, Writing
  <2> QED BY <2>1, <2>2, <2>3, <2>4, HotQuietLeaves
<1>2. CASE \/ WriteLeaf(t) \/ EndRescan(t) \/ NewId(t) \/ Stamp(t)
           \/ Visit(t) /\ pc[t] = "rescan"
  <2>1. /\ trees' = trees
        /\ pc[t] \in {"write", "rescan", "create", "stamp"}
        /\ pc[t] = "write" => ShardWritable(op[t].shard)
        /\ pc'[t] \in {"rescan", "create", "stamp", "publish", "hit"}
        /\ op'[t].victim = op[t].victim
        /\ op'[t].shard = op[t].shard
    BY <1>0, <1>2, InsideFacts DEF index
  <2>2. ~Entering(t) /\ ~Entering(t)'
    BY <2>1 DEF Entering
  <2>3. \A u \in Threads \ {t} : pc[u] \in Writing => op[u].shard # op'[t].shard
    BY <2>1, HotAlone DEF Writing
  <2> QED BY <2>1, <2>2, <2>3, HotQuietLeaves
<1>3. CASE EnterShard(t)
  BY <1>3, HotShardEntered
<1>4. CASE Publish(t) \/ Consider(t) \/ Link(t)
  BY <1>4, HotPublished, HotConsidered, HotLinked
<1>5. Visit(t) => pc[t] \in {"scan", "rescan"}
  BY DEF Visit
<1> QED BY <1>1, <1>2, <1>3, <1>4, <1>5 DEF Step, OutsideStep

-----------------------------------------------------------------------------
(* A load beside the calls.                                                *)

\* A miner without shards and clusters that nobody calls.
LEMMA HotEmpty == Typed /\ Still /\ NoLeaves /\ NoClusters => UInv /\ LInv
<1> SUFFICES ASSUME Typed, Still, NoLeaves, NoClusters PROVE UInv /\ LInv
  OBVIOUS
<1>1. DOMAIN trees = {} /\ DOMAIN bodies = {} /\ DOMAIN shards = {} /\ DOMAIN clusters = {}
  BY DEF NoLeaves, NoClusters
<1>2. \A t \in Threads : pc[t] = "idle" /\ op[t].victim = NoVictim
  BY DEF Still, Quiet
<1>3. TypeOK /\ HistoryAligned
  BY EmptyMiner DEF MInv, IInv
<1>4. Absorbed /\ BodiesLasting /\ LeavesNumbered /\ LeafWithinCap
  BY <1>1 DEF Absorbed, AbsorbedCovered, BodiesLasting, LeavesNumbered, LeafWithinCap
<1>5. ThreadsHeld
  BY <1>2 DEF ThreadsHeld, Held, HasPlainLine, HasLine, InShard, Scanning, Changing, Applying
<1>6. Exclusive /\ VictimsChosen
  BY <1>2 DEF Exclusive, Writing, VictimsChosen, VictimChosen, Entering
<1> QED BY <1>3, <1>4, <1>5, <1>6 DEF UInv, LInv

\* What no thread and no load touches stays.
LEMMA HotKept ==
  ASSUME UInv, LInv, UNCHANGED vars
  PROVE  UInv' /\ LInv'
<1>1. UNCHANGED <<shards, trees, clusters, bodies, counter, tick, calls, pc, op, answer, history>>
  BY DEF vars
<1>2. TypeOK' /\ HistoryAligned' /\ Absorbed' /\ BodiesLasting'
  BY <1>1 DEF UInv, TypeOK, HistoryAligned, Absorbed, AbsorbedCovered, BodiesLasting
<1>3. ThreadsHeld'
  BY <1>1 DEF UInv, ThreadsHeld
<1>4. Exclusive' /\ LeavesNumbered' /\ LeafWithinCap'
  BY <1>1 DEF LInv, Exclusive, LeavesNumbered, LeafWithinCap
<1>5. VictimsChosen'
  BY <1>1 DEF LInv, VictimsChosen, VictimChosen, Entering, Leaf
<1> QED BY <1>2, <1>3, <1>4, <1>5 DEF UInv, LInv

\* The load takes away what nobody has, or only names of it.
LEMMA HotSwept ==
  ASSUME UInv, LInv, UNCHANGED <<tick, calls, pc, op, answer>>, counter' \in Nat,
         shards' \in [DOMAIN shards' -> DOMAIN trees'],
         clusters' \in [DOMAIN clusters' -> DOMAIN bodies'],
         trees' = trees \/ (Quiet /\ trees' = <<>>),
         (bodies' = bodies /\ history' = history)
           \/ (Quiet /\ bodies' = <<>> /\ history' = <<>>)
  PROVE  UInv' /\ LInv'
<1>1. TypeOK' /\ HistoryAligned'
  <2>1. trees' \in Seq([Paths -> Seq(Nat)])
    BY EmptySeq DEF UInv, TypeOK
  <2>2. bodies' \in Seq(Body) /\ history' \in Seq(Histories) /\ Len(history') = Len(bodies')
    BY EmptySeq DEF UInv, TypeOK, HistoryAligned
  <2> QED BY <2>1, <2>2 DEF UInv, TypeOK, HistoryAligned
<1>2. DOMAIN <<>> = {}
  OBVIOUS
<1>3. Absorbed' /\ BodiesLasting'
  BY <1>2 DEF UInv, Absorbed, AbsorbedCovered, BodiesLasting
<1>4. LeavesNumbered' /\ LeafWithinCap'
  BY <1>2 DEF LInv, LeavesNumbered, LeafWithinCap
<1>5. Exclusive'
  BY DEF LInv, Exclusive
<1>6. CASE Quiet
  <2>1. \A t \in Threads : pc'[t] = "idle" /\ op'[t].victim = NoVictim
    BY <1>6 DEF Quiet, LInv, VictimsChosen, VictimChosen, Entering
  <2>2. ThreadsHeld' /\ VictimsChosen'
    BY <2>1 DEF ThreadsHeld, Held, HasPlainLine, HasLine, InShard, Scanning, Changing,
                Applying, VictimsChosen, VictimChosen, Entering
  <2> QED BY <1>1, <1>3, <1>4, <1>5, <2>2 DEF UInv, LInv
<1>7. CASE trees' = trees /\ bodies' = bodies
  <2>1. ThreadsHeld'
    BY <1>7 DEF UInv, ThreadsHeld
  <2>2. VictimsChosen'
    BY <1>7 DEF LInv, VictimsChosen, VictimChosen, Entering, Leaf
  <2> QED BY <1>1, <1>3, <1>4, <1>5, <2>1, <2>2 DEF UInv, LInv
<1> QED BY <1>6, <1>7

\* A row of a body has the types of a row, and lasts.
LEMMA RowLasts ==
  ASSUME UInv, NEW b \in DOMAIN bodies
  PROVE  /\ Row(b) \in Rows
         /\ Lasting(Row(b).id, Row(b).tokens)
         /\ ThNum # 0 => \A l \in Row(b).past.lines : Covers(Row(b).tokens, l)
<1>1. bodies \in Seq(Body) /\ history \in Seq(Histories) /\ Len(history) = Len(bodies)
  BY DEF UInv, TypeOK, HistoryAligned
<1>2. bodies[b] \in Body /\ history[b] \in Histories
  BY <1>1
<1>3. Row(b) \in Rows
  BY <1>2 DEF Row, Rows, Body
<1>4. /\ Row(b).id = bodies[b].id /\ Row(b).tokens = bodies[b].tokens
      /\ Row(b).past = history[b]
  BY DEF Row
<1> QED BY <1>3, <1>4 DEF UInv, BodiesLasting, Absorbed, AbsorbedCovered

\* No rows, one row more, and one row less.
LEMMA RowsLast ==
  /\ RowsLasting(<<>>)
  /\ \A rows : RowsLasting(rows) /\ rows # <<>> => RowsLasting(Tail(rows))
<1>1. RowsLasting(<<>>)
  <2>1. <<>> \in Seq(Rows) /\ DOMAIN <<>> = {}
    BY EmptySeq
  <2> QED BY <2>1 DEF RowsLasting
<1>2. ASSUME NEW rows, RowsLasting(rows), rows # <<>> PROVE RowsLasting(Tail(rows))
  <2>1. rows \in Seq(Rows)
    BY <1>2 DEF RowsLasting
  <2>2. PICK rest : rest = Tail(rows)
    OBVIOUS
  <2>3. /\ rest \in Seq(Rows)
        /\ \A i \in DOMAIN rest : i + 1 \in DOMAIN rows /\ rest[i] = rows[i + 1]
    BY <1>2, <2>1, <2>2
  <2>4. RowsLasting(rest)
    BY <1>2, <2>3 DEF RowsLasting
  <2> QED BY <2>2, <2>4
<1> QED BY <1>1, <1>2

\* The rows of a snapshot with one more.
LEMMA RowsGrow ==
  ASSUME NEW rows, RowsLasting(rows), NEW row \in Rows,
         Lasting(row.id, row.tokens),
         ThNum # 0 => \A l \in row.past.lines : Covers(row.tokens, l)
  PROVE  RowsLasting(Append(rows, row))
<1>1. PICK more : more = Append(rows, row)
  OBVIOUS
<1>2. rows \in Seq(Rows)
  BY DEF RowsLasting
<1>3. /\ more \in Seq(Rows) /\ DOMAIN more = DOMAIN rows \cup {Len(rows) + 1}
      /\ more[Len(rows) + 1] = row
      /\ \A i \in DOMAIN rows : more[i] = rows[i]
  BY <1>1, <1>2
<1>4. RowsLasting(more)
  BY <1>3 DEF RowsLasting
<1> QED BY <1>1, <1>4

\* The operator takes a snapshot beside the calls.
LEMMA HotOperate ==
  ASSUME UInv, LInv, AdminHeld, Operate
  PROVE  UInv' /\ LInv' /\ AdminHeld' /\ ~Starting' /\ UNCHANGED <<vars, loads, reloads>>
<1>1. UNCHANGED <<vars, loads, reloads>>
  BY DEF Operate, StartSnapshot, Collect, EndSnapshot
<1>2. UInv' /\ LInv'
  BY <1>1, HotKept
<1>3. CASE StartSnapshot
  <2>1. saved' = saved
        /\ admin' = [at |-> "collect", due |-> DOMAIN clusters, passed |-> {}, rows |-> <<>>]
    BY <1>3 DEF StartSnapshot, Resting
  <2>2. admin'.at = "collect" /\ admin'.rows = <<>> /\ AdminTyped'
    BY <2>1, EmptySeq DEF AdminTyped, Stages
  <2>3. AdminHeld'
    BY <2>1, <2>2, RowsLast DEF AdminHeld
  <2> QED BY <1>1, <1>2, <2>2, <2>3 DEF Starting
<1>4. CASE Collect
  <2>1. admin.at = "collect" /\ saved' = saved /\ AdminTyped
    BY <1>4 DEF Collect, At, AdminHeld
  <2>2. PICK id \in DOMAIN clusters :
          \E row : /\ row = Row(clusters[id])
                   /\ admin' = [admin EXCEPT !.passed = @ \cup {id}, !.rows = Append(@, row)]
    BY <1>4 DEF Collect
  <2>3. PICK row : /\ row = Row(clusters[id])
                   /\ admin' = [admin EXCEPT !.passed = @ \cup {id}, !.rows = Append(@, row)]
    BY <2>2
  <2>4. /\ row \in Rows /\ Lasting(row.id, row.tokens)
        /\ ThNum # 0 => \A l \in row.past.lines : Covers(row.tokens, l)
    <3>1. clusters[id] \in DOMAIN bodies
      BY DEF UInv, TypeOK
    <3> QED BY <2>3, <3>1, RowLasts
  <2>5. /\ admin'.at = "collect" /\ admin'.rows = Append(admin.rows, row)
        /\ admin' = [at |-> admin'.at, due |-> admin'.due,
                     passed |-> admin'.passed, rows |-> admin'.rows]
    BY <2>1, <2>3 DEF AdminTyped
  <2>6. RowsLasting(admin'.rows)
    BY <2>4, <2>5, RowsGrow DEF AdminHeld
  <2>7. AdminHeld'
    BY <2>1, <2>5, <2>6 DEF AdminHeld, AdminTyped, Stages, RowsLasting
  <2> QED BY <1>1, <1>2, <2>5, <2>7 DEF Starting
<1>5. CASE EndSnapshot
  <2>1. admin' = Resting /\ saved' = [counter |-> counter, rows |-> admin.rows, held |-> TRUE]
    BY <1>5 DEF EndSnapshot
  <2>2. admin'.at = "rest" /\ admin'.rows = <<>> /\ AdminTyped'
    BY <2>1, EmptySeq DEF Resting, AdminTyped, Stages
  <2>3. saved'.counter = counter /\ saved'.rows = admin.rows /\ counter \in Nat
    BY <2>1 DEF UInv, TypeOK
  <2>4. AdminHeld'
    BY <2>2, <2>3, RowsLast DEF AdminHeld
  <2> QED BY <1>1, <1>2, <2>2, <2>4 DEF Starting
<1> QED BY <1>3, <1>4, <1>5 DEF Operate

\* The operator goes on, or begins, with rows that it had or that are saved.
LEMMA HotAdmin ==
  ASSUME AdminHeld, saved' = saved, AdminTyped',
         admin'.rows = admin.rows \/ admin'.rows = <<>> \/ admin'.rows = saved.rows
           \/ (admin.rows # <<>> /\ admin'.rows = Tail(admin.rows))
  PROVE  AdminHeld'
<1>1. RowsLasting(admin'.rows)
  BY RowsLast DEF AdminHeld
<1> QED BY <1>1 DEF AdminHeld

\* A load begins, or has nothing to load, or ends.
LEMMA HotLoad ==
  ASSUME UInv, LInv, AdminHeld, Load \/ EndLoad \/ Loaded \/ Reload
  PROVE  UInv' /\ LInv' /\ AdminHeld'
<1>1. UNCHANGED <<vars, saved>> /\ AdminTyped
  BY DEF Load, EndLoad, Loaded, Reload, AdminHeld
<1>2. UInv' /\ LInv'
  BY <1>1, HotKept
<1>3. CASE admin' = Resting
  <2>1. admin'.rows = <<>> /\ AdminTyped'
    BY <1>3, EmptySeq DEF Resting, AdminTyped, Stages
  <2> QED BY <1>1, <1>2, <2>1, HotAdmin
<1>4. CASE \E at \in Stages : \E due :
             \/ admin' = [admin EXCEPT !.at = at]
             \/ admin' = [admin EXCEPT !.at = at, !.due = due]
             \/ admin' = [Resting EXCEPT !.at = at]
  <2>1. /\ AdminTyped'
        /\ admin'.rows = admin.rows \/ admin'.rows = <<>>
    BY <1>1, <1>4, AdminMoves
  <2> QED BY <1>1, <1>2, <2>1, HotAdmin
<1>5. admin' = Resting \/ \E at \in Stages : \E due :
             \/ admin' = [admin EXCEPT !.at = at]
             \/ admin' = [admin EXCEPT !.at = at, !.due = due]
             \/ admin' = [Resting EXCEPT !.at = at]
  <2>1. {"load", "shards", "loaded"} \subseteq Stages
    BY DEF Stages
  <2>2. CASE Load
    BY <2>1, <2>2 DEF Load
  <2>3. CASE EndLoad
    BY <2>1, <2>3 DEF EndLoad
  <2>4. CASE Loaded
    BY <2>4 DEF Loaded
  <2>5. CASE Reload
    BY <2>1, <2>5 DEF Reload
  <2> QED BY <2>2, <2>3, <2>4, <2>5
<1> QED BY <1>3, <1>4, <1>5

\* The shards are cleared under the calls; a shard that a thread has goes on.
LEMMA HotClearShards ==
  ASSUME UInv, LInv, AdminHeld, ClearShards
  PROVE  UInv' /\ LInv' /\ AdminHeld'
<1>1. /\ saved' = saved /\ AdminTyped /\ admin.at = "shards"
      /\ UNCHANGED <<clusters, bodies, counter, tick, calls, pc, op, answer, history>>
  BY DEF ClearShards, clocks, local, AdminHeld, At
<1>2. /\ counter \in Nat
      /\ shards \in [DOMAIN shards -> DOMAIN trees]
      /\ clusters \in [DOMAIN clusters -> DOMAIN bodies]
  BY DEF UInv, TypeOK
<1>3. CASE \E count \in DOMAIN shards \ admin.passed :
             /\ shards' = Without(shards, count)
             /\ admin' = [admin EXCEPT !.passed = @ \cup {count}]
             /\ UNCHANGED trees
  <2>1. PICK count \in DOMAIN shards \ admin.passed :
          /\ shards' = Without(shards, count)
          /\ admin' = [admin EXCEPT !.passed = @ \cup {count}]
          /\ UNCHANGED trees
    BY <1>3
  <2>2. /\ admin'.at = admin.at /\ admin'.rows = admin.rows
        /\ admin' = [at |-> admin'.at, due |-> admin'.due,
                     passed |-> admin'.passed, rows |-> admin'.rows]
    BY <1>1, <2>1 DEF AdminTyped
  <2>3. AdminTyped'
    BY <1>1, <2>2 DEF AdminTyped
  <2>4. shards' \in [DOMAIN shards' -> DOMAIN trees']
    BY <1>2, <2>1 DEF Without
  <2>5. UInv' /\ LInv'
    BY <1>1, <1>2, <2>1, <2>4, HotSwept
  <2> QED BY <1>1, <2>2, <2>3, <2>5, HotAdmin
<1>4. CASE /\ admin' = [Resting EXCEPT !.at = "clear", !.due = DOMAIN clusters]
           /\ trees' = IF Quiet /\ DOMAIN shards = {} THEN <<>> ELSE trees
           /\ UNCHANGED shards
  <2>1. /\ AdminTyped'
        /\ admin'.rows = admin.rows \/ admin'.rows = <<>>
    BY <1>1, <1>4, AdminMoves DEF Stages
  <2>2. shards' \in [DOMAIN shards' -> DOMAIN trees']
    <3>1. CASE Quiet /\ DOMAIN shards = {}
      BY <1>2, <1>4, <3>1
    <3>2. CASE ~(Quiet /\ DOMAIN shards = {})
      BY <1>2, <1>4, <3>2
    <3> QED BY <3>1, <3>2
  <2>3. UInv' /\ LInv'
    BY <1>1, <1>2, <1>4, <2>2, HotSwept
  <2> QED BY <1>1, <2>1, <2>3, HotAdmin
<1> QED BY <1>3, <1>4 DEF ClearShards

\* The map is cleared under the calls; a body that a thread has goes on.
LEMMA HotClearMap ==
  ASSUME UInv, LInv, AdminHeld, ClearMap
  PROVE  UInv' /\ LInv' /\ AdminHeld'
<1>1. /\ saved' = saved /\ AdminTyped /\ admin.at = "clear"
      /\ UNCHANGED <<shards, trees, counter, tick, calls, pc, op, answer>>
  BY DEF ClearMap, clocks, local, AdminHeld, At
<1>2. /\ counter \in Nat
      /\ shards \in [DOMAIN shards -> DOMAIN trees]
      /\ clusters \in [DOMAIN clusters -> DOMAIN bodies]
  BY DEF UInv, TypeOK
<1>3. CASE \E id \in DOMAIN clusters \ admin.passed :
             /\ clusters' = Without(clusters, id)
             /\ admin' = [admin EXCEPT !.passed = @ \cup {id}]
             /\ UNCHANGED <<bodies, history>>
  <2>1. PICK id \in DOMAIN clusters \ admin.passed :
          /\ clusters' = Without(clusters, id)
          /\ admin' = [admin EXCEPT !.passed = @ \cup {id}]
          /\ UNCHANGED <<bodies, history>>
    BY <1>3
  <2>2. /\ admin'.at = admin.at /\ admin'.rows = admin.rows
        /\ admin' = [at |-> admin'.at, due |-> admin'.due,
                     passed |-> admin'.passed, rows |-> admin'.rows]
    BY <1>1, <2>1 DEF AdminTyped
  <2>3. AdminTyped'
    BY <1>1, <2>2 DEF AdminTyped
  <2>4. clusters' \in [DOMAIN clusters' -> DOMAIN bodies']
    BY <1>2, <2>1 DEF Without
  <2>5. UInv' /\ LInv'
    BY <1>1, <1>2, <2>1, <2>4, HotSwept
  <2> QED BY <1>1, <2>2, <2>3, <2>5, HotAdmin
<1>4. CASE /\ admin' = [Resting EXCEPT !.at = "rewind"]
           /\ IF Quiet /\ DOMAIN clusters = {} THEN bodies' = <<>> /\ history' = <<>>
                                               ELSE UNCHANGED <<bodies, history>>
           /\ UNCHANGED clusters
  <2>1. /\ AdminTyped'
        /\ admin'.rows = admin.rows \/ admin'.rows = <<>>
    BY <1>1, <1>4, AdminMoves DEF Stages
  <2>2. clusters' \in [DOMAIN clusters' -> DOMAIN bodies']
    <3>1. CASE Quiet /\ DOMAIN clusters = {}
      BY <1>2, <1>4, <3>1
    <3>2. CASE ~(Quiet /\ DOMAIN clusters = {})
      BY <1>2, <1>4, <3>2
    <3> QED BY <3>1, <3>2
  <2>3. UInv' /\ LInv'
    BY <1>1, <1>2, <1>4, <2>2, HotSwept
  <2> QED BY <1>1, <2>1, <2>3, HotAdmin
<1> QED BY <1>3, <1>4 DEF ClearMap

\* The counter is set under the calls.
LEMMA HotRewind ==
  ASSUME UInv, LInv, AdminHeld, Rewind
  PROVE  UInv' /\ LInv' /\ AdminHeld'
<1>1. /\ saved' = saved /\ AdminTyped /\ counter' = saved.counter /\ saved.counter \in Nat
      /\ UNCHANGED <<shards, trees, clusters, bodies, tick, calls, pc, op, answer, history>>
      /\ saved.rows \in Seq(Rows)
  BY DEF Rewind, index, local, AdminHeld, RowsLasting
<1>2. /\ shards \in [DOMAIN shards -> DOMAIN trees]
      /\ clusters \in [DOMAIN clusters -> DOMAIN bodies]
  BY DEF UInv, TypeOK
<1>3. UInv' /\ LInv'
  BY <1>1, <1>2, HotSwept
<1>4. /\ admin'.at = "replay" /\ admin'.rows = saved.rows
      /\ admin' = [at |-> admin'.at, due |-> admin'.due,
                   passed |-> admin'.passed, rows |-> admin'.rows]
  BY <1>1 DEF AdminTyped, Rewind
<1>5. AdminTyped'
  BY <1>1, <1>4 DEF AdminTyped, Stages
<1> QED BY <1>1, <1>3, <1>4, <1>5, HotAdmin

\* Whatever callers and a load were doing, the next process starts empty.
LEMMA HotRestart ==
  ASSUME UInv, LInv, AdminHeld, Restart
  PROVE  UInv' /\ LInv' /\ AdminHeld'
<1>1. Typed' /\ Still' /\ NoLeaves' /\ NoClusters' /\ saved' = saved
  BY RestartEmpties DEF UInv, TypeOK
<1>2. UInv' /\ LInv'
  BY <1>1, HotEmpty, PTL
<1>3. admin' = [Resting EXCEPT !.at = "load"] /\ AdminTyped
  BY DEF Restart, AdminHeld
<1>4. AdminTyped' /\ (admin'.rows = admin.rows \/ admin'.rows = <<>>)
  BY <1>3, AdminMoves DEF Stages
<1> QED BY <1>1, <1>2, <1>4, HotAdmin

-----------------------------------------------------------------------------
(* insert_existing under the calls.                                        *)

\* The heap of shards with the shard of the row, found or made.
Widened(ts, ref) ==
  /\ ts \in Seq([Paths -> Seq(Nat)])
  /\ DOMAIN trees \subseteq DOMAIN ts
  /\ \A s \in DOMAIN trees : ts[s] = trees[s]
  /\ \A s \in DOMAIN ts \ DOMAIN trees, p \in Paths : ts[s][p] = <<>>
  /\ ref \in DOMAIN ts

\* The leaf of the path gives up a victim and gets the id.
PutAt(ts, ref, path, v, id) ==
  [ts EXCEPT ![ref][path] = Append(SwapRemove(ts[ref][path], v), id)]

\* What a replay of the row does, once its shard is there.
PutsRow(row, path) ==
  \E ts, ref, v :
    /\ Widened(ts, ref) /\ ShardWritable(ref)
    /\ shards' \in [DOMAIN shards' -> DOMAIN ts]
    /\ v = Victim(ts[ref][path])
    /\ trees' = PutAt(ts, ref, path, v, row.id)
    /\ clusters' = Put(Without(clusters, v), row.id, Len(bodies) + 1)

\* The shard of the row is found, or it is made first.
LEMMA HotReplays ==
  ASSUME UInv, Replay
  PROVE  PutsRow(Head(admin.rows), Keys(Head(admin.rows).tokens))
<1>1. PICK row : row = Head(admin.rows)
  OBVIOUS
<1>2. PICK count, path : count = Len(row.tokens) /\ path = Keys(row.tokens)
  OBVIOUS
<1> SUFFICES PutsRow(row, path)
  BY <1>1, <1>2
<1>3. trees \in Seq([Paths -> Seq(Nat)]) /\ shards \in [DOMAIN shards -> DOMAIN trees]
  BY DEF UInv, TypeOK
<1>4. CASE count \notin DOMAIN shards
  <2>1. PICK empty : empty = [p \in Paths |-> <<>>]
    OBVIOUS
  <2>2. PICK more : more = Append(trees, empty)
    OBVIOUS
  <2>3. PICK s : s = Len(trees) + 1
    OBVIOUS
  <2>4. PICK v : v = Victim(more[s][path])
    OBVIOUS
  <2>5. /\ ShardWritable(s)
        /\ shards' = Put(shards, count, s)
        /\ trees' = PutAt(more, s, path, v, row.id)
        /\ clusters' = Put(Without(clusters, v), row.id, Len(bodies) + 1)
    BY <1>1, <1>2, <1>4, <2>1, <2>2, <2>3, <2>4 DEF Replay, Place, PutAt
  <2>6. empty \in [Paths -> Seq(Nat)] /\ \A p \in Paths : empty[p] = <<>>
    BY <2>1
  <2>7. /\ more \in Seq([Paths -> Seq(Nat)])
        /\ DOMAIN more = DOMAIN trees \cup {s}
        /\ \A r \in DOMAIN trees : more[r] = trees[r]
        /\ more[s] = empty
    BY <1>3, <2>2, <2>3, <2>6
  <2>8. Widened(more, s)
    BY <2>6, <2>7 DEF Widened
  <2>9. shards' \in [DOMAIN shards' -> DOMAIN more]
    BY <1>3, <2>5, <2>7 DEF Put
  <2> QED BY <2>4, <2>5, <2>8, <2>9 DEF PutsRow
<1>5. CASE count \in DOMAIN shards
  <2>1. PICK s : s = shards[count]
    OBVIOUS
  <2>2. PICK v : v = Victim(trees[s][path])
    OBVIOUS
  <2>3. /\ ShardWritable(s)
        /\ shards' = Put(shards, count, s)
        /\ trees' = PutAt(trees, s, path, v, row.id)
        /\ clusters' = Put(Without(clusters, v), row.id, Len(bodies) + 1)
    BY <1>1, <1>2, <1>5, <2>1, <2>2 DEF Replay, Place, PutAt
  <2>4. Widened(trees, s)
    BY <1>3, <1>5, <2>1 DEF Widened
  <2>5. shards' \in [DOMAIN shards' -> DOMAIN trees]
    BY <1>3, <2>3, <2>4 DEF Put, Widened
  <2> QED BY <2>2, <2>3, <2>4, <2>5 DEF PutsRow
<1> QED BY <1>4, <1>5

\* A row that is replayed lasts.
LEMMA RowReplayed ==
  ASSUME AdminHeld, Replay, NEW row, row = Head(admin.rows)
  PROVE  /\ row \in Rows /\ Lasting(row.id, row.tokens)
         /\ ThNum # 0 => \A l \in row.past.lines : Covers(row.tokens, l)
         /\ Restored(row) \in Body /\ row.past \in Histories
         /\ Restored(row).id = row.id /\ Restored(row).tokens = row.tokens
<1>1. RowsLasting(admin.rows) /\ admin.rows # <<>> /\ admin.rows \in Seq(Rows)
  BY DEF AdminHeld, Replay, RowsLasting
<1>2. 1 \in DOMAIN admin.rows /\ row = admin.rows[1]
  BY <1>1
<1>3. /\ row \in Rows /\ Lasting(row.id, row.tokens)
      /\ ThNum # 0 => \A l \in row.past.lines : Covers(row.tokens, l)
  BY <1>1, <1>2 DEF RowsLasting
<1>4. /\ Restored(row) \in Body /\ row.past \in Histories
      /\ Restored(row).id = row.id /\ Restored(row).tokens = row.tokens
  BY <1>3 DEF Restored, Body, Rows
<1> QED BY <1>3, <1>4

\* The leaves and the map after a row is put.
LEMMA RowPut ==
  ASSUME UInv, LInv, NEW row \in Rows, NEW path \in Paths, row.id # 0,
         NEW ts, NEW ref, NEW v, Widened(ts, ref),
         v = Victim(ts[ref][path]),
         trees' = PutAt(ts, ref, path, v, row.id)
  PROVE  /\ trees' \in Seq([Paths -> Seq(Nat)]) /\ DOMAIN trees' = DOMAIN ts
         /\ LeavesNumbered' /\ LeafWithinCap'
         /\ \A s \in DOMAIN trees, p \in Paths : s # ref => trees'[s][p] = trees[s][p]
<1>1. /\ bodies \in Seq(Body) /\ clusters \in [DOMAIN clusters -> DOMAIN bodies]
      /\ trees \in Seq([Paths -> Seq(Nat)])
  BY DEF UInv, TypeOK
<1>2. \A s \in DOMAIN ts, p \in Paths :
        /\ ts[s][p] \in Seq(Nat) /\ Len(ts[s][p]) <= Cap /\ 0 \notin Range(ts[s][p])
  <2> TAKE s \in DOMAIN ts, p \in Paths
  <2>1. ts[s] \in [Paths -> Seq(Nat)]
    BY DEF Widened
  <2>2. CASE s \in DOMAIN trees
    BY <2>1, <2>2 DEF Widened, LInv, LeafWithinCap, LeavesNumbered
  <2>3. CASE s \notin DOMAIN trees
    <3>1. ts[s][p] = <<>>
      BY <2>3 DEF Widened
    <3>2. Len(<<>>) <= Cap /\ DOMAIN <<>> = {}
      BY MinerAssumption
    <3>3. 0 \notin Range(<<>>)
      BY <3>2 DEF Range
    <3> QED BY <2>1, <3>1, <3>2, <3>3
  <2> QED BY <2>2, <2>3
<1>3. PICK leaf \in Seq(Nat) : leaf = ts[ref][path] /\ Len(leaf) <= Cap /\ 0 \notin Range(leaf)
  BY <1>2 DEF Widened
<1>4. v \in Nat /\ IF v = 0 THEN Len(leaf) < Cap ELSE v \in Range(leaf)
  <2>1. IF Len(leaf) >= Cap THEN v \in Range(leaf) ELSE v = 0
    BY <1>1, <1>3, VictimIsListed
  <2>2. Len(leaf) \in Nat /\ Cap \in Nat
    BY <1>3, MinerAssumption
  <2>3. Range(leaf) \subseteq Nat
    BY <1>3 DEF Range
  <2> QED BY <1>3, <2>1, <2>2, <2>3
<1>5. row.id \in Nat
  BY DEF Rows
<1>6. PICK next : next = Append(SwapRemove(leaf, v), row.id)
  OBVIOUS
<1>7. next \in Seq(Nat)
  BY <1>3, <1>4, <1>5, <1>6, LeafNext
<1>8. Len(next) <= Cap /\ 0 \notin Range(next)
  BY <1>3, <1>4, <1>5, <1>6, LeafGets
<1>9. ts \in Seq([Paths -> Seq(Nat)]) /\ ref \in DOMAIN ts
  BY DEF Widened
<1>10. PICK us : us = trees' /\ us = [ts EXCEPT ![ref][path] = next]
  BY <1>3, <1>6 DEF PutAt
<1>11. /\ trees' \in Seq([Paths -> Seq(Nat)]) /\ DOMAIN trees' = DOMAIN ts
       /\ \A r \in DOMAIN ts, p \in Paths :
            trees'[r][p] = IF r = ref /\ p = path THEN next ELSE ts[r][p]
  <2>1. path \in Paths
    OBVIOUS
  <2>2. /\ us \in Seq([Paths -> Seq(Nat)]) /\ DOMAIN us = DOMAIN ts
        /\ \A r \in DOMAIN ts, p \in Paths :
             us[r][p] = IF r = ref /\ p = path THEN next ELSE ts[r][p]
    BY ONLY <1>7, <1>9, <1>10, <2>1, PutLeaf
  <2> QED BY <1>10, <2>2
<1>12. LeavesNumbered' /\ LeafWithinCap'
  <2> SUFFICES ASSUME NEW s \in DOMAIN trees', NEW p \in Paths
               PROVE  Len(trees'[s][p]) <= Cap /\ 0 \notin Range(trees'[s][p])
    BY DEF LeavesNumbered, LeafWithinCap
  <2>1. trees'[s][p] = IF s = ref /\ p = path THEN next ELSE ts[s][p]
    BY <1>11
  <2>2. CASE s = ref /\ p = path
    BY <1>8, <2>1, <2>2
  <2>3. CASE ~(s = ref /\ p = path)
    BY <1>2, <1>11, <2>1, <2>3
  <2> QED BY <2>2, <2>3
<1>13. \A s \in DOMAIN trees, p \in Paths : s # ref => trees'[s][p] = trees[s][p]
  BY <1>11 DEF Widened
<1> QED BY <1>11, <1>12, <1>13

\* The next row becomes the next body, beside those that threads still have.
LEMMA HotReplay ==
  ASSUME UInv, LInv, AdminHeld, Replay
  PROVE  UInv' /\ LInv' /\ AdminHeld'
<1>1. /\ admin.rows # <<>> /\ saved' = saved /\ AdminTyped
      /\ UNCHANGED <<counter, tick, calls, pc, op, answer>>
      /\ admin' = [admin EXCEPT !.rows = Tail(@)]
  BY DEF Replay, clocks, local, AdminHeld
<1>2. PICK row : row = Head(admin.rows)
  OBVIOUS
<1>3. /\ row \in Rows /\ Lasting(row.id, row.tokens)
      /\ ThNum # 0 => \A l \in row.past.lines : Covers(row.tokens, l)
      /\ Restored(row) \in Body /\ row.past \in Histories
      /\ Restored(row).id = row.id /\ Restored(row).tokens = row.tokens
  BY <1>2, RowReplayed
<1>4. PICK body \in Body : body = Restored(row)
  BY <1>3
<1>5. bodies' = Append(bodies, body) /\ history' = Append(history, row.past)
  BY <1>2, <1>4 DEF Replay
<1>6. /\ bodies' \in Seq(Body) /\ history' \in Seq(Histories)
      /\ DOMAIN bodies' = DOMAIN bodies \cup {Len(bodies) + 1}
      /\ GrowsTo(bodies, bodies')
      /\ HistoryAligned' /\ Absorbed' /\ BodiesLasting'
  BY <1>3, <1>4, <1>5, HotGrown
<1>7. PICK path \in Paths : path = Keys(row.tokens)
  BY <1>3 DEF Lasting
<1>8. PICK ts, ref, v :
        /\ Widened(ts, ref) /\ ShardWritable(ref)
        /\ shards' \in [DOMAIN shards' -> DOMAIN ts]
        /\ v = Victim(ts[ref][path])
        /\ trees' = PutAt(ts, ref, path, v, row.id)
        /\ clusters' = Put(Without(clusters, v), row.id, Len(bodies) + 1)
  <2>1. PutsRow(row, path)
    BY <1>2, <1>7, HotReplays
  <2> QED BY <2>1 DEF PutsRow
<1>9. /\ trees' \in Seq([Paths -> Seq(Nat)]) /\ DOMAIN trees' = DOMAIN ts
      /\ LeavesNumbered' /\ LeafWithinCap'
      /\ \A s \in DOMAIN trees, p \in Paths : s # ref => trees'[s][p] = trees[s][p]
  <2>1. UInv /\ LInv /\ row \in Rows /\ path \in Paths /\ row.id # 0
    BY <1>3 DEF Lasting
  <2>2. /\ Widened(ts, ref)
        /\ v = Victim(ts[ref][path])
        /\ trees' = PutAt(ts, ref, path, v, row.id)
    BY <1>8
  <2> QED BY <2>1, <2>2, RowPut
<1>10. clusters' \in [DOMAIN clusters' -> DOMAIN bodies']
  <2>1. clusters \in [DOMAIN clusters -> DOMAIN bodies]
    BY DEF UInv, TypeOK
  <2> QED BY <1>6, <1>8, <2>1 DEF Put, Without
<1>11. TypeOK'
  BY <1>1, <1>6, <1>8, <1>9, <1>10 DEF UInv, TypeOK
<1>12. ThreadsHeld'
  <2> SUFFICES ASSUME NEW t \in Threads PROVE Held(pc'[t], op'[t], bodies', trees')
    BY DEF ThreadsHeld
  <2>1. bodies \in Seq(Body) /\ op[t] \in Ops /\ Held(pc[t], op[t], bodies, trees)
    BY HotThread DEF TypeOK
  <2>2. DOMAIN trees \subseteq DOMAIN trees'
    BY <1>8, <1>9 DEF Widened
  <2>3. Held(pc[t], op[t], bodies', trees')
    BY <1>6, <2>1, <2>2, HeldStays
  <2> QED BY <1>1, <2>3
<1>13. Exclusive'
  BY <1>1 DEF LInv, Exclusive
<1>14. ASSUME NEW u \in Threads PROVE VictimChosen(u)'
  <2>1. pc'[u] = pc[u] /\ op'[u] = op[u] /\ VictimChosen(u)
    BY <1>1 DEF LInv, VictimsChosen
  <2>2. Entering(u) => Leaf(u)' = Leaf(u)
    <3> SUFFICES ASSUME Entering(u) PROVE Leaf(u)' = Leaf(u)
      OBVIOUS
    <3>1. op[u].shard \in DOMAIN trees /\ Keys(op[u].line) \in Paths
      BY HotLeaf DEF Entering, InShard
    <3>2. op[u].shard # ref
      BY <1>8 DEF ShardWritable, Entering, Writing
    <3> QED BY <1>9, <2>1, <3>1, <3>2 DEF Leaf
  <2> QED BY <2>1, <2>2 DEF VictimChosen, Entering
<1>15. UInv' /\ LInv'
  BY <1>6, <1>9, <1>11, <1>12, <1>13, <1>14 DEF UInv, LInv, VictimsChosen
<1>16. admin'.rows = Tail(admin.rows) /\ admin'.at = admin.at
       /\ admin' = [at |-> admin'.at, due |-> admin'.due,
                    passed |-> admin'.passed, rows |-> admin'.rows]
  BY <1>1 DEF AdminTyped
<1>17. AdminTyped'
  <2>1. Tail(admin.rows) \in Seq(Rows)
    BY <1>1, RowsLast DEF AdminHeld, RowsLasting
  <2> QED BY <1>1, <1>16, <2>1 DEF AdminTyped
<1> QED BY <1>1, <1>15, <1>16, <1>17, HotAdmin

-----------------------------------------------------------------------------
(* All steps, whether or not a load is running.                            *)

\* The miner before the first load.
LEMMA FirstStays ==
  ASSUME HotInv, [Next]_vars, ~Starting', UNCHANGED <<loads, reloads>>
  PROVE  FirstMiner'
<1>1. loads = 0 /\ reloads = 0 => IInv'
  BY NextIInv DEF HotInv, FirstMiner
<1> QED BY <1>1 DEF HotInv, FirstMiner

\* A call is served, also under a load.
LEMMA HotServe ==
  ASSUME HotInv, Serve
  PROVE  HotInv'
<1>1. PICK t \in Threads : Call(t) \/ Step(t)
  BY DEF Serve
<1>2. UNCHANGED <<saved, admin, loads, reloads>>
  BY DEF Serve, store
<1>3. UInv' /\ LInv'
  BY <1>1, HotServed, HotLeaves DEF HotInv
<1>4. AdminHeld'
  BY <1>2 DEF HotInv, AdminHeld, AdminTyped
<1>5. FirstMiner'
  <2>1. loads = 0 /\ reloads = 0 => ~Starting'
    BY <1>2 DEF HotInv, FirstMiner, Starting
  <2>2. loads = 0 /\ reloads = 0 => IInv'
    <3>1. Next
      BY <1>1 DEF Next
    <3> QED BY <3>1, NextIInv DEF HotInv, FirstMiner
  <2> QED BY <1>2, <2>1, <2>2 DEF HotInv, FirstMiner
<1> QED BY <1>3, <1>4, <1>5 DEF HotInv

\* A load takes one step, under the calls or not.
LEMMA HotLoadSteps ==
  ASSUME HotInv, LoadSteps
  PROVE  HotInv'
<1>1. UInv' /\ LInv' /\ AdminHeld'
  BY HotLoad, HotClearShards, HotClearMap, HotRewind, HotReplay DEF HotInv, LoadSteps
<1>2. Starting /\ UNCHANGED <<loads, reloads>>
  <2>1. PICK at \in {"load", "shards", "clear", "rewind", "replay", "loaded"} :
          admin.at = at /\ UNCHANGED <<loads, reloads>>
    BY DEF LoadSteps, Load, ClearShards, ClearMap, Rewind, Replay, EndLoad, Loaded, At
  <2> QED BY <2>1 DEF Starting
<1>3. FirstMiner'
  BY <1>2 DEF HotInv, FirstMiner
<1> QED BY <1>1, <1>3 DEF HotInv

\* A new miner and an empty backend.
LEMMA HotInit == RestoreInit => HotInv
<1> SUFFICES ASSUME RestoreInit PROVE HotInv
  OBVIOUS
<1>1. Init /\ RInv /\ IInv /\ admin = Resting /\ saved = NoSnapshot /\ loads = 0 /\ reloads = 0
  BY InitRInv, InitIInv DEF RestoreInit
<1>2. Typed /\ AdminTyped
  BY <1>1 DEF RInv
<1>3. Still /\ NoLeaves /\ NoClusters
  BY <1>1 DEF Init, Still, Quiet, NoOp, NoLeaves, NoClusters
<1>4. UInv /\ LInv
  BY <1>2, <1>3, HotEmpty
<1>5. admin.rows = <<>> /\ saved.rows = <<>> /\ saved.counter = 0 /\ ~Starting
  BY <1>1 DEF Resting, NoSnapshot, Starting
<1>6. AdminHeld
  BY <1>2, <1>5, RowsLast DEF AdminHeld
<1> QED BY <1>1, <1>4, <1>5, <1>6 DEF HotInv, FirstMiner

\* Every step keeps the invariant.
LEMMA HotNext ==
  ASSUME HotInv, [RestoreNext]_allVars
  PROVE  HotInv'
<1>1. CASE Serve
  BY <1>1, HotServe
<1>2. CASE Operate
  <2>1. UInv' /\ LInv' /\ AdminHeld' /\ ~Starting' /\ UNCHANGED <<vars, loads, reloads>>
    BY <1>2, HotOperate DEF HotInv
  <2>2. FirstMiner'
    BY <2>1, FirstStays
  <2> QED BY <2>1, <2>2 DEF HotInv
<1>3. CASE LoadSteps
  BY <1>3, HotLoadSteps
<1>4. CASE Restart
  <2>1. UInv' /\ LInv' /\ AdminHeld'
    BY <1>4, HotRestart DEF HotInv
  <2>2. loads' = loads + 1 /\ reloads' = reloads
    BY <1>4 DEF Restart
  <2>3. FirstMiner'
    BY <2>2 DEF HotInv, FirstMiner
  <2> QED BY <2>1, <2>3 DEF HotInv
<1>5. CASE Reload
  <2>1. UInv' /\ LInv' /\ AdminHeld'
    BY <1>5, HotLoad DEF HotInv
  <2>2. loads' = loads /\ reloads' = reloads + 1
    BY <1>5 DEF Reload
  <2>3. FirstMiner'
    BY <2>2 DEF HotInv, FirstMiner
  <2> QED BY <2>1, <2>3 DEF HotInv
<1>6. CASE UNCHANGED allVars
  <2>1. UNCHANGED <<vars, saved, admin, loads, reloads>>
    BY <1>6 DEF allVars, store
  <2>2. UInv' /\ LInv'
    BY <2>1, HotKept DEF HotInv
  <2>3. AdminHeld'
    BY <2>1 DEF HotInv, AdminHeld, AdminTyped
  <2>4. FirstMiner'
    <3>1. loads = 0 /\ reloads = 0 => ~Starting'
      BY <2>1 DEF HotInv, FirstMiner, Starting
    <3>2. loads = 0 /\ reloads = 0 => IInv'
      BY <2>1, NextIInv DEF HotInv, FirstMiner
    <3> QED BY <2>1, <3>1, <3>2 DEF HotInv, FirstMiner
  <2> QED BY <2>2, <2>3, <2>4 DEF HotInv
<1> QED BY <1>1, <1>2, <1>3, <1>4, <1>5, <1>6 DEF RestoreNext

-----------------------------------------------------------------------------
(* The theorems.                                                           *)

\* Whether or not callers are served during a load, and whatever stops the
\* process: bodies, leaves and threads stay such that no call meets a body or a
\* leaf that is not there.
THEOREM HotInductive == RestoreSpec => []HotInv
<1>1. RestoreInit => HotInv
  BY HotInit
<1>2. HotInv /\ [RestoreNext]_allVars => HotInv'
  BY HotNext
<1> QED BY <1>1, <1>2, PTL DEF RestoreSpec

\* The table names shards and the map bodies that are there, also while a load
\* takes both away under a call that goes on with what it has.
THEOREM TypeCorrectUnderLoads == RestoreSpec => []TypeOK
<1>1. HotInv => TypeOK
  BY DEF HotInv, UInv
<1> QED BY <1>1, HotInductive, PTL

\* A match is applied only to a template that the line is similar to, also when
\* a load clears and refills the miner between the scan that found the cluster
\* and the lock of its body: the body that the thread has a reference of only
\* becomes more general.
THEOREM MatchesStayApplicable ==
  ASSUME ThNum # 0
  PROVE  RestoreSpec => []MatchStaysApplicable
<1>1. HotInv => MatchStaysApplicable
  <2> SUFFICES ASSUME HotInv, NEW t \in Threads,
                      \/ pc[t] \in {"hit", "touch", "first", "last", "decide", "upgrade"}
                      \/ pc[t] = "params" /\ loads = 0 /\ reloads = 0
               PROVE  /\ Len(bodies[op[t].best.ref].tokens) = Len(op[t].line)
                      /\ Matches(bodies[op[t].best.ref].tokens, op[t].line)
    BY DEF MatchStaysApplicable
  <2>1. CASE pc[t] \in {"hit", "touch", "first", "last", "decide", "upgrade"}
    <3>1. Held(pc[t], op[t], bodies, trees)
      BY DEF HotInv, UInv, ThreadsHeld
    <3> QED BY <2>1, <3>1 DEF Held, Changing, Applying, Apt
  <2>2. CASE pc[t] = "params" /\ loads = 0 /\ reloads = 0
    <3>1. ThreadSound(t)
      BY <2>2 DEF HotInv, FirstMiner, IInv, ThreadsSound
    <3> QED BY <2>2, <3>1 DEF ThreadSound, Applying, Similar
  <2> QED BY <2>1, <2>2
<1> QED BY <1>1, HotInductive, PTL

\* Every line that was counted on a cluster is one that its template stands for,
\* through saves, stops and loads, under the calls or not.
THEOREM LinesStayCovered ==
  ASSUME ThNum # 0
  PROVE  RestoreSpec => []AbsorbedCovered
<1>1. HotInv => AbsorbedCovered
  BY DEF HotInv, UInv, Absorbed
<1> QED BY <1>1, HotInductive, PTL

\* No leaf outgrows max_clusters_per_leaf, whoever fills it: a call that was
\* under way when its shard left the table, a later one, or the load.
THEOREM LeavesFitUnderLoads == RestoreSpec => []LeafWithinCap
<1>1. HotInv => LeafWithinCap
  BY DEF HotInv, LInv
<1> QED BY <1>1, HotInductive, PTL
=============================================================================
