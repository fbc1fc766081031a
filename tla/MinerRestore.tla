---------------------------- MODULE MinerRestore ----------------------------
(***************************************************************************)
(* The miner with its snapshots (save_state and load_state): while threads *)
(* call it, an operator saves its state; the process may stop at any step  *)
(* and the next one loads what was saved last; and an operator may load    *)
(* the snapshot into a miner that has been used, between the calls or, if  *)
(* Hot, in the middle of them.                                             *)
(*                                                                         *)
(* A snapshot is taken cluster by cluster from a map that changes under    *)
(* the iterator; it records what each body is when it is visited.          *)
(***************************************************************************)
EXTENDS Miner, SequencesExt

CONSTANTS
  MaxSaves,  \* bound: how many snapshots are started
  MaxLoads,  \* bound: how many restarts
  MaxReloads, \* bound: how many loads into a miner in use
  Hot        \* whether callers are served during a load

ASSUME RestoreAssumption ==
  /\ MaxSaves \in Nat
  /\ MaxLoads \in Nat
  /\ MaxReloads \in Nat
  /\ Hot \in BOOLEAN

VARIABLES
  saved,   \* the snapshot that the backend holds, or NoSnapshot
  admin,   \* where the operator is, and its local variables
  saves, loads, reloads,
  latest   \* the id that the last add to return in this process returned

store    == <<saved, admin, saves, loads, reloads>>
allVars  == <<vars, store, latest>>

NoSnapshot == [counter |-> 0, rows |-> <<>>, held |-> FALSE]
Resting    == [at |-> "rest", due |-> {}, passed |-> {}, rows |-> <<>>]

At(where) == admin.at = where

\* No call is running.
Quiet == \A t \in Threads : pc[t] = "idle"

-----------------------------------------------------------------------------
(* snapshot.                                                               *)

\* ClusterSnapshot: all of a body but its recency.  What was counted on it
\* goes along for the properties.
Row(ref) ==
  [id |-> bodies[ref].id, tokens |-> bodies[ref].tokens, size |-> bodies[ref].size,
   first |-> bodies[ref].first, last |-> bodies[ref].last,
   members |-> bodies[ref].members, past |-> history[ref]]

StartSnapshot ==
  /\ At("rest")
  /\ saves < MaxSaves
  /\ saves' = saves + 1
  /\ admin' = [Resting EXCEPT !.at = "collect", !.due = DOMAIN clusters]
  /\ UNCHANGED <<vars, saved, loads, reloads, latest>>

\* The iterator visits a cluster, in no particular order: all that were in the
\* map when it started and still are, and possibly some that came later.
Collect ==
  /\ At("collect")
  /\ \E id \in DOMAIN clusters \ admin.passed :
       admin' = [admin EXCEPT !.passed = @ \cup {id},
                              !.rows = Append(@, Row(clusters[id]))]
  /\ UNCHANGED <<vars, saved, saves, loads, reloads, latest>>

\* Mutant: the counter is read before the clusters are visited.
MutantEndSnapshot ==
  /\ At("collect")
  /\ admin.due \cap DOMAIN clusters \subseteq admin.passed
  /\ saved' = [counter |-> Cardinality(admin.due), rows |-> admin.rows, held |-> TRUE]
  /\ admin' = Resting
  /\ UNCHANGED <<vars, saves, loads, reloads, latest>>

\* The counter is loaded after the last visit; the backend takes the bytes.
EndSnapshot ==
  /\ At("collect")
  /\ admin.due \cap DOMAIN clusters \subseteq admin.passed
  /\ saved' = [counter |-> counter, rows |-> admin.rows, held |-> TRUE]
  /\ admin' = Resting
  /\ UNCHANGED <<vars, saves, loads, reloads, latest>>

-----------------------------------------------------------------------------
(* A restart, and load_state.                                              *)

\* The process stops at any step; Miner::from_options in the next one.
Restart ==
  /\ loads < MaxLoads
  /\ loads' = loads + 1
  /\ shards' = [c \in {} |-> 0] /\ trees' = <<>>
  /\ clusters' = [id \in {} |-> 0] /\ bodies' = <<>> /\ history' = <<>>
  /\ counter' = 0 /\ tick' = 0
  /\ pc' = [t \in Threads |-> "idle"]
  /\ op' = [t \in Threads |-> NoOp]
  /\ answer' = [t \in Threads |-> NoAnswer]
  /\ admin' = [Resting EXCEPT !.at = "load"]
  /\ latest' = 0
  /\ UNCHANGED <<calls, saved, saves, reloads>>

\* load_state is called on a miner that has been used.
Reload ==
  /\ At("rest")
  /\ saved.held
  /\ reloads < MaxReloads
  /\ Hot \/ Quiet
  /\ reloads' = reloads + 1
  /\ admin' = [Resting EXCEPT !.at = "load"]
  /\ UNCHANGED <<vars, saved, saves, loads, latest>>

\* The backend holds nothing (the miner is left unchanged), or its bytes
\* decode, and restore begins with shards.clear().
Load ==
  /\ At("load")
  /\ admin' = IF saved.held
              THEN [admin EXCEPT !.at = "shards", !.due = DOMAIN shards]
              ELSE Resting
  /\ UNCHANGED <<vars, saved, saves, loads, reloads, latest>>

\* clear() of a concurrent map empties it part by part: what is put into a
\* part that was passed stays.  With the last Arc of the shards the heap loses
\* them.
ClearShards ==
  /\ At("shards")
  /\ \/ \E count \in DOMAIN shards \ admin.passed :
          /\ shards' = Without(shards, count)
          /\ admin' = [admin EXCEPT !.passed = @ \cup {count}]
          /\ UNCHANGED trees
     \/ /\ admin.due \cap DOMAIN shards \subseteq admin.passed
        /\ admin' = [Resting EXCEPT !.at = "clear", !.due = DOMAIN clusters]
        /\ trees' = IF Quiet /\ DOMAIN shards = {} THEN <<>> ELSE trees
        /\ UNCHANGED shards
  /\ UNCHANGED <<clusters, bodies, clocks, calls, local, history,
                 saved, saves, loads, reloads, latest>>

\* Mutant: only the shards are cleared.
MutantClearMap ==
  /\ At("clear")
  /\ admin' = [Resting EXCEPT !.at = "rewind"]
  /\ UNCHANGED <<vars, saved, saves, loads, reloads, latest>>

\* clusters_by_id.clear(), likewise.
ClearMap ==
  /\ At("clear")
  /\ \/ \E id \in DOMAIN clusters \ admin.passed :
          /\ clusters' = Without(clusters, id)
          /\ admin' = [admin EXCEPT !.passed = @ \cup {id}]
          /\ UNCHANGED <<bodies, history>>
     \/ /\ admin.due \cap DOMAIN clusters \subseteq admin.passed
        /\ admin' = [Resting EXCEPT !.at = "rewind"]
        /\ IF Quiet /\ DOMAIN clusters = {} THEN bodies' = <<>> /\ history' = <<>>
                                            ELSE UNCHANGED <<bodies, history>>
        /\ UNCHANGED clusters
  /\ UNCHANGED <<shards, trees, clocks, calls, local,
                 saved, saves, loads, reloads, latest>>

\* Mutant: ids start again.
MutantRewind ==
  /\ At("rewind")
  /\ admin' = [admin EXCEPT !.at = "replay", !.rows = saved.rows]
  /\ UNCHANGED <<vars, saved, saves, loads, reloads, latest>>

\* counter.store(body.counter)
Rewind ==
  /\ At("rewind")
  /\ counter' = saved.counter
  /\ admin' = [admin EXCEPT !.at = "replay", !.rows = saved.rows]
  /\ UNCHANGED <<index, bodies, tick, calls, local, history,
                 saved, saves, loads, reloads, latest>>

\* Mutant: a restored cluster starts counting anew.
MutantRestored(row) ==
  [id |-> row.id, tokens |-> row.tokens, size |-> 1, last_used |-> 0,
   first |-> row.first, last |-> row.last, members |-> row.members]

\* The ClusterInner of a row: its recency is 0.
Restored(row) ==
  [id |-> row.id, tokens |-> row.tokens, size |-> row.size, last_used |-> 0,
   first |-> row.first, last |-> row.last, members |-> row.members]

\* Mutant: every leading token is taken for a parameter.
MutantPlace(tokens) == [i \in 1..PathLen(Len(tokens)) |-> Wildcard]

\* The path that insert_existing descends.
Place(tokens) == Keys(tokens)

\* Mutant: only an add evicts.
MutantVictim(ids) == 0

\* evict_if_full on ids, all at once: the first of least recency.
Victim(ids) ==
  LET oldest == {i \in DOMAIN ids : \A j \in DOMAIN ids :
                   Recency(ids[i]) <= Recency(ids[j])}
  IN  IF IsFull(ids) THEN ids[Min(oldest)] ELSE 0

\* insert_existing of the next row, under the shard's write guard.
Replay ==
  /\ At("replay")
  /\ admin.rows # <<>>
  /\ LET row   == Head(admin.rows)
         count == Len(row.tokens)
         new   == count \notin DOMAIN shards
         ref   == IF new THEN Len(trees) + 1 ELSE shards[count]
         grown == IF new THEN Append(trees, [p \in Paths |-> <<>>]) ELSE trees
         place == Place(row.tokens)
         gone  == Victim(grown[ref][place])
     IN  /\ ShardWritable(ref)
         /\ shards' = Put(shards, count, ref)
         /\ trees' = [grown EXCEPT ![ref][place] =
                        Append(SwapRemove(@, gone), row.id)]
         /\ bodies' = Append(bodies, Restored(row))
         /\ history' = Append(history, row.past)
         /\ clusters' = Put(Without(clusters, gone), row.id, Len(bodies) + 1)
  /\ admin' = [admin EXCEPT !.rows = Tail(@)]
  /\ UNCHANGED <<clocks, calls, local, saved, saves, loads, reloads, latest>>

EndLoad ==
  /\ At("replay")
  /\ admin.rows = <<>>
  /\ admin' = [admin EXCEPT !.at = "loaded"]
  /\ UNCHANGED <<vars, saved, saves, loads, reloads, latest>>

\* load_state returns true.
Loaded ==
  /\ At("loaded")
  /\ admin' = Resting
  /\ UNCHANGED <<vars, saved, saves, loads, reloads, latest>>

-----------------------------------------------------------------------------
Starting == admin.at \notin {"rest", "collect"}

Counted == {"Created", "None", "TemplateChanged"}

\* A step of a caller.
Serve ==
  /\ Hot \/ ~Starting
  /\ \E t \in Threads :
       /\ Call(t) \/ Step(t)
       /\ latest' = IF answer'[t].update \in Counted THEN answer'[t].id ELSE latest
  /\ UNCHANGED store

Operate == StartSnapshot \/ Collect \/ EndSnapshot

LoadSteps == Load \/ ClearShards \/ ClearMap \/ Rewind \/ Replay \/ EndLoad \/ Loaded

RestoreInit ==
  /\ Init
  /\ saved = NoSnapshot
  /\ admin = Resting
  /\ saves = 0
  /\ loads = 0
  /\ reloads = 0
  /\ latest = 0

RestoreNext == Serve \/ Operate \/ LoadSteps \/ Restart \/ Reload

RestoreSpec == RestoreInit /\ [][RestoreNext]_allVars

-----------------------------------------------------------------------------
(* Properties.                                                             *)

\* A new cluster never takes the id of one that is in the map, whatever was
\* created while the snapshot was taken: the counter is read after the
\* clusters and restored before them.
FreshIds ==
  \A t \in Threads : pc[t] \in {"stamp", "publish"} => op[t].id \notin DOMAIN clusters

\* The rows of a snapshot that go to the leaf of a row.
Peers(row) ==
  {peer \in ToSet(saved.rows) : /\ Len(peer.tokens) = Len(row.tokens)
                                /\ Keys(peer.tokens) = Keys(row.tokens)}

\* Once loaded, the miner holds the clusters of the snapshot and no others,
\* with all a caller can see of them.  Only of a leaf that was snapshot with
\* more clusters than fit (one was evicted under the iterator, after its
\* visit) some are missing.
RestoredAsSaved ==
  At("loaded") =>
    /\ DOMAIN clusters \subseteq {row.id : row \in ToSet(saved.rows)}
    /\ \A row \in ToSet(saved.rows) :
         Cardinality(Peers(row)) <= Cap =>
           row.id \in DOMAIN clusters /\ Row(clusters[row.id]) = row

\* Once loaded, a line that was counted on a cluster of the snapshot is
\* matched again: the leaf that it descends to holds a similar cluster.
SavedLinesStillMatch ==
  At("loaded") =>
    \A row \in ToSet(saved.rows) : Cardinality(Peers(row)) <= Cap =>
      \A line \in row.past.lines :
        \E i \in DOMAIN trees[shards[Len(line)]][Keys(line)] :
          LET id == trees[shards[Len(line)]][Keys(line)][i]
          IN  Matches(bodies[clusters[id]].tokens, line)

\* Whenever the shards and the map are not being cleared, whatever the miner
\* held before a load: the map is the leaves.
MapIsTheLeavesAgain == admin.at \notin {"shards", "clear"} => MapIsTheLeaves

\* The candidate of a match is still similar when the match is applied, even
\* if a load has replaced the whole index meanwhile.  (During or after a load,
\* the first one included, extract may look up another cluster by the same id.)
\* It needs a threshold above 0, which a template of another length, found
\* under an id that the load gave out again, does not reach.
MatchStaysApplicable ==
  \A t \in Threads :
    \/ pc[t] \in {"hit", "touch", "first", "last", "decide", "upgrade"}
    \/ pc[t] = "params" /\ loads = 0 /\ reloads = 0
    => LET tmpl == bodies[op[t].best.ref].tokens
       IN  Len(tmpl) = Len(op[t].line) /\ Matches(tmpl, op[t].line)

-----------------------------------------------------------------------------
(* What comments of the code say and a restart refutes.                    *)

\* options.rs on max_clusters_per_leaf: clusters are kept "before LRU
\* eviction", whose order cluster.rs calls "precise".  With one caller and
\* leaves of two clusters or more, the one it used last is never evicted.
LatestIsKept ==
  [][admin.at = "rest" /\ admin'.at = "rest" /\ latest \in DOMAIN clusters
       => latest \in DOMAIN clusters']_allVars
=============================================================================
