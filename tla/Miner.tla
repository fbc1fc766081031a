------------------------------- MODULE Miner -------------------------------
(***************************************************************************)
(* The thread-safe miner (miner.rs, tree.rs, cluster.rs): any number of    *)
(* threads call add, match_only, extract and cluster on one Miner.         *)
(*                                                                         *)
(* An action is one atomic step of one thread: an operation of a           *)
(* concurrent map, a fetch-and-add, a visit of one cluster, or a critical  *)
(* section whose data its lock protects.  Locks are not variables: a       *)
(* thread holds the lock its program counter says it is holding.           *)
(*                                                                         *)
(* Shards, trees and bodies live on a heap (the Arcs of the code): a       *)
(* reference is an index of trees or of bodies, 0 is no reference, and a   *)
(* body outlives its entry of the map while a thread still has it.         *)
(***************************************************************************)
EXTENDS Templates, Functions, FiniteSetsExt

CONSTANTS
  Threads,
  Lines,       \* the lines callers bring, as token sequences
  Members,     \* member labels of add_with_member
  Events,      \* event timestamps of add_at
  EventUnset,  \* EVENT_UNSET = u64::MAX, the sentinel of event_first_ms
  None,        \* an absent member or event timestamp
  Kinds,       \* the calls made, of {"add", "match", "extract", "get"}
  Cap,         \* options.max_clusters_per_leaf
  MaxCalls     \* bound: how many calls of each kind

ASSUME MinerAssumption ==
  /\ Lines \subseteq Line
  /\ EventUnset \in Nat
  /\ Events \subseteq 0..EventUnset
  /\ None \notin Nat
  /\ None \notin Members
  /\ Kinds \subseteq {"add", "match", "extract", "get"}
  /\ Cap \in Nat \ {0}
  /\ MaxCalls \in [Kinds -> Nat]

VARIABLES
  shards,    \* self.shards: token count -> reference of the shard
  trees,     \* the shards: for each path, the ids of the leaf bucket
  clusters,  \* self.clusters_by_id: id -> reference of the body
  bodies,    \* the ClusterInner values
  counter,   \* self.counter
  tick,      \* self.tick
  calls,     \* how many calls of each kind were made
  pc, op,    \* where each thread is in its call, and its local variables
  answer,    \* what its last call returned
  history    \* of each body: its seed line, the lines and event timestamps
             \* counted on it, the changes reported of its template

index  == <<shards, trees, clusters>>
clocks == <<counter, tick>>
local  == <<pc, op, answer>>
vars   == <<shards, trees, clusters, bodies, counter, tick, calls,
            pc, op, answer, history>>

-----------------------------------------------------------------------------
(* Data.                                                                   *)

\* A path with the keys at some positions open.
WithOpen(keys, open) == [i \in DOMAIN keys |-> IF i \in open THEN Wildcard ELSE keys[i]]

\* The paths of the lines, and those of templates that have lost tokens of
\* their prefix to the wildcard: a match that was found before a load may be
\* applied to a template of another path that has got the same id.
Paths == {WithOpen(Keys(l), open) : l \in Lines, open \in SUBSET (1..PrefixLen)}

Body == [id: Nat, tokens: Line, size: Nat, last_used: Nat,
         first: Nat, last: Nat, members: SUBSET Members]

\* No candidate yet in best_match: any similarity is greater.
NoBest   == [id |-> 0, ref |-> 0, score |-> -1]
NoVictim == [id |-> 0, recency |-> 0]

NoOp == [kind |-> "none", line |-> <<>>, member |-> None, ms |-> None,
         shard |-> 0, todo |-> <<>>, best |-> NoBest, victim |-> NoVictim,
         id |-> 0, tick |-> 0, needs |-> FALSE]

Request(kind, line, member, ms) ==
  [NoOp EXCEPT !.kind = kind, !.line = line, !.member = member, !.ms = ms]

\* AddResult, Option<ClusterId> and the event window of a Cluster in one.
Answer(id, update) ==
  [id |-> id, update |-> update, first |-> None, last |-> None]

NoAnswer == Answer(0, "nothing")

Put(f, k, v)  == [x \in DOMAIN f \cup {k} |-> IF x = k THEN v ELSE f[x]]
Without(f, k) == [x \in DOMAIN f \ {k} |-> f[x]]

\* LeafBucket::remove: the last id takes the place of the removed one.
SwapRemove(ids, id) ==
  IF \A i \in DOMAIN ids : ids[i] # id THEN ids
  ELSE LET pos == CHOOSE i \in DOMAIN ids :
                    ids[i] = id /\ \A j \in 1..(i - 1) : ids[j] # id
       IN  [i \in 1..(Len(ids) - 1) |-> IF i = pos THEN ids[Len(ids)] ELSE ids[i]]

-----------------------------------------------------------------------------
(* Locks, from the program counters.                                       *)

\* The shard's write guard is held from the re-scan to the end of the call.
Writing == {"rescan", "create", "stamp", "publish", "evict", "link"}

\* The body's read guard is held through a hit and through to_public.
Reading == {"touch", "first", "last", "decide", "show"}

\* Mutant: a writer's own read guard is still alive when it asks to write.
MutantShardWritable(s) ==
  \A t \in Threads : op[t].shard = s => pc[t] \notin Writing \cup {"scan", "write"}

ShardReadable(s) == \A t \in Threads : op[t].shard = s => pc[t] \notin Writing
ShardWritable(s) ==
  \A t \in Threads : op[t].shard = s => pc[t] \notin Writing \cup {"scan"}
BodyWritable(b) == \A t \in Threads : op[t].best.ref = b => pc[t] \notin Reading

-----------------------------------------------------------------------------
(* Steps shared by the calls.                                              *)

Goto(t, where) == pc' = [pc EXCEPT ![t] = where]

Return(t, result) ==
  /\ Goto(t, "idle")
  /\ op' = [op EXCEPT ![t] = NoOp]
  /\ answer' = [answer EXCEPT ![t] = result]

\* A caller makes a call; tokens and keys of the line are computed locally.
Call(t) ==
  /\ pc[t] = "idle"
  /\ \E kind \in Kinds :
       /\ calls[kind] < MaxCalls[kind]
       /\ calls' = [calls EXCEPT ![kind] = @ + 1]
       /\ \/ /\ kind = "add"
             /\ \E l \in Lines, m \in Members \cup {None}, e \in Events \cup {None} :
                  op' = [op EXCEPT ![t] = Request(kind, l, m, e)]
             /\ Goto(t, "shard")
          \/ /\ kind \in {"match", "extract"}
             /\ \E l \in Lines : op' = [op EXCEPT ![t] = Request(kind, l, None, None)]
             /\ Goto(t, "shard")
          \/ /\ kind = "get"
             /\ \E id \in 1..counter :
                  op' = [op EXCEPT ![t] =
                           [NoOp EXCEPT !.kind = kind, !.best.id = id]]
             /\ Goto(t, "lookup")
  /\ answer' = [answer EXCEPT ![t] = NoAnswer]
  /\ UNCHANGED <<index, bodies, clocks, history>>

\* self.shards.get(&count), by shard_for and by match_only.
GetShard(t) ==
  /\ pc[t] = "shard"
  /\ LET count == Len(op[t].line) IN
       IF count \in DOMAIN shards
       THEN /\ op' = [op EXCEPT ![t].shard = shards[count]]
            /\ Goto(t, "read")
            /\ UNCHANGED answer
       ELSE IF op[t].kind = "add"
       THEN Goto(t, "enter") /\ UNCHANGED <<op, answer>>
       ELSE Return(t, Answer(0, "miss"))
  /\ UNCHANGED <<index, bodies, clocks, calls, history>>

\* shard_for: entry(count).or_insert_with(..), atomic per entry.
EnterShard(t) ==
  /\ pc[t] = "enter"
  /\ LET count == Len(op[t].line) IN
       IF count \in DOMAIN shards
       THEN /\ op' = [op EXCEPT ![t].shard = shards[count]]
            /\ UNCHANGED <<shards, trees>>
       ELSE /\ trees' = Append(trees, [p \in Paths |-> <<>>])
            /\ shards' = Put(shards, count, Len(trees) + 1)
            /\ op' = [op EXCEPT ![t].shard = Len(trees) + 1]
  /\ Goto(t, "read")
  /\ UNCHANGED <<clusters, bodies, clocks, calls, answer, history>>

\* The ids of the leaf of a thread's line; none if descend finds no leaf.
Leaf(t) == trees[op[t].shard][Keys(op[t].line)]

\* shard.read(), descend, and the start of best_match.
ReadLeaf(t) ==
  /\ pc[t] = "read"
  /\ ShardReadable(op[t].shard)
  /\ op' = [op EXCEPT ![t].todo = Leaf(t)]
  /\ Goto(t, "scan")
  /\ UNCHANGED <<index, bodies, clocks, calls, answer, history>>

\* What the loop of best_match keeps after a visit of id: a strictly greater
\* similarity wins, and an id that is not in the map is passed over.
Better(best, id, line) ==
  IF id \notin DOMAIN clusters THEN best
  ELSE LET ref == clusters[id]
           sim == Score(bodies[ref].tokens, line)
       IN  IF sim > best.score THEN [id |-> id, ref |-> ref, score |-> sim] ELSE best

\* best_match visits the next id.
Visit(t) ==
  /\ pc[t] \in {"scan", "rescan"}
  /\ op[t].todo # <<>>
  /\ op' = [op EXCEPT ![t].todo = Tail(@),
                      ![t].best = Better(@, Head(op[t].todo), op[t].line)]
  /\ UNCHANGED <<index, bodies, clocks, calls, pc, answer, history>>

\* best_match found a cluster at or above the threshold.
Found(t) == op[t].best.ref # 0 /\ Accepts(op[t].best.score, op[t].line)

\* End of the scan under the read guard, which is dropped.
EndScan(t) ==
  /\ pc[t] = "scan"
  /\ op[t].todo = <<>>
  /\ CASE op[t].kind = "add" ->
            /\ Goto(t, IF Found(t) THEN "hit" ELSE "write")
            /\ UNCHANGED <<op, answer>>
       [] op[t].kind = "extract" /\ Found(t) ->
            Goto(t, "lookup") /\ UNCHANGED <<op, answer>>
       [] OTHER ->
            Return(t, IF Found(t) THEN Answer(op[t].best.id, "match")
                                  ELSE Answer(0, "miss"))
  /\ UNCHANGED <<index, bodies, clocks, calls, history>>

-----------------------------------------------------------------------------
(* add: a cluster is created under the shard's write guard.                *)

\* Mutant: the leaf is not scanned again under the write guard.
MutantNoRescan(t) ==
  /\ pc[t] = "write"
  /\ ShardWritable(op[t].shard)
  /\ op' = [op EXCEPT ![t].best = NoBest]
  /\ Goto(t, "create")
  /\ UNCHANGED <<index, bodies, clocks, calls, answer, history>>

\* shard.write(), descend_or_create, and the start of the second best_match.
WriteLeaf(t) ==
  /\ pc[t] = "write"
  /\ ShardWritable(op[t].shard)
  /\ op' = [op EXCEPT ![t].todo = Leaf(t), ![t].best = NoBest]
  /\ Goto(t, "rescan")
  /\ UNCHANGED <<index, bodies, clocks, calls, answer, history>>

\* Mutant: a match of the re-scan is returned without being applied.
MutantRescanReturns(t) ==
  /\ pc[t] = "rescan"
  /\ op[t].todo = <<>>
  /\ IF Found(t) THEN Return(t, Answer(op[t].best.id, "None"))
     ELSE Goto(t, "create") /\ UNCHANGED <<op, answer>>
  /\ UNCHANGED <<index, bodies, clocks, calls, history>>

\* A match is applied after drop(guard); without one the guard is kept.
EndRescan(t) ==
  /\ pc[t] = "rescan"
  /\ op[t].todo = <<>>
  /\ Goto(t, IF Found(t) THEN "hit" ELSE "create")
  /\ UNCHANGED <<index, bodies, clocks, calls, op, answer, history>>

\* counter.fetch_add(1) + 1
NewId(t) ==
  /\ pc[t] = "create"
  /\ counter' = counter + 1
  /\ op' = [op EXCEPT ![t].id = counter + 1]
  /\ Goto(t, "stamp")
  /\ UNCHANGED <<index, bodies, tick, calls, answer, history>>

\* next_tick() for the body that is being built.
Stamp(t) ==
  /\ pc[t] = "stamp"
  /\ tick' = tick + 1
  /\ op' = [op EXCEPT ![t].tick = tick]
  /\ Goto(t, "publish")
  /\ UNCHANGED <<index, bodies, counter, calls, answer, history>>

Unset(ms) == ms = None

\* Mutant: an absent member is recorded like a label.
MutantMember(o) ==
  [id |-> o.id, tokens |-> o.line, size |-> 1, last_used |-> o.tick,
   first |-> IF Unset(o.ms) THEN EventUnset ELSE o.ms,
   last |-> IF Unset(o.ms) THEN 0 ELSE o.ms,
   members |-> {o.member}]

NewBody(o) ==
  [id |-> o.id, tokens |-> o.line, size |-> 1, last_used |-> o.tick,
   first |-> IF Unset(o.ms) THEN EventUnset ELSE o.ms,
   last |-> IF Unset(o.ms) THEN 0 ELSE o.ms,
   members |-> {o.member} \ {None}]

\* Mutant: off by one.
MutantIsFull(ids) == Len(ids) > Cap

\* LeafBucket::is_full
IsFull(ids) == Len(ids) >= Cap

\* clusters_by_id.insert, and is_full of the leaf.
Publish(t) ==
  /\ pc[t] = "publish"
  /\ bodies' = Append(bodies, NewBody(op[t]))
  /\ clusters' = Put(clusters, op[t].id, Len(bodies) + 1)
  /\ history' = Append(history,
       [seed |-> op[t].line, lines |-> {op[t].line},
        events |-> {op[t].ms} \ {None}, changes |-> 0])
  /\ IF IsFull(Leaf(t))
     THEN op' = [op EXCEPT ![t].todo = Leaf(t)] /\ Goto(t, "evict")
     ELSE UNCHANGED op /\ Goto(t, "link")
  /\ UNCHANGED <<shards, trees, clocks, calls, answer>>

\* The recency key of evict_if_full; 0 for an id that is not in the map.
Recency(id) == IF id \in DOMAIN clusters THEN bodies[clusters[id]].last_used ELSE 0

\* min_by_key keeps the first of equal minima.
Older(victim, id) ==
  IF victim.id = 0 \/ Recency(id) < victim.recency
  THEN [id |-> id, recency |-> Recency(id)]
  ELSE victim

\* evict_if_full reads the recency of the next id.
Consider(t) ==
  /\ pc[t] = "evict"
  /\ IF op[t].todo # <<>>
     THEN /\ op' = [op EXCEPT ![t].todo = Tail(@),
                              ![t].victim = Older(@, Head(op[t].todo))]
          /\ UNCHANGED pc
     ELSE Goto(t, "link") /\ UNCHANGED op
  /\ UNCHANGED <<index, bodies, clocks, calls, answer, history>>

\* Mutant: the victim leaves the leaf only.
MutantLinkKeepsEntry(t) ==
  /\ pc[t] = "link"
  /\ trees' = [trees EXCEPT ![op[t].shard][Keys(op[t].line)] =
                 Append(SwapRemove(@, op[t].victim.id), op[t].id)]
  /\ Return(t, Answer(op[t].id, "Created"))
  /\ UNCHANGED <<shards, clusters, bodies, clocks, calls, history>>

\* The victim, if any, leaves leaf and map; the new id enters the leaf.
Link(t) ==
  /\ pc[t] = "link"
  /\ trees' = [trees EXCEPT ![op[t].shard][Keys(op[t].line)] =
                 Append(SwapRemove(@, op[t].victim.id), op[t].id)]
  /\ clusters' = Without(clusters, op[t].victim.id)
  /\ Return(t, Answer(op[t].id, "Created"))
  /\ UNCHANGED <<shards, bodies, clocks, calls, history>>

-----------------------------------------------------------------------------
(* add: a match is applied to the body, whether or not it is still in the  *)
(* map (apply_match).                                                      *)

\* arc.read() and next_tick().
Hit(t) ==
  /\ pc[t] = "hit"
  /\ tick' = tick + 1
  /\ op' = [op EXCEPT ![t].tick = tick]
  /\ Goto(t, "touch")
  /\ UNCHANGED <<index, bodies, counter, calls, answer, history>>

\* Mutant: a hit is not a use.
MutantTouched(body, now) == [body EXCEPT !.size = @ + 1]

Touched(body, now) == [body EXCEPT !.size = @ + 1, !.last_used = now]

\* ClusterInner::touch
Touch(t) ==
  /\ pc[t] = "touch"
  /\ bodies' = [bodies EXCEPT ![op[t].best.ref] = Touched(@, op[t].tick)]
  /\ Goto(t, IF Unset(op[t].ms) THEN "decide" ELSE "first")
  /\ UNCHANGED <<index, clocks, calls, op, answer, history>>

\* observe_event, first half: event_first_ms.fetch_min.
ObserveFirst(t) ==
  /\ pc[t] = "first"
  /\ bodies' = [bodies EXCEPT ![op[t].best.ref].first =
                  IF op[t].ms < @ THEN op[t].ms ELSE @]
  /\ Goto(t, "last")
  /\ UNCHANGED <<index, clocks, calls, op, answer, history>>

\* Mutant: the larger end is stored without comparing.
MutantStoreLast(t) ==
  /\ pc[t] = "last"
  /\ bodies' = [bodies EXCEPT ![op[t].best.ref].last = op[t].ms]
  /\ Goto(t, "decide")
  /\ UNCHANGED <<index, clocks, calls, op, answer, history>>

\* observe_event, second half: event_last_ms.fetch_max.
ObserveLast(t) ==
  /\ pc[t] = "last"
  /\ bodies' = [bodies EXCEPT ![op[t].best.ref].last =
                  IF op[t].ms > @ THEN op[t].ms ELSE @]
  /\ Goto(t, "decide")
  /\ UNCHANGED <<index, clocks, calls, op, answer, history>>

Absorb(h, o, changed) ==
  [h EXCEPT !.lines = @ \cup {o.line},
            !.events = @ \cup ({o.ms} \ {None}),
            !.changes = IF changed THEN @ + 1 ELSE @]

\* would_generalize, and the end of the body's read guard.
Decide(t) ==
  LET ref   == op[t].best.ref
      needs == WouldGeneralize(bodies[ref].tokens, op[t].line)
  IN  /\ pc[t] = "decide"
      /\ IF needs \/ op[t].member # None
         THEN /\ op' = [op EXCEPT ![t].needs = needs]
              /\ Goto(t, "upgrade")
              /\ UNCHANGED <<answer, history>>
         ELSE /\ Return(t, Answer(op[t].best.id, "None"))
              /\ history' = [history EXCEPT ![ref] = Absorb(@, op[t], FALSE)]
      /\ UNCHANGED <<index, bodies, clocks, calls>>

\* Mutant: the first look at the body is reported.
MutantChanged(needs, tmpl, line) == needs

\* changed = needs_generalize && body.generalize(..): what the second look
\* at the body says, not the first one.
Changed(needs, tmpl, line) == needs /\ WouldGeneralize(tmpl, line)

NewTokens(needs, tmpl, line) == IF needs THEN Generalize(tmpl, line) ELSE tmpl

\* The critical section under arc.write().
Upgrade(t) ==
  LET ref     == op[t].best.ref
      tmpl    == bodies[ref].tokens
      changed == Changed(op[t].needs, tmpl, op[t].line)
  IN  /\ pc[t] = "upgrade"
      /\ BodyWritable(ref)
      /\ bodies' = [bodies EXCEPT
           ![ref].tokens = NewTokens(op[t].needs, tmpl, op[t].line),
           ![ref].members = @ \cup ({op[t].member} \ {None})]
      /\ history' = [history EXCEPT ![ref] = Absorb(@, op[t], changed)]
      /\ Return(t, Answer(op[t].best.id, IF changed THEN "TemplateChanged" ELSE "None"))
      /\ UNCHANGED <<index, clocks, calls>>

-----------------------------------------------------------------------------
(* The end of extract, and cluster(id).                                    *)

\* self.clusters_by_id.get(&id)?
Lookup(t) ==
  /\ pc[t] = "lookup"
  /\ IF op[t].best.id \in DOMAIN clusters
     THEN /\ op' = [op EXCEPT ![t].best.ref = clusters[op[t].best.id]]
          /\ Goto(t, IF op[t].kind = "get" THEN "load" ELSE "params")
          /\ UNCHANGED answer
     ELSE Return(t, Answer(0, "miss"))
  /\ UNCHANGED <<index, bodies, clocks, calls, history>>

\* extract collects the tokens at the wildcards of the template.
Params(t) ==
  /\ pc[t] = "params"
  /\ Return(t, Answer(op[t].best.id, "params"))
  /\ UNCHANGED <<index, bodies, clocks, calls, history>>

\* to_public loads event_first_ms; the sentinel answers for both ends.
ShowFirst(t) ==
  LET first == bodies[op[t].best.ref].first
  IN  /\ pc[t] = "load"
      /\ IF first = EventUnset
         THEN Return(t, Answer(op[t].best.id, "shown"))
         ELSE /\ op' = [op EXCEPT ![t].ms = first]
              /\ Goto(t, "show")
              /\ UNCHANGED answer
      /\ UNCHANGED <<index, bodies, clocks, calls, history>>

\* to_public loads event_last_ms.
ShowLast(t) ==
  /\ pc[t] = "show"
  /\ Return(t, [Answer(op[t].best.id, "shown") EXCEPT
                  !.first = op[t].ms,
                  !.last = bodies[op[t].best.ref].last])
  /\ UNCHANGED <<index, bodies, clocks, calls, history>>

-----------------------------------------------------------------------------
Init ==
  /\ shards = [c \in {} |-> 0]
  /\ trees = <<>>
  /\ clusters = [id \in {} |-> 0]
  /\ bodies = <<>>
  /\ counter = 0
  /\ tick = 0
  /\ calls = [k \in Kinds |-> 0]
  /\ pc = [t \in Threads |-> "idle"]
  /\ op = [t \in Threads |-> NoOp]
  /\ answer = [t \in Threads |-> NoAnswer]
  /\ history = <<>>

Step(t) ==
  \/ GetShard(t) \/ EnterShard(t) \/ ReadLeaf(t) \/ Visit(t) \/ EndScan(t)
  \/ WriteLeaf(t) \/ EndRescan(t) \/ NewId(t) \/ Stamp(t) \/ Publish(t)
  \/ Consider(t) \/ Link(t)
  \/ Hit(t) \/ Touch(t) \/ ObserveFirst(t) \/ ObserveLast(t) \/ Decide(t)
  \/ Upgrade(t)
  \/ Lookup(t) \/ Params(t) \/ ShowFirst(t) \/ ShowLast(t)

\* The callers have made their last call, and every call has returned.
Rest ==
  /\ \A t \in Threads : pc[t] = "idle"
  /\ \A kind \in Kinds : calls[kind] = MaxCalls[kind] \/ (kind = "get" /\ counter = 0)
  /\ UNCHANGED vars

Next == (\E t \in Threads : Call(t) \/ Step(t)) \/ Rest

\* A thread inside a call keeps running; nobody has to make a call.
Fairness == \A t \in Threads : WF_vars(Step(t))

Spec == Init /\ [][Next]_vars
FairSpec == Spec /\ Fairness

-----------------------------------------------------------------------------
(* Properties.                                                             *)

Places == Writing \cup Reading \cup
  {"idle", "shard", "enter", "read", "scan", "write", "hit", "upgrade",
   "lookup", "params", "load"}

Ops == [kind: Kinds \cup {"none"}, line: Line,
        member: Members \cup {None}, ms: Nat \cup {None},
        shard: Nat, todo: Seq(Nat),
        best: [id: Nat, ref: Nat, score: Nat \cup {-1}],
        victim: [id: Nat, recency: Nat],
        id: Nat, tick: Nat, needs: BOOLEAN]

Answers == [id: Nat,
            update: {"nothing", "Created", "TemplateChanged", "None",
                     "match", "miss", "params", "shown"},
            first: Nat \cup {None}, last: Nat \cup {None}]

Histories == [seed: Line, lines: SUBSET Lines, events: SUBSET Nat, changes: Nat]

\* Every variable holds a value of its kind, and every reference on the heap
\* or in a map points to something that was allocated.
TypeOK ==
  /\ shards \in [DOMAIN shards -> DOMAIN trees]
  /\ trees \in Seq([Paths -> Seq(Nat)])
  /\ clusters \in [DOMAIN clusters -> DOMAIN bodies]
  /\ bodies \in Seq(Body)
  /\ counter \in Nat
  /\ tick \in Nat
  /\ calls \in [Kinds -> Nat]
  /\ pc \in [Threads -> Places]
  /\ op \in [Threads -> Ops]
  /\ answer \in [Threads -> Answers]
  /\ history \in Seq(Histories)

\* No thread is between its first and its last write to a body.
BodyAtRest(b) ==
  \A t \in Threads : op[t].best.ref = b =>
    pc[t] \notin {"touch", "first", "last", "decide", "upgrade"}

\* A template stands for every line that was counted on it, however the
\* read-locked decision and the write-locked change of apply_match interleave.
AbsorbedCovered ==
  \A b \in DOMAIN bodies : \A l \in history[b].lines : Covers(bodies[b].tokens, l)

\* A cluster that best_match found similar enough is still so when the match
\* is applied or its parameters are extracted, long after the guard was
\* dropped; its length is the line's (the debug_assert of generalize).
MatchStaysSimilar ==
  \A t \in Threads :
    pc[t] \in {"hit", "touch", "first", "last", "decide", "upgrade", "params"} =>
      LET tmpl == bodies[op[t].best.ref].tokens
      IN  Len(tmpl) = Len(op[t].line) /\ Matches(tmpl, op[t].line)

\* Of two live clusters of a leaf the later was created only because its line
\* was not similar enough to the earlier: racing adds of similar lines do not
\* both create (the re-scan under the write guard).
NoTwinTemplates ==
  \A s \in DOMAIN trees, p \in Paths :
    \A i, j \in DOMAIN trees[s][p] :
      LET a == trees[s][p][i]
          b == trees[s][p][j]
      IN  a < b => ~Matches(history[clusters[a]].seed, history[clusters[b]].seed)

\* A leaf never holds more clusters than max_clusters_per_leaf.
LeafWithinCap ==
  \A s \in DOMAIN trees, p \in Paths : Len(trees[s][p]) <= Cap

\* Every id of a leaf resolves to a body that a line of its own template
\* would be looked up for in that very leaf, even after its numeric prefix was
\* generalized; this is also what files a restored cluster where it was.
FiledUnderItsKeys ==
  \A c \in DOMAIN shards, p \in Paths :
    \A i \in DOMAIN trees[shards[c]][p] :
      LET id == trees[shards[c]][p][i]
      IN  /\ id \in DOMAIN clusters
          /\ bodies[clusters[id]].id = id
          /\ Len(bodies[clusters[id]].tokens) = c
          /\ Keys(bodies[clusters[id]].tokens) = p

\* The map holds exactly the ids of the leaves, each in one place only, and
\* the ids about to enter one: no cluster is live but out of reach of a match.
MapIsTheLeaves ==
  LET leafOf(x) == trees[shards[x[1]]][x[2]]
      places == {x \in (DOMAIN shards) \X Paths \X (1..(Cap + 1)) :
                   x[3] \in DOMAIN leafOf(x)}
      idAt(x) == leafOf(x)[x[3]]
      entering == {op[t].id : t \in {u \in Threads : pc[u] \in {"evict", "link"}}}
  IN  /\ DOMAIN clusters = {idAt(x) : x \in places} \cup entering
      /\ \A x, y \in places : idAt(x) = idAt(y) => x = y

\* Every line is counted exactly once, on a created or on a matched body,
\* whichever way through add it takes (the README's exact counts, as long as
\* evicted clusters are counted in).
EveryLineCounted ==
  LET uncounted == {t \in Threads : op[t].kind = "add" /\ pc[t] \in
                      {"shard", "enter", "read", "scan", "write", "rescan",
                       "create", "stamp", "publish", "hit", "touch"}}
  IN  MapThenSumSet(LAMBDA b : bodies[b].size, DOMAIN bodies)
        = calls["add"] - Cardinality(uncounted)

\* TemplateChanged is reported only for a change: at most once per position
\* that was opened, and at least once when the template is not its seed.
ReportsMatchChanges ==
  \A b \in DOMAIN bodies :
    LET opened == Holes(bodies[b].tokens) \ Holes(history[b].seed)
    IN  /\ history[b].changes <= Cardinality(opened)
        /\ bodies[b].tokens # history[b].seed => history[b].changes > 0

\* A body keeps its id, and its template only ever loses tokens to wildcards:
\* no thread writes back a template that it read before another changed it.
TemplatesOnlyOpen ==
  [][\A b \in DOMAIN bodies :
       /\ b \in DOMAIN bodies'
       /\ bodies'[b].id = bodies[b].id
       /\ Covers(bodies'[b].tokens, bodies[b].tokens)]_vars

\* When no match is being applied to it, the event window of a body spans the
\* timestamps of all its lines: concurrent observers lose none.
EventWindowIsHull ==
  \A b \in DOMAIN bodies :
    LET events == history[b].events IN
      BodyAtRest(b) =>
        /\ bodies[b].first = IF events = {} THEN EventUnset ELSE Min(events)
        /\ bodies[b].last = IF events = {} THEN 0 ELSE Max(events)

\* A call returns: no thread waits for ever on a lock, of its own or another.
EveryCallReturns == \A t \in Threads : pc[t] # "idle" ~> pc[t] = "idle"
=============================================================================
