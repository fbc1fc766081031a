# logdrain: a formal model

logdrain groups log lines into clusters by the Drain algorithm: a prefix tree
over the first tokens of a line leads to a leaf of candidate clusters, the most
similar one absorbs the line if it is similar enough, and its template opens the
positions where the line differs. The library is a thread-safe `Miner` with
snapshots and pluggable persistence; a command line tool feeds it from files.

This directory holds TLA+ modules of that code, TLC configurations that check
them on small instances, and TLAPS proofs about the miner, its snapshots and loads,
the persistence backends and the command line. Paths below are relative to
`src/crates/logdrain/src/`, or `src/crates/logdrain-cli/src/` for `main.rs`,
`input.rs` and `format.rs`.

## 1. The system

| part | state | operations | hard about it | correct when |
|---|---|---|---|---|
| templates (`similarity.rs`, parts of `cluster.rs`, `miner.rs`) | none | similarity, generalize, descent keys | comparing with a template that has changed since | a template stands for its lines; generalizing loses none and keeps the path |
| miner (`miner.rs`, `cluster.rs`) | `shards` (length -> RwLock of a tree), `clusters_by_id` (id -> Arc of RwLock of a body), `counter`, `tick` | `add` in four variants, `match_only`, `extract`, `cluster`, `clusters` | any number of threads; guards dropped between finding and applying; relaxed atomics; eviction | tree and map agree; no twin clusters; every line is counted once; changes are reported; calls return; one caller sees plain Drain |
| tree (`tree.rs`) | ids per leaf | descend, insert, remove, is_full | swap_remove, the cap | never more than `max_clusters_per_leaf` |
| snapshot and restore (`miner.rs`, `snapshot.rs`) | the snapshot | snapshot, save_state, restore, load_state, encode, decode | the map changes under the iterator; the process dies; the tree is rebuilt, perhaps under callers; old, cut and foreign bytes | what was saved is there again, ids are fresh, and a snapshot that does not decode changes nothing |
| persistence (`persistence.rs`) | the stored blob | save, load | crashes between steps, two savers; requests that outlive their call, lost and repeated records, compaction, timeouts | a load returns a whole blob that was the stored one during the load; an acknowledged save took effect and stays in effect until the next |
| tokenizer, rendering (`tokenize.rs`, `cluster.rs`) | loop variables | tokenize, first-line mode, render_template | runs of delimiters, which delimiter belongs to whom | nothing dropped; a template is tokenized like its lines |
| masks (`mask.rs`), options (`options.rs`) | none | replace; set, validate | masks in sequence, before lines and tokens are cut | nothing of what is masked is left, in the suffix either |
| command line (`main.rs`, `input.rs`) | buffer, counters | check arguments, assemble records, feed, report | escapes; separators across reads, empty lines, errors half way; times of unknown unit | the separator is the one meant; records do not depend on reads; no line lost; a time does not depend on its unit |
| output (`format.rs`) | none | filter, sort, print | clusters come in the order of a hash map; any character in a text | a report is a function of the clusters; the formats say the same |

They interact by calls: the command line tool feeds one miner from one thread;
library users share a miner among threads and save or load it through a
`Persistence`. There are no messages and no callbacks. What threads share is the
miner: two concurrent maps, one lock per shard and per body, and atomics.

## 2. Modules

| module | models |
|---|---|
| `Templates` | the pure functions: descent keys, similarity, generalization; constants for the options, with the bounds that `MinerBuilder::build_options` checks |
| `Miner` | the concurrent miner; properties |
| `MinerProofs` | lemmas about `Templates`, then the inductive invariant of `Miner` and theorems about it |
| `IndexProofs` | leaves and map agree, leaves stay within the cap, clusters stay in their leaf, no twins in a leaf: proofs |
| `BodyProofs` | reported changes, event windows, and every line counted once: proofs |
| `Induction` | lemmas: numbers, sums, joined sequences, folds |
| `Drain` | abstract: what `add` does for one caller, as one step on a table of clusters |
| `MinerIsDrain` | refinement mapping from `Miner` with one thread to `Drain` |
| `MinerRestore` | `Miner` composed with snapshots, a crash, the load of the next process, and loads into a miner in use |
| `RestoreProofs` | snapshots, restarts and loads: proofs |
| `SnapshotFormat` | encode and decode of `snapshot.rs`, with save and restore around them |
| `Store` | abstract: what a persistence backend promises |
| `FileStore` | `FilePersistence` on an external file system; implements `Store` |
| `FileStoreProofs` | whole loads, acknowledged saves and the refinement of `Store`: proofs |
| `Broker` | memory, Redis and Kafka backends, with external servers |
| `BrokerProofs` | loads and acknowledged saves of these backends: proofs |
| `Text` | masks, tokenizer and `render_template` |
| `EventTime` | times of events and their unit |
| `Records` | record assembly and feeding of the command line tool: operators and actions |
| `Report` | the pure functions of `format.rs` and the rates they print |
| `Cli` | a run of the tool: arguments, then `Records`, then `Report` |
| `CliProofs` | separators, records and times of the command line tool: proofs |
| `MCMiner`, `MCDrain`, `MCRestore`, `MCFormat`, `MCFile`, `MCBroker`, `MCText`, `MCCli` | instances for TLC |

### Miner

A thread is a program counter `pc[t]` and the local variables `op[t]` of the call
it is in. An action is one atomic step of the code: an operation of a concurrent
map, a `fetch_add`, one visit in `best_match`, or a critical section. Locks are
not variables: a lock is held by whoever has a program counter inside its scope
(`ShardReadable`, `ShardWritable`, `BodyWritable`).

| code | actions |
|---|---|
| `add_inner`, up to the first look | `Call`, `GetShard`, `EnterShard`, `ReadLeaf`, `Visit`*, `EndScan` |
| the second look under the write guard | `WriteLeaf`, `Visit`*, `EndRescan` |
| creation and `evict_if_full` | `NewId`, `Stamp`, `Publish`, `Consider`*, `Link` |
| `apply_match` | `Hit`, `Touch`, `ObserveFirst`, `ObserveLast`, `Decide`, `Upgrade` |
| `match_only`, `extract`, `cluster` | the first look, then `Lookup`, `Params`, or `Lookup`, `ShowFirst`, `ShowLast` |

`Arc`s are references into the heaps `trees` and `bodies`, so that a thread can
keep a body that was evicted. `history` is not in the code: it records, per body,
the lines, timestamps and reports that belong to it, for the properties.

Simplifications, and why they lose nothing the properties tell apart:

- Relaxed atomics interleave as if sequentially consistent. The properties relate
  at most one atomic per body to the others, and where they relate two (the event
  window) each is only read at rest.
- A visit of `best_match` reads the map and the template in one step: the code
  reads the template under the body's read lock, and an evicted body no longer
  matters for the result. `size` and `last_used` of a touch are set in one step,
  as nothing reads the two together. Victim removal and leaf insertion are one
  step under the shard's write guard; only the map entry is seen by others, and
  it is removed in that step.
- A similarity is compared as a fraction; `sim_threshold` is a constant fraction.
- `Paths` are the places where a leaf may be: the keys of the lines, and those keys with
  positions of the prefix opened. Only a load under callers leads to one of the second
  kind, when a line is applied to a body of another leaf that has got the same id.
- An empty leaf and an absent one are the same: `descend` finds no candidate in
  either.
- Writer preference of `RwLock` is not modelled; it removes behaviours. The one
  kind of deadlock it could add, a second read guard of one lock in one thread,
  does not occur in the code: no thread takes a lock it holds.
- An operation of a concurrent map is atomic, so the locks inside the maps are not
  in the model. Where one is held while a body's lock is taken (`best_match`,
  `snapshot`), the order is shard, map, body everywhere, and a thread that writes
  a body asks for nothing else.
- Masks (see `Text`), the suffix of a line, delimiter flags and wall-clock times
  are left out; no decision of the miner depends on them.

### MinerRestore

`StartSnapshot`, `Collect` and `EndSnapshot` are `snapshot`: the iterator visits
every cluster that is in the map from beginning to end, and possibly some that
come later, each at a moment of its own; the counter is read at the end.
`Restart` may happen at any step of anybody and loses all but the snapshot.
`Reload` calls `load_state` on a miner that has been used: with `Hot = FALSE` while
no call is under way, as the tests of the repository do, with `Hot = TRUE` at any
step of any caller, as the shared reference `&self` allows. `Load`, `ClearShards`,
`ClearMap`, `Rewind`, `Replay` (`insert_existing`), `EndLoad` and `Loaded` are
`load_state` and `restore`. A `clear` is a step per entry, in any order: a concurrent
map is emptied part by part, and what comes into a part after it was passed stays. When it ends
and no call holds an `Arc`, the heap is freed, so that the heaps of a miner that was
cleared between calls are those of a new one.
A row of a snapshot is read in one step, but the code reads the two ends of an event
window apart (a finding).

### SnapshotFormat

A body is a tuple of fields, nested as the structs are; a shape says how a field is
written. The format has no names, so that everything depends on reading and writing
the same shapes. `LoadState`, `DecodeBytes`, `Clear`, `Rewind` and `Replay`, cluster by
cluster, are `load_state` and `restore` in the order of their statements (`Steps`),
with nobody else at work; how a replay files clusters and evicts is in `MinerRestore`. Bincode is external: a word per number, character, option tag or
length, an error where words are missing or a length is impossible, and bytes that
are left over accepted, as `bincode::deserialize` accepts them. `SaveOld` is an older
build. `Damage` cuts the blob anywhere, lets words follow, changes the magic, or
raises the version. Only damage that has a marker is modelled: the format has no
checksum, and a changed word in the middle is read as what it says.

### FileStore

The steps of `save` are the system calls it makes; `write_all` writes `Pieces`
pieces. The file system is external and pessimistic: a power failure keeps of a
file any prefix that includes what was synced, and of the directory any state
since the last failure, because nobody syncs it. `Fail` is the error return of
any step. The reader keeps its open file across renames.

### Broker

A call is a request and an answer. A write that was sent is on the wire until it
takes effect or, with Kafka, is given up; its caller may be gone by then. A Kafka
record may be sent again after it took effect, since the producer is not idempotent;
a topic may be compacted down to its last record. A load from Kafka takes the
watermarks and then polls at the place before the high one. Either of the two may
fail, the second may also time out. Blobs are named by the number of the call that
saves them, so that a property can tell which save an answer is of.

### Text, Records, Report, Cli

A token is a pair of places in the line and its two delimiters. A mask replaces all
matches of a literal pattern; the regular expressions of `builtin_masks` are not
modelled. A record is a sequence of bytes. How a record reads as JSON, a text as a
time, and which lines the start regex matches are parameters; paths in JSON, the
order of the parsers and the units are modelled. Lines lose a `\r`
before their newline, as `lines()` strips it (`LineEnds`); UTF-8 decoding is left out. `Fail` stands for every error that ends `run`. In
`Report` a number is one character, and the padding of the text table is left out.
The clusters that `Cli` reports are a parameter, in any order: the miner is the
other modules' matter.

## 3. What the runs check

| run | module, cfg | properties | shows |
|---|---|---|---|
| core | `MCMiner_core` | `TypeOK`, `AbsorbedCovered`, `MatchStaysSimilar`, `NoTwinTemplates`, `LeafWithinCap`, `FiledUnderItsKeys`, `MapIsTheLeaves`, `EveryLineCounted`, `ReportsMatchChanges`, `TemplatesOnlyOpen` | three racing threads, four adds, leaves of two clusters |
| live | `MCMiner_live` | `EveryCallReturns`, `EventWindowIsHull` | adds with and without times and extracts, on leaves of one cluster: no deadlock, every call returns, no event timestamp is lost to a race |
| drain | `MCDrain` | `IsDrain` | with one caller, `Miner` implements `Drain`, LRU eviction included, and a `cluster(id)` in between does not show |
| restore | `MCRestore` | `MapIsTheLeavesAgain`, `FreshIds`, `RestoredAsSaved`, `SavedLinesStillMatch` | snapshot under adds, then a crash and a load, or a load between the calls |
| hot | `MCRestore_hot` | `AbsorbedCovered`, `MatchStaysApplicable`, `LeafWithinCap` | what is left of the guarantees when a load replaces the index under callers |
| codec | `MCFormat` | `RestoredIsWritten`, `DamageIsDetected`, `FailedRestoreChangesNothing` | both layouts, whole and damaged, saved and restored in any order, restore step by step |
| file | `MCFile` | `LoadedIsWhole`, `AckedIsStored`, `IsStore` | with one saver, `FileStore` implements `Store` through failures and crashes |
| broker | `MCBroker` | `LoadedWasStored`, `AckedTookEffect`, `AckedStaysReplaced`, `TimeoutsEndCalls` | the three other backends, two clients, three calls |
| text | `MCText` | `TokensAreSegments`, `NothingUnmasked`, `TemplateIsFaithful` | all records of up to six characters |
| cli | `MCCli` | `ChunksDoNotShow`, `GroupingKeepsLines`, `GroupsBeginAtStarts`, `TimesIgnoreUnits`, `SeparatorIsMeant`, `ReportIgnoresMapOrder`, `FormatsAgree` | whole runs of the tool |

A load under callers keeps less than a load between calls. `hot` shows that
templates still stand for their lines, a match can still be applied (if the
similarity threshold is not 0: a finding), and no leaf overflows. That the map is
the leaves, that ids are fresh and that the snapshot is there afterwards do not
survive, and are not claimed of that run: a caller in a shard that was cleared away
goes on creating and evicting by ids that restored clusters have (a finding).

Two runs show that the code does not do what a comment says of it:

| run | property | what happens |
|---|---|---|
| lru | `LatestIsKept` | after a load every cluster has recency 0, and so has the first hit of the process; the cluster used last can be the one evicted |
| torn | `LoadedIsWhole` (two savers) | savers of a path share `<path>.tmp`; one renames what the other is rewriting, and `load` returns neither blob |

Other disagreements met while modelling are listed under `findings` in
`PROJECT.json` that no run shows.

Every property of a passing run has a mutant: an operator `Mutant...` next to the
definition it would replace, with the bug it stands for in its comment. TLC finds
the property violated with the mutant in place.

## 4. Bounds

`MaxCalls` (`Adds`, `Queries`) bounds the calls, `MaxSaves`, `MaxLoads`, `MaxReloads`
the snapshots, restarts and loads, `MaxRetries` the records sent again, `MaxFailures` the failing calls and crashes, `Pieces` the
writes of a blob, `SepChunk`, `MaxBytes`, `MaxChars` the texts. They are the only
bounds; all but `SepChunk` (a constant of the code, smaller here) appear in a
guard or in the set of inputs.

- core: three threads are the fewest for a creation, an eviction of it and a late
  hit on it; four adds of the five lines of `MCLines` fill a leaf of two and evict
  from it twice. The lines have a numeric prefix (so a key that generalization
  could change), pairs that match only after a template was generalized, and a
  line of another length, shorter than the prefix. Threads are interchangeable,
  and symmetry is used where no liveness is checked.
- live: two threads suffice for a wait. Of the three lines of `MCFewLines` two make
  clusters that evict each other from a leaf of one, and the third joins either and
  opens a position of it. `extract` waits for a writer of the shard as an `add` does;
  `cluster(id)`, which only reads a body, is left to `drain`. The timestamps 0 and 3
  hold the least `u64`, which is also the value of an unset last, and come in both
  orders.
- drain: four adds fill a leaf of two and evict, with a hit or a read in between or not.
- restore: a leaf of one, three adds, one snapshot, and one restart and one load give
  a snapshot with two clusters for a leaf of one, which is the case the replay must
  evict in, and a load over clusters that the snapshot does not have.
- hot: two adds and a query around one snapshot and one load let a caller hold a
  shard or a cluster of the old index at every step of the load. There is no restart:
  it ends the callers that the run is about. Its lines have one length; that a match
  found under an id with another length is not applied rests on the proof
  (`MatchesStayApplicable`).
- codec: states with no cluster, one and two, whose tokens, window, suffix and members
  are there or not, and whose counters differ, so that every step of a restore can be
  seen; every cut of their bytes is tried.
- file: three pieces allow a prefix that is neither empty nor whole; four saves
  with two failures give a save after a failed one after a successful one.
- broker: three calls are a save that outlives its call, a later save, and a load; one
  record sent again can be the one that should be gone.
- text: six characters hold two pieces with delimiters on both sides of a segment, or
  a match of a mask across a newline or a delimiter.
- cli: the separator has two bytes and overlaps itself; six bytes hold two
  separators and a rest; chunks of one to three cut a separator in every way. Of the
  two start patterns, `^s` and `^s|^$`, one matches the empty line; up to four bytes hold
  carriage returns with and without their newline. `Limit` is 2, so that all four
  units and their boundaries are a few numbers apart.

Deadlock is checked in the miner and file runs (`Rest` is the only state in which
the callers may stop) and in `codec`. The other runs stop when their bounds or their
input are used up, and their cfg says so.

## 5. Fairness

`EveryCallReturns` needs weak fairness of `Step(t)` for each thread, that
is, a thread inside a call is scheduled again as long as it can go on. No thread
has to make a call. Weak fairness is enough because calls are bounded, so that a
lock somebody waits for is free for good in the end; with an unbounded stream of
readers the code would rely on the `RwLock` not to starve a writer, which the
standard library does not promise on every platform.

`TimeoutsEndCalls` needs weak fairness of the steps of a caller of the memory or Kafka
backend: its thread runs, and what it waits for has a timeout (`persistence.rs`, lines
211, 216, 232), so that giving up is always possible. The servers owe nothing. Redis
is left out on purpose: its client is used without a timeout.

## 6. What is proved

The proofs about the miner (`MinerProofs`, and on top of it `IndexProofs`,
`BodyProofs` and `RestoreProofs`) hold for any number of threads,
calls, lines and tokens, and, but for two theorems about loads under callers, any
threshold, prefix and leaf capacity. The assumptions are
`OptionsAssumption` (the bounds checked by the builder) and `MinerAssumption`
(kinds of the constants; timestamps do not exceed the sentinel).

- `TypeCorrect`: `Spec => []TypeOK`, every reference points to something
  allocated.
- `AbsorbedLinesAreCovered`: `Spec => []AbsorbedCovered`, a template stands for
  every line counted on it, whatever the interleaving of the look under the read
  lock with the change under the write lock.
- `MatchesStaySimilar`: `Spec => []MatchStaysSimilar`, a match found before the
  locks were dropped has the line's length and is still similar enough when it is
  applied or extracted, evicted or not; this includes the `debug_assert_eq` of
  `generalize`.
- `TemplatesNeverNarrow`: `Spec => TemplatesOnlyOpen`, from one state to the next a
  body keeps its id and its template stands for at least what it stood for.
- `LeavesStayWithinCap`: `Spec => []LeafWithinCap`, and `IndexAgrees`:
  `Spec => []MapIsTheLeaves`, the bound on a leaf and the agreement of
  `clusters_by_id` with the leaves, whoever creates and evicts at once.
- `ClustersStayFiled`: `Spec => []FiledUnderItsKeys`, a cluster is in the leaf that
  its own template descends to, however the template was generalized.
- `NoTwins`: `Spec => []NoTwinTemplates`, racing adds of similar lines do not both
  create.
- `ChangesAreReported`: `Spec => []ReportsMatchChanges`, of threads that race to open
  a position one reports it.
- `WindowsAreHulls`: `Spec => []EventWindowIsHull`, concurrent observers lose no
  timestamp.
- `LinesAreCounted`: `Spec => []EveryLineCounted`, every line handed to `add` is counted
  on one body, once. It assumes `"add" \in Kinds`: the count of calls is a table
  by kind, and without adds there is no entry to compare with.

The argument. Generalization only adds wildcards, so it can only raise the score
of any line (`ScoreMonotone`), and what covers the old template's lines covers
them still (`CoversTransitive`). Hence a body only grows (`GrowsTo`), and what a
thread has read about one stays true, or gets better, after it let go of the lock.
The state properties are not inductive: a score in `op[t].best` says nothing
about a template unless it is known to be a lower bound of the score the template
has now, and the candidates of a scan, which are ids, say nothing unless an id
names one body for ever and that body has the length of the shard. `IInv` records
this: `HistoryAligned`, `IdsUnique`, `MapNamesBodies`, `ShardsDistinct`,
`LeavesShaped` and, per thread and place, `ThreadSound`. `InitIInv` and `NextIInv`
show it inductive, with one lemma per action. `IInv` was also checked by TLC, as
an invariant of the core instance, before it was proved.

The other theorems add to `IInv` what they need.

- `SInv` (`IndexProofs`): one thread writes to a shard (`Exclusive`, which comes from
  the guard of `WriteLeaf`), so that what a writer saw of its leaf, that the leaf
  had room or which victim it chose, is true when it links; every id of a leaf is
  live and in one place only; every id of the map is in a leaf or is about to
  enter one. `MapIsTheLeaves` alone is not inductive: without `Exclusive` a victim
  could be evicted twice and a leaf filled twice.
- `KInv` (`IndexProofs`): the body of every id in a leaf has the path of the leaf as
  the keys of its template, and so have the candidates and the best match in a
  thread's hands. It is inductive because generalizing turns only those tokens
  of the prefix into the wildcard whose key was the wildcard already: lines that
  meet in a leaf have the same keys.
- `TInv` (`IndexProofs`): of the clusters of the leaf a writer re-scans, each is still
  to be visited or scored no more than the best match kept (by its seed, which its
  template only outscores); past the re-scan none is similar to the line, and all
  have smaller ids. The last is why the order of two ids tells who came later.
- `SeedsCounted` and `Reported` (`BodyProofs`): a reported change opens a position that
  the template still had, and a template differs from its seed only after one.
- `WInv` (`BodyProofs`): an end of a window is a timestamp that is recorded on the body
  or carried by a thread that has passed that end, and bounds all of these; the
  body is the hull of the recorded ones when nobody carries one. `EventWindowIsHull`
  itself speaks only of bodies at rest and says nothing about the next state.
- `CInv` (`BodyProofs`): the sizes of the bodies add up to the calls of `add`, less the
  threads that still carry a line, and only calls of `add` reach the places where a
  body is created or touched. The sum over the bodies is a fold; `Induction` says what
  a fold becomes when one of its terms changes or one is added.

All of them were also checked by TLC, `WInv` on an instance whose lines carry
timestamps and the others on the core instance.

### Snapshots, restarts and loads

`RestoreProofs` is about `RestoreSpec`, for any number of saves, restarts and loads.
What a load restores is proved for `Hot = FALSE`: nobody calls the miner while it
loads. This is what the tests of the repository do, and it is needed: with callers in
the middle of a load the first three of these properties are false (a finding).

- `IdsStayFresh`: `RestoreSpec => []FreshIds`, the id that a call is about to give to
  a new cluster is not in the map.
- `MapIsTheLeavesAfterLoads`: `RestoreSpec => []MapIsTheLeavesAgain`, except while
  they are cleared the leaves and the map hold the same clusters.
- `LoadsRestore`: `RestoreSpec => []RestoredAsSaved`, when `load_state` returns the
  miner has no cluster that was not saved, and every saved one as it was, but for
  those of a leaf of which more were saved than fit.
- `SavedLinesMatch`: `RestoreSpec => []SavedLinesStillMatch`, when `load_state` returns,
  a line that was counted on a saved cluster finds one that is similar enough.

`RInv` (`RestoreInductive`) is what they follow from. While shards and map are
cleared no invariant of the miner holds, so the invariants of the miner, `MInv`, are
claimed of the other stages only; in between `ClearSound` records that no call runs
and that what is left is still due, so that both are empty in the end, and an empty
miner satisfies `MInv` (`EmptyMiner`). What makes a replay keep `MInv` is `SavedSound`:
the rows of a snapshot have different ids, none above the counter that was read after
them, and lines on the path that they are replayed to. These are facts about the
clusters at different moments, one for each row, and they last because ids are not
reused, bodies keep their keys and the counter only grows. `ReplaySound` says that
the bodies are the rows replayed so far, and that a row that is not in the map any
more is crowded: its leaf was full when it went, so that there are `Cap` rows of
that leaf and one more in the snapshot (`FullLeafCrowds`). For the step itself a miner
at rest is two facts about data, `IndexSound` and `HeapSound` (`AtRest`), which are
taken through `insert_existing` part by part: the new shard (`ShardAdded`), the victim
(`VictimIsListed`), leaf and map (`ClusterPut`), the body (`HeapGrown`).

What is left when callers are served during a load is proved without a condition on
`Hot`, so that it holds of every load.

- `MatchesStayApplicable`: `RestoreSpec => []MatchStaysApplicable`, a match is applied
  only to a template that is still similar to the line, though a load may clear and
  refill the miner between the look and the lock.
- `LinesStayCovered`: `RestoreSpec => []AbsorbedCovered`. Both assume `ThNum # 0`. With a
  threshold of 0 a match may be applied to a template of another length, which a load
  has given the id that the thread looks up (a finding).
- `LeavesFitUnderLoads`: `RestoreSpec => []LeafWithinCap`, and `TypeCorrectUnderLoads`:
  `RestoreSpec => []TypeOK`.

`HotInv` (`HotInductive`) is what they follow from. `IInv` cannot be it: after a load
under callers an id may name two bodies, an entry of the map may have no leaf, and a
thread may be in a shard that the table has lost. What lasts is what a thread knows of
the references it holds (`Held`): the heap of bodies only grows while a call runs, and a
template only becomes more general, so that a score found once is a lower bound for
good (`HeldStays`), whatever the id of the body names meanwhile. A template of another
length has score 0 (`MatchesHaveLength`), which replaces the argument from the shard.
`LInv` keeps the guard of a writer (`Exclusive`) and what it saw of its leaf, for shards
in the table or not: `insert_existing` takes the same guard. `AdminHeld` says of every
row, collected or saved, that it has an id, a path and the lines that its template
stands for. `extract` looks its cluster up by id, so `MatchStaysApplicable` speaks of
its last step only until the first load; until then `IInv` still holds (`FirstMiner`).
TLC checked `HotInv` on the `hot` instance, and on one with a restart, before it was proved.

### Persistence

`FileStoreProofs` holds for any set of blobs, any number of writes per blob, and any
number of saves, failing calls and crashes. It assumes `OneSaver`; with two savers the
first theorem is false, as the run `torn` shows.

- `LoadsAreWhole`: `Spec => []LoadedIsWhole`, a load returns a blob from its first
  piece to its last.
- `AckedIsWhatIsStored`: `Spec => []AckedIsStored`, the target holds what the last
  acknowledged save stored, whatever failed half way since.
- `FileIsStore`: `Spec => IsStore`, `FileStore` implements `Store`. A save takes effect
  in its rename, and a power failure that brings back an older directory is the step
  of `Store` that brings back an older value.

`FInv` says that every file the target names, in memory or in any directory that may
be on the disk, is synced and whole, and that the temporary name leads to none of
them. The three properties speak of the target as it is now and are not inductive: a
power failure may bring back a directory from before.

`BrokerProofs` holds for any number of clients, calls, repeated records and
compactions, for each of the three backends.

- `LoadsAnswerWhatWasStored`: `Spec => []LoadedWasStored`, though a Kafka load takes two
  requests.
- `AckedSavesTookEffect`: `Spec => []AckedTookEffect`, but for the records Kafka lost,
  whose saves return Ok all the same (a finding).
- `AckedSavesStayReplaced`: `Spec => []AckedStaysReplaced`, no acknowledged blob comes
  back over that of a save begun afterwards. The blob of a save that gave up, and was
  not acknowledged, may do so (a finding).

`BInv` adds to them that a load that runs has seen every record from its watermark on,
so that it does not matter which of them compaction leaves, and that an acknowledged
save has nothing on the wire (`WireInv`), so that what takes effect late or twice is
never what a later save was begun upon.

### Command line

`CliProofs` is about whole runs of the tool, for any number and content of the sources,
any chunk size, any arguments, JSON reading and start pattern. The assumptions are
`RecordsAssumption` (bytes are bytes, white space among them), `CliAssumption` (sources
and separators are made of bytes) and `EventTimeAssumption`.

- `ChunksNeverShow`: `Spec => []ChunksDoNotShow`, records and separators are the source
  again and each record ends at the first separator after its start, however the
  reads cut the source, also in the middle of a separator that overlaps itself.
- `LinesAreKept`: `Spec => []GroupingKeepsLines`, and `StartsBeginRecords`:
  `Spec => []GroupsBeginAtStarts`, no line is lost between multi-line records, and a
  line that matches the start pattern is the first of its record. The exceptions are
  part of the properties: `ingest_multiline_start` takes an empty buffer for "no record
  has begun", so that empty lines before the first record are dropped, and, if the
  pattern matches the empty line (`EmptyStarts`), one that begins a record is dropped
  when the next line comes, and the record begins with that one (a finding).
- `UnitsAgree`: for every limit, a time from the limit to a thousand times it is the same,
  up to the part of a second, in whichever of four units it was logged, and
  `TimesAreUnitless`: `Spec => []TimesIgnoreUnits`, so it is with the records that were
  added.
- `SeparatorsAreMeant`: `Spec => []SeparatorIsMeant`, the bytes that separate records are
  those that the argument spells, for every argument.

These properties speak of sources that were read to their end, so each needs an
invariant about the source that is being read. `RunInv` has the types, and what is
empty between two sources. `ApartInv` says of a source under way that the records that
were fed, each with its separator, the buffer and the unread rest are the source, that
each of these records ends at its first separator, and that between two reads the buffer
holds none. `GroupedInv` says the same of lines, with the number of empty ones that were
dropped in front of each record. `BeginInv` says how the records that were fed and the next one
begin, `TimedInv` and `MeantInv` where the added records and the separator come from.
All but `TimedInv`, which speaks of the set of all texts, were also checked by TLC.

What a recursive definition computes is proved in `Induction` without the induction
theorems of the library, whose parameter is an operator: the property becomes a set
of numbers that contains 0 and with every number the next (`NumberInduction`). That a
recursive function (of `FlattenSeq`, `FoldLeft`, `MapThenSumSet`) exists is shown by
building it up to each number, and its equation then follows from the definition.

### Only model-checked

- What the tokenizer, the codec and the formats of a report compute for every input: all
  of `Text` and `SnapshotFormat`, and `ReportIgnoresMapOrder` and `FormatsAgree` of
  `Cli`. They are built from `RECURSIVE` operators, which the prover cannot read, or
  from sorts.
- `IsDrain`: its refinement mapping sorts the clusters by recency, and the miner's
  choice of a victim is a minimum over a scan of many steps.
- `EveryCallReturns` and `TimeoutsEndCalls`: liveness is out of the proof system's
  reach.

## 7. Not modelled, and the plan

In this order:

1. `Catalog`, a concurrent abstract specification (bodies are created with fresh
   ids and only grow, the map loses and gains entries), implemented by `Miner` for
   any number of threads: the refinement proved from `IInv` and `NextGrows`.
2. The order of all locks, those inside the concurrent maps included.
3. The two reads of an event window by `snapshot`.

Not planned: regular expressions (masks and start lines are literals and
parameters), `is_empty`, `len` and `clusters()` (reads without an order the callers
could rely on), parsing of arguments and JSON, the formats of times, and the widths of
the text table.
