---------------------------- MODULE MinerProofs ----------------------------
(***************************************************************************)
(* Proofs about the concurrent miner, for any number of threads and calls, *)
(* any set of lines, any leaf capacity and any options.                    *)
(*                                                                         *)
(* The argument: a body only ever becomes more general and keeps its id    *)
(* (Grows), so what a thread learned about a body under one guard is still *)
(* true when it acts on it after the guard was dropped.  That, and that an *)
(* id names one body for ever, is what the inductive invariant records.    *)
(***************************************************************************)
EXTENDS Miner, FiniteSetTheorems, SequenceTheorems, TLAPS

-----------------------------------------------------------------------------
(* What every miner may rely on about templates, for every set of tokens,  *)
(* prefix length and threshold: the facts that make it safe to decide on a *)
(* template under one lock and to act on it under another.                 *)

\* Generalize returns a template of the same length that stands for the line
\* and for all that the old template stood for (ClusterInner::generalize).
LEMMA GeneralizeCovers ==
  ASSUME NEW tmpl \in Line, NEW toks \in Line, Len(tmpl) = Len(toks)
  PROVE  /\ Generalize(tmpl, toks) \in Line
         /\ Len(Generalize(tmpl, toks)) = Len(tmpl)
         /\ Covers(Generalize(tmpl, toks), tmpl)
         /\ Covers(Generalize(tmpl, toks), toks)
<1> DEFINE g == Generalize(tmpl, toks)
<1>1. DOMAIN tmpl = 1..Len(tmpl) /\ DOMAIN toks = 1..Len(tmpl)
  BY DEF Line
<1>2. Wildcard \in Token
  BY OptionsAssumption
<1>3. \A i \in 1..Len(tmpl) :
        g[i] \in Token /\ g[i] = IF tmpl[i] # toks[i] THEN Wildcard ELSE tmpl[i]
  BY <1>1, <1>2 DEF Generalize, Line
<1>4. g \in Seq(Token) /\ Len(g) = Len(tmpl)
  BY <1>1, <1>2 DEF Generalize, Line
<1>5. DOMAIN g = 1..Len(tmpl)
  BY <1>1 DEF Generalize
<1> QED BY <1>3, <1>4, <1>5 DEF Covers, Line

\* A line that leaves nothing to generalize is already stood for.
LEMMA NothingToGeneralize ==
  ASSUME NEW tmpl \in Line, NEW toks \in Line, Len(tmpl) = Len(toks),
         ~WouldGeneralize(tmpl, toks)
  PROVE  Covers(tmpl, toks)
BY DEF Covers, WouldGeneralize, Line

\* A template stands for itself, read as a line.
LEMMA CoversReflexive ==
  ASSUME NEW tmpl \in Line
  PROVE  Covers(tmpl, tmpl)
BY DEF Covers

\* What stands for a template stands for all that the template stands for.
LEMMA CoversTransitive ==
  ASSUME NEW a \in Line, NEW b \in Line, NEW c \in Line,
         Covers(a, b), Covers(b, c)
  PROVE  Covers(a, c)
BY DEF Covers, Line

\* A more general template scores at least as high against any line: a match
\* found under one guard is still a match under a later one.
LEMMA ScoreMonotone ==
  ASSUME NEW a \in Line, NEW b \in Line, NEW toks \in Line, Covers(a, b)
  PROVE  /\ Score(a, toks) \in Nat
         /\ Score(b, toks) \in Nat
         /\ Score(b, toks) <= Score(a, toks)
<1>1. Len(a) = Len(b) /\ DOMAIN a = DOMAIN b /\ DOMAIN a = 1..Len(a) /\ Len(a) \in Nat
  BY DEF Covers, Line
<1>2. IsFiniteSet(DOMAIN a)
  BY <1>1, FS_Interval
<1>3. Agree(a, toks) \subseteq DOMAIN a /\ Agree(b, toks) \subseteq DOMAIN a
  BY <1>1 DEF Agree
<1>4. Agree(b, toks) \subseteq Agree(a, toks)
  BY <1>1 DEF Agree, Covers
<1>5. IsFiniteSet(Agree(a, toks)) /\ IsFiniteSet(Agree(b, toks))
  BY <1>2, <1>3, FS_Subset
<1>6. /\ Cardinality(Agree(a, toks)) \in Nat
      /\ Cardinality(Agree(b, toks)) \in Nat
      /\ Cardinality(Agree(b, toks)) <= Cardinality(Agree(a, toks))
  BY <1>4, <1>5, FS_Subset, FS_CardinalityType
<1>7. a = <<>> <=> b = <<>>
  BY <1>1 DEF Line
<1> QED BY <1>1, <1>6, <1>7 DEF Score

\* A score that is not lower is accepted by the threshold if the lower one is.
LEMMA AcceptsMonotone ==
  ASSUME NEW m \in Nat, NEW n \in Nat, m <= n, NEW toks \in Line, Accepts(m, toks)
  PROVE  Accepts(n, toks)
<1>1. Width(toks) \in Nat /\ ThNum \in Nat /\ ThDen \in Nat
  BY OptionsAssumption DEF Width, Line
<1>2. m * ThDen <= n * ThDen
  BY <1>1
<1>3. m * ThDen \in Nat /\ n * ThDen \in Nat /\ ThNum * Width(toks) \in Nat
  BY <1>1
<1> QED BY <1>2, <1>3 DEF Accepts

\* The leaf that a generalized template is looked up in is the leaf of the
\* line it was generalized against: numbers and the wildcard share a key.
LEMMA KeysStable ==
  ASSUME NEW tmpl \in Line, NEW toks \in Line, Len(tmpl) = Len(toks),
         Keys(tmpl) = Keys(toks)
  PROVE  Keys(Generalize(tmpl, toks)) = Keys(tmpl)
<1> DEFINE g == Generalize(tmpl, toks)
           n == PathLen(Len(tmpl))
<1>1. Len(g) = Len(tmpl)
  BY GeneralizeCovers
<1>2. 1..n \subseteq DOMAIN tmpl /\ DOMAIN toks = DOMAIN tmpl
  BY OptionsAssumption DEF PathLen, Line
<1>3. Key(Wildcard) = Wildcard
  BY DEF Key
<1>4. ASSUME NEW i \in 1..n
      PROVE  Key(g[i]) = Key(tmpl[i])
  <2>1. Key(tmpl[i]) = Key(toks[i])
    BY DEF Keys
  <2>2. g[i] = IF tmpl[i] # toks[i] THEN Wildcard ELSE tmpl[i]
    BY <1>2 DEF Generalize
  <2>3. CASE tmpl[i] = toks[i]
    BY <2>2, <2>3
  <2>4. CASE tmpl[i] # toks[i]
    <3>1. Key(tmpl[i]) = Wildcard
      BY <2>1, <2>4 DEF Key
    <3> QED BY <2>2, <2>4, <3>1, <1>3
  <2> QED BY <2>3, <2>4
<1> QED BY <1>1, <1>4 DEF Keys

-----------------------------------------------------------------------------
(* The inductive invariant.                                                *)

\* Some published body has the id and the length: ids of a leaf keep it even
\* when their cluster is evicted.
Shaped(bs, id, n) ==
  \E b \in DOMAIN bs : bs[b].id = id /\ Len(bs[b].tokens) = n

\* A body that a match of the line may be applied to.
Similar(bs, b, id, line) ==
  /\ b \in DOMAIN bs
  /\ bs[b].id = id
  /\ Len(bs[b].tokens) = Len(line)
  /\ Matches(bs[b].tokens, line)

\* What best_match keeps is a lower bound of the score the body has now.
BestSound(bs, best, line) ==
  best = NoBest \/
  /\ best.ref \in DOMAIN bs
  /\ bs[best.ref].id = best.id
  /\ Len(bs[best.ref].tokens) = Len(line)
  /\ best.score \in Nat
  /\ best.score <= Score(bs[best.ref].tokens, line)

\* From one heap of bodies to the next: no body is lost or changes its id,
\* and a template stands for at least what it stood for.
GrowsTo(bs, cs) ==
  \A b \in DOMAIN bs :
    /\ b \in DOMAIN cs
    /\ cs[b].id = bs[b].id
    /\ Covers(cs[b].tokens, bs[b].tokens)

HistoryAligned == Len(history) = Len(bodies)

\* An id that a thread took from the counter and has not published yet.
Minted(t) == pc[t] \in {"stamp", "publish"}

IdsUnique ==
  /\ \A b \in DOMAIN bodies : bodies[b].id <= counter
  /\ \A a, b \in DOMAIN bodies : bodies[a].id = bodies[b].id => a = b
  /\ \A t \in Threads : Minted(t) =>
       /\ op[t].id <= counter
       /\ \A b \in DOMAIN bodies : bodies[b].id # op[t].id
       /\ \A u \in Threads : Minted(u) /\ op[u].id = op[t].id => u = t

MapNamesBodies == \A id \in DOMAIN clusters : bodies[clusters[id]].id = id

ShardsDistinct == \A c, d \in DOMAIN shards : shards[c] = shards[d] => c = d

LeavesShaped ==
  \A c \in DOMAIN shards, p \in Paths :
    \A i \in DOMAIN trees[shards[c]][p] : Shaped(bodies, trees[shards[c]][p][i], c)

HasLine  == {"shard", "enter", "read", "scan", "write", "rescan", "create",
             "stamp", "publish", "evict", "link", "hit", "touch", "first",
             "last", "decide", "upgrade", "params"}
InShard  == {"read", "scan", "write", "rescan", "create", "stamp", "publish",
             "evict", "link"}
Scanning == {"shard", "enter", "read", "scan", "rescan"}
Applying == {"hit", "touch", "first", "last", "decide", "upgrade", "params"}

ThreadSound(t) ==
  LET o == op[t] IN
  /\ pc[t] \in HasLine => o.line \in Lines
  /\ pc[t] \in InShard =>
       Len(o.line) \in DOMAIN shards /\ o.shard = shards[Len(o.line)]
  /\ pc[t] \in Scanning => BestSound(bodies, o.best, o.line)
  /\ pc[t] \in {"scan", "rescan"} =>
       \A i \in DOMAIN o.todo : Shaped(bodies, o.todo[i], Len(o.line))
  /\ pc[t] \in {"evict", "link"} => Shaped(bodies, o.id, Len(o.line))
  /\ pc[t] \in Applying => Similar(bodies, o.best.ref, o.best.id, o.line)
  /\ pc[t] = "lookup" /\ o.kind # "get" =>
       o.line \in Lines /\ Similar(bodies, o.best.ref, o.best.id, o.line)
  /\ pc[t] = "upgrade" /\ ~o.needs => Covers(bodies[o.best.ref].tokens, o.line)
  /\ pc[t] \in {"first", "last"} => o.ms \in Nat
  /\ pc[t] \in {"load", "show"} => o.best.ref \in DOMAIN bodies

ThreadsSound == \A t \in Threads : ThreadSound(t)

IInv ==
  /\ TypeOK
  /\ HistoryAligned
  /\ IdsUnique
  /\ MapNamesBodies
  /\ ShardsDistinct
  /\ LeavesShaped
  /\ ThreadsSound
  /\ AbsorbedCovered

-----------------------------------------------------------------------------
(* Initial states.                                                         *)

\* The empty miner of Miner::from_options satisfies the inductive invariant.
THEOREM InitIInv == Init => IInv
<1> SUFFICES ASSUME Init PROVE IInv
  OBVIOUS
<1>1. TypeOK
  <2>1. op \in [Threads -> Ops]
    BY DEF Init, NoOp, NoBest, NoVictim, Ops, Line
  <2>2. answer \in [Threads -> Answers]
    BY DEF Init, NoAnswer, Answer, Answers
  <2>3. pc \in [Threads -> Places]
    BY DEF Init, Places
  <2> QED BY <2>1, <2>2, <2>3 DEF Init, TypeOK
<1>2. ThreadsSound
  BY DEF Init, ThreadsSound, ThreadSound, HasLine, InShard, Scanning, Applying
<1>3. HistoryAligned /\ IdsUnique /\ MapNamesBodies /\ ShardsDistinct
      /\ LeavesShaped /\ AbsorbedCovered
  BY DEF Init, HistoryAligned, IdsUnique, Minted, MapNamesBodies,
         ShardsDistinct, LeavesShaped, AbsorbedCovered
<1> QED BY <1>1, <1>2, <1>3 DEF IInv

-----------------------------------------------------------------------------
(* What bodies growing leaves true.                                        *)

\* The fields of a published body have their types.
LEMMA BodyFields ==
  ASSUME NEW bs \in Seq(Body), NEW b \in DOMAIN bs
  PROVE  /\ bs[b] \in Body
         /\ bs[b].id \in Nat
         /\ bs[b].tokens \in Line
<1>1. bs[b] \in Body
  OBVIOUS
<1> QED BY <1>1 DEF Body

\* Bodies that do not change grow.
LEMMA GrowsReflexive ==
  ASSUME NEW bs \in Seq(Body)
  PROVE  GrowsTo(bs, bs)
BY BodyFields, CoversReflexive DEF GrowsTo

\* What a thread may know of a body (its id and length, that a line is similar
\* to it, a lower bound of a score, that it stands for a line) survives growth.
LEMMA StableFacts ==
  ASSUME NEW bs \in Seq(Body), NEW cs \in Seq(Body), GrowsTo(bs, cs)
  PROVE  /\ \A id, n : Shaped(bs, id, n) => Shaped(cs, id, n)
         /\ \A b, id : \A line \in Line :
              Similar(bs, b, id, line) => Similar(cs, b, id, line)
         /\ \A best : \A line \in Line :
              BestSound(bs, best, line) => BestSound(cs, best, line)
         /\ \A b \in DOMAIN bs : \A line \in Line :
              Covers(bs[b].tokens, line) => Covers(cs[b].tokens, line)
<1>1. ASSUME NEW b \in DOMAIN bs
      PROVE  /\ b \in DOMAIN cs
             /\ cs[b].id = bs[b].id
             /\ cs[b].tokens \in Line /\ bs[b].tokens \in Line
             /\ Covers(cs[b].tokens, bs[b].tokens)
             /\ Len(cs[b].tokens) = Len(bs[b].tokens)
  BY BodyFields DEF GrowsTo, Covers
<1>2. ASSUME NEW b \in DOMAIN bs, NEW line \in Line
      PROVE  /\ Score(bs[b].tokens, line) \in Nat
             /\ Score(cs[b].tokens, line) \in Nat
             /\ Score(bs[b].tokens, line) <= Score(cs[b].tokens, line)
  BY <1>1, ScoreMonotone
<1>3. \A id, n : Shaped(bs, id, n) => Shaped(cs, id, n)
  BY <1>1 DEF Shaped
<1>4. \A b, id : \A line \in Line :
        Similar(bs, b, id, line) => Similar(cs, b, id, line)
  BY <1>1, <1>2, AcceptsMonotone DEF Similar, Matches
<1>5. \A best : \A line \in Line :
        BestSound(bs, best, line) => BestSound(cs, best, line)
  <2> SUFFICES ASSUME NEW best, NEW line \in Line, BestSound(bs, best, line), best # NoBest
               PROVE  BestSound(cs, best, line)
    BY DEF BestSound
  <2>1. best.ref \in DOMAIN bs /\ best.score \in Nat
        /\ best.score <= Score(bs[best.ref].tokens, line)
    BY DEF BestSound
  <2>2. best.score <= Score(cs[best.ref].tokens, line)
    BY <2>1, <1>2
  <2> QED BY <2>1, <2>2, <1>1 DEF BestSound
<1>6. \A b \in DOMAIN bs : \A line \in Line :
        Covers(bs[b].tokens, line) => Covers(cs[b].tokens, line)
  BY <1>1, CoversTransitive
<1> QED BY <1>3, <1>4, <1>5, <1>6

\* The lines of callers are lines, and their paths are paths.
LEMMA LineTypes == Lines \subseteq Line /\ \A l \in Lines : Keys(l) \in Paths
<1> SUFFICES ASSUME NEW l \in Lines PROVE Keys(l) \in Paths
  BY MinerAssumption
<1>1. PICK p : p = Keys(l)
  OBVIOUS
<1>2. p = [i \in DOMAIN p |-> p[i]]
  BY <1>1 DEF Keys
<1>3. p = WithOpen(Keys(l), {})
  BY <1>1, <1>2 DEF WithOpen
<1>4. {} \in SUBSET (1..PrefixLen)
  OBVIOUS
<1> QED BY <1>1, <1>3, <1>4 DEF Paths

\* A thread that does not move keeps what it knows, if bodies only grow and
\* shards are only added.
LEMMA BystanderSound ==
  ASSUME NEW u \in Threads, TypeOK, bodies' \in Seq(Body),
         GrowsTo(bodies, bodies'),
         \A c \in DOMAIN shards : c \in DOMAIN shards' /\ shards'[c] = shards[c],
         pc'[u] = pc[u], op'[u] = op[u], ThreadSound(u)
  PROVE  ThreadSound(u)'
<1>1. bodies \in Seq(Body) /\ op[u].line \in Line
  BY DEF TypeOK, Ops
<1>2. op[u].best.ref \in DOMAIN bodies =>
        op[u].best.ref \in DOMAIN bodies'
  BY DEF GrowsTo
<1>3. pc[u] = "upgrade" => op[u].best.ref \in DOMAIN bodies
  BY DEF ThreadSound, Similar, Applying
<1> QED BY <1>1, <1>2, <1>3, StableFacts DEF ThreadSound

\* Most steps of a thread leave the index and the ids alone and, at most, let
\* a body grow: only what the thread itself knows afterwards is in question.
LEMMA LocalStep ==
  ASSUME IInv, NEW t \in Threads,
         TypeOK',
         UNCHANGED <<index, counter>>,
         GrowsTo(bodies, bodies'),
         Len(bodies') = Len(bodies), Len(history') = Len(bodies'),
         \A u \in Threads \ {t} : pc'[u] = pc[u] /\ op'[u] = op[u],
         Minted(t)' => Minted(t) /\ op'[t].id = op[t].id,
         ThreadSound(t)',
         AbsorbedCovered'
  PROVE  IInv'
<1>1. bodies \in Seq(Body) /\ bodies' \in Seq(Body)
  BY DEF IInv, TypeOK
<1>2. DOMAIN bodies' = DOMAIN bodies /\ \A b \in DOMAIN bodies : bodies'[b].id = bodies[b].id
  BY <1>1 DEF GrowsTo
<1>3. ThreadsSound'
  <2>1. ASSUME NEW u \in Threads \ {t} PROVE ThreadSound(u)'
    BY <1>1, BystanderSound DEF IInv, ThreadsSound, index
  <2> QED BY <2>1 DEF ThreadsSound
<1>4. LeavesShaped'
  BY <1>1, StableFacts DEF IInv, LeavesShaped, index
<1>5. IdsUnique'
  BY <1>2 DEF IInv, IdsUnique, Minted
<1>6. MapNamesBodies'
  BY <1>2 DEF IInv, MapNamesBodies, TypeOK, index
<1>7. ShardsDistinct' /\ HistoryAligned'
  BY DEF IInv, ShardsDistinct, HistoryAligned, index
<1> QED BY <1>3, <1>4, <1>5, <1>6, <1>7 DEF IInv

\* A step that counts no line keeps every counted line stood for.
LEMMA CoveredByGrowth ==
  ASSUME IInv, bodies' \in Seq(Body), GrowsTo(bodies, bodies'),
         Len(bodies') = Len(bodies), history' = history
  PROVE  AbsorbedCovered'
<1>1. bodies \in Seq(Body) /\ history \in Seq(Histories)
      /\ DOMAIN history = DOMAIN bodies
  BY DEF IInv, TypeOK, HistoryAligned
<1>2. DOMAIN bodies' = DOMAIN bodies
  BY <1>1
<1>3. ASSUME NEW b \in DOMAIN bodies, NEW l \in history[b].lines
      PROVE  Covers(bodies'[b].tokens, l)
  <2>1. history[b] \in Histories
    BY <1>1
  <2>2. l \in Line
    BY <2>1, MinerAssumption DEF Histories
  <2> QED BY <1>1, <2>2, StableFacts DEF IInv, AbsorbedCovered
<1> QED BY <1>2, <1>3 DEF AbsorbedCovered

-----------------------------------------------------------------------------
(* The steps before a cluster is found or created.                         *)

\* The locals of an idle thread have their types.
LEMMA NoOpTyped == NoOp \in Ops
BY DEF NoOp, Ops, NoBest, NoVictim, Line

\* The locals a call starts with.
LEMMA RequestTyped ==
  ASSUME NEW kind \in Kinds, NEW l \in Line,
         NEW m \in Members \cup {None}, NEW e \in Nat \cup {None}
  PROVE  /\ Request(kind, l, m, e) \in Ops
         /\ Request(kind, l, m, e).kind = kind
         /\ Request(kind, l, m, e).line = l
         /\ Request(kind, l, m, e).best = NoBest
<1>1. NoOp \in Ops /\ NoOp.best = NoBest
  BY NoOpTyped DEF NoOp
<1>2. ASSUME NEW o \in Ops
      PROVE  LET r == [o EXCEPT !.kind = kind, !.line = l, !.member = m, !.ms = e]
             IN  r \in Ops /\ r.kind = kind /\ r.line = l /\ r.best = o.best
  BY DEF Ops
<1> QED BY <1>1, <1>2 DEF Request

\* What Return does to the variables of the threads.
LEMMA ReturnTyped ==
  ASSUME TypeOK, NEW t \in Threads, NEW result \in Answers, Return(t, result)
  PROVE  /\ op' \in [Threads -> Ops]
         /\ answer' \in [Threads -> Answers]
         /\ pc' \in [Threads -> Places]
         /\ pc'[t] = "idle"
         /\ \A u \in Threads \ {t} : pc'[u] = pc[u] /\ op'[u] = op[u]
BY NoOpTyped DEF TypeOK, Return, Goto, Places

\* Of an idle thread nothing is claimed.
LEMMA IdleSound ==
  ASSUME NEW t \in Threads, pc'[t] = "idle"
  PROVE  ThreadSound(t)' /\ ~Minted(t)'
BY DEF ThreadSound, HasLine, InShard, Scanning, Applying, Minted

\* A caller makes a call.
LEMMA CallStep ==
  ASSUME IInv, NEW t \in Threads, Call(t)
  PROVE  IInv'
<1> USE DEF IInv
<1>1. PICK kind \in Kinds : calls' = [calls EXCEPT ![kind] = @ + 1]
        /\ \/ /\ kind = "add"
              /\ \E l \in Lines, m \in Members \cup {None}, e \in Events \cup {None} :
                   op' = [op EXCEPT ![t] = Request(kind, l, m, e)]
              /\ Goto(t, "shard")
           \/ /\ kind \in {"match", "extract"}
              /\ \E l \in Lines : op' = [op EXCEPT ![t] = Request(kind, l, None, None)]
              /\ Goto(t, "shard")
           \/ /\ kind = "get"
              /\ \E id \in 1..counter :
                   op' = [op EXCEPT ![t] =
                            [NoOp EXCEPT !.kind = kind, !.best.id = id]]
              /\ Goto(t, "lookup")
  BY DEF Call
<1>2. UNCHANGED <<shards, trees, clusters, bodies, counter, tick, history>>
  BY DEF Call, index, clocks
<1>3. Events \subseteq Nat /\ Lines \subseteq Line
  BY MinerAssumption
<1>4. PICK o \in Ops :
        /\ op' = [op EXCEPT ![t] = o]
        /\ \/ /\ Goto(t, "shard")
              /\ o.line \in Lines /\ o.best = NoBest
           \/ /\ Goto(t, "lookup")
              /\ o.kind = "get"
  <2>1. CASE kind = "get"
    <3>1. PICK id \in 1..counter :
            /\ op' = [op EXCEPT ![t] = [NoOp EXCEPT !.kind = kind, !.best.id = id]]
            /\ Goto(t, "lookup")
      BY <1>1, <2>1
    <3>2. id \in Nat
      BY DEF TypeOK
    <3>3. [NoOp EXCEPT !.kind = kind, !.best.id = id] \in Ops
      <4>1. ASSUME NEW o \in Ops PROVE [o EXCEPT !.kind = kind, !.best.id = id] \in Ops
        BY <3>2 DEF Ops
      <4> QED BY <4>1, NoOpTyped
    <3>4. [NoOp EXCEPT !.kind = kind, !.best.id = id].kind = "get"
      BY <2>1 DEF NoOp
    <3> QED BY <3>1, <3>3, <3>4
  <2>2. CASE kind # "get"
    <3>1. PICK l \in Lines, m \in Members \cup {None}, e \in Nat \cup {None} :
            op' = [op EXCEPT ![t] = Request(kind, l, m, e)] /\ Goto(t, "shard")
      BY <1>1, <1>3, <2>2
    <3>2. l \in Line
      BY <1>3
    <3>3. /\ Request(kind, l, m, e) \in Ops
          /\ Request(kind, l, m, e).line = l
          /\ Request(kind, l, m, e).best = NoBest
      BY <3>2, RequestTyped
    <3> QED BY <3>1, <3>3
  <2> QED BY <2>1, <2>2
<1>5. /\ pc' \in [Threads -> Places]
      /\ \A u \in Threads \ {t} : pc'[u] = pc[u]
  BY <1>1 DEF TypeOK, Goto, Places
<1>6. answer' \in [Threads -> Answers]
  <2>1. NoAnswer \in Answers
    BY DEF NoAnswer, Answer, Answers
  <2> QED BY <2>1 DEF Call, TypeOK
<1>7. calls' \in [Kinds -> Nat]
  <2>1. calls' = [calls EXCEPT ![kind] = calls[kind] + 1]
    BY <1>1
  <2> QED BY <2>1 DEF TypeOK
<1>8. TypeOK'
  BY <1>2, <1>4, <1>5, <1>6, <1>7 DEF TypeOK
<1>9. ThreadSound(t)' /\ ~Minted(t)'
  <2>1. op'[t] = o /\ pc'[t] \in {"shard", "lookup"}
    BY <1>4 DEF TypeOK, Goto
  <2>2. CASE pc'[t] = "shard"
    <3>1. o.line \in Lines /\ o.best = NoBest
      BY <1>4, <2>2 DEF TypeOK, Goto
    <3> QED BY <2>1, <2>2, <3>1 DEF ThreadSound, BestSound, HasLine, InShard,
                Scanning, Applying, Minted
  <2>3. CASE pc'[t] = "lookup"
    <3>1. o.kind = "get"
      BY <1>4, <2>3 DEF TypeOK, Goto
    <3> QED BY <2>1, <2>3, <3>1 DEF ThreadSound, HasLine, InShard, Scanning,
                Applying, Minted
  <2> QED BY <2>1, <2>2, <2>3
<1>10. GrowsTo(bodies, bodies')
  BY <1>2, GrowsReflexive DEF TypeOK
<1>11. AbsorbedCovered'
  BY <1>2, <1>10, CoveredByGrowth DEF TypeOK
<1> QED BY <1>2, <1>4, <1>5, <1>8, <1>9, <1>10, <1>11, LocalStep
        DEF HistoryAligned, index

\* A step that changes neither the bodies nor what is recorded of them.
LEMMA QuietStep ==
  ASSUME IInv, NEW t \in Threads,
         TypeOK',
         UNCHANGED <<index, bodies, counter, history>>,
         \A u \in Threads \ {t} : pc'[u] = pc[u] /\ op'[u] = op[u],
         Minted(t)' => Minted(t) /\ op'[t].id = op[t].id,
         ThreadSound(t)'
  PROVE  IInv'
<1>1. bodies \in Seq(Body)
  BY DEF IInv, TypeOK
<1>2. GrowsTo(bodies, bodies')
  BY <1>1, GrowsReflexive
<1>3. AbsorbedCovered'
  BY <1>1, <1>2, CoveredByGrowth
<1> QED BY <1>2, <1>3, LocalStep DEF IInv, HistoryAligned

\* A call that returns without having changed a body.
LEMMA QuietReturn ==
  ASSUME IInv, NEW t \in Threads, NEW result \in Answers, Return(t, result),
         UNCHANGED <<index, bodies, clocks, calls, history>>
  PROVE  IInv'
<1>1. TypeOK'
  BY ReturnTyped DEF IInv, TypeOK, index, clocks
<1> QED BY <1>1, ReturnTyped, IdleSound, QuietStep DEF IInv, clocks

\* A thread goes on to another place with some of its locals changed.
LEMMA Moves ==
  ASSUME TypeOK, NEW t \in Threads, NEW where \in Places, NEW o \in Ops,
         op' = [op EXCEPT ![t] = o], Goto(t, where)
  PROVE  /\ op' \in [Threads -> Ops] /\ pc' \in [Threads -> Places]
         /\ op'[t] = o /\ pc'[t] = where
         /\ \A u \in Threads \ {t} : pc'[u] = pc[u] /\ op'[u] = op[u]
BY DEF TypeOK, Goto

\* The locals of a thread have their types.
LEMMA OpType == ASSUME TypeOK, NEW t \in Threads PROVE op[t] \in Ops
BY DEF TypeOK

\* A thread that has the shard of its token count goes on to read its leaf.
LEMMA EntersShard ==
  ASSUME IInv, NEW t \in Threads, pc[t] \in {"shard", "enter"},
         Len(op[t].line) \in DOMAIN shards,
         op' = [op EXCEPT ![t].shard = shards[Len(op[t].line)]], Goto(t, "read"),
         UNCHANGED <<index, bodies, clocks, calls, answer, history>>
  PROVE  IInv'
<1> DEFINE o == [op[t] EXCEPT !.shard = shards[Len(op[t].line)]]
<1>1. TypeOK /\ ThreadSound(t) /\ op[t] \in Ops
  BY OpType DEF IInv, ThreadsSound
<1>2. shards[Len(op[t].line)] \in Nat
  BY <1>1 DEF TypeOK
<1>3. /\ o \in Ops
      /\ o.line = op[t].line /\ o.best = op[t].best
      /\ o.shard = shards[Len(op[t].line)]
  BY <1>1, <1>2 DEF Ops
<1>4. op' = [op EXCEPT ![t] = o]
  BY <1>1 DEF TypeOK
<1>5. /\ op' \in [Threads -> Ops] /\ pc' \in [Threads -> Places]
      /\ op'[t] = o /\ pc'[t] = "read"
      /\ \A u \in Threads \ {t} : pc'[u] = pc[u] /\ op'[u] = op[u]
  BY <1>1, <1>3, <1>4, Moves DEF Places
<1>6. TypeOK'
  BY <1>1, <1>5 DEF TypeOK, index, clocks
<1>7. ThreadSound(t)' /\ ~Minted(t)'
  BY <1>1, <1>3, <1>5 DEF ThreadSound, HasLine, InShard, Scanning, Applying,
                          Minted, index
<1> QED BY <1>5, <1>6, <1>7, QuietStep DEF clocks

\* The lookup of a shard, by shard_for and match_only.
LEMMA GetShardStep ==
  ASSUME IInv, NEW t \in Threads, GetShard(t)
  PROVE  IInv'
<1>1. TypeOK /\ ThreadSound(t) /\ op[t] \in Ops /\ pc[t] = "shard"
  BY OpType DEF IInv, ThreadsSound, GetShard
<1>2. CASE Len(op[t].line) \in DOMAIN shards
  BY <1>1, <1>2, EntersShard DEF GetShard
<1>3. CASE Len(op[t].line) \notin DOMAIN shards /\ op[t].kind = "add"
  <2>1. UNCHANGED <<op, answer>> /\ Goto(t, "enter")
    BY <1>3 DEF GetShard
  <2>2. pc' \in [Threads -> Places] /\ pc'[t] = "enter"
        /\ \A u \in Threads \ {t} : pc'[u] = pc[u]
    BY <1>1, <2>1 DEF TypeOK, Goto, Places
  <2>3. TypeOK'
    BY <1>1, <2>1, <2>2 DEF GetShard, TypeOK, index, clocks
  <2>4. ThreadSound(t)' /\ ~Minted(t)'
    BY <1>1, <2>1, <2>2 DEF GetShard, ThreadSound, HasLine, InShard, Scanning,
                            Applying, Minted, index
  <2> QED BY <2>1, <2>2, <2>3, <2>4, QuietStep DEF GetShard, clocks
<1>4. CASE Len(op[t].line) \notin DOMAIN shards /\ op[t].kind # "add"
  <2>1. Answer(0, "miss") \in Answers
    BY DEF Answer, Answers
  <2> QED BY <1>4, <2>1, QuietReturn DEF GetShard
<1> QED BY <1>2, <1>3, <1>4

\* A thread moves and only its locals (and the clock) change.
LEMMA QuietMove ==
  ASSUME IInv, NEW t \in Threads, NEW where \in Places, NEW o \in Ops,
         op' = [op EXCEPT ![t] = o], Goto(t, where),
         UNCHANGED <<index, bodies, counter, calls, answer, history>>,
         tick' \in Nat,
         where \in {"stamp", "publish"} => Minted(t) /\ o.id = op[t].id,
         ThreadSound(t)'
  PROVE  IInv'
<1>1. /\ op' \in [Threads -> Ops] /\ pc' \in [Threads -> Places]
      /\ op'[t] = o /\ pc'[t] = where
      /\ \A u \in Threads \ {t} : pc'[u] = pc[u] /\ op'[u] = op[u]
  BY Moves DEF IInv
<1>2. TypeOK'
  BY <1>1 DEF IInv, TypeOK, index
<1>3. Minted(t)' => Minted(t) /\ op'[t].id = op[t].id
  BY <1>1 DEF Minted
<1> QED BY <1>1, <1>2, <1>3, QuietStep

\* The ids a scan starts with are those of a leaf of the line's length.
LEMMA LeafShaped ==
  ASSUME IInv, NEW t \in Threads, pc[t] \in InShard
  PROVE  /\ Leaf(t) \in Seq(Nat)
         /\ \A i \in DOMAIN Leaf(t) : Shaped(bodies, Leaf(t)[i], Len(op[t].line))
<1>1. /\ op[t].line \in Lines
      /\ Len(op[t].line) \in DOMAIN shards
      /\ op[t].shard = shards[Len(op[t].line)]
  BY DEF IInv, ThreadsSound, ThreadSound, InShard, HasLine
<1>2. Keys(op[t].line) \in Paths
  BY <1>1, LineTypes
<1>3. shards[Len(op[t].line)] \in DOMAIN trees
  BY <1>1 DEF IInv, TypeOK
<1>4. trees[op[t].shard] \in [Paths -> Seq(Nat)]
  BY <1>1, <1>3 DEF IInv, TypeOK
<1> QED BY <1>1, <1>2, <1>4 DEF IInv, LeavesShaped, Leaf

\* best_match starts under the read guard.
LEMMA ReadLeafStep ==
  ASSUME IInv, NEW t \in Threads, ReadLeaf(t)
  PROVE  IInv'
<1> DEFINE o == [op[t] EXCEPT !.todo = Leaf(t)]
<1>1. TypeOK /\ ThreadSound(t) /\ op[t] \in Ops /\ pc[t] = "read"
  BY OpType DEF IInv, ThreadsSound, ReadLeaf
<1>2. /\ Leaf(t) \in Seq(Nat)
      /\ \A i \in DOMAIN Leaf(t) : Shaped(bodies, Leaf(t)[i], Len(op[t].line))
  BY <1>1, LeafShaped DEF InShard
<1>3. /\ o \in Ops
      /\ o.line = op[t].line /\ o.best = op[t].best /\ o.shard = op[t].shard
      /\ o.todo = Leaf(t)
  BY <1>1, <1>2 DEF Ops
<1>4. op' = [op EXCEPT ![t] = o] /\ Goto(t, "scan")
  BY <1>1 DEF ReadLeaf, TypeOK
<1>5. op'[t] = o /\ pc'[t] = "scan"
  BY <1>1, <1>3, <1>4, Moves DEF Places
<1>6. ThreadSound(t)'
  BY <1>1, <1>2, <1>3, <1>5 DEF ReadLeaf, ThreadSound, HasLine, InShard, Scanning,
                                Applying, index
<1> QED BY <1>1, <1>3, <1>4, <1>6, QuietMove DEF ReadLeaf, clocks, TypeOK, Places

\* The second best_match starts under the write guard.
LEMMA WriteLeafStep ==
  ASSUME IInv, NEW t \in Threads, WriteLeaf(t)
  PROVE  IInv'
<1> DEFINE o == [op[t] EXCEPT !.todo = Leaf(t), !.best = NoBest]
<1>1. TypeOK /\ ThreadSound(t) /\ op[t] \in Ops /\ pc[t] = "write"
  BY OpType DEF IInv, ThreadsSound, WriteLeaf
<1>2. /\ Leaf(t) \in Seq(Nat)
      /\ \A i \in DOMAIN Leaf(t) : Shaped(bodies, Leaf(t)[i], Len(op[t].line))
  BY <1>1, LeafShaped DEF InShard
<1>3. NoBest \in [id: Nat, ref: Nat, score: Nat \cup {-1}]
  BY DEF NoBest
<1>4. /\ o \in Ops
      /\ o.line = op[t].line /\ o.best = NoBest /\ o.shard = op[t].shard
      /\ o.todo = Leaf(t)
  BY <1>1, <1>2, <1>3 DEF Ops
<1>5. op' = [op EXCEPT ![t] = o] /\ Goto(t, "rescan")
  BY <1>1 DEF WriteLeaf, TypeOK
<1>6. op'[t] = o /\ pc'[t] = "rescan"
  BY <1>1, <1>4, <1>5, Moves DEF Places, Writing
<1>7. ThreadSound(t)'
  BY <1>1, <1>2, <1>4, <1>6 DEF WriteLeaf, ThreadSound, HasLine, InShard, Scanning,
                                Applying, index, BestSound
<1> QED BY <1>1, <1>4, <1>5, <1>7, QuietMove DEF WriteLeaf, clocks, TypeOK, Places, Writing

\* The score of two lines is a number of positions.
LEMMA ScoreType ==
  ASSUME NEW tmpl \in Line, NEW toks \in Line
  PROVE  Score(tmpl, toks) \in Nat
BY ScoreMonotone, CoversReflexive

\* What best_match keeps after a visit is sound, and names a body that the
\* map resolves the id to.
LEMMA BetterSound ==
  ASSUME IInv, NEW line \in Line, NEW id \in Nat, Shaped(bodies, id, Len(line)),
         NEW best \in [id: Nat, ref: Nat, score: Nat \cup {-1}],
         BestSound(bodies, best, line)
  PROVE  /\ Better(best, id, line) \in [id: Nat, ref: Nat, score: Nat \cup {-1}]
         /\ BestSound(bodies, Better(best, id, line), line)
<1>1. CASE id \notin DOMAIN clusters
  BY <1>1 DEF Better
<1>2. CASE id \in DOMAIN clusters
  <2> DEFINE ref == clusters[id]
  <2>1. /\ ref \in DOMAIN bodies /\ ref \in Nat
        /\ bodies[ref].id = id /\ bodies[ref].tokens \in Line
    BY <1>2, BodyFields DEF IInv, TypeOK, MapNamesBodies
  <2>2. Len(bodies[ref].tokens) = Len(line)
    BY <2>1 DEF Shaped, IInv, IdsUnique
  <2>3. Score(bodies[ref].tokens, line) \in Nat
    BY <2>1, ScoreType
  <2> DEFINE new == [id |-> id, ref |-> ref, score |-> Score(bodies[ref].tokens, line)]
  <2>5. new \in [id: Nat, ref: Nat, score: Nat \cup {-1}] /\ BestSound(bodies, new, line)
    BY <2>1, <2>2, <2>3 DEF BestSound
  <2> QED BY <1>2, <2>5 DEF Better
<1> QED BY <1>1, <1>2

\* best_match visits a cluster.
LEMMA VisitStep ==
  ASSUME IInv, NEW t \in Threads, Visit(t)
  PROVE  IInv'
<1> DEFINE new == Better(op[t].best, Head(op[t].todo), op[t].line)
           o == [op[t] EXCEPT !.todo = Tail(op[t].todo), !.best = new]
<1>1. /\ TypeOK /\ ThreadSound(t) /\ op[t] \in Ops
      /\ pc[t] \in {"scan", "rescan"} /\ op[t].todo # <<>>
  BY OpType DEF IInv, ThreadsSound, Visit
<1>2. /\ op[t].todo \in Seq(Nat) /\ op[t].line \in Line
      /\ op[t].best \in [id: Nat, ref: Nat, score: Nat \cup {-1}]
  BY <1>1 DEF Ops
<1>3. /\ BestSound(bodies, op[t].best, op[t].line)
      /\ \A i \in DOMAIN op[t].todo : Shaped(bodies, op[t].todo[i], Len(op[t].line))
  BY <1>1 DEF ThreadSound, Scanning
<1>4. /\ Head(op[t].todo) \in Nat
      /\ Shaped(bodies, Head(op[t].todo), Len(op[t].line))
  BY <1>1, <1>2, <1>3
<1>5. /\ Tail(op[t].todo) \in Seq(Nat)
      /\ \A i \in DOMAIN Tail(op[t].todo) :
           Shaped(bodies, Tail(op[t].todo)[i], Len(op[t].line))
  <2>1. /\ Tail(op[t].todo) \in Seq(Nat) /\ Len(Tail(op[t].todo)) = Len(op[t].todo) - 1
        /\ \A i \in 1..Len(Tail(op[t].todo)) : Tail(op[t].todo)[i] = op[t].todo[i + 1]
    BY <1>1, <1>2, HeadTailProperties
  <2> QED BY <1>2, <1>3, <2>1
<1>6. new \in [id: Nat, ref: Nat, score: Nat \cup {-1}] /\ BestSound(bodies, new, op[t].line)
  BY <1>2, <1>3, <1>4, BetterSound
<1>7. /\ o \in Ops
      /\ o.line = op[t].line /\ o.best = new /\ o.shard = op[t].shard
      /\ o.todo = Tail(op[t].todo)
  BY <1>1, <1>5, <1>6 DEF Ops
<1>8. op' = [op EXCEPT ![t] = o] /\ Goto(t, pc[t])
  BY <1>1 DEF Visit, TypeOK, Goto
<1>9. op'[t] = o /\ pc'[t] = pc[t] /\ pc[t] \in Places
  BY <1>1, <1>7, <1>8, Moves DEF TypeOK
<1>10. ThreadSound(t)'
  BY <1>1, <1>3, <1>5, <1>6, <1>7, <1>9 DEF Visit, ThreadSound, HasLine, InShard,
                                           Scanning, Applying, index
<1> QED BY <1>1, <1>7, <1>8, <1>9, <1>10, QuietMove DEF Visit, clocks, TypeOK

\* The end of a scan that found a cluster: a match of the line, still.
LEMMA FoundSimilar ==
  ASSUME IInv, NEW t \in Threads, pc[t] \in Scanning, Found(t)
  PROVE  Similar(bodies, op[t].best.ref, op[t].best.id, op[t].line)
<1> DEFINE best == op[t].best
           line == op[t].line
<1>1. line \in Line /\ BestSound(bodies, best, line) /\ best # NoBest
  BY DEF IInv, ThreadsSound, ThreadSound, TypeOK, Ops, Found, NoBest
<1>2. /\ best.ref \in DOMAIN bodies /\ bodies[best.ref].id = best.id
      /\ Len(bodies[best.ref].tokens) = Len(line)
      /\ best.score \in Nat /\ best.score <= Score(bodies[best.ref].tokens, line)
  BY <1>1 DEF BestSound
<1>3. Score(bodies[best.ref].tokens, line) \in Nat
  BY <1>1, <1>2, ScoreType, BodyFields DEF IInv, TypeOK
<1>4. Matches(bodies[best.ref].tokens, line)
  BY <1>1, <1>2, <1>3, AcceptsMonotone DEF Found, Matches
<1> QED BY <1>2, <1>4 DEF Similar

\* A thread goes on with the locals it has.
LEMMA GoesOn ==
  ASSUME IInv, NEW t \in Threads, NEW where \in Places \ {"stamp", "publish"},
         UNCHANGED <<index, bodies, clocks, calls, op, answer, history>>,
         Goto(t, where), ThreadSound(t)'
  PROVE  IInv'
<1>1. op' = [op EXCEPT ![t] = op[t]] /\ op[t] \in Ops
  BY DEF IInv, TypeOK
<1> QED BY <1>1, QuietMove DEF IInv, TypeOK, clocks

\* A thread that goes to a place is there.
LEMMA GoesTo ==
  ASSUME IInv, NEW t \in Threads, NEW where, Goto(t, where)
  PROVE  pc'[t] = where
BY DEF IInv, TypeOK, Goto

\* The end of best_match under the read guard.
LEMMA EndScanStep ==
  ASSUME IInv, NEW t \in Threads, EndScan(t)
  PROVE  IInv'
<1>1. TypeOK /\ ThreadSound(t) /\ op[t] \in Ops /\ pc[t] = "scan"
  BY OpType DEF IInv, ThreadsSound, EndScan
<1>2. UNCHANGED <<index, bodies, clocks, calls, history>>
  BY DEF EndScan
<1>3. Found(t) => Similar(bodies, op[t].best.ref, op[t].best.id, op[t].line)
  BY <1>1, FoundSimilar DEF Scanning
<1>4. op[t].line \in Lines
  BY <1>1 DEF ThreadSound, HasLine
<1>5. CASE op[t].kind = "add"
  <2>1. UNCHANGED <<op, answer>> /\ Goto(t, IF Found(t) THEN "hit" ELSE "write")
    BY <1>5 DEF EndScan
  <2>2. CASE Found(t)
    <3>1. pc'[t] = "hit" /\ Goto(t, "hit")
      BY <2>1, <2>2, GoesTo
    <3>2. ThreadSound(t)'
      BY <3>1, <2>1, <2>2, <1>2, <1>3, <1>4
         DEF ThreadSound, HasLine, InShard, Scanning, Applying
    <3> QED BY <3>1, <3>2, <2>1, <1>2, GoesOn DEF Places
  <2>3. CASE ~Found(t)
    <3>1. pc'[t] = "write" /\ Goto(t, "write")
      BY <2>1, <2>3, GoesTo
    <3>2. ThreadSound(t)'
      BY <3>1, <2>1, <1>1, <1>2 DEF ThreadSound, HasLine, InShard, Scanning, Applying, index
    <3> QED BY <3>1, <3>2, <2>1, <1>2, GoesOn DEF Places
  <2> QED BY <2>2, <2>3
<1>6. CASE op[t].kind = "extract" /\ Found(t)
  <2>1. UNCHANGED <<op, answer>> /\ Goto(t, "lookup") /\ pc'[t] = "lookup"
    BY <1>6, GoesTo DEF EndScan
  <2>2. ThreadSound(t)'
    BY <2>1, <1>2, <1>3, <1>4, <1>6 DEF ThreadSound, HasLine, InShard, Scanning, Applying
  <2> QED BY <2>1, <2>2, <1>2, GoesOn DEF Places
<1>7. CASE op[t].kind # "add" /\ ~(op[t].kind = "extract" /\ Found(t))
  <2>1. Return(t, IF Found(t) THEN Answer(op[t].best.id, "match") ELSE Answer(0, "miss"))
    BY <1>7 DEF EndScan
  <2>2. Answer(op[t].best.id, "match") \in Answers /\ Answer(0, "miss") \in Answers
    BY <1>1 DEF Answer, Answers, Ops
  <2> QED BY <2>1, <2>2, <1>2, QuietReturn
<1> QED BY <1>5, <1>6, <1>7

\* The end of best_match under the write guard.
LEMMA EndRescanStep ==
  ASSUME IInv, NEW t \in Threads, EndRescan(t)
  PROVE  IInv'
<1>1. TypeOK /\ ThreadSound(t) /\ pc[t] = "rescan"
  BY DEF IInv, ThreadsSound, EndRescan
<1>2. UNCHANGED <<index, bodies, clocks, calls, op, answer, history>>
      /\ Goto(t, IF Found(t) THEN "hit" ELSE "create")
  BY DEF EndRescan
<1>3. Found(t) => Similar(bodies, op[t].best.ref, op[t].best.id, op[t].line)
  BY <1>1, FoundSimilar DEF Scanning
<1>4. op[t].line \in Lines
  BY <1>1 DEF ThreadSound, HasLine
<1>5. CASE Found(t)
  <2>1. pc'[t] = "hit" /\ Goto(t, "hit")
    BY <1>2, <1>5, GoesTo
  <2>2. ThreadSound(t)'
    BY <2>1, <1>2, <1>3, <1>4, <1>5 DEF ThreadSound, HasLine, InShard, Scanning, Applying
  <2> QED BY <2>1, <2>2, <1>2, GoesOn DEF Places
<1>6. CASE ~Found(t)
  <2>1. pc'[t] = "create" /\ Goto(t, "create")
    BY <1>2, <1>6, GoesTo
  <2>2. ThreadSound(t)'
    BY <2>1, <1>1, <1>2 DEF ThreadSound, HasLine, InShard, Scanning, Applying, index
  <2> QED BY <2>1, <2>2, <1>2, GoesOn DEF Places, Writing
<1> QED BY <1>5, <1>6

\* The tick of a body that is being built.
LEMMA StampStep ==
  ASSUME IInv, NEW t \in Threads, Stamp(t)
  PROVE  IInv'
<1> DEFINE o == [op[t] EXCEPT !.tick = tick]
<1>1. TypeOK /\ ThreadSound(t) /\ op[t] \in Ops /\ pc[t] = "stamp" /\ tick \in Nat
  BY OpType DEF IInv, ThreadsSound, TypeOK, Stamp
<1>2. o \in Ops /\ o.line = op[t].line /\ o.shard = op[t].shard /\ o.id = op[t].id
  BY <1>1 DEF Ops
<1>3. op' = [op EXCEPT ![t] = o] /\ Goto(t, "publish") /\ tick' \in Nat
  BY <1>1 DEF Stamp, TypeOK
<1>4. op'[t] = o /\ pc'[t] = "publish"
  BY <1>1, <1>2, <1>3, Moves DEF Places, Writing
<1>5. ThreadSound(t)'
  BY <1>1, <1>2, <1>4 DEF Stamp, ThreadSound, HasLine, InShard, Scanning, Applying, index
<1> QED BY <1>1, <1>2, <1>3, <1>5, QuietMove DEF Stamp, Places, Writing, Minted

\* The tick of a hit.
LEMMA HitStep ==
  ASSUME IInv, NEW t \in Threads, Hit(t)
  PROVE  IInv'
<1> DEFINE o == [op[t] EXCEPT !.tick = tick]
<1>1. TypeOK /\ ThreadSound(t) /\ op[t] \in Ops /\ pc[t] = "hit" /\ tick \in Nat
  BY OpType DEF IInv, ThreadsSound, TypeOK, Hit
<1>2. o \in Ops /\ o.line = op[t].line /\ o.best = op[t].best
  BY <1>1 DEF Ops
<1>3. op' = [op EXCEPT ![t] = o] /\ Goto(t, "touch") /\ tick' \in Nat
  BY <1>1 DEF Hit, TypeOK
<1>4. op'[t] = o /\ pc'[t] = "touch"
  BY <1>1, <1>2, <1>3, Moves DEF Places, Reading
<1>5. ThreadSound(t)'
  BY <1>1, <1>2, <1>4 DEF Hit, ThreadSound, HasLine, InShard, Scanning, Applying, index
<1> QED BY <1>1, <1>2, <1>3, <1>5, QuietMove DEF Hit, Places, Reading

\* evict_if_full looks at the recency of a cluster.
LEMMA ConsiderStep ==
  ASSUME IInv, NEW t \in Threads, Consider(t)
  PROVE  IInv'
<1>1. TypeOK /\ ThreadSound(t) /\ op[t] \in Ops /\ pc[t] = "evict"
  BY OpType DEF IInv, ThreadsSound, Consider
<1>2. UNCHANGED <<index, bodies, clocks, calls, answer, history>>
  BY DEF Consider
<1>3. CASE op[t].todo # <<>>
  <2> DEFINE id == Head(op[t].todo)
             new == Older(op[t].victim, id)
             o == [op[t] EXCEPT !.todo = Tail(op[t].todo), !.victim = new]
  <2>1. op[t].todo \in Seq(Nat) /\ op[t].victim \in [id: Nat, recency: Nat]
    BY <1>1 DEF Ops
  <2>2. id \in Nat /\ Tail(op[t].todo) \in Seq(Nat)
    BY <1>3, <2>1
  <2>3. Recency(id) \in Nat
    <3>1. CASE id \in DOMAIN clusters
      <4>1. bodies[clusters[id]] \in Body
        BY <1>1, <3>1, BodyFields DEF TypeOK
      <4>2. bodies[clusters[id]].last_used \in Nat
        BY <4>1 DEF Body
      <4> QED BY <3>1, <4>2 DEF Recency
    <3> QED BY <3>1 DEF Recency
  <2>4. new \in [id: Nat, recency: Nat]
    BY <2>1, <2>2, <2>3 DEF Older
  <2>5. o \in Ops /\ o.line = op[t].line /\ o.shard = op[t].shard /\ o.id = op[t].id
    BY <1>1, <2>2, <2>4 DEF Ops
  <2>6. op' = [op EXCEPT ![t] = o] /\ Goto(t, "evict")
    BY <1>1, <1>3 DEF Consider, TypeOK, Goto
  <2>7. op'[t] = o /\ pc'[t] = "evict"
    BY <1>1, <2>5, <2>6, Moves DEF Places, Writing
  <2>8. ThreadSound(t)'
    BY <1>1, <1>2, <2>5, <2>7 DEF ThreadSound, HasLine, InShard, Scanning, Applying, index
  <2> QED BY <1>1, <1>2, <2>5, <2>6, <2>8, QuietMove DEF Places, Writing, clocks, TypeOK
<1>4. CASE op[t].todo = <<>>
  <2>1. UNCHANGED op /\ Goto(t, "link") /\ pc'[t] = "link"
    BY <1>4, GoesTo DEF Consider
  <2>2. ThreadSound(t)'
    BY <2>1, <1>1, <1>2 DEF ThreadSound, HasLine, InShard, Scanning, Applying, index
  <2> QED BY <2>1, <2>2, <1>2, GoesOn DEF Places, Writing
<1> QED BY <1>3, <1>4

-----------------------------------------------------------------------------
(* The steps that read a body.                                             *)

\* The second lookup of extract, and the one of cluster(id).
LEMMA LookupStep ==
  ASSUME IInv, NEW t \in Threads, Lookup(t)
  PROVE  IInv'
<1> DEFINE id == op[t].best.id
           ref == clusters[id]
           o == [op[t] EXCEPT !.best.ref = ref]
           where == IF op[t].kind = "get" THEN "load" ELSE "params"
<1>1. TypeOK /\ ThreadSound(t) /\ op[t] \in Ops /\ pc[t] = "lookup"
  BY OpType DEF IInv, ThreadsSound, Lookup
<1>2. UNCHANGED <<index, bodies, clocks, calls, history>>
  BY DEF Lookup
<1>3. CASE id \in DOMAIN clusters
  <2>1. ref \in DOMAIN bodies /\ ref \in Nat /\ bodies[ref].id = id
    BY <1>1, <1>3 DEF IInv, TypeOK, MapNamesBodies
  <2>2. o \in Ops /\ o.line = op[t].line /\ o.best.ref = ref /\ o.best.id = id
    BY <1>1, <2>1 DEF Ops
  <2>3. op' = [op EXCEPT ![t] = o] /\ Goto(t, where)
    BY <1>1, <1>3 DEF Lookup, TypeOK
  <2>4. where \in Places \ {"stamp", "publish"}
    BY DEF Places
  <2>5. op'[t] = o /\ pc'[t] = where
    BY <1>1, <2>2, <2>3, <2>4, Moves
  <2>6. op[t].kind # "get" => Similar(bodies, ref, id, op[t].line)
    BY <1>1, <2>1 DEF ThreadSound, Similar, IInv, IdsUnique
  <2>7. ThreadSound(t)'
    BY <1>1, <1>2, <2>1, <2>2, <2>5, <2>6 DEF ThreadSound, HasLine, InShard, Scanning, Applying
  <2>8. UNCHANGED answer
    BY <1>3 DEF Lookup
  <2> QED BY <1>1, <1>2, <2>2, <2>3, <2>4, <2>7, <2>8, QuietMove DEF clocks, TypeOK
<1>4. CASE id \notin DOMAIN clusters
  <2>1. Answer(0, "miss") \in Answers
    BY DEF Answer, Answers
  <2> QED BY <1>2, <1>4, <2>1, QuietReturn DEF Lookup
<1> QED BY <1>3, <1>4

\* extract collects the parameters.
LEMMA ParamsStep ==
  ASSUME IInv, NEW t \in Threads, Params(t)
  PROVE  IInv'
<1>1. Answer(op[t].best.id, "params") \in Answers
  BY DEF IInv, TypeOK, Ops, Answer, Answers
<1> QED BY <1>1, QuietReturn DEF Params

\* to_public reads the start of the event window.
LEMMA ShowFirstStep ==
  ASSUME IInv, NEW t \in Threads, ShowFirst(t)
  PROVE  IInv'
<1> DEFINE first == bodies[op[t].best.ref].first
           o == [op[t] EXCEPT !.ms = first]
<1>1. TypeOK /\ ThreadSound(t) /\ op[t] \in Ops /\ pc[t] = "load"
  BY OpType DEF IInv, ThreadsSound, ShowFirst
<1>2. UNCHANGED <<index, bodies, clocks, calls, history>>
  BY DEF ShowFirst
<1>3. op[t].best.ref \in DOMAIN bodies
  BY <1>1 DEF ThreadSound
<1>4. bodies[op[t].best.ref] \in Body
  BY <1>1, <1>3, BodyFields DEF TypeOK
<1>5. first \in Nat
  BY <1>4 DEF Body
<1>6. CASE first = EventUnset
  <2>1. Answer(op[t].best.id, "shown") \in Answers
    BY <1>1 DEF Ops, Answer, Answers
  <2> QED BY <1>2, <1>6, <2>1, QuietReturn DEF ShowFirst
<1>7. CASE first # EventUnset
  <2>1. o \in Ops /\ o.best = op[t].best
    BY <1>1, <1>5 DEF Ops
  <2>2. op' = [op EXCEPT ![t] = o] /\ Goto(t, "show") /\ UNCHANGED answer
    BY <1>1, <1>7 DEF ShowFirst, TypeOK
  <2>3. op'[t] = o /\ pc'[t] = "show"
    BY <1>1, <2>1, <2>2, Moves DEF Places, Reading
  <2>4. ThreadSound(t)'
    BY <1>2, <1>3, <2>1, <2>3 DEF ThreadSound, HasLine, InShard, Scanning, Applying
  <2> QED BY <1>1, <1>2, <2>1, <2>2, <2>4, QuietMove DEF clocks, TypeOK, Places, Reading
<1> QED BY <1>6, <1>7

\* to_public reads the end of the event window.
LEMMA ShowLastStep ==
  ASSUME IInv, NEW t \in Threads, ShowLast(t)
  PROVE  IInv'
<1> DEFINE last == bodies[op[t].best.ref].last
           shown == [Answer(op[t].best.id, "shown") EXCEPT !.first = op[t].ms, !.last = last]
<1>1. TypeOK /\ ThreadSound(t) /\ op[t] \in Ops /\ pc[t] = "show"
  BY OpType DEF IInv, ThreadsSound, ShowLast
<1>2. bodies[op[t].best.ref] \in Body
  BY <1>1, BodyFields DEF TypeOK, ThreadSound
<1>3. last \in Nat
  BY <1>2 DEF Body
<1>4. shown \in Answers
  BY <1>1, <1>3 DEF Ops, Answer, Answers
<1> QED BY <1>4, QuietReturn DEF ShowLast

-----------------------------------------------------------------------------
(* The steps that change a body.                                           *)

\* Changing a body in place to one of the same id, no less general.
LEMMA BodyChange ==
  ASSUME NEW bs \in Seq(Body), NEW ref \in DOMAIN bs, NEW body \in Body,
         body.id = bs[ref].id, Covers(body.tokens, bs[ref].tokens)
  PROVE  /\ [bs EXCEPT ![ref] = body] \in Seq(Body)
         /\ Len([bs EXCEPT ![ref] = body]) = Len(bs)
         /\ [bs EXCEPT ![ref] = body][ref] = body
         /\ \A b \in DOMAIN bs \ {ref} : [bs EXCEPT ![ref] = body][b] = bs[b]
         /\ GrowsTo(bs, [bs EXCEPT ![ref] = body])
<1> DEFINE cs == [bs EXCEPT ![ref] = body]
<1>1. DOMAIN bs = 1..Len(bs)
  OBVIOUS
<1>2. /\ cs \in Seq(Body) /\ Len(cs) = Len(bs)
      /\ \A b \in 1..Len(bs) : cs[b] = IF b = ref THEN body ELSE bs[b]
  BY <1>1, ExceptSeq
<1>3. \A b \in DOMAIN bs : Covers(bs[b].tokens, bs[b].tokens)
  BY BodyFields, CoversReflexive
<1> QED BY <1>1, <1>2, <1>3 DEF GrowsTo

\* A body replaced in place leaves the heap a sequence of bodies that grew.
LEMMA BodyStep ==
  ASSUME bodies \in Seq(Body), NEW ref \in DOMAIN bodies, NEW body \in Body,
         body.id = bodies[ref].id, Covers(body.tokens, bodies[ref].tokens),
         bodies' = [bodies EXCEPT ![ref] = body]
  PROVE  /\ bodies' \in Seq(Body)
         /\ Len(bodies') = Len(bodies)
         /\ bodies'[ref] = body
         /\ \A b \in DOMAIN bodies \ {ref} : bodies'[b] = bodies[b]
         /\ GrowsTo(bodies, bodies')
<1>1. bodies' \in Seq(Body)
  BY BodyChange, ZenonT(60)
<1>2. Len(bodies') = Len(bodies)
  BY BodyChange, ZenonT(60)
<1>3. bodies'[ref] = body
  BY BodyChange, ZenonT(60)
<1>4. \A b \in DOMAIN bodies \ {ref} : bodies'[b] = bodies[b]
  BY BodyChange, ZenonT(60)
<1>5. GrowsTo(bodies, bodies')
  BY BodyChange, ZenonT(60)
<1> QED BY <1>1, <1>2, <1>3, <1>4, <1>5

\* A thread with a match goes on after changing what is not the template.
LEMMA TouchingMove ==
  ASSUME IInv, NEW t \in Threads, pc[t] \in Applying \ {"upgrade"}, NEW body \in Body,
         NEW ref, ref = op[t].best.ref,
         NEW where \in Applying \ {"upgrade"},
         body.id = bodies[ref].id,
         body.tokens = bodies[ref].tokens,
         bodies' = [bodies EXCEPT ![ref] = body],
         Goto(t, where), where \in {"first", "last"} => op[t].ms \in Nat,
         UNCHANGED <<index, clocks, calls, op, answer, history>>
  PROVE  IInv'
<1>1. TypeOK /\ ThreadSound(t) /\ op[t] \in Ops
  BY OpType DEF IInv, ThreadsSound
<1>2. /\ op[t].line \in Lines /\ op[t].line \in Line
      /\ Similar(bodies, op[t].best.ref, op[t].best.id, op[t].line)
  BY <1>1, MinerAssumption DEF ThreadSound, HasLine, Applying
<1>3. ref \in DOMAIN bodies /\ bodies \in Seq(Body)
  BY <1>1, <1>2 DEF Similar, TypeOK
<1>4. Covers(body.tokens, bodies[ref].tokens)
  BY <1>3, BodyFields, CoversReflexive
<1>5. bodies' \in Seq(Body) /\ Len(bodies') = Len(bodies) /\ GrowsTo(bodies, bodies')
  BY <1>3, <1>4, BodyStep
<1>6. pc'[t] = where /\ pc' \in [Threads -> Places]
      /\ \A u \in Threads \ {t} : pc'[u] = pc[u] /\ op'[u] = op[u]
  BY <1>1 DEF Goto, TypeOK, Applying, Places, Reading
<1>7. DOMAIN bodies' = DOMAIN bodies
  BY <1>3, <1>5
<1>8. TypeOK'
  BY <1>1, <1>5, <1>6, <1>7 DEF TypeOK, index, clocks
<1>9. Similar(bodies', op[t].best.ref, op[t].best.id, op[t].line)
  <2>1. \A b, id : \A line \in Line :
          Similar(bodies, b, id, line) => Similar(bodies', b, id, line)
    BY <1>3, <1>5, StableFacts
  <2> QED BY <1>2, <2>1
<1>10. ThreadSound(t)' /\ ~Minted(t)'
  BY <1>2, <1>6, <1>9 DEF ThreadSound, HasLine, InShard, Scanning, Applying, Minted
<1>11. AbsorbedCovered'
  BY <1>5, CoveredByGrowth
<1> QED BY <1>5, <1>6, <1>8, <1>10, <1>11, LocalStep DEF clocks, IInv, HistoryAligned

\* A thread that applies a match has a body, with its types.
LEMMA ApplierBody ==
  ASSUME IInv, NEW t \in Threads, pc[t] \in Applying
  PROVE  /\ op[t].best.ref \in DOMAIN bodies
         /\ bodies[op[t].best.ref] \in Body
         /\ bodies \in Seq(Body)
BY BodyFields DEF IInv, ThreadsSound, ThreadSound, Similar, TypeOK

\* Touching and observing change neither the id nor the template of a body.
LEMMA BodyUpdates ==
  ASSUME NEW body \in Body, NEW n \in Nat
  PROVE  /\ Touched(body, n) \in Body
         /\ [body EXCEPT !.first = n] \in Body
         /\ [body EXCEPT !.last = n] \in Body
         /\ Touched(body, n).id = body.id /\ Touched(body, n).tokens = body.tokens
<1>1. body.size + 1 \in Nat
  BY DEF Body
<1>2. ASSUME NEW m \in Nat
      PROVE  [body EXCEPT !.size = m, !.last_used = n] \in Body
  BY DEF Body
<1>3. Touched(body, n) = [body EXCEPT !.size = body.size + 1, !.last_used = n]
  BY DEF Touched
<1> QED BY <1>1, <1>2, <1>3 DEF Body

\* ClusterInner::touch.
LEMMA TouchStep ==
  ASSUME IInv, NEW t \in Threads, Touch(t)
  PROVE  IInv'
<1> DEFINE ref == op[t].best.ref
           body == Touched(bodies[ref], op[t].tick)
           where == IF Unset(op[t].ms) THEN "decide" ELSE "first"
<1>1. pc[t] = "touch" /\ pc[t] \in Applying \ {"upgrade"} /\ where \in Applying \ {"upgrade"}
  BY DEF Touch, Applying
<1>2. ref \in DOMAIN bodies /\ bodies[ref] \in Body /\ op[t].tick \in Nat
  BY <1>1, ApplierBody DEF IInv, TypeOK, Ops
<1>3. body \in Body /\ body.id = bodies[ref].id /\ body.tokens = bodies[ref].tokens
  BY <1>2, BodyUpdates
<1>4. bodies' = [bodies EXCEPT ![ref] = body] /\ Goto(t, where)
  BY DEF Touch
<1>5. where = "first" => op[t].ms \in Nat
  BY DEF IInv, TypeOK, Ops, Unset
<1> QED BY <1>1, <1>3, <1>4, <1>5, TouchingMove DEF Touch

\* The fetch_min of observe_event.
LEMMA ObserveFirstStep ==
  ASSUME IInv, NEW t \in Threads, ObserveFirst(t)
  PROVE  IInv'
<1> DEFINE ref == op[t].best.ref
           n == IF op[t].ms < bodies[ref].first THEN op[t].ms ELSE bodies[ref].first
           body == [bodies[ref] EXCEPT !.first = n]
<1>1. /\ pc[t] = "first" /\ pc[t] \in Applying \ {"upgrade"}
      /\ "last" \in Applying \ {"upgrade"}
  BY DEF ObserveFirst, Applying
<1>2. ref \in DOMAIN bodies /\ bodies[ref] \in Body /\ bodies \in Seq(Body)
  BY <1>1, ApplierBody
<1>3. op[t].ms \in Nat
  BY <1>1 DEF IInv, ThreadsSound, ThreadSound
<1>4. n \in Nat
  BY <1>2, <1>3 DEF Body
<1>5. body \in Body /\ body.id = bodies[ref].id /\ body.tokens = bodies[ref].tokens
  <2>1. body \in Body
    BY <1>2, <1>4, BodyUpdates
  <2> QED BY <1>2, <2>1 DEF Body
<1>6. bodies' = [bodies EXCEPT ![ref] = body] /\ Goto(t, "last")
  BY <1>2 DEF ObserveFirst
<1> QED BY <1>1, <1>3, <1>5, <1>6, TouchingMove DEF ObserveFirst

\* The fetch_max of observe_event.
LEMMA ObserveLastStep ==
  ASSUME IInv, NEW t \in Threads, ObserveLast(t)
  PROVE  IInv'
<1> DEFINE ref == op[t].best.ref
           n == IF op[t].ms > bodies[ref].last THEN op[t].ms ELSE bodies[ref].last
           body == [bodies[ref] EXCEPT !.last = n]
<1>1. /\ pc[t] = "last" /\ pc[t] \in Applying \ {"upgrade"}
      /\ "decide" \in Applying \ {"upgrade"}
  BY DEF ObserveLast, Applying
<1>2. ref \in DOMAIN bodies /\ bodies[ref] \in Body /\ bodies \in Seq(Body)
  BY <1>1, ApplierBody
<1>3. op[t].ms \in Nat
  BY <1>1 DEF IInv, ThreadsSound, ThreadSound
<1>4. n \in Nat
  BY <1>2, <1>3 DEF Body
<1>5. body \in Body /\ body.id = bodies[ref].id /\ body.tokens = bodies[ref].tokens
  <2>1. body \in Body
    BY <1>2, <1>4, BodyUpdates
  <2> QED BY <1>2, <2>1 DEF Body
<1>6. bodies' = [bodies EXCEPT ![ref] = body] /\ Goto(t, "decide")
  BY <1>2 DEF ObserveLast
<1> QED BY <1>1, <1>5, <1>6, TouchingMove DEF ObserveLast

\* A line is counted on a body whose template stands for it by then.
LEMMA AbsorbStep ==
  ASSUME IInv, bodies' \in Seq(Body), GrowsTo(bodies, bodies'),
         Len(bodies') = Len(bodies),
         NEW ref \in DOMAIN bodies, NEW line \in Lines, NEW h \in Histories,
         h.lines = history[ref].lines \cup {line},
         history' = [history EXCEPT ![ref] = h],
         Covers(bodies'[ref].tokens, line)
  PROVE  /\ history' \in Seq(Histories)
         /\ Len(history') = Len(bodies')
         /\ AbsorbedCovered'
<1>1. /\ bodies \in Seq(Body) /\ history \in Seq(Histories)
      /\ Len(history) = Len(bodies)
      /\ DOMAIN history = 1..Len(bodies) /\ DOMAIN bodies = 1..Len(bodies)
      /\ DOMAIN bodies' = 1..Len(bodies)
  BY DEF IInv, TypeOK, HistoryAligned
<1>2. history' \in Seq(Histories)
  BY <1>1, ExceptSeq, ZenonT(60)
<1>3. Len(history') = Len(history)
  BY <1>1, ExceptSeq, ZenonT(60)
<1>4. \A b \in 1..Len(bodies) : history'[b] = IF b = ref THEN h ELSE history[b]
  BY <1>1
<1>5. ASSUME NEW b \in DOMAIN bodies, NEW l \in history[b].lines
      PROVE  Covers(bodies'[b].tokens, l)
  <2>1. history[b] \in Histories
    BY <1>1
  <2>2. l \in Line
    BY <2>1, MinerAssumption DEF Histories
  <2> QED BY <1>1, <2>2, StableFacts DEF IInv, AbsorbedCovered
<1>6. AbsorbedCovered'
  BY <1>1, <1>4, <1>5 DEF AbsorbedCovered
<1> QED BY <1>1, <1>2, <1>3, <1>6

\* Recording a line keeps the history of a body typed.
LEMMA AbsorbTyped ==
  ASSUME NEW h \in Histories, NEW o \in Ops, o.line \in Lines, NEW changed \in BOOLEAN
  PROVE  /\ Absorb(h, o, changed) \in Histories
         /\ Absorb(h, o, changed).lines = h.lines \cup {o.line}
<1> DEFINE n == IF changed THEN h.changes + 1 ELSE h.changes
<1>1. o.ms \in Nat \cup {None}
  BY DEF Ops
<1>2. /\ h.events \cup ({o.ms} \ {None}) \in SUBSET Nat
      /\ h.lines \cup {o.line} \in SUBSET Lines
      /\ n \in Nat
  BY <1>1 DEF Histories
<1>3. ASSUME NEW ls \in SUBSET Lines, NEW es \in SUBSET Nat, NEW m \in Nat
      PROVE  LET g == [h EXCEPT !.lines = ls, !.events = es, !.changes = m]
             IN  g \in Histories /\ g.lines = ls
  BY DEF Histories
<1> QED BY <1>2, <1>3 DEF Absorb

\* would_generalize under the read guard, and the early return of apply_match.
LEMMA DecideStep ==
  ASSUME IInv, NEW t \in Threads, Decide(t)
  PROVE  IInv'
<1> DEFINE ref == op[t].best.ref
           needs == WouldGeneralize(bodies[ref].tokens, op[t].line)
           o == [op[t] EXCEPT !.needs = needs]
<1>1. /\ TypeOK /\ ThreadSound(t) /\ op[t] \in Ops
      /\ pc[t] = "decide" /\ pc[t] \in Applying
  BY OpType DEF IInv, ThreadsSound, Decide, Applying
<1>2. ref \in DOMAIN bodies /\ bodies[ref] \in Body /\ bodies[ref].tokens \in Line
  BY <1>1, ApplierBody, BodyFields
<1>3. /\ op[t].line \in Lines /\ op[t].line \in Line
      /\ Similar(bodies, ref, op[t].best.id, op[t].line)
  BY <1>1, MinerAssumption DEF ThreadSound, HasLine
<1>4. ~needs => Covers(bodies[ref].tokens, op[t].line)
  BY <1>2, <1>3, NothingToGeneralize DEF Similar
<1>5. UNCHANGED <<index, bodies, clocks, calls>>
  BY DEF Decide
<1>6. CASE needs \/ op[t].member # None
  <2>1. o \in Ops /\ o.line = op[t].line /\ o.best = op[t].best /\ o.needs = needs
    <3>1. needs \in BOOLEAN
      BY DEF WouldGeneralize
    <3> QED BY <1>1, <3>1 DEF Ops
  <2>2. op' = [op EXCEPT ![t] = o] /\ Goto(t, "upgrade") /\ UNCHANGED <<answer, history>>
    BY <1>1, <1>6 DEF Decide, TypeOK
  <2>3. op'[t] = o /\ pc'[t] = "upgrade"
    BY <1>1, <2>1, <2>2, Moves DEF Places
  <2>4. ThreadSound(t)'
    BY <1>3, <1>4, <1>5, <2>1, <2>3
       DEF ThreadSound, HasLine, InShard, Scanning, Applying
  <2> QED BY <1>1, <1>5, <2>1, <2>2, <2>4, QuietMove DEF clocks, TypeOK, Places
<1>7. CASE ~needs /\ op[t].member = None
  <2>1. /\ Return(t, Answer(op[t].best.id, "None"))
        /\ history' = [history EXCEPT ![ref] = Absorb(@, op[t], FALSE)]
    BY <1>7 DEF Decide
  <2>2. Answer(op[t].best.id, "None") \in Answers
    BY <1>1 DEF Ops, Answer, Answers
  <2>3. history[ref] \in Histories
    BY <1>2 DEF IInv, TypeOK, HistoryAligned
  <2>4. /\ Absorb(history[ref], op[t], FALSE) \in Histories
        /\ Absorb(history[ref], op[t], FALSE).lines = history[ref].lines \cup {op[t].line}
    BY <1>1, <1>3, <2>3, AbsorbTyped
  <2>5. history' = [history EXCEPT ![ref] = Absorb(history[ref], op[t], FALSE)]
    BY <1>2, <2>1 DEF IInv, TypeOK, HistoryAligned
  <2>6. /\ bodies' \in Seq(Body) /\ Len(bodies') = Len(bodies) /\ bodies' = bodies
        /\ GrowsTo(bodies, bodies')
    BY <1>1, <1>5, GrowsReflexive DEF TypeOK
  <2>7. /\ history' \in Seq(Histories) /\ Len(history') = Len(bodies')
        /\ AbsorbedCovered'
    BY <1>2, <1>3, <1>4, <1>7, <2>4, <2>5, <2>6, AbsorbStep
  <2>8. TypeOK'
    BY <1>1, <1>5, <2>1, <2>2, <2>6, <2>7, ReturnTyped DEF TypeOK, index, clocks
  <2> QED BY <1>1, <1>5, <2>1, <2>2, <2>6, <2>7, <2>8, ReturnTyped, IdleSound, LocalStep
          DEF clocks
<1> QED BY <1>6, <1>7

\* The write section of apply_match: the body is looked at again.
LEMMA UpgradeStep ==
  ASSUME IInv, NEW t \in Threads, Upgrade(t)
  PROVE  IInv'
<1> DEFINE ref == op[t].best.ref
           tmpl == bodies[ref].tokens
           line == op[t].line
           changed == Changed(op[t].needs, tmpl, line)
           tokens == NewTokens(op[t].needs, tmpl, line)
           members == bodies[ref].members \cup ({op[t].member} \ {None})
           body == [bodies[ref] EXCEPT !.tokens = tokens, !.members = members]
           h == Absorb(history[ref], op[t], changed)
<1>1. /\ TypeOK /\ ThreadSound(t) /\ op[t] \in Ops
      /\ pc[t] = "upgrade" /\ pc[t] \in Applying
  BY OpType DEF IInv, ThreadsSound, Upgrade, Applying
<1>2. /\ ref \in DOMAIN bodies /\ bodies[ref] \in Body /\ bodies \in Seq(Body)
      /\ tmpl \in Line
  BY <1>1, ApplierBody, BodyFields
<1>3. /\ line \in Lines /\ line \in Line /\ Len(tmpl) = Len(line)
      /\ ~op[t].needs => Covers(tmpl, line)
  BY <1>1, MinerAssumption DEF ThreadSound, HasLine, Similar
<1>4. /\ tokens \in Line /\ Covers(tokens, tmpl) /\ Covers(tokens, line)
  <2>1. CASE op[t].needs
    BY <2>1, <1>2, <1>3, GeneralizeCovers DEF NewTokens
  <2>2. CASE ~op[t].needs
    BY <2>2, <1>2, <1>3, CoversReflexive DEF NewTokens
  <2> QED BY <2>1, <2>2
<1>5. members \in SUBSET Members
  BY <1>1, <1>2 DEF Ops, Body
<1>6. body \in Body /\ body.id = bodies[ref].id /\ body.tokens = tokens
  BY <1>2, <1>4, <1>5 DEF Body
<1>7. bodies' = [bodies EXCEPT ![ref] = body]
  <2>1. bodies' = [bodies EXCEPT ![ref].tokens = tokens,
                                 ![ref].members = @ \cup ({op[t].member} \ {None})]
    BY DEF Upgrade
  <2> QED BY <1>2, <2>1 DEF Body
<1>8. /\ bodies' \in Seq(Body) /\ Len(bodies') = Len(bodies)
      /\ bodies'[ref] = body /\ GrowsTo(bodies, bodies')
  BY <1>2, <1>4, <1>6, <1>7, BodyStep
<1>9. history[ref] \in Histories
  BY <1>2 DEF IInv, TypeOK, HistoryAligned
<1>10. h \in Histories /\ h.lines = history[ref].lines \cup {line}
  <2>1. changed \in BOOLEAN
    BY <1>1 DEF Changed, Ops, WouldGeneralize
  <2> QED BY <2>1, <1>1, <1>3, <1>9, AbsorbTyped
<1>11. history' = [history EXCEPT ![ref] = h]
  BY DEF Upgrade
<1>12. /\ history' \in Seq(Histories) /\ Len(history') = Len(bodies')
       /\ AbsorbedCovered'
  BY <1>2, <1>3, <1>4, <1>6, <1>8, <1>10, <1>11, AbsorbStep
<1>13. /\ Return(t, Answer(op[t].best.id, IF changed THEN "TemplateChanged" ELSE "None"))
       /\ UNCHANGED <<index, clocks, calls>>
  BY DEF Upgrade
<1>14. Answer(op[t].best.id, IF changed THEN "TemplateChanged" ELSE "None") \in Answers
  BY <1>1 DEF Ops, Answer, Answers
<1>15. DOMAIN bodies' = DOMAIN bodies
  BY <1>2, <1>8
<1>16. TypeOK'
  BY <1>1, <1>8, <1>12, <1>13, <1>14, <1>15, ReturnTyped DEF TypeOK, index, clocks
<1> QED BY <1>1, <1>8, <1>12, <1>13, <1>14, <1>16, ReturnTyped, IdleSound, LocalStep
        DEF clocks

-----------------------------------------------------------------------------
(* The steps that change the index.                                        *)

\* shard_for creates the shard, or finds that another thread has.
LEMMA EnterShardStep ==
  ASSUME IInv, NEW t \in Threads, EnterShard(t)
  PROVE  IInv'
<1> DEFINE count == Len(op[t].line)
           new == Len(trees) + 1
           o == [op[t] EXCEPT !.shard = new]
<1>1. /\ TypeOK /\ ThreadSound(t) /\ op[t] \in Ops /\ pc[t] = "enter"
      /\ op[t].line \in Lines
  BY OpType DEF IInv, ThreadsSound, EnterShard, ThreadSound, HasLine
<1>2. CASE count \in DOMAIN shards
  <2>1. UNCHANGED <<index, bodies, clocks, calls, answer, history>>
    BY <1>2 DEF EnterShard, index
  <2> QED BY <1>1, <1>2, <2>1, EntersShard DEF EnterShard
<1>3. CASE count \notin DOMAIN shards
  <2>1. /\ trees' = Append(trees, [p \in Paths |-> <<>>])
        /\ shards' = Put(shards, count, new)
        /\ op' = [op EXCEPT ![t].shard = new]
        /\ Goto(t, "read")
        /\ UNCHANGED <<clusters, bodies, clocks, calls, answer, history>>
    BY <1>3 DEF EnterShard
  <2>2. /\ trees \in Seq([Paths -> Seq(Nat)]) /\ bodies \in Seq(Body)
        /\ Len(trees) \in Nat /\ DOMAIN trees = 1..Len(trees)
    BY <1>1 DEF TypeOK
  <2>3. [p \in Paths |-> <<>>] \in [Paths -> Seq(Nat)]
    OBVIOUS
  <2>4. /\ trees' \in Seq([Paths -> Seq(Nat)]) /\ Len(trees') = new
        /\ DOMAIN trees' = 1..new
        /\ \A s \in DOMAIN trees : trees'[s] = trees[s]
        /\ trees'[new] = [p \in Paths |-> <<>>]
    BY <2>1, <2>2, <2>3, AppendProperties
  <2>5. /\ DOMAIN shards' = DOMAIN shards \cup {count}
        /\ shards'[count] = new
        /\ \A c \in DOMAIN shards : shards'[c] = shards[c] /\ shards[c] \in 1..Len(trees)
    BY <1>1, <1>3, <2>1, <2>2 DEF Put, TypeOK
  <2>6. shards' \in [DOMAIN shards' -> DOMAIN trees']
    <3>1. \A c \in DOMAIN shards' : shards'[c] \in 1..new
      BY <2>2, <2>5
    <3>2. shards' = [c \in DOMAIN shards' |-> shards'[c]]
      BY <2>1 DEF Put
    <3> QED BY <3>1, <3>2, <2>4
  <2>7. o \in Ops /\ o.line = op[t].line /\ o.best = op[t].best /\ o.shard = new
    <3>1. new \in Nat
      BY <2>2
    <3>2. \A s \in Nat : LET q == [op[t] EXCEPT !.shard = s]
                         IN  q \in Ops /\ q.line = op[t].line /\ q.best = op[t].best
                             /\ q.shard = s
      BY <1>1 DEF Ops
    <3> QED BY <3>1, <3>2
  <2>8. op' = [op EXCEPT ![t] = o]
    BY <1>1, <2>1 DEF TypeOK
  <2>9. /\ op' \in [Threads -> Ops] /\ pc' \in [Threads -> Places]
        /\ op'[t] = o /\ pc'[t] = "read"
        /\ \A u \in Threads \ {t} : pc'[u] = pc[u] /\ op'[u] = op[u]
    BY <1>1, <2>1, <2>7, <2>8, Moves DEF Places
  <2>10. TypeOK'
    BY <1>1, <2>1, <2>4, <2>6, <2>9 DEF TypeOK, clocks
  <2>11. ThreadsSound'
    <3>1. GrowsTo(bodies, bodies') /\ bodies' \in Seq(Body)
      BY <2>1, <2>2, GrowsReflexive
    <3>2. ASSUME NEW u \in Threads \ {t} PROVE ThreadSound(u)'
      BY <1>1, <2>5, <2>9, <3>1, BystanderSound DEF IInv, ThreadsSound
    <3>3. ThreadSound(t)'
      BY <1>1, <2>1, <2>5, <2>7, <2>9
         DEF ThreadSound, HasLine, InShard, Scanning, Applying
    <3> QED BY <3>2, <3>3 DEF ThreadsSound
  <2>12. ShardsDistinct'
    BY <2>2, <2>5 DEF IInv, ShardsDistinct
  <2>13. LeavesShaped'
    <3> SUFFICES ASSUME NEW c \in DOMAIN shards', NEW p \in Paths,
                        NEW i \in DOMAIN trees'[shards'[c]][p]
                 PROVE  Shaped(bodies, trees'[shards'[c]][p][i], c)
      BY <2>1 DEF LeavesShaped
    <3>1. CASE c \in DOMAIN shards
      <4>1. trees'[shards'[c]] = trees[shards[c]]
        BY <3>1, <2>2, <2>4, <2>5
      <4> QED BY <3>1, <4>1 DEF IInv, LeavesShaped
    <3>2. CASE c \notin DOMAIN shards
      <4>1. trees'[shards'[c]][p] = <<>>
        BY <3>2, <2>4, <2>5
      <4> QED BY <4>1
    <3> QED BY <3>1, <3>2
  <2>14. IdsUnique'
    BY <1>1, <2>1, <2>9 DEF IInv, IdsUnique, Minted, clocks
  <2>15. HistoryAligned' /\ MapNamesBodies' /\ AbsorbedCovered'
    BY <2>1 DEF IInv, HistoryAligned, MapNamesBodies, AbsorbedCovered
  <2> QED BY <2>10, <2>11, <2>12, <2>13, <2>14, <2>15 DEF IInv
<1> QED BY <1>2, <1>3

\* An id is taken from the counter.
LEMMA NewIdStep ==
  ASSUME IInv, NEW t \in Threads, NewId(t)
  PROVE  IInv'
<1> DEFINE o == [op[t] EXCEPT !.id = counter + 1]
<1>1. /\ TypeOK /\ ThreadSound(t) /\ op[t] \in Ops /\ pc[t] = "create"
      /\ counter \in Nat /\ bodies \in Seq(Body)
  BY OpType DEF IInv, ThreadsSound, NewId, TypeOK
<1>2. /\ counter' = counter + 1
      /\ op' = [op EXCEPT ![t].id = counter + 1]
      /\ Goto(t, "stamp")
      /\ UNCHANGED <<shards, trees, clusters, bodies, tick, calls, answer, history>>
  BY DEF NewId, index
<1>3. o \in Ops /\ o.line = op[t].line /\ o.shard = op[t].shard /\ o.id = counter + 1
  <2>1. counter + 1 \in Nat
    BY <1>1
  <2>2. \A n \in Nat : LET q == [op[t] EXCEPT !.id = n]
                       IN  q \in Ops /\ q.line = op[t].line /\ q.shard = op[t].shard
                           /\ q.id = n
    BY <1>1 DEF Ops
  <2> QED BY <2>1, <2>2
<1>4. op' = [op EXCEPT ![t] = o]
  BY <1>1, <1>2 DEF TypeOK
<1>5. /\ op' \in [Threads -> Ops] /\ pc' \in [Threads -> Places]
      /\ op'[t] = o /\ pc'[t] = "stamp"
      /\ \A u \in Threads \ {t} : pc'[u] = pc[u] /\ op'[u] = op[u]
  BY <1>1, <1>2, <1>3, <1>4, Moves DEF Places, Writing
<1>6. TypeOK'
  BY <1>1, <1>2, <1>5 DEF TypeOK
<1>7. ThreadsSound'
  <2>1. GrowsTo(bodies, bodies') /\ bodies' \in Seq(Body)
    BY <1>1, <1>2, GrowsReflexive
  <2>2. ASSUME NEW u \in Threads \ {t} PROVE ThreadSound(u)'
    BY <1>1, <1>2, <1>5, <2>1, BystanderSound DEF IInv, ThreadsSound
  <2>3. ThreadSound(t)'
    BY <1>1, <1>2, <1>3, <1>5 DEF ThreadSound, HasLine, InShard, Scanning, Applying
  <2> QED BY <2>2, <2>3 DEF ThreadsSound
<1>8. IdsUnique'
  <2>1. \A b \in DOMAIN bodies : bodies[b].id \in Nat /\ bodies[b].id <= counter
    BY <1>1, BodyFields DEF IInv, IdsUnique
  <2>2. \A u \in Threads : op[u].id \in Nat
    BY <1>1 DEF TypeOK, Ops
  <2>3. Minted(t)' /\ op'[t].id = counter + 1
    BY <1>3, <1>5 DEF Minted
  <2>4. \A u \in Threads \ {t} : Minted(u)' => Minted(u) /\ op'[u].id = op[u].id
                                               /\ op[u].id <= counter
    BY <1>5 DEF Minted, IInv, IdsUnique
  <2>5. \A b \in DOMAIN bodies' : bodies'[b].id <= counter'
    BY <1>1, <1>2, <2>1
  <2>6. \A u \in Threads : Minted(u)' =>
          /\ op'[u].id <= counter'
          /\ \A b \in DOMAIN bodies' : bodies'[b].id # op'[u].id
    BY <1>1, <1>2, <2>1, <2>2, <2>3, <2>4 DEF IInv, IdsUnique
  <2>7. \A u, w \in Threads : Minted(u)' /\ Minted(w)' /\ op'[w].id = op'[u].id => w = u
    BY <1>1, <2>2, <2>3, <2>4 DEF IInv, IdsUnique
  <2>8. \A a, b \in DOMAIN bodies' : bodies'[a].id = bodies'[b].id => a = b
    BY <1>2 DEF IInv, IdsUnique
  <2> QED BY <2>5, <2>6, <2>7, <2>8 DEF IdsUnique
<1>9. HistoryAligned' /\ MapNamesBodies' /\ ShardsDistinct' /\ LeavesShaped'
      /\ AbsorbedCovered'
  BY <1>2 DEF IInv, HistoryAligned, MapNamesBodies, ShardsDistinct, LeavesShaped,
              AbsorbedCovered
<1> QED BY <1>6, <1>7, <1>8, <1>9 DEF IInv

\* LeafBucket::remove leaves only ids that were there.
LEMMA SwapRemoveElements ==
  ASSUME NEW ids \in Seq(Nat), NEW id \in Nat
  PROVE  /\ SwapRemove(ids, id) \in Seq(Nat)
         /\ \A i \in DOMAIN SwapRemove(ids, id) :
              \E j \in DOMAIN ids : SwapRemove(ids, id)[i] = ids[j]
<1>1. CASE \A i \in DOMAIN ids : ids[i] # id
  BY <1>1 DEF SwapRemove
<1>2. CASE \E i \in DOMAIN ids : ids[i] = id
  <2>1. Len(ids) \in Nat \ {0} /\ DOMAIN ids = 1..Len(ids)
    BY <1>2
  <2>2. PICK pos : SwapRemove(ids, id) =
          [i \in 1..(Len(ids) - 1) |-> IF i = pos THEN ids[Len(ids)] ELSE ids[i]]
    BY <1>2 DEF SwapRemove
  <2> QED BY <2>1, <2>2
<1> QED BY <1>1, <1>2

\* ClusterInner::new builds a body of the line.
LEMMA NewBodyTyped ==
  ASSUME NEW o \in Ops
  PROVE  /\ NewBody(o) \in Body
         /\ NewBody(o).id = o.id
         /\ NewBody(o).tokens = o.line
<1>1. /\ o.id \in Nat /\ o.tick \in Nat /\ o.line \in Line
      /\ o.ms \in Nat \cup {None} /\ o.member \in Members \cup {None}
  BY DEF Ops
<1>2. EventUnset \in Nat
  BY MinerAssumption
<1> QED BY <1>1, <1>2 DEF NewBody, Body, Unset

\* A new body enters the map.
LEMMA PublishStep ==
  ASSUME IInv, NEW t \in Threads, Publish(t)
  PROVE  IInv'
<1> DEFINE line == op[t].line
           id == op[t].id
           ref == Len(bodies) + 1
           new == NewBody(op[t])
           h == [seed |-> line, lines |-> {line}, events |-> {op[t].ms} \ {None},
                 changes |-> 0]
           full == IsFull(Leaf(t))
           o == IF full THEN [op[t] EXCEPT !.todo = Leaf(t)] ELSE op[t]
           where == IF full THEN "evict" ELSE "link"
<1>1. /\ TypeOK /\ ThreadSound(t) /\ op[t] \in Ops /\ pc[t] = "publish"
      /\ bodies \in Seq(Body) /\ history \in Seq(Histories)
      /\ Len(history) = Len(bodies)
  BY OpType DEF IInv, ThreadsSound, Publish, TypeOK, HistoryAligned
<1>2. /\ bodies' = Append(bodies, new)
      /\ clusters' = Put(clusters, id, ref)
      /\ history' = Append(history, h)
      /\ UNCHANGED <<shards, trees, counter, tick, calls, answer>>
  BY DEF Publish, clocks
<1>3. /\ line \in Lines /\ line \in Line /\ id \in Nat
      /\ id <= counter /\ \A b \in DOMAIN bodies : bodies[b].id # id
  BY <1>1, MinerAssumption DEF ThreadSound, HasLine, Ops, IInv, IdsUnique, Minted
<1>4. new \in Body /\ new.id = id /\ new.tokens = line
  BY <1>1, NewBodyTyped
<1>5. h \in Histories
  <2>1. op[t].ms \in Nat \cup {None}
    BY <1>1 DEF Ops
  <2> QED BY <1>3, <2>1 DEF Histories
<1>6. /\ bodies' \in Seq(Body) /\ Len(bodies') = ref /\ ref \in Nat
      /\ DOMAIN bodies = 1..Len(bodies) /\ DOMAIN bodies' = 1..ref
      /\ \A b \in DOMAIN bodies : bodies'[b] = bodies[b]
      /\ bodies'[ref] = new
      /\ DOMAIN bodies' = DOMAIN bodies \cup {ref} /\ ref \notin DOMAIN bodies
  BY <1>1, <1>2, <1>4, AppendProperties
<1>7. /\ history' \in Seq(Histories) /\ Len(history') = ref
      /\ \A b \in DOMAIN bodies : history'[b] = history[b]
      /\ history'[ref] = h
  BY <1>1, <1>2, <1>5, AppendProperties
<1>8. GrowsTo(bodies, bodies')
  BY <1>1, <1>6, BodyFields, CoversReflexive DEF GrowsTo
<1>9. /\ o \in Ops /\ o.line = line /\ o.id = id /\ o.shard = op[t].shard
      /\ o.best = op[t].best
  <2>1. Leaf(t) \in Seq(Nat)
    BY <1>1, LeafShaped DEF InShard
  <2> QED BY <1>1, <2>1 DEF Ops
<1>10. op' = [op EXCEPT ![t] = o] /\ Goto(t, where)
  BY <1>1 DEF Publish, TypeOK
<1>11. /\ op' \in [Threads -> Ops] /\ pc' \in [Threads -> Places]
       /\ op'[t] = o /\ pc'[t] = where
       /\ \A u \in Threads \ {t} : pc'[u] = pc[u] /\ op'[u] = op[u]
  BY <1>1, <1>9, <1>10, Moves DEF Places, Writing
<1>12. /\ clusters' \in [DOMAIN clusters' -> DOMAIN bodies']
       /\ DOMAIN clusters' = DOMAIN clusters \cup {id}
       /\ \A x \in DOMAIN clusters' :
            clusters'[x] = IF x = id THEN ref ELSE clusters[x]
  BY <1>1, <1>2, <1>6 DEF Put, TypeOK
<1>13. TypeOK'
  BY <1>1, <1>2, <1>6, <1>7, <1>11, <1>12 DEF TypeOK
<1>14. ThreadsSound'
  <2>1. ASSUME NEW u \in Threads \ {t} PROVE ThreadSound(u)'
    BY <1>1, <1>2, <1>6, <1>8, <1>11, BystanderSound DEF IInv, ThreadsSound
  <2>2. Shaped(bodies', id, Len(line))
    BY <1>4, <1>6 DEF Shaped
  <2>3. ThreadSound(t)'
    BY <1>1, <1>2, <1>3, <1>9, <1>11, <2>2
       DEF ThreadSound, HasLine, InShard, Scanning, Applying
  <2> QED BY <2>1, <2>3 DEF ThreadsSound
<1>15. IdsUnique'
  <2>1. ~Minted(t)' /\ Minted(t)
    BY <1>1, <1>11 DEF Minted
  <2>2. \A u \in Threads : Minted(u)' => u # t /\ Minted(u) /\ op'[u].id = op[u].id
                                         /\ op[u].id # id
    BY <1>11, <2>1 DEF Minted, IInv, IdsUnique
  <2>3. \A b \in DOMAIN bodies' : bodies'[b].id <= counter'
    BY <1>2, <1>3, <1>4, <1>6 DEF IInv, IdsUnique
  <2>4. \A a, b \in DOMAIN bodies' : bodies'[a].id = bodies'[b].id => a = b
    BY <1>3, <1>4, <1>6 DEF IInv, IdsUnique
  <2>5. \A u \in Threads : Minted(u)' =>
          /\ op'[u].id <= counter'
          /\ \A b \in DOMAIN bodies' : bodies'[b].id # op'[u].id
    BY <1>2, <1>4, <1>6, <2>2 DEF IInv, IdsUnique
  <2>6. \A u, w \in Threads : Minted(u)' /\ Minted(w)' /\ op'[w].id = op'[u].id => w = u
    BY <2>2 DEF IInv, IdsUnique
  <2> QED BY <2>3, <2>4, <2>5, <2>6 DEF IdsUnique
<1>16. MapNamesBodies'
  <2> SUFFICES ASSUME NEW x \in DOMAIN clusters'
               PROVE  bodies'[clusters'[x]].id = x
    BY DEF MapNamesBodies
  <2>1. CASE x = id
    BY <2>1, <1>4, <1>6, <1>12
  <2>2. CASE x # id
    <3>1. clusters'[x] = clusters[x] /\ x \in DOMAIN clusters /\ clusters[x] \in DOMAIN bodies
      BY <2>2, <1>1, <1>12 DEF TypeOK
    <3> QED BY <3>1, <1>6 DEF IInv, MapNamesBodies
  <2> QED BY <2>1, <2>2
<1>17. LeavesShaped' /\ ShardsDistinct'
  <2>1. \A x, n : Shaped(bodies, x, n) => Shaped(bodies', x, n)
    BY <1>1, <1>6, <1>8, StableFacts
  <2> QED BY <1>2, <2>1 DEF IInv, LeavesShaped, ShardsDistinct
<1>18. AbsorbedCovered' /\ HistoryAligned'
  <2>1. Covers(new.tokens, line)
    BY <1>3, <1>4, CoversReflexive
  <2>2. h.lines = {line}
    OBVIOUS
  <2> QED BY <1>6, <1>7, <2>1, <2>2 DEF IInv, AbsorbedCovered, HistoryAligned
<1> QED BY <1>13, <1>14, <1>15, <1>16, <1>17, <1>18 DEF IInv

\* The victim leaves the index, and the new id enters the leaf.
LEMMA LinkStep ==
  ASSUME IInv, NEW t \in Threads, Link(t)
  PROVE  IInv'
<1> DEFINE s == op[t].shard
           path == Keys(op[t].line)
           count == Len(op[t].line)
           kept == SwapRemove(trees[s][path], op[t].victim.id)
           leaf == Append(kept, op[t].id)
<1>1. /\ TypeOK /\ ThreadSound(t) /\ op[t] \in Ops /\ pc[t] = "link"
      /\ bodies \in Seq(Body)
  BY OpType DEF IInv, ThreadsSound, Link, TypeOK
<1>2. /\ trees' = [trees EXCEPT ![s][path] = leaf]
      /\ clusters' = Without(clusters, op[t].victim.id)
      /\ Return(t, Answer(op[t].id, "Created"))
      /\ UNCHANGED <<shards, bodies, counter, tick, calls, history>>
  BY DEF Link, clocks
<1>3. /\ op[t].line \in Lines /\ path \in Paths
      /\ count \in DOMAIN shards /\ s = shards[count] /\ s \in DOMAIN trees
      /\ Shaped(bodies, op[t].id, count)
  BY <1>1, LineTypes DEF ThreadSound, HasLine, InShard, TypeOK
<1>4. trees \in Seq([Paths -> Seq(Nat)]) /\ trees[s] \in [Paths -> Seq(Nat)]
  BY <1>1, <1>3 DEF TypeOK
<1>5. trees[s][path] \in Seq(Nat) /\ op[t].id \in Nat /\ op[t].victim.id \in Nat
  BY <1>1, <1>3, <1>4 DEF Ops
<1>6. /\ kept \in Seq(Nat)
      /\ \A i \in DOMAIN kept : \E j \in DOMAIN trees[s][path] : kept[i] = trees[s][path][j]
  BY <1>5, SwapRemoveElements
<1>7. \A j \in DOMAIN trees[s][path] : Shaped(bodies, trees[s][path][j], count)
  BY <1>3 DEF IInv, LeavesShaped
<1>8. leaf \in Seq(Nat) /\ \A i \in DOMAIN leaf : Shaped(bodies, leaf[i], count)
  <2> HIDE DEF kept
  <2>1. /\ leaf \in Seq(Nat) /\ DOMAIN leaf = 1..(Len(kept) + 1)
        /\ \A i \in 1..Len(kept) : leaf[i] = kept[i]
        /\ leaf[Len(kept) + 1] = op[t].id
    BY <1>5, <1>6, AppendProperties
  <2>2. \A i \in 1..Len(kept) : Shaped(bodies, kept[i], count)
    BY <1>6, <1>7
  <2> QED BY <1>3, <1>6, <2>1, <2>2
<1>9. /\ trees' \in Seq([Paths -> Seq(Nat)]) /\ DOMAIN trees' = DOMAIN trees
      /\ \A r \in DOMAIN trees, p \in Paths :
           trees'[r][p] = IF r = s /\ p = path THEN leaf ELSE trees[r][p]
  <2> DEFINE tree == [trees[s] EXCEPT ![path] = leaf]
  <2> HIDE DEF leaf
  <2>1. tree \in [Paths -> Seq(Nat)]
    BY <1>4, <1>8
  <2>2. trees' = [trees EXCEPT ![s] = tree]
    BY <1>2, <1>3
  <2>3. s \in 1..Len(trees)
    BY <1>3, <1>4
  <2>4. trees' \in Seq([Paths -> Seq(Nat)])
    <3> HIDE DEF tree
    <3>1. [trees EXCEPT ![s] = tree] \in Seq([Paths -> Seq(Nat)])
      BY <2>1, <2>3, <1>4, ExceptSeq, ZenonT(60)
    <3> QED BY <3>1, <2>2, ZenonT(60)
  <2>5. \A r \in DOMAIN trees : trees'[r] = IF r = s THEN tree ELSE trees[r]
    BY <2>2
  <2>6. DOMAIN trees' = DOMAIN trees
    BY <2>2
  <2>7. \A p \in Paths : tree[p] = IF p = path THEN leaf ELSE trees[s][p]
    BY <1>4
  <2> QED BY <2>4, <2>5, <2>6, <2>7
<1>10. Answer(op[t].id, "Created") \in Answers
  BY <1>5 DEF Answer, Answers
<1>11. /\ clusters' \in [DOMAIN clusters' -> DOMAIN bodies']
       /\ DOMAIN clusters' \subseteq DOMAIN clusters
       /\ \A x \in DOMAIN clusters' : clusters'[x] = clusters[x]
  BY <1>1, <1>2 DEF Without, TypeOK
<1>12. /\ op' \in [Threads -> Ops] /\ pc' \in [Threads -> Places]
       /\ answer' \in [Threads -> Answers]
       /\ pc'[t] = "idle"
       /\ \A u \in Threads \ {t} : pc'[u] = pc[u] /\ op'[u] = op[u]
  BY <1>1, <1>2, <1>10, ReturnTyped
<1>13. TypeOK'
  BY <1>1, <1>2, <1>9, <1>11, <1>12 DEF TypeOK
<1>14. ThreadsSound'
  <2>1. GrowsTo(bodies, bodies') /\ bodies' \in Seq(Body)
    BY <1>1, <1>2, GrowsReflexive
  <2>2. ASSUME NEW u \in Threads \ {t} PROVE ThreadSound(u)'
    BY <1>1, <1>2, <1>12, <2>1, BystanderSound DEF IInv, ThreadsSound
  <2> QED BY <1>12, <2>2, IdleSound DEF ThreadsSound
<1>15. LeavesShaped'
  <2> SUFFICES ASSUME NEW c \in DOMAIN shards, NEW p \in Paths,
                      NEW i \in DOMAIN trees'[shards[c]][p]
               PROVE  Shaped(bodies, trees'[shards[c]][p][i], c)
    BY <1>2 DEF LeavesShaped
  <2>1. shards[c] \in DOMAIN trees
    BY <1>1 DEF TypeOK
  <2>2. CASE shards[c] = s /\ p = path
    <3>1. c = count
      BY <2>2, <1>3 DEF IInv, ShardsDistinct
    <3> QED BY <3>1, <2>1, <2>2, <1>8, <1>9
  <2>3. CASE ~(shards[c] = s /\ p = path)
    <3>1. trees'[shards[c]][p] = trees[shards[c]][p]
      BY <2>1, <2>3, <1>9
    <3> QED BY <3>1 DEF IInv, LeavesShaped
  <2> QED BY <2>2, <2>3
<1>16. MapNamesBodies'
  BY <1>2, <1>11 DEF IInv, MapNamesBodies
<1>17. IdsUnique'
  BY <1>2, <1>12 DEF IInv, IdsUnique, Minted
<1>18. HistoryAligned' /\ ShardsDistinct' /\ AbsorbedCovered'
  BY <1>2 DEF IInv, HistoryAligned, ShardsDistinct, AbsorbedCovered
<1> QED BY <1>13, <1>14, <1>15, <1>16, <1>17, <1>18 DEF IInv

-----------------------------------------------------------------------------
(* The specification keeps the invariant.                                  *)

\* A step that changes nothing, such as a rest after the last call.
LEMMA StutterStep ==
  ASSUME IInv, UNCHANGED vars
  PROVE  IInv'
<1> USE DEF vars
<1>1. TypeOK'
  BY DEF IInv, TypeOK
<1>2. HistoryAligned' /\ MapNamesBodies' /\ ShardsDistinct' /\ AbsorbedCovered'
  BY DEF IInv, HistoryAligned, MapNamesBodies, ShardsDistinct, AbsorbedCovered
<1>3. IdsUnique' /\ LeavesShaped'
  BY DEF IInv, IdsUnique, Minted, LeavesShaped
<1>4. ThreadsSound'
  BY DEF IInv, ThreadsSound, ThreadSound
<1> QED BY <1>1, <1>2, <1>3, <1>4 DEF IInv

\* Every step of every thread keeps the inductive invariant.
THEOREM NextIInv == IInv /\ [Next]_vars => IInv'
<1> SUFFICES ASSUME IInv, [Next]_vars PROVE IInv'
  OBVIOUS
<1>1. ASSUME NEW t \in Threads, Call(t) PROVE IInv'
  BY <1>1, CallStep
<1>2. ASSUME NEW t \in Threads, Step(t) PROVE IInv'
  <2>1. CASE GetShard(t) \/ EnterShard(t) \/ ReadLeaf(t) \/ Visit(t) \/ EndScan(t)
    BY <2>1, GetShardStep, EnterShardStep, ReadLeafStep, VisitStep, EndScanStep
  <2>2. CASE WriteLeaf(t) \/ EndRescan(t) \/ NewId(t) \/ Stamp(t) \/ Publish(t)
             \/ Consider(t) \/ Link(t)
    BY <2>2, WriteLeafStep, EndRescanStep, NewIdStep, StampStep, PublishStep,
       ConsiderStep, LinkStep
  <2>3. CASE Hit(t) \/ Touch(t) \/ ObserveFirst(t) \/ ObserveLast(t) \/ Decide(t)
             \/ Upgrade(t)
    BY <2>3, HitStep, TouchStep, ObserveFirstStep, ObserveLastStep, DecideStep,
       UpgradeStep
  <2>4. CASE Lookup(t) \/ Params(t) \/ ShowFirst(t) \/ ShowLast(t)
    BY <2>4, LookupStep, ParamsStep, ShowFirstStep, ShowLastStep
  <2> QED BY <1>2, <2>1, <2>2, <2>3, <2>4 DEF Step
<1>3. CASE Rest \/ UNCHANGED vars
  BY <1>3, StutterStep DEF Rest
<1> QED BY <1>1, <1>2, <1>3 DEF Next

\* In every reachable state of the miner the inductive invariant holds.
THEOREM Inductive == Spec => []IInv
<1>1. Init => IInv
  BY InitIInv
<1>2. IInv /\ [Next]_vars => IInv'
  BY NextIInv
<1> QED BY <1>1, <1>2, PTL DEF Spec

-----------------------------------------------------------------------------
(* What follows for the callers.                                           *)

\* Every reference a thread, the map or the shard table holds points to a body
\* or a shard that was allocated, whatever the threads do.
THEOREM TypeCorrect == Spec => []TypeOK
<1>1. IInv => TypeOK
  BY DEF IInv
<1> QED BY <1>1, Inductive, PTL

\* A template stands for every line that add counted on it, for any number of
\* threads whose apply_match calls interleave on it.
THEOREM AbsorbedLinesAreCovered == Spec => []AbsorbedCovered
<1>1. IInv => AbsorbedCovered
  BY DEF IInv
<1> QED BY <1>1, Inductive, PTL

\* A match found by best_match is a match when it is applied, though the guard
\* of its shard was dropped in between: generalize is never given a line of
\* another length, and an add never lands in a cluster below the threshold.
THEOREM MatchesStaySimilar == Spec => []MatchStaysSimilar
<1>1. IInv => MatchStaysSimilar
  BY DEF IInv, ThreadsSound, ThreadSound, Similar, Applying, MatchStaysSimilar
<1> QED BY <1>1, Inductive, PTL
-----------------------------------------------------------------------------
(* Templates only open.                                                    *)

\* The critical section of Upgrade changes the template of its body only, and
\* leaves a heap that grew.
LEMMA UpgradeTokens ==
  ASSUME IInv, NEW t \in Threads, Upgrade(t)
  PROVE  /\ GrowsTo(bodies, bodies')
         /\ DOMAIN bodies' = DOMAIN bodies
         /\ \A b \in DOMAIN bodies :
              bodies'[b].tokens = IF b = op[t].best.ref
                                  THEN NewTokens(op[t].needs, bodies[b].tokens, op[t].line)
                                  ELSE bodies[b].tokens
<1> DEFINE ref == op[t].best.ref
           tmpl == bodies[ref].tokens
           tokens == NewTokens(op[t].needs, tmpl, op[t].line)
           members == bodies[ref].members \cup ({op[t].member} \ {None})
           body == [bodies[ref] EXCEPT !.tokens = tokens, !.members = members]
<1>1. pc[t] \in Applying /\ op[t] \in Ops /\ ThreadSound(t)
  BY OpType DEF Upgrade, Applying, IInv, ThreadsSound
<1>2. /\ ref \in DOMAIN bodies /\ bodies[ref] \in Body /\ bodies \in Seq(Body)
      /\ tmpl \in Line
  BY <1>1, ApplierBody, BodyFields
<1>3. op[t].line \in Line /\ Len(tmpl) = Len(op[t].line)
  BY <1>1, MinerAssumption DEF ThreadSound, HasLine, Applying, Similar
<1>4. tokens \in Line /\ Covers(tokens, tmpl)
  BY <1>2, <1>3, GeneralizeCovers, CoversReflexive DEF NewTokens
<1>5. members \in SUBSET Members
  BY <1>1, <1>2 DEF Ops, Body
<1>6. body \in Body /\ body.id = bodies[ref].id /\ body.tokens = tokens
  BY <1>2, <1>4, <1>5 DEF Body
<1>7. bodies' = [bodies EXCEPT ![ref] = body]
  <2>1. bodies' = [bodies EXCEPT ![ref].tokens = tokens,
                                 ![ref].members = @ \cup ({op[t].member} \ {None})]
    BY DEF Upgrade
  <2> QED BY <1>2, <2>1 DEF Body
<1>8. /\ DOMAIN bodies' = DOMAIN bodies /\ bodies'[ref] = body
      /\ \A b \in DOMAIN bodies \ {ref} : bodies'[b] = bodies[b]
  BY <1>2, <1>7
<1> QED BY <1>2, <1>4, <1>6, <1>7, <1>8, BodyStep

\* A touch or an observation changes neither a template nor an id.
LEMMA TouchingTokens ==
  ASSUME IInv, NEW t \in Threads,
         Touch(t) \/ ObserveFirst(t) \/ ObserveLast(t)
  PROVE  /\ DOMAIN bodies' = DOMAIN bodies
         /\ \A b \in DOMAIN bodies : bodies'[b].id = bodies[b].id
                                     /\ bodies'[b].tokens = bodies[b].tokens
<1> DEFINE ref == op[t].best.ref
<1>1. ref \in DOMAIN bodies /\ bodies[ref] \in Body /\ bodies \in Seq(Body)
  BY ApplierBody DEF Touch, ObserveFirst, ObserveLast, Applying
<1>2. ASSUME NEW n, NEW body \in {Touched(bodies[ref], n), [bodies[ref] EXCEPT !.first = n],
                            [bodies[ref] EXCEPT !.last = n]}
      PROVE  body.id = bodies[ref].id /\ body.tokens = bodies[ref].tokens
  BY <1>1 DEF Touched, Body
<1>3. PICK body : /\ bodies' = [bodies EXCEPT ![ref] = body]
                  /\ body.id = bodies[ref].id /\ body.tokens = bodies[ref].tokens
  <2>1. CASE Touch(t)
    BY <2>1, <1>2 DEF Touch
  <2>2. CASE ObserveFirst(t)
    <3> DEFINE n == IF op[t].ms < bodies[ref].first THEN op[t].ms ELSE bodies[ref].first
    <3>1. bodies' = [bodies EXCEPT ![ref] = [bodies[ref] EXCEPT !.first = n]]
      BY <2>2, <1>1 DEF ObserveFirst
    <3> QED BY <3>1, <1>2
  <2>3. CASE ObserveLast(t)
    <3> DEFINE n == IF op[t].ms > bodies[ref].last THEN op[t].ms ELSE bodies[ref].last
    <3>1. bodies' = [bodies EXCEPT ![ref] = [bodies[ref] EXCEPT !.last = n]]
      BY <2>3, <1>1 DEF ObserveLast
    <3> QED BY <3>1, <1>2
  <2> QED BY <2>1, <2>2, <2>3
<1> QED BY <1>1, <1>3

\* So it leaves a heap that grew.
LEMMA TouchingGrows ==
  ASSUME IInv, NEW t \in Threads,
         Touch(t) \/ ObserveFirst(t) \/ ObserveLast(t)
  PROVE  GrowsTo(bodies, bodies')
BY TouchingTokens, BodyFields, CoversReflexive DEF GrowsTo, IInv, TypeOK

\* A new body is appended to the heap.
LEMMA PublishGrows ==
  ASSUME IInv, NEW t \in Threads, Publish(t)
  PROVE  GrowsTo(bodies, bodies')
<1>1. bodies \in Seq(Body) /\ bodies' = Append(bodies, NewBody(op[t]))
  BY DEF IInv, TypeOK, Publish
<1>2. \A b \in DOMAIN bodies : b \in DOMAIN bodies' /\ bodies'[b] = bodies[b]
  BY <1>1
<1> QED BY <1>1, <1>2, BodyFields, CoversReflexive DEF GrowsTo

\* Every step leaves a heap of bodies that grew.
LEMMA NextGrows ==
  ASSUME IInv, [Next]_vars
  PROVE  GrowsTo(bodies, bodies')
<1>1. ASSUME UNCHANGED bodies PROVE GrowsTo(bodies, bodies')
  BY <1>1, GrowsReflexive DEF IInv, TypeOK
<1>2. ASSUME NEW t \in Threads, Call(t) \/ Step(t) PROVE GrowsTo(bodies, bodies')
  <2>1. CASE Upgrade(t) \/ Touch(t) \/ ObserveFirst(t) \/ ObserveLast(t) \/ Publish(t)
    BY <2>1, UpgradeTokens, TouchingGrows, PublishGrows
  <2>2. CASE Call(t) \/ GetShard(t) \/ EnterShard(t) \/ ReadLeaf(t) \/ Visit(t)
    BY <2>2, <1>1 DEF Call, GetShard, EnterShard, ReadLeaf, Visit
  <2>3. CASE EndScan(t) \/ WriteLeaf(t) \/ EndRescan(t) \/ NewId(t) \/ Stamp(t)
    BY <2>3, <1>1 DEF EndScan, WriteLeaf, EndRescan, NewId, Stamp
  <2>4. CASE Consider(t) \/ Link(t) \/ Hit(t) \/ Decide(t)
    BY <2>4, <1>1 DEF Consider, Link, Hit, Decide
  <2>5. CASE Lookup(t) \/ Params(t) \/ ShowFirst(t) \/ ShowLast(t)
    BY <2>5, <1>1 DEF Lookup, Params, ShowFirst, ShowLast
  <2> QED BY <1>2, <2>1, <2>2, <2>3, <2>4, <2>5 DEF Step
<1>3. CASE Rest \/ UNCHANGED vars
  BY <1>3, <1>1 DEF Rest, vars
<1> QED BY <1>2, <1>3 DEF Next

\* Whatever the threads do, a body keeps its id and its template only ever
\* loses tokens to wildcards: apply_match never writes back an older template.
THEOREM TemplatesNeverNarrow == Spec => TemplatesOnlyOpen
<1>1. IInv /\ [Next]_vars =>
        [\A b \in DOMAIN bodies :
           /\ b \in DOMAIN bodies'
           /\ bodies'[b].id = bodies[b].id
           /\ Covers(bodies'[b].tokens, bodies[b].tokens)]_vars
  BY NextGrows DEF GrowsTo
<1> QED BY <1>1, Inductive, PTL DEF Spec, TemplatesOnlyOpen
=============================================================================
