----------------------------- MODULE BodyProofs -----------------------------
(***************************************************************************)
(* Proofs about what add reports of a body and what the body remembers of  *)
(* the events, for any number of threads whose apply_match calls           *)
(* interleave on it.                                                       *)
(*                                                                         *)
(* The first argument counts: a change that is reported opens a position   *)
(* that was closed.  The second follows each timestamp on its way: a       *)
(* thread that has lowered the earlier end carries its timestamp until     *)
(* the match is recorded, and so does one that has raised the later end.   *)
(***************************************************************************)
EXTENDS IndexProofs, Induction

-----------------------------------------------------------------------------
(* What is reported.                                                       *)

\* The positions that were opened since the cluster was created.
Opened(tmpl, seed) == Holes(tmpl) \ Holes(seed)

Reported(tmpl, h) ==
  /\ h.changes <= Cardinality(Opened(tmpl, h.seed))
  /\ tmpl # h.seed => h.changes > 0

\* What a match adds to the history of a body.
LEMMA AbsorbFields ==
  ASSUME NEW h \in Histories, NEW o, NEW changed
  PROVE  /\ Absorb(h, o, changed).seed = h.seed
         /\ Absorb(h, o, changed).events = h.events \cup ({o.ms} \ {None})
         /\ Absorb(h, o, changed).changes = IF changed THEN h.changes + 1 ELSE h.changes
<1>1. ASSUME NEW n, NEW ls, NEW es
      PROVE  LET g == [h EXCEPT !.lines = ls, !.events = es, !.changes = n]
             IN  g.seed = h.seed /\ g.events = es /\ g.changes = n
  BY DEF Histories
<1> QED BY <1>1 DEF Absorb

\* A second look that finds nothing to generalize leaves the template alone.
LEMMA NotChanged ==
  ASSUME NEW needs, NEW tmpl \in Line, NEW toks \in Line, Len(tmpl) = Len(toks),
         ~Changed(needs, tmpl, toks)
  PROVE  NewTokens(needs, tmpl, toks) = tmpl
<1>1. CASE ~needs
  BY <1>1 DEF NewTokens
<1>2. CASE needs
  <2>1. ~WouldGeneralize(tmpl, toks)
    BY <1>2 DEF Changed
  <2>2. \A i \in DOMAIN tmpl : i \in DOMAIN toks /\ (tmpl[i] # toks[i] => tmpl[i] = Wildcard)
    BY <2>1 DEF WouldGeneralize, Line
  <2>3. Generalize(tmpl, toks) = [i \in DOMAIN tmpl |-> tmpl[i]]
    BY <2>2 DEF Generalize
  <2>4. tmpl = [i \in DOMAIN tmpl |-> tmpl[i]]
    BY DEF Line
  <2> QED BY <1>2, <2>3, <2>4 DEF NewTokens
<1> QED BY <1>1, <1>2

\* A reported change opens a position more.
LEMMA ChangeOpens ==
  ASSUME NEW tmpl \in Line, NEW toks \in Line, NEW seed \in Line,
         Len(tmpl) = Len(toks), Covers(tmpl, seed), WouldGeneralize(tmpl, toks)
  PROVE  /\ Cardinality(Opened(tmpl, seed)) \in Nat
         /\ Cardinality(Opened(Generalize(tmpl, toks), seed)) \in Nat
         /\ Cardinality(Opened(Generalize(tmpl, toks), seed))
              >= Cardinality(Opened(tmpl, seed)) + 1
<1> DEFINE new == Generalize(tmpl, toks)
           before == Opened(tmpl, seed)
           after == Opened(new, seed)
<1>1. PICK i \in DOMAIN tmpl \cap DOMAIN toks : tmpl[i] # Wildcard /\ tmpl[i] # toks[i]
  BY DEF WouldGeneralize
<1>2. DOMAIN new = DOMAIN tmpl /\ \A j \in DOMAIN tmpl :
        new[j] = IF j \in DOMAIN toks /\ tmpl[j] # toks[j] THEN Wildcard ELSE tmpl[j]
  BY DEF Generalize
<1>3. i \notin before /\ before \cup {i} \subseteq after
  <2>1. seed[i] = tmpl[i]
    BY <1>1 DEF Covers
  <2>2. i \in after /\ i \notin before
    BY <1>1, <1>2, <2>1 DEF Opened, Holes
  <2>3. before \subseteq after
    BY <1>2 DEF Opened, Holes
  <2> QED BY <2>2, <2>3
<1>4. IsFiniteSet(after)
  <2>1. IsFiniteSet(1..Len(tmpl)) /\ DOMAIN tmpl = 1..Len(tmpl)
    BY FS_Interval DEF Line
  <2>2. after \subseteq 1..Len(tmpl)
    BY <1>2, <2>1 DEF Opened, Holes
  <2> QED BY <2>1, <2>2, FS_Subset
<1> HIDE DEF before, after
<1>5. IsFiniteSet(before)
  BY <1>3, <1>4, FS_Subset
<1>6. Cardinality(before \cup {i}) = Cardinality(before) + 1 /\ IsFiniteSet(before \cup {i})
  BY <1>3, <1>5, FS_AddElement
<1>7. Cardinality(before \cup {i}) <= Cardinality(after)
  BY <1>3, <1>4, FS_Subset
<1>8. Cardinality(before) \in Nat /\ Cardinality(after) \in Nat
  BY <1>4, <1>5, FS_CardinalityType
<1> QED BY <1>6, <1>7, <1>8 DEF before, after

\* The empty miner has nothing to report.
LEMMA InitReports == Init => ReportsMatchChanges
BY DEF Init, ReportsMatchChanges

\* Whatever the step, what was reported of a body matches its template.
LEMMA StepReports ==
  ASSUME IInv, SInv, SeedsCounted, ReportsMatchChanges,
         NEW t \in Threads, Call(t) \/ Step(t)
  PROVE  ReportsMatchChanges'
<1>1. /\ bodies \in Seq(Body) /\ history \in Seq(Histories)
      /\ DOMAIN history = DOMAIN bodies
  BY DEF IInv, TypeOK, HistoryAligned
<1>2. \A b \in DOMAIN bodies : Reported(bodies[b].tokens, history[b])
  BY DEF ReportsMatchChanges, Reported, Opened
<1> SUFFICES ASSUME NEW b \in DOMAIN bodies'
             PROVE  Reported(bodies'[b].tokens, history'[b])
  BY DEF ReportsMatchChanges, Reported, Opened
<1>3. ASSUME b \in DOMAIN bodies, bodies'[b].tokens = bodies[b].tokens,
             history'[b].seed = history[b].seed, history'[b].changes = history[b].changes
      PROVE  Reported(bodies'[b].tokens, history'[b])
  BY <1>2, <1>3 DEF Reported
<1>4. CASE Upgrade(t)
  <2> DEFINE ref == op[t].best.ref
             tmpl == bodies[ref].tokens
             line == op[t].line
             needs == op[t].needs
             changed == Changed(needs, tmpl, line)
  <2>1. /\ DOMAIN bodies' = DOMAIN bodies
        /\ bodies'[b].tokens = IF b = ref THEN NewTokens(needs, tmpl, line)
                               ELSE bodies[b].tokens
    BY <1>4, UpgradeTokens
  <2>2. history' = [history EXCEPT ![ref] = Absorb(@, op[t], changed)]
    BY <1>4 DEF Upgrade
  <2> HIDE DEF changed
  <2>3. CASE b # ref
    <3>1. history'[b] = history[b]
      BY <2>2, <2>3
    <3> QED BY <1>3, <2>1, <2>3, <3>1
  <2>4. CASE b = ref
    <3>1. pc[t] = "upgrade" /\ ThreadSound(t) /\ ThreadsSound
      BY <1>4 DEF Upgrade, IInv, ThreadsSound
    <3>2. /\ ref \in DOMAIN bodies /\ tmpl \in Line /\ line \in Line
          /\ Len(tmpl) = Len(line)
      BY <3>1, ApplierBody, BodyFields, LineTypes
         DEF ThreadSound, HasLine, Applying, Similar
    <3>3. history[ref] \in Histories /\ history[ref].seed \in Line
          /\ history[ref].changes \in Nat
      <4>1. history[ref] \in Histories
        BY <1>1, <3>2
      <4> QED BY <4>1 DEF Histories
    <3>4. Covers(tmpl, history[ref].seed)
      BY <1>1, <3>2 DEF IInv, AbsorbedCovered, SeedsCounted
    <3>5. history'[ref] = Absorb(history[ref], op[t], changed)
      BY <1>1, <2>2, <3>2
    <3>6. /\ history'[ref].seed = history[ref].seed
          /\ history'[ref].changes = IF changed THEN history[ref].changes + 1
                                     ELSE history[ref].changes
      BY <3>3, <3>5, AbsorbFields
    <3>7. CASE changed
      <4>1. NewTokens(needs, tmpl, line) = Generalize(tmpl, line)
            /\ WouldGeneralize(tmpl, line)
        BY <3>7 DEF changed, Changed, NewTokens
      <4>2. /\ Cardinality(Opened(tmpl, history[ref].seed)) \in Nat
            /\ Cardinality(Opened(Generalize(tmpl, line), history[ref].seed)) \in Nat
            /\ Cardinality(Opened(Generalize(tmpl, line), history[ref].seed))
                 >= Cardinality(Opened(tmpl, history[ref].seed)) + 1
        BY <3>2, <3>3, <3>4, <4>1, ChangeOpens
      <4>3. history[ref].changes <= Cardinality(Opened(tmpl, history[ref].seed))
        BY <1>2, <3>2 DEF Reported
      <4> QED BY <2>1, <2>4, <3>3, <3>6, <3>7, <4>1, <4>2, <4>3 DEF Reported
    <3>8. CASE ~changed
      <4>1. NewTokens(needs, tmpl, line) = tmpl
        BY <3>2, <3>8, NotChanged DEF changed
      <4> QED BY <1>3, <2>1, <2>4, <3>2, <3>6, <3>8, <4>1
    <3> QED BY <3>7, <3>8
  <2> QED BY <2>3, <2>4
<1>5. CASE Decide(t)
  <2>1. bodies' = bodies
    BY <1>5 DEF Decide
  <2>2. CASE history' = history
    BY <1>3, <2>1, <2>2
  <2>3. CASE history' # history
    <3>1. PICK ref : history' = [history EXCEPT ![ref] = Absorb(@, op[t], FALSE)]
      BY <1>5, <2>3 DEF Decide
    <3>2. history[b] \in Histories
      BY <1>1, <2>1
    <3>3. /\ Absorb(history[b], op[t], FALSE).seed = history[b].seed
          /\ Absorb(history[b], op[t], FALSE).changes = history[b].changes
      BY <3>2 DEF Absorb, Histories
    <3>4. history'[b] = history[b] \/ history'[b] = Absorb(history[b], op[t], FALSE)
      BY <1>1, <2>1, <3>1
    <3> QED BY <1>3, <2>1, <3>3, <3>4
  <2> QED BY <2>2, <2>3
<1>6. CASE Publish(t)
  <2> DEFINE h == [seed |-> op[t].line, lines |-> {op[t].line},
                   events |-> {op[t].ms} \ {None}, changes |-> 0]
  <2>1. history' = Append(history, h) /\ Len(history) = Len(bodies)
    BY <1>6 DEF Publish, IInv, HistoryAligned
  <2>2. /\ DOMAIN bodies' = DOMAIN bodies \cup {Len(bodies) + 1}
        /\ \A c \in DOMAIN bodies : bodies'[c] = bodies[c]
        /\ bodies'[Len(bodies) + 1].tokens = op[t].line
    BY <1>6, PublishFacts
  <2>3. CASE b \in DOMAIN bodies
    <3>1. history'[b] = history[b]
      BY <1>1, <2>1, <2>3
    <3> QED BY <1>3, <2>2, <2>3, <3>1
  <2>4. CASE b = Len(bodies) + 1
    <3>1. history'[b] = h
      BY <1>1, <2>1, <2>4
    <3>2. Opened(op[t].line, op[t].line) = {} /\ Cardinality({}) = 0
      BY FS_EmptySet DEF Opened
    <3>3. h.seed = op[t].line /\ h.changes = 0
      OBVIOUS
    <3> HIDE DEF h
    <3>4. history'[b].seed = op[t].line /\ history'[b].changes = 0
      BY <3>1, <3>3
    <3>5. bodies'[b].tokens = op[t].line
      BY <2>2, <2>4
    <3> QED BY <3>2, <3>4, <3>5 DEF Reported
  <2> QED BY <2>2, <2>3, <2>4
<1>7. CASE Touch(t) \/ ObserveFirst(t) \/ ObserveLast(t)
  <2>1. history' = history
    BY <1>7 DEF Touch, ObserveFirst, ObserveLast
  <2> QED BY <1>3, <1>7, <2>1, TouchingTokens
<1>8. CASE bodies' = bodies /\ history' = history
  BY <1>3, <1>8
<1>9. \/ bodies' = bodies /\ history' = history
      \/ Upgrade(t) \/ Decide(t) \/ Publish(t)
      \/ Touch(t) \/ ObserveFirst(t) \/ ObserveLast(t)
  BY DEF Step, Call, GetShard, EnterShard, ReadLeaf, Visit, EndScan, WriteLeaf,
         EndRescan, NewId, Stamp, Consider, Link, Hit, Lookup, Params, ShowFirst,
         ShowLast
<1> QED BY <1>4, <1>5, <1>6, <1>7, <1>8, <1>9

\* TemplateChanged is reported at most once per position that was opened, and
\* at least once of a template that is not its first line any more: of threads
\* that race to open the same position one reports it.
THEOREM ChangesAreReported == Spec => []ReportsMatchChanges
<1> DEFINE Inv == IInv /\ SInv /\ SeedsCounted /\ ReportsMatchChanges
<1>1. Init => Inv
  BY InitIInv, InitSInv, InitTInv, InitReports DEF TInv
<1>2. Inv /\ [Next]_vars => Inv'
  <2> SUFFICES ASSUME Inv, [Next]_vars PROVE Inv'
    OBVIOUS
  <2>1. IInv' /\ SInv'
    BY NextIInv, NextSInv
  <2>2. ASSUME NEW t \in Threads, Call(t) \/ Step(t)
        PROVE  SeedsCounted' /\ ReportsMatchChanges'
    <3>1. SeedsStay
      BY <2>2, NextSeedsStay
    <3>2. ReportsMatchChanges'
      BY <2>2, StepReports
    <3> QED BY <3>1, <3>2 DEF SeedsStay
  <2>3. CASE UNCHANGED vars
    BY <2>1, <2>3 DEF vars, SeedsCounted, ReportsMatchChanges
  <2>4. Rest => UNCHANGED vars
    BY DEF Rest
  <2> QED BY <2>1, <2>2, <2>3, <2>4 DEF Next
<1> QED BY <1>1, <1>2, PTL DEF Spec

-----------------------------------------------------------------------------
(* What is remembered of the events.                                       *)

\* Where a thread of an add has its timestamp, and has lowered the earlier or
\* raised the later end with it.
Timed   == HasLine \ {"params"}
Lowered == {"last", "decide", "upgrade"}
Raised  == {"decide", "upgrade"}

\* The timestamp was recorded on the body, or is carried by a thread that has
\* passed one of the places.
Carries(where, o, places, b, e) ==
  where \in places /\ o.best.ref = b /\ o.ms = e /\ e # None

Seen(hs, ps, os, places, b, e) ==
  \/ e \in hs[b].events
  \/ \E u \in Threads : Carries(ps[u], os[u], places, b, e)

EarlierEnd(bs, hs, ps, os, b) ==
  /\ bs[b].first = EventUnset \/ Seen(hs, ps, os, Lowered, b, bs[b].first)
  /\ \A e \in Events : Seen(hs, ps, os, Lowered, b, e) => bs[b].first <= e

LaterEnd(bs, hs, ps, os, b) ==
  /\ bs[b].last = 0 \/ Seen(hs, ps, os, Raised, b, bs[b].last)
  /\ \A e \in Events : Seen(hs, ps, os, Raised, b, e) => e <= bs[b].last

TimesKnown ==
  /\ \A t \in Threads : pc[t] \in Timed => op[t].ms \in Events \cup {None}
  /\ \A b \in DOMAIN history : history[b].events \subseteq Events

WInv ==
  /\ TimesKnown
  /\ \A b \in DOMAIN bodies : /\ EarlierEnd(bodies, history, pc, op, b)
                              /\ LaterEnd(bodies, history, pc, op, b)

\* The empty miner remembers nothing.
LEMMA InitWInv == Init => WInv
BY DEF Init, WInv, TimesKnown, Timed, HasLine

\* The fields of a body that hold its window are numbers.
LEMMA WindowTypes ==
  ASSUME NEW bs \in Seq(Body), NEW b \in DOMAIN bs
  PROVE  bs[b].first \in Nat /\ bs[b].last \in Nat
<1>1. bs[b] \in Body
  OBVIOUS
<1> QED BY <1>1 DEF Body

\* A thread keeps its timestamp and its kind of call as long as it has a line.
LEMMA RequestStays ==
  ASSUME TypeOK, NEW t \in Threads, Step(t), pc'[t] \in Timed
  PROVE  pc[t] \in Timed /\ op'[t].ms = op[t].ms /\ op'[t].kind = op[t].kind
<1> USE DEF TypeOK, Timed, HasLine, Goto
<1>1. op[t] \in Ops
  BY OpType
<1>2. ASSUME NEW result, Return(t, result) PROVE pc'[t] = "idle"
  BY <1>2 DEF Return
<1>3. CASE GetShard(t)
  <2>1. pc[t] = "shard"
        /\ \/ op' = [op EXCEPT ![t].shard = shards[Len(op[t].line)]]
           \/ op' = op
           \/ Return(t, Answer(0, "miss"))
    BY <1>3 DEF GetShard
  <2>2. ~Return(t, Answer(0, "miss"))
    BY <1>2
  <2>3. ASSUME NEW n, op' = [op EXCEPT ![t].shard = n] PROVE op'[t].ms = op[t].ms /\ op'[t].kind = op[t].kind
    BY <1>1, <2>3 DEF Ops
  <2> QED BY <2>1, <2>2, <2>3
<1>4. CASE EnterShard(t)
  <2>1. PICK n : op'[t] = [op[t] EXCEPT !.shard = n]
    BY <1>4 DEF EnterShard
  <2> QED BY <1>1, <1>4, <2>1 DEF EnterShard, Ops
<1>5. CASE ReadLeaf(t) \/ Visit(t)
  <2>1. ASSUME NEW todo, NEW best, op'[t] = [op[t] EXCEPT !.todo = todo, !.best = best]
        PROVE  op'[t].ms = op[t].ms /\ op'[t].kind = op[t].kind
    BY <1>1, <2>1 DEF Ops
  <2>2. CASE ReadLeaf(t)
    BY <1>1, <2>2 DEF ReadLeaf, Ops
  <2>3. CASE Visit(t)
    <3>1. PICK todo, best : op'[t] = [op[t] EXCEPT !.todo = todo, !.best = best]
      BY <2>3 DEF Visit
    <3> QED BY <2>1, <2>3, <3>1 DEF Visit
  <2> QED BY <1>5, <2>2, <2>3
<1>6. CASE EndScan(t)
  BY <1>2, <1>6 DEF EndScan
<1>7. CASE WriteLeaf(t) \/ EndRescan(t)
  BY <1>1, <1>7 DEF WriteLeaf, EndRescan, Ops
<1>8. CASE NewId(t) \/ Stamp(t)
  BY <1>1, <1>8 DEF NewId, Stamp, Ops
<1>9. CASE Publish(t)
  BY <1>1, <1>9 DEF Publish, Ops
<1>10. CASE Consider(t)
  BY <1>1, <1>10 DEF Consider, Ops
<1>11. CASE Link(t) \/ Params(t) \/ ShowLast(t)
  BY <1>2, <1>11 DEF Link, Params, ShowLast
<1>12. CASE Hit(t)
  BY <1>1, <1>12 DEF Hit, Ops
<1>13. CASE Touch(t)
  BY <1>13 DEF Touch
<1>14. CASE ObserveFirst(t)
  BY <1>14 DEF ObserveFirst
<1>15. CASE ObserveLast(t)
  BY <1>15 DEF ObserveLast
<1>16. CASE Decide(t)
  <2> DEFINE needs == WouldGeneralize(bodies[op[t].best.ref].tokens, op[t].line)
  <2>1. ASSUME NEW n, op' = [op EXCEPT ![t].needs = n] PROVE op'[t].ms = op[t].ms /\ op'[t].kind = op[t].kind
    BY <1>1, <2>1 DEF Ops
  <2>2. /\ pc[t] = "decide"
        /\ \/ op' = [op EXCEPT ![t].needs = needs] /\ Goto(t, "upgrade")
           \/ Return(t, Answer(op[t].best.id, "None"))
    BY <1>16 DEF Decide
  <2> HIDE DEF needs
  <2> QED BY <1>2, <2>1, <2>2
<1>17. CASE Upgrade(t)
  BY <1>2, <1>17 DEF Upgrade
<1>18. CASE Lookup(t)
  BY <1>2, <1>18 DEF Lookup
<1>19. CASE ShowFirst(t)
  BY <1>2, <1>19 DEF ShowFirst
<1> QED BY <1>3, <1>4, <1>5, <1>6, <1>7, <1>8, <1>9, <1>10, <1>11, <1>12, <1>13,
           <1>14, <1>15, <1>16, <1>17, <1>18, <1>19 DEF Step

\* Steps that record no timestamp and move none past an end of a window.
Timeless(t) ==
  \/ Call(t) \/ GetShard(t) \/ EnterShard(t) \/ ReadLeaf(t) \/ Visit(t) \/ EndScan(t)
  \/ WriteLeaf(t) \/ EndRescan(t) \/ NewId(t) \/ Stamp(t) \/ Consider(t) \/ Link(t)
  \/ Hit(t) \/ Lookup(t) \/ Params(t) \/ ShowFirst(t) \/ ShowLast(t)

\* They leave the bodies and their histories alone.
LEMMA TimelessFacts ==
  ASSUME TypeOK, NEW t \in Threads, Timeless(t)
  PROVE  /\ bodies' = bodies /\ history' = history
         /\ pc[t] \notin Lowered /\ pc'[t] \notin Lowered
<1> USE DEF TypeOK, Goto, Lowered
<1>1. ASSUME NEW result, Return(t, result) PROVE pc'[t] = "idle"
  BY <1>1 DEF Return
<1>2. CASE Call(t)
  <2>1. pc'[t] \in {"shard", "lookup"}
    BY <1>2 DEF Call
  <2> QED BY <1>2, <2>1 DEF Call
<1>3. CASE GetShard(t)
  BY <1>1, <1>3 DEF GetShard
<1>4. CASE EnterShard(t) \/ ReadLeaf(t) \/ Visit(t)
  BY <1>4 DEF EnterShard, ReadLeaf, Visit
<1>5. CASE EndScan(t)
  BY <1>1, <1>5 DEF EndScan
<1>6. CASE WriteLeaf(t) \/ EndRescan(t) \/ NewId(t) \/ Stamp(t)
  BY <1>6 DEF WriteLeaf, EndRescan, NewId, Stamp
<1>7. CASE Consider(t)
  BY <1>7 DEF Consider
<1>8. CASE Link(t) \/ Params(t) \/ ShowLast(t) \/ Hit(t)
  BY <1>1, <1>8 DEF Link, Params, ShowLast, Hit
<1>9. CASE Lookup(t) \/ ShowFirst(t)
  BY <1>1, <1>9 DEF Lookup, ShowFirst
<1> QED BY <1>2, <1>3, <1>4, <1>5, <1>6, <1>7, <1>8, <1>9 DEF Timeless

\* What Decide does: the match is recorded, or the thread goes on.
LEMMA DecideFacts ==
  ASSUME TypeOK, NEW t \in Threads, Decide(t)
  PROVE  /\ pc[t] = "decide" /\ bodies' = bodies
         /\ \/ /\ pc'[t] = "upgrade" /\ history' = history
               /\ op'[t].ms = op[t].ms /\ op'[t].best = op[t].best
            \/ /\ pc'[t] = "idle"
               /\ history' = [history EXCEPT ![op[t].best.ref] = Absorb(@, op[t], FALSE)]
<1>1. op[t] \in Ops
  BY OpType
<1> DEFINE needs == WouldGeneralize(bodies[op[t].best.ref].tokens, op[t].line)
<1>2. ASSUME NEW n, op' = [op EXCEPT ![t].needs = n]
      PROVE  op'[t].ms = op[t].ms /\ op'[t].best = op[t].best
  BY <1>1, <1>2 DEF TypeOK, Ops
<1>3. /\ pc[t] = "decide" /\ bodies' = bodies
      /\ \/ /\ op' = [op EXCEPT ![t].needs = needs] /\ Goto(t, "upgrade")
            /\ history' = history
         \/ /\ Return(t, Answer(op[t].best.id, "None"))
            /\ history' = [history EXCEPT ![op[t].best.ref] = Absorb(@, op[t], FALSE)]
  BY DEF Decide
<1> HIDE DEF needs
<1>4. \A result : Return(t, result) => pc'[t] = "idle"
  BY DEF Return, Goto, TypeOK
<1>5. Goto(t, "upgrade") => pc'[t] = "upgrade"
  BY DEF Goto, TypeOK
<1> QED BY <1>2, <1>3, <1>4, <1>5

\* The end of a match records its timestamp on the body it matched.
LEMMA MatchRecorded ==
  ASSUME IInv, NEW t \in Threads, pc[t] \in Raised, NEW c,
         history' = [history EXCEPT ![op[t].best.ref] = Absorb(@, op[t], c)]
  PROVE  /\ op[t].best.ref \in DOMAIN history
         /\ DOMAIN history' = DOMAIN history
         /\ \A b \in DOMAIN history :
              history'[b].events = IF b = op[t].best.ref
                                   THEN history[b].events \cup ({op[t].ms} \ {None})
                                   ELSE history[b].events
<1>1. /\ history \in Seq(Histories) /\ Len(history) = Len(bodies)
      /\ bodies \in Seq(Body)
  BY DEF IInv, TypeOK, HistoryAligned
<1>2. op[t].best.ref \in DOMAIN history
  BY <1>1, ApplierBody DEF Applying, Raised
<1>3. Absorb(history[op[t].best.ref], op[t], c).events
        = history[op[t].best.ref].events \cup ({op[t].ms} \ {None})
  BY <1>1, <1>2, AbsorbFields
<1> QED BY <1>1, <1>2, <1>3

\* What the steps of a match, and the creation, do to the timestamps recorded.
LEMMA RecordedTimes ==
  ASSUME IInv, NEW t \in Threads, Call(t) \/ Step(t)
  PROVE  \/ history' = history
         \/ \E ref \in DOMAIN history :
              /\ DOMAIN history' = DOMAIN history
              /\ ref = op[t].best.ref /\ pc[t] \in Raised /\ pc'[t] = "idle"
              /\ \A b \in DOMAIN history :
                   history'[b].events = IF b = ref THEN history[b].events \cup ({op[t].ms} \ {None})
                                        ELSE history[b].events
         \/ /\ Publish(t)
            /\ DOMAIN history' = DOMAIN history \cup {Len(bodies) + 1}
            /\ \A b \in DOMAIN history : history'[b] = history[b]
            /\ history'[Len(bodies) + 1].events = {op[t].ms} \ {None}
<1>1. /\ TypeOK /\ history \in Seq(Histories) /\ Len(history) = Len(bodies)
      /\ bodies \in Seq(Body)
  BY DEF IInv, TypeOK, HistoryAligned
<1>2. ASSUME pc[t] \in Raised, pc'[t] = "idle",
             NEW c, history' = [history EXCEPT ![op[t].best.ref] = Absorb(@, op[t], c)]
      PROVE  \E ref \in DOMAIN history :
               /\ DOMAIN history' = DOMAIN history
               /\ ref = op[t].best.ref /\ pc[t] \in Raised /\ pc'[t] = "idle"
               /\ \A b \in DOMAIN history :
                    history'[b].events = IF b = ref THEN history[b].events \cup ({op[t].ms} \ {None})
                                         ELSE history[b].events
  BY <1>2, MatchRecorded
<1>3. CASE Timeless(t)
  BY <1>1, <1>3, TimelessFacts
<1>4. CASE Touch(t) \/ ObserveFirst(t) \/ ObserveLast(t)
  BY <1>4 DEF Touch, ObserveFirst, ObserveLast
<1>5. CASE Decide(t)
  <2>1. pc[t] \in Raised
    BY <1>1, <1>5, DecideFacts DEF Raised
  <2> QED BY <1>1, <1>2, <1>5, <2>1, DecideFacts, Zenon
<1>6. CASE Upgrade(t)
  <2>1. PICK c : history' = [history EXCEPT ![op[t].best.ref] = Absorb(@, op[t], c)]
    BY <1>6 DEF Upgrade
  <2>2. pc[t] \in Raised /\ pc'[t] = "idle"
    BY <1>1, <1>6 DEF Upgrade, Return, Goto, TypeOK, Raised
  <2> QED BY <1>2, <2>1, <2>2
<1>7. CASE Publish(t)
  <2> DEFINE h == [seed |-> op[t].line, lines |-> {op[t].line},
                   events |-> {op[t].ms} \ {None}, changes |-> 0]
  <2>1. history' = Append(history, h)
    BY <1>7 DEF Publish
  <2>2. h.events = {op[t].ms} \ {None}
    OBVIOUS
  <2> HIDE DEF h
  <2>3. /\ DOMAIN history' = DOMAIN history \cup {Len(bodies) + 1}
        /\ \A b \in DOMAIN history : history'[b] = history[b]
        /\ history'[Len(bodies) + 1] = h
    BY <1>1, <2>1
  <2> QED BY <1>7, <2>2, <2>3
<1> QED BY <1>3, <1>4, <1>5, <1>6, <1>7 DEF Step, Timeless

\* A timestamp that is recorded, or carried by a thread, is one of Events.
LEMMA NextTimesKnown ==
  ASSUME IInv, TimesKnown, NEW t \in Threads, Call(t) \/ Step(t)
  PROVE  TimesKnown'
<1>1. TypeOK
  BY DEF IInv
<1>2. ASSUME NEW u \in Threads, pc'[u] \in Timed PROVE op'[u].ms \in Events \cup {None}
  <2>1. CASE u # t
    BY <1>1, <1>2, <2>1, OthersStay DEF TimesKnown
  <2>2. CASE u = t /\ Step(t)
    BY <1>1, <1>2, <2>2, RequestStays DEF TimesKnown
  <2>3. CASE u = t /\ Call(t)
    <3>1. PICK kind \in Kinds :
            \/ \E l \in Lines, m \in Members \cup {None}, e \in Events \cup {None} :
                 op' = [op EXCEPT ![t] = Request(kind, l, m, e)]
            \/ \E l \in Lines : op' = [op EXCEPT ![t] = Request(kind, l, None, None)]
            \/ Goto(t, "lookup")
      BY <2>3, Zenon DEF Call
    <3>2. ~Goto(t, "lookup")
      BY <1>1, <1>2, <2>3 DEF Goto, TypeOK, Timed, HasLine
    <3>3. \A l, m, e : Request(kind, l, m, e).ms = e
      BY DEF Request, NoOp
    <3> QED BY <1>1, <2>3, <3>1, <3>2, <3>3 DEF TypeOK
  <2> QED BY <2>1, <2>2, <2>3
<1>3. ASSUME NEW b \in DOMAIN history' PROVE history'[b].events \subseteq Events
  <2>1. pc[t] \in Raised \/ pc[t] = "publish" => op[t].ms \in Events \cup {None}
    BY DEF TimesKnown, Timed, HasLine, Raised
  <2>2. Publish(t) => pc[t] = "publish"
    BY DEF Publish
  <2>3. \A a \in DOMAIN history : history[a].events \subseteq Events
    BY DEF TimesKnown
  <2> QED BY <1>3, <2>1, <2>2, <2>3, RecordedTimes
<1> QED BY <1>2, <1>3 DEF TimesKnown

\* What the other threads carry stays, so what is seen of a timestamp is
\* decided by the thread that moves.
LEMMA SeenThrough ==
  ASSUME TypeOK, NEW t \in Threads, Call(t) \/ Step(t), NEW places, NEW b, NEW e,
         e \in history'[b].events \/ Carries(pc'[t], op'[t], places, b, e)
           <=> e \in history[b].events \/ Carries(pc[t], op[t], places, b, e)
  PROVE  Seen(history', pc', op', places, b, e) <=> Seen(history, pc, op, places, b, e)
<1>1. \A u \in Threads \ {t} : Carries(pc'[u], op'[u], places, b, e)
                                <=> Carries(pc[u], op[u], places, b, e)
  BY OthersStay
<1> QED BY <1>1 DEF Seen

\* A match that is recorded hands its timestamp from the thread to the body.
LEMMA HandOver ==
  ASSUME IInv, TimesKnown, NEW t \in Threads, Step(t), pc[t] \in Raised, pc'[t] = "idle",
         NEW c, history' = [history EXCEPT ![op[t].best.ref] = Absorb(@, op[t], c)],
         NEW places \in {Lowered, Raised}, NEW b \in DOMAIN bodies, NEW e \in Nat
  PROVE  Seen(history', pc', op', places, b, e) <=> Seen(history, pc, op, places, b, e)
<1>1. TypeOK /\ b \in DOMAIN history /\ e # None /\ pc[t] \in places
  BY MinerAssumption DEF IInv, TypeOK, HistoryAligned, Lowered, Raised
<1>2. /\ ~Carries(pc'[t], op'[t], places, b, e)
      /\ Carries(pc[t], op[t], places, b, e) <=> op[t].best.ref = b /\ op[t].ms = e
  BY <1>1 DEF Carries, Lowered, Raised
<1>3. e \in history'[b].events
        <=> e \in history[b].events \/ (op[t].best.ref = b /\ op[t].ms = e)
  <2>1. history'[b].events = IF b = op[t].best.ref
                             THEN history[b].events \cup ({op[t].ms} \ {None})
                             ELSE history[b].events
    BY <1>1, MatchRecorded, Zenon
  <2> QED BY <1>1, <2>1
<1> QED BY <1>1, <1>2, <1>3, SeenThrough

\* Most steps change nothing of what is seen of a timestamp.
LEMMA Passing ==
  ASSUME IInv, TimesKnown, NEW t \in Threads,
         Timeless(t) \/ Touch(t) \/ Decide(t) \/ Upgrade(t),
         NEW places \in {Lowered, Raised}, NEW b \in DOMAIN bodies, NEW e \in Nat
  PROVE  Seen(history', pc', op', places, b, e) <=> Seen(history, pc, op, places, b, e)
<1>1. TypeOK /\ e # None /\ (Call(t) \/ Step(t))
  BY MinerAssumption DEF IInv, Timeless, Step
<1>2. CASE Timeless(t)
  <2>1. /\ ~Carries(pc'[t], op'[t], places, b, e) /\ ~Carries(pc[t], op[t], places, b, e)
        /\ history' = history
    BY <1>1, <1>2, TimelessFacts DEF Carries, Lowered, Raised
  <2> QED BY <1>1, <2>1, SeenThrough
<1>3. CASE Touch(t)
  <2>1. /\ pc[t] = "touch" /\ history' = history /\ op' = op
        /\ pc'[t] = IF op[t].ms = None THEN "decide" ELSE "first"
    BY <1>1, <1>3 DEF Touch, Goto, Unset, TypeOK
  <2>2. /\ ~Carries(pc'[t], op'[t], places, b, e) /\ ~Carries(pc[t], op[t], places, b, e)
    BY <1>1, <2>1 DEF Carries, Lowered, Raised
  <2> QED BY <1>1, <2>1, <2>2, SeenThrough
<1>4. CASE Decide(t)
  <2>1. Step(t) /\ pc[t] \in Raised
    BY <1>1, <1>4, DecideFacts DEF Step, Raised
  <2>2. CASE /\ pc[t] = "decide" /\ pc'[t] = "upgrade" /\ history' = history
             /\ op'[t].ms = op[t].ms /\ op'[t].best = op[t].best
    <3>1. Carries(pc'[t], op'[t], places, b, e) <=> Carries(pc[t], op[t], places, b, e)
      BY <2>2 DEF Carries, Lowered, Raised
    <3> QED BY <1>1, <2>2, <3>1, SeenThrough
  <2>3. CASE /\ pc'[t] = "idle"
             /\ history' = [history EXCEPT ![op[t].best.ref] = Absorb(@, op[t], FALSE)]
    BY <2>1, <2>3, HandOver
  <2> QED BY <1>1, <1>4, <2>2, <2>3, DecideFacts
<1>5. CASE Upgrade(t)
  <2>1. Step(t) /\ pc[t] \in Raised /\ pc'[t] = "idle"
    BY <1>1, <1>5 DEF Step, Upgrade, Raised, Return, Goto, TypeOK
  <2>2. PICK c : history' = [history EXCEPT ![op[t].best.ref] = Absorb(@, op[t], c)]
    BY <1>5 DEF Upgrade
  <2> QED BY <2>1, <2>2, HandOver
<1> QED BY <1>2, <1>3, <1>4, <1>5

\* Only Publish allocates a body.
LEMMA HeapKept ==
  ASSUME IInv, NEW t \in Threads, Call(t) \/ Step(t), ~Publish(t)
  PROVE  DOMAIN bodies' = DOMAIN bodies
<1>1. TypeOK
  BY DEF IInv
<1>2. CASE Timeless(t) \/ Decide(t)
  BY <1>1, <1>2, TimelessFacts, DecideFacts
<1>3. CASE Touch(t) \/ ObserveFirst(t) \/ ObserveLast(t)
  BY <1>3, TouchingTokens
<1>4. CASE Upgrade(t)
  BY <1>1, <1>4 DEF Upgrade, TypeOK
<1> QED BY <1>2, <1>3, <1>4 DEF Step, Timeless

\* The ends of a window are moved by ObserveFirst and ObserveLast only, each
\* by one of them.
LEMMA EndsMoved ==
  ASSUME IInv, NEW t \in Threads, Call(t) \/ Step(t), ~Publish(t), NEW b \in DOMAIN bodies
  PROVE  /\ bodies'[b].first = IF ObserveFirst(t) /\ b = op[t].best.ref
                                  /\ op[t].ms < bodies[b].first
                               THEN op[t].ms ELSE bodies[b].first
         /\ bodies'[b].last = IF ObserveLast(t) /\ b = op[t].best.ref
                                 /\ op[t].ms > bodies[b].last
                              THEN op[t].ms ELSE bodies[b].last
<1> DEFINE ref == op[t].best.ref
<1>1. TypeOK /\ bodies \in Seq(Body) /\ bodies[b] \in Body
  BY DEF IInv, TypeOK
<1>2. ASSUME NEW body, bodies' = [bodies EXCEPT ![ref] = body]
      PROVE  bodies'[b] = IF b = ref THEN body ELSE bodies[b]
  BY <1>1, <1>2
<1>3. CASE Timeless(t) \/ Decide(t)
  <2>1. pc[t] = "decide" \/ pc[t] \notin Lowered
    BY <1>1, <1>3, TimelessFacts, DecideFacts
  <2>2. Timeless(t) => ~ObserveFirst(t)
    BY <1>1 DEF Timeless, ObserveFirst, Call, GetShard, EnterShard, ReadLeaf, Visit,
       EndScan, WriteLeaf, EndRescan, NewId, Stamp, Consider, Link, Hit, Lookup,
       Params, ShowFirst, ShowLast
  <2> QED BY <1>1, <1>3, <2>1, <2>2, TimelessFacts, DecideFacts
            DEF ObserveFirst, ObserveLast, Lowered
<1>4. CASE Touch(t)
  <2>1. bodies[ref] \in Body
    BY <1>4, ApplierBody DEF Touch, Applying
  <2>2. /\ Touched(bodies[ref], op[t].tick).first = bodies[ref].first
        /\ Touched(bodies[ref], op[t].tick).last = bodies[ref].last
    BY <2>1 DEF Touched, Body
  <2>3. bodies' = [bodies EXCEPT ![ref] = Touched(bodies[ref], op[t].tick)]
        /\ ~ObserveFirst(t) /\ ~ObserveLast(t)
    BY <1>4 DEF Touch, ObserveFirst, ObserveLast
  <2> QED BY <1>2, <2>2, <2>3
<1>5. CASE ObserveFirst(t)
  <2> DEFINE n == IF op[t].ms < bodies[ref].first THEN op[t].ms ELSE bodies[ref].first
  <2>1. bodies[ref] \in Body /\ ref \in DOMAIN bodies
    BY <1>5, ApplierBody DEF ObserveFirst, Applying
  <2>2. /\ [bodies[ref] EXCEPT !.first = n].first = n
        /\ [bodies[ref] EXCEPT !.first = n].last = bodies[ref].last
    BY <2>1 DEF Body
  <2>3. bodies' = [bodies EXCEPT ![ref] = [bodies[ref] EXCEPT !.first = n]] /\ ~ObserveLast(t)
    BY <1>1, <1>5, <2>1 DEF ObserveFirst, ObserveLast
  <2> QED BY <1>2, <1>5, <2>2, <2>3
<1>6. CASE ObserveLast(t)
  <2> DEFINE n == IF op[t].ms > bodies[ref].last THEN op[t].ms ELSE bodies[ref].last
  <2>1. bodies[ref] \in Body /\ ref \in DOMAIN bodies
    BY <1>6, ApplierBody DEF ObserveLast, Applying
  <2>2. /\ [bodies[ref] EXCEPT !.last = n].last = n
        /\ [bodies[ref] EXCEPT !.last = n].first = bodies[ref].first
    BY <2>1 DEF Body
  <2>3. bodies' = [bodies EXCEPT ![ref] = [bodies[ref] EXCEPT !.last = n]] /\ ~ObserveFirst(t)
    BY <1>1, <1>6, <2>1 DEF ObserveFirst, ObserveLast
  <2> QED BY <1>2, <1>6, <2>2, <2>3
<1>7. CASE Upgrade(t)
  <2>1. PICK toks, ms : bodies' = [bodies EXCEPT ![ref] =
                                    [bodies[ref] EXCEPT !.tokens = toks, !.members = ms]]
    BY <1>1, <1>7, ApplierBody DEF Upgrade, Applying
  <2>2. bodies[ref] \in Body /\ ~ObserveFirst(t) /\ ~ObserveLast(t)
    BY <1>7, ApplierBody DEF Upgrade, Applying, ObserveFirst, ObserveLast
  <2>3. LET body == [bodies[ref] EXCEPT !.tokens = toks, !.members = ms]
        IN  body.first = bodies[ref].first /\ body.last = bodies[ref].last
    BY <2>2 DEF Body
  <2> QED BY <1>2, <2>1, <2>2, <2>3
<1> QED BY <1>3, <1>4, <1>5, <1>6, <1>7 DEF Step, Timeless

\* An observer is seen to have passed its end by the timestamp it carries.
LEMMA Observing ==
  ASSUME IInv, TimesKnown, NEW t \in Threads, ObserveFirst(t) \/ ObserveLast(t),
         NEW b \in DOMAIN bodies, NEW e \in Nat
  PROVE  LET own == b = op[t].best.ref /\ e = op[t].ms
         IN  /\ Seen(history', pc', op', Lowered, b, e)
                  <=> Seen(history, pc, op, Lowered, b, e) \/ (ObserveFirst(t) /\ own)
             /\ Seen(history', pc', op', Raised, b, e)
                  <=> Seen(history, pc, op, Raised, b, e) \/ (ObserveLast(t) /\ own)
<1>1. TypeOK /\ e # None /\ Step(t)
  BY MinerAssumption DEF IInv, Step
<1>2. /\ history' = history /\ op' = op
      /\ \/ ObserveFirst(t) /\ ~ObserveLast(t) /\ pc[t] = "first" /\ pc'[t] = "last"
         \/ ObserveLast(t) /\ ~ObserveFirst(t) /\ pc[t] = "last" /\ pc'[t] = "decide"
  BY <1>1 DEF ObserveFirst, ObserveLast, Goto, TypeOK
<1>3. \A u \in Threads \ {t} : pc'[u] = pc[u]
  BY <1>1, OthersStay
<1>4. ASSUME NEW places
      PROVE  \A u \in Threads \ {t} : Carries(pc'[u], op'[u], places, b, e)
                                     <=> Carries(pc[u], op[u], places, b, e)
  BY <1>2, <1>3
<1>5. ASSUME NEW where PROVE Carries(where, op[t], Lowered, b, e)
        <=> where \in Lowered /\ b = op[t].best.ref /\ e = op[t].ms
  BY <1>1 DEF Carries
<1>6. ASSUME NEW where PROVE Carries(where, op[t], Raised, b, e)
        <=> where \in Raised /\ b = op[t].best.ref /\ e = op[t].ms
  BY <1>1 DEF Carries
<1>7. /\ "first" \notin Lowered /\ "last" \in Lowered /\ "decide" \in Lowered
      /\ "first" \notin Raised /\ "last" \notin Raised /\ "decide" \in Raised
  BY DEF Lowered, Raised
<1> QED BY <1>2, <1>4, <1>5, <1>6, <1>7 DEF Seen

\* The bodies there are keep their windows true.
LEMMA WindowsStay ==
  ASSUME IInv, WInv, NEW t \in Threads, Call(t) \/ Step(t), ~Publish(t),
         NEW b \in DOMAIN bodies
  PROVE  /\ EarlierEnd(bodies', history', pc', op', b)
         /\ LaterEnd(bodies', history', pc', op', b)
<1>1. /\ TimesKnown /\ Events \subseteq Nat
      /\ EarlierEnd(bodies, history, pc, op, b) /\ LaterEnd(bodies, history, pc, op, b)
      /\ bodies[b].first \in Nat /\ bodies[b].last \in Nat
  BY MinerAssumption, WindowTypes DEF WInv, IInv, TypeOK
<1>2. CASE ObserveFirst(t) \/ ObserveLast(t)
  <2>1. op[t].ms \in Nat
    BY <1>2 DEF IInv, ThreadsSound, ThreadSound, ObserveFirst, ObserveLast
  <2>2. \A e \in Nat :
          LET own == b = op[t].best.ref /\ e = op[t].ms
          IN  /\ Seen(history', pc', op', Lowered, b, e)
                   <=> Seen(history, pc, op, Lowered, b, e) \/ (ObserveFirst(t) /\ own)
              /\ Seen(history', pc', op', Raised, b, e)
                   <=> Seen(history, pc, op, Raised, b, e) \/ (ObserveLast(t) /\ own)
    BY <1>1, <1>2, Observing
  <2>3. EarlierEnd(bodies', history', pc', op', b)
    BY <1>1, <2>1, <2>2, EndsMoved DEF EarlierEnd
  <2>4. LaterEnd(bodies', history', pc', op', b)
    BY <1>1, <2>1, <2>2, EndsMoved DEF LaterEnd
  <2> QED BY <2>3, <2>4
<1>3. CASE ~(ObserveFirst(t) \/ ObserveLast(t))
  <2>1. Timeless(t) \/ Touch(t) \/ Decide(t) \/ Upgrade(t)
    BY <1>3 DEF Step, Timeless
  <2>2. \A places \in {Lowered, Raised}, e \in Nat :
          Seen(history', pc', op', places, b, e) <=> Seen(history, pc, op, places, b, e)
    BY <1>1, <2>1, Passing
  <2>3. bodies'[b].first = bodies[b].first /\ bodies'[b].last = bodies[b].last
    BY <1>3, EndsMoved
  <2>4. EarlierEnd(bodies', history', pc', op', b)
    BY <1>1, <2>2, <2>3 DEF EarlierEnd
  <2>5. LaterEnd(bodies', history', pc', op', b)
    BY <1>1, <2>2, <2>3 DEF LaterEnd
  <2> QED BY <2>4, <2>5
<1> QED BY <1>2, <1>3

\* Nobody carries a timestamp for the body that is published, and those that
\* are carried for the others stay.
LEMMA PublishSeen ==
  ASSUME IInv, SInv, NEW t \in Threads, Publish(t), NEW places \in {Lowered, Raised},
         NEW b \in DOMAIN bodies', NEW e \in Nat
  PROVE  Seen(history', pc', op', places, b, e)
           <=> IF b = Len(bodies) + 1 THEN e = op[t].ms
               ELSE Seen(history, pc, op, places, b, e)
<1>1. /\ TypeOK /\ e # None /\ Step(t) /\ bodies \in Seq(Body)
      /\ DOMAIN history = DOMAIN bodies
  BY MinerAssumption DEF IInv, TypeOK, HistoryAligned, Step
<1>2. /\ pc[t] \notin Lowered \cup Raised /\ pc'[t] \notin Lowered \cup Raised
      /\ DOMAIN bodies' = DOMAIN bodies \cup {Len(bodies) + 1}
  BY PublishFacts DEF Publish, Lowered, Raised
<1>3. /\ \A c \in DOMAIN history : history'[c] = history[c]
      /\ history'[Len(bodies) + 1].events = {op[t].ms} \ {None}
  <2> DEFINE h == [seed |-> op[t].line, lines |-> {op[t].line},
                   events |-> {op[t].ms} \ {None}, changes |-> 0]
  <2>1. history' = Append(history, h) /\ history \in Seq(Histories)
        /\ Len(history) = Len(bodies)
    BY <1>1 DEF Publish, TypeOK, IInv, HistoryAligned
  <2>2. h.events = {op[t].ms} \ {None}
    OBVIOUS
  <2> HIDE DEF h
  <2> QED BY <2>1, <2>2
<1>4. CASE b = Len(bodies) + 1
  <2>1. ASSUME NEW u \in Threads PROVE ~Carries(pc'[u], op'[u], places, b, e)
    <3>1. CASE u = t
      BY <1>2, <3>1 DEF Carries
    <3>2. CASE u # t
      <4>1. pc'[u] = pc[u] /\ op'[u] = op[u]
        BY <1>1, <3>2, OthersStay
      <4>2. pc[u] \in places => op[u].best.ref \in DOMAIN bodies
        BY ApplierBody DEF Lowered, Raised, Applying
      <4>3. b \notin DOMAIN bodies
        BY <1>1, <1>4
      <4> QED BY <4>1, <4>2, <4>3 DEF Carries
    <3> QED BY <3>1, <3>2
  <2>2. e \in history'[b].events <=> e = op[t].ms
    BY <1>1, <1>3, <1>4
  <2> QED BY <1>4, <2>1, <2>2 DEF Seen
<1>5. CASE b # Len(bodies) + 1
  <2>1. history'[b] = history[b]
    BY <1>1, <1>2, <1>3, <1>5
  <2>2. ~Carries(pc'[t], op'[t], places, b, e) /\ ~Carries(pc[t], op[t], places, b, e)
    BY <1>2 DEF Carries
  <2> QED BY <1>1, <1>5, <2>1, <2>2, SeenThrough
<1> QED BY <1>4, <1>5

\* A new body has the window of its first line.
LEMMA PublishWindows ==
  ASSUME IInv, SInv, WInv, NEW t \in Threads, Publish(t), NEW b \in DOMAIN bodies'
  PROVE  /\ EarlierEnd(bodies', history', pc', op', b)
         /\ LaterEnd(bodies', history', pc', op', b)
<1>1. /\ EventUnset \in Nat /\ Events \subseteq 0..EventUnset /\ Events \subseteq Nat
      /\ None \notin Nat
  BY MinerAssumption
<1>2. /\ \A e \in Nat : Seen(history', pc', op', Lowered, b, e)
           <=> IF b = Len(bodies) + 1 THEN e = op[t].ms ELSE Seen(history, pc, op, Lowered, b, e)
      /\ \A e \in Nat : Seen(history', pc', op', Raised, b, e)
           <=> IF b = Len(bodies) + 1 THEN e = op[t].ms ELSE Seen(history, pc, op, Raised, b, e)
  BY PublishSeen
<1>3. CASE b = Len(bodies) + 1
  <2>1. op[t].ms \in Events \cup {None}
    BY DEF WInv, TimesKnown, Timed, HasLine, Publish
  <2>2. /\ NewBody(op[t]).first = IF op[t].ms = None THEN EventUnset ELSE op[t].ms
        /\ NewBody(op[t]).last = IF op[t].ms = None THEN 0 ELSE op[t].ms
    BY DEF NewBody, Unset
  <2>3. bodies'[b] = NewBody(op[t])
    BY <1>3, PublishFacts
  <2>4. CASE op[t].ms = None
    <3>1. /\ bodies'[b].first = EventUnset /\ bodies'[b].last = 0
          /\ \A e \in Nat : /\ ~Seen(history', pc', op', Lowered, b, e)
                           /\ ~Seen(history', pc', op', Raised, b, e)
      BY <1>1, <1>2, <1>3, <2>2, <2>3, <2>4
    <3> QED BY <1>1, <3>1 DEF EarlierEnd, LaterEnd
  <2>5. CASE op[t].ms # None
    <3>1. /\ op[t].ms \in Nat
          /\ bodies'[b].first = op[t].ms /\ bodies'[b].last = op[t].ms
      BY <1>1, <2>1, <2>2, <2>3, <2>5
    <3>2. /\ Seen(history', pc', op', Lowered, b, bodies'[b].first)
          /\ Seen(history', pc', op', Raised, b, bodies'[b].last)
      BY <1>2, <1>3, <3>1
    <3>3. ASSUME NEW e \in Events
          PROVE  /\ Seen(history', pc', op', Lowered, b, e) => bodies'[b].first <= e
                 /\ Seen(history', pc', op', Raised, b, e) => e <= bodies'[b].last
      <4>1. /\ e \in Nat
            /\ Seen(history', pc', op', Lowered, b, e) => e = op[t].ms
            /\ Seen(history', pc', op', Raised, b, e) => e = op[t].ms
        BY <1>1, <1>2, <1>3
      <4> QED BY <3>1, <4>1
    <3> QED BY <3>2, <3>3 DEF EarlierEnd, LaterEnd
  <2> QED BY <2>4, <2>5
<1>4. CASE b # Len(bodies) + 1
  <2>1. b \in DOMAIN bodies /\ bodies'[b] = bodies[b] /\ bodies[b].first \in Nat
        /\ bodies[b].last \in Nat
    BY <1>4, PublishFacts, WindowTypes DEF IInv, TypeOK
  <2>2. EarlierEnd(bodies, history, pc, op, b) /\ LaterEnd(bodies, history, pc, op, b)
    BY <2>1 DEF WInv
  <2>3. EarlierEnd(bodies', history', pc', op', b)
    BY <1>1, <1>2, <1>4, <2>1, <2>2 DEF EarlierEnd
  <2>4. LaterEnd(bodies', history', pc', op', b)
    BY <1>1, <1>2, <1>4, <2>1, <2>2 DEF LaterEnd
  <2> QED BY <2>3, <2>4
<1> QED BY <1>3, <1>4

\* Every step keeps what is known of the timestamps.
LEMMA NextWInv == IInv /\ SInv /\ WInv /\ [Next]_vars => WInv'
<1> SUFFICES ASSUME IInv, SInv, WInv, [Next]_vars PROVE WInv'
  OBVIOUS
<1>1. ASSUME NEW t \in Threads, Call(t) \/ Step(t) PROVE WInv'
  <2>1. TimesKnown'
    BY <1>1, NextTimesKnown DEF WInv
  <2>2. ASSUME NEW b \in DOMAIN bodies'
        PROVE  /\ EarlierEnd(bodies', history', pc', op', b)
               /\ LaterEnd(bodies', history', pc', op', b)
    <3>1. CASE Publish(t)
      BY <2>2, <3>1, PublishWindows
    <3>2. CASE ~Publish(t)
      <4>1. b \in DOMAIN bodies
        BY <1>1, <2>2, <3>2, HeapKept
      <4> QED BY <1>1, <3>2, <4>1, WindowsStay
    <3> QED BY <3>1, <3>2
  <2> QED BY <2>1, <2>2 DEF WInv
<1>2. CASE UNCHANGED vars
  BY <1>2 DEF vars, WInv, TimesKnown
<1>3. Rest => UNCHANGED vars
  BY DEF Rest
<1> QED BY <1>1, <1>2, <1>3 DEF Next

\* Between two matches, nothing is seen of a timestamp but what is recorded.
LEMMA SeenAtRest ==
  ASSUME NEW b, BodyAtRest(b), NEW places \in {Lowered, Raised}, NEW e
  PROVE  Seen(history, pc, op, places, b, e) <=> e \in history[b].events
BY DEF BodyAtRest, Seen, Carries, Lowered, Raised

\* The window of a body that nobody is applying a match to.
LEMMA WindowAtRest == WInv /\ IInv => EventWindowIsHull
<1> SUFFICES ASSUME WInv, IInv, NEW b \in DOMAIN bodies, BodyAtRest(b)
             PROVE  LET events == history[b].events
                    IN  /\ bodies[b].first = IF events = {} THEN EventUnset ELSE Min(events)
                        /\ bodies[b].last = IF events = {} THEN 0 ELSE Max(events)
  BY DEF EventWindowIsHull
<1> DEFINE events == history[b].events
<1>1. /\ events \subseteq Events /\ EventUnset \in Nat /\ Events \subseteq 0..EventUnset
      /\ bodies[b].first \in Nat /\ bodies[b].last \in Nat
  BY MinerAssumption, WindowTypes DEF WInv, TimesKnown, IInv, TypeOK, HistoryAligned
<1>2. \A places \in {Lowered, Raised} : \A e :
        Seen(history, pc, op, places, b, e) <=> e \in events
  BY SeenAtRest
<1>3. /\ bodies[b].first = EventUnset \/ bodies[b].first \in events
      /\ \A e \in events : bodies[b].first <= e
  BY <1>1, <1>2 DEF WInv, EarlierEnd
<1>4. /\ bodies[b].last = 0 \/ bodies[b].last \in events
      /\ \A e \in events : e <= bodies[b].last
  BY <1>1, <1>2 DEF WInv, LaterEnd
<1> HIDE DEF events
<1>5. ASSUME events # {} PROVE bodies[b].first \in events /\ bodies[b].last \in events
  <2>1. PICK e \in events : TRUE
    BY <1>5
  <2>2. e \in Nat /\ e <= EventUnset /\ bodies[b].first <= e /\ e <= bodies[b].last
    BY <1>1, <1>3, <1>4
  <2> QED BY <1>1, <1>3, <1>4, <2>2
<1>6. events # {} => bodies[b].first = Min(events)
  <2> SUFFICES ASSUME events # {} PROVE bodies[b].first = Min(events)
    OBVIOUS
  <2>1. ASSUME NEW x \in events, \A y \in events : x <= y PROVE x = bodies[b].first
    <3>1. bodies[b].first <= x
      BY <1>3
    <3>2. x <= bodies[b].first
      BY <1>5, <2>1
    <3>3. x \in Nat /\ bodies[b].first \in Nat
      BY <1>1
    <3> QED BY <3>1, <3>2, <3>3
  <2>2. \E x \in events : \A y \in events : x <= y
    BY <1>3, <1>5
  <2> QED BY <2>1, <2>2, Zenon DEF Min
<1>7. events # {} => bodies[b].last = Max(events)
  <2> SUFFICES ASSUME events # {} PROVE bodies[b].last = Max(events)
    OBVIOUS
  <2>1. \A x \in events : (\A y \in events : x >= y) => x = bodies[b].last
    BY <1>1, <1>4, <1>5
  <2>2. \E x \in events : \A y \in events : x >= y
    BY <1>1, <1>4, <1>5
  <2> QED BY <2>1, <2>2, Zenon DEF Max
<1>8. events = {} => bodies[b].first = EventUnset /\ bodies[b].last = 0
  BY <1>3, <1>4
<1> QED BY <1>6, <1>7, <1>8 DEF events

\* The event window of a body is the hull of the timestamps counted on it
\* whenever no match is being applied: concurrent fetch_min and fetch_max lose
\* no timestamp.
THEOREM WindowsAreHulls == Spec => []EventWindowIsHull
<1> DEFINE Inv == IInv /\ SInv /\ WInv
<1>1. Init => Inv
  BY InitIInv, InitSInv, InitWInv
<1>2. Inv /\ [Next]_vars => Inv'
  BY NextIInv, NextSInv, NextWInv
<1>3. Inv => EventWindowIsHull
  BY WindowAtRest
<1> QED BY <1>1, <1>2, <1>3, PTL DEF Spec

-----------------------------------------------------------------------------
(* What is counted.                                                        *)

\* Where a call of add has not counted its line yet.
Uncounted == {"shard", "enter", "read", "scan", "write", "rescan", "create",
              "stamp", "publish", "hit", "touch"}

Counting(where, o) == o.kind = "add" /\ where \in Uncounted

\* The threads whose line is still to be counted.
Waiting == {t \in Threads : Counting(pc[t], op[t])}

\* Only add reads on to where a cluster is created or a match is applied.
AddersKnown ==
  \A t \in Threads :
    pc[t] \in {"enter", "write", "rescan", "create", "stamp", "publish", "hit", "touch"} =>
      op[t].kind = "add"

\* The sizes of the bodies, and their sum.
Sizes(bs) == [b \in DOMAIN bs |-> bs[b].size]
Counted(bs) == SumOf(Sizes(bs), DOMAIN bs)

CInv ==
  /\ IsFiniteSet(Waiting)
  /\ AddersKnown
  /\ Counted(bodies) = calls["add"] - Cardinality(Waiting)

\* The sizes of a heap are finitely many numbers.
LEMMA SizesTyped ==
  ASSUME NEW bs \in Seq(Body)
  PROVE  /\ IsFiniteSet(DOMAIN bs) /\ DOMAIN bs = 1..Len(bs) /\ Len(bs) \in Nat
         /\ \A b \in DOMAIN bs : bs[b].size \in Nat
         /\ \A b \in DOMAIN bs : Sizes(bs)[b] \in Nat /\ Sizes(bs)[b] = bs[b].size
<1>1. DOMAIN bs = 1..Len(bs) /\ Len(bs) \in Nat
  OBVIOUS
<1>2. IsFiniteSet(DOMAIN bs)
  BY <1>1, FS_Interval
<1>3. ASSUME NEW b \in DOMAIN bs PROVE bs[b].size \in Nat
  <2>1. bs[b] \in Body
    OBVIOUS
  <2> QED BY <2>1 DEF Body
<1> QED BY <1>1, <1>2, <1>3 DEF Sizes

\* The sum of the model is the sum of the sizes.
LEMMA SumOfSizes ==
  MapThenSumSet(LAMBDA b : bodies[b].size, DOMAIN bodies) = Counted(bodies)
<1> DEFINE D == DOMAIN bodies
<1>1. \A g : Sums(g, Sizes(bodies), D) <=>
        g = [s \in SUBSET D |-> IF s = {} THEN 0
                                ELSE bodies[Taken(s)].size + g[s \ {Taken(s)}]]
  <2> SUFFICES ASSUME NEW g
               PROVE  [s \in SUBSET D |-> IF s = {} THEN 0
                         ELSE Sizes(bodies)[Taken(s)] + g[s \ {Taken(s)}]]
                    = [s \in SUBSET D |-> IF s = {} THEN 0
                         ELSE bodies[Taken(s)].size + g[s \ {Taken(s)}]]
    BY DEF Sums
  <2>1. \A s \in SUBSET D : s # {} => Sizes(bodies)[Taken(s)] = bodies[Taken(s)].size
    BY NextIsIn DEF Sizes
  <2> QED BY <2>1
<1>2. (CHOOSE g : Sums(g, Sizes(bodies), D))
        = CHOOSE g : g = [s \in SUBSET D |-> IF s = {} THEN 0
                            ELSE bodies[Taken(s)].size + g[s \ {Taken(s)}]]
  BY <1>1
<1>3. MapThenSumSet(LAMBDA b : bodies[b].size, D)
        = (CHOOSE g : g = [s \in SUBSET D |-> IF s = {} THEN 0
                             ELSE bodies[Taken(s)].size + g[s \ {Taken(s)}]])[D]
  BY DEF MapThenSumSet, MapThenFoldSet, Taken
<1> QED BY <1>2, <1>3, SumByEquation DEF Counted

\* A body that is appended adds its size.
LEMMA CountedOnNew ==
  ASSUME NEW bs \in Seq(Body), NEW body \in Body
  PROVE  Counted(Append(bs, body)) = Counted(bs) + body.size
<1> DEFINE cs == Append(bs, body)
           new == Len(bs) + 1
<1>1. cs \in Seq(Body) /\ DOMAIN cs = DOMAIN bs \cup {new} /\ new \notin DOMAIN bs
      /\ cs[new] = body /\ \A b \in DOMAIN bs : cs[b] = bs[b]
  OBVIOUS
<1> HIDE DEF cs, new
<1>2. /\ IsFiniteSet(DOMAIN bs) /\ IsFiniteSet(DOMAIN cs)
      /\ \A b \in DOMAIN bs : Sizes(bs)[b] \in Nat /\ Sizes(bs)[b] = bs[b].size
      /\ \A b \in DOMAIN cs : Sizes(cs)[b] \in Nat /\ Sizes(cs)[b] = cs[b].size
  BY <1>1, SizesTyped
<1>3. SumOf(Sizes(cs), DOMAIN cs)
        = Sizes(cs)[new] + SumOf(Sizes(cs), DOMAIN cs \ {new})
  BY <1>1, <1>2, SumWithout
<1>4. DOMAIN cs \ {new} = DOMAIN bs
  BY <1>1
<1>5. \A b \in DOMAIN bs : Sizes(bs)[b] \in Nat /\ Sizes(bs)[b] = Sizes(cs)[b]
  BY <1>1, <1>2
<1>6. SumOf(Sizes(bs), DOMAIN bs) = SumOf(Sizes(cs), DOMAIN bs)
  BY <1>2, <1>5, SumAgree
<1>7. Sizes(cs)[new] = body.size /\ SumOf(Sizes(bs), DOMAIN bs) \in Nat /\ body.size \in Nat
  BY <1>1, <1>2, SumType DEF Body
<1>8. Counted(cs) = Counted(bs) + body.size
  BY <1>3, <1>4, <1>6, <1>7 DEF Counted
<1> QED BY <1>8 DEF cs

\* A body that grows by one line adds one.
LEMMA CountedOnHit ==
  ASSUME NEW bs \in Seq(Body), NEW cs \in Seq(Body), DOMAIN cs = DOMAIN bs,
         NEW r \in DOMAIN bs, cs[r].size = bs[r].size + 1,
         \A b \in DOMAIN bs \ {r} : cs[b].size = bs[b].size
  PROVE  Counted(cs) = Counted(bs) + 1
<1> DEFINE D == DOMAIN bs
<1>1. /\ IsFiniteSet(D)
      /\ \A b \in D : Sizes(bs)[b] \in Nat /\ Sizes(bs)[b] = bs[b].size
      /\ \A b \in D : Sizes(cs)[b] \in Nat /\ Sizes(cs)[b] = cs[b].size
  BY SizesTyped
<1> HIDE DEF D
<1>0. r \in D
  BY DEF D
<1>2. SumOf(Sizes(bs), D) = Sizes(bs)[r] + SumOf(Sizes(bs), (D \ {r}))
  BY <1>0, <1>1, SumWithout
<1>3. SumOf(Sizes(cs), D) = Sizes(cs)[r] + SumOf(Sizes(cs), (D \ {r}))
  BY <1>0, <1>1, SumWithout
<1>4. IsFiniteSet((D \ {r})) /\ \A b \in D \ {r} : Sizes(bs)[b] \in Nat /\ Sizes(bs)[b] = Sizes(cs)[b]
  BY <1>1, FS_Subset DEF D
<1>5. SumOf(Sizes(bs), (D \ {r})) = SumOf(Sizes(cs), (D \ {r}))
  BY <1>4, SumAgree
<1>6. SumOf(Sizes(bs), (D \ {r})) \in Nat
  BY <1>4, SumType
<1>7. Sizes(cs)[r] = Sizes(bs)[r] + 1 /\ Sizes(bs)[r] \in Nat
  BY <1>1 DEF D
<1> QED BY <1>2, <1>3, <1>5, <1>6, <1>7 DEF Counted, D

\* Bodies whose sizes stay count the same lines.
LEMMA CountedStays ==
  ASSUME NEW bs \in Seq(Body), NEW cs \in Seq(Body), DOMAIN cs = DOMAIN bs,
         \A b \in DOMAIN bs : cs[b].size = bs[b].size
  PROVE  Counted(cs) = Counted(bs)
<1> DEFINE D == DOMAIN bs
<1>1. /\ IsFiniteSet(D)
      /\ \A b \in D : Sizes(bs)[b] \in Nat /\ Sizes(bs)[b] = Sizes(cs)[b]
  BY SizesTyped
<1>2. SumOf(Sizes(bs), D) = SumOf(Sizes(cs), D)
  BY <1>1, SumAgree
<1> QED BY <1>2 DEF Counted

\* A call of add waits to be counted, any other call does not.
LEMMA CallCounts ==
  ASSUME TypeOK, NEW t \in Threads, Call(t), "add" \in Kinds
  PROVE  /\ ~Counting(pc[t], op[t])
         /\ pc'[t] \in {"shard", "lookup"}
         /\ calls'["add"] = IF Counting(pc'[t], op'[t]) THEN calls["add"] + 1
                            ELSE calls["add"]
<1>1. pc[t] = "idle" /\ calls \in [Kinds -> Nat]
  BY DEF Call, TypeOK
<1>2. PICK kind \in Kinds :
        /\ calls' = [calls EXCEPT ![kind] = @ + 1]
        /\ \/ /\ kind = "add"
              /\ \E l \in Lines, m \in Members \cup {None}, e \in Events \cup {None} :
                   op' = [op EXCEPT ![t] = Request(kind, l, m, e)]
              /\ Goto(t, "shard")
           \/ /\ kind \in {"match", "extract"}
              /\ \E l \in Lines : op' = [op EXCEPT ![t] = Request(kind, l, None, None)]
              /\ Goto(t, "shard")
           \/ /\ kind = "get"
              /\ \E id \in 1..counter :
                   op' = [op EXCEPT ![t] =
                            [NoOp EXCEPT !.kind = kind, !.best.id = id]]
              /\ Goto(t, "lookup")
  BY DEF Call
<1>3. op'[t].kind = kind /\ pc'[t] = IF kind = "get" THEN "lookup" ELSE "shard"
  <2>1. \A l, m, e : Request(kind, l, m, e).kind = kind
    BY DEF Request, NoOp
  <2>2. \A id : [NoOp EXCEPT !.kind = kind, !.best.id = id].kind = kind
    BY DEF NoOp
  <2>3. CASE kind = "add" \/ kind \in {"match", "extract"}
    <3>1. PICK l, m, e : op' = [op EXCEPT ![t] = Request(kind, l, m, e)]
      BY <1>2, <2>3
    <3>2. op'[t] = Request(kind, l, m, e)
      BY <3>1 DEF TypeOK
    <3>3. op'[t].kind = kind
      BY <2>1, <3>2
    <3> QED BY <1>2, <2>3, <3>3 DEF TypeOK, Goto
  <2>4. CASE kind = "get"
    <3>1. PICK id : op' = [op EXCEPT ![t] = [NoOp EXCEPT !.kind = kind, !.best.id = id]]
      BY <1>2, <2>4
    <3> DEFINE o == [NoOp EXCEPT !.kind = kind, !.best.id = id]
    <3>2. o.kind = kind
      BY <2>2
    <3>3. op' = [op EXCEPT ![t] = o]
      BY <3>1
    <3> HIDE DEF o
    <3>4. op'[t] = o
      BY <3>3 DEF TypeOK
    <3> QED BY <1>2, <2>4, <3>2, <3>4 DEF TypeOK, Goto
  <2> QED BY <1>2, <2>3, <2>4
<1>4. calls'["add"] = IF kind = "add" THEN calls["add"] + 1 ELSE calls["add"]
  BY <1>1, <1>2
<1> QED BY <1>1, <1>2, <1>3, <1>4 DEF Counting, Uncounted

\* A call of add is counted when its cluster is published or its match is
\* applied, and by no other step.
LEMMA StepCounts ==
  ASSUME TypeOK, AddersKnown, NEW t \in Threads, Step(t)
  PROVE  /\ Counting(pc'[t], op'[t])
              <=> Counting(pc[t], op[t]) /\ ~Publish(t) /\ ~Touch(t)
         /\ Publish(t) \/ Touch(t) => Counting(pc[t], op[t])
         /\ calls' = calls
<1>1. calls' = calls
  BY DEF Step, GetShard, EnterShard, ReadLeaf, Visit, EndScan, WriteLeaf, EndRescan,
         NewId, Stamp, Publish, Consider, Link, Hit, Touch, ObserveFirst, ObserveLast,
         Decide, Upgrade, Lookup, Params, ShowFirst, ShowLast
<1>2. Publish(t) \/ Touch(t) => Counting(pc[t], op[t])
  BY DEF AddersKnown, Publish, Touch, Counting, Uncounted
<1>3. ASSUME Counting(pc'[t], op'[t])
      PROVE  pc[t] \in Timed /\ op[t].kind = "add"
  BY <1>3, RequestStays DEF Counting, Uncounted, Timed, HasLine
<1>4. Publish(t) => pc'[t] \in {"evict", "link"}
  BY DEF Publish, Goto, TypeOK
<1>5. Touch(t) => pc'[t] \in {"decide", "first"}
  BY DEF Touch, Goto, TypeOK
<1>6. pc'[t] \in Uncounted /\ pc[t] \in Timed => pc[t] \in Uncounted
  <2> USE DEF TypeOK, Goto, Uncounted, Timed, HasLine
  <2>1. ASSUME NEW result, Return(t, result) PROVE pc'[t] = "idle"
    BY <2>1 DEF Return
  <2>2. CASE GetShard(t) \/ EnterShard(t) \/ ReadLeaf(t) \/ Visit(t) \/ EndScan(t)
             \/ WriteLeaf(t) \/ EndRescan(t) \/ NewId(t) \/ Stamp(t) \/ Publish(t)
             \/ Hit(t) \/ Touch(t)
    BY <2>2 DEF GetShard, EnterShard, ReadLeaf, Visit, EndScan, WriteLeaf, EndRescan,
                NewId, Stamp, Publish, Hit, Touch
  <2>3. CASE Consider(t) \/ ObserveFirst(t) \/ ObserveLast(t)
    BY <2>3 DEF Consider, ObserveFirst, ObserveLast
  <2>4. CASE Link(t) \/ Upgrade(t) \/ Params(t) \/ ShowLast(t)
    BY <2>1, <2>4 DEF Link, Upgrade, Params, ShowLast
  <2>5. CASE Decide(t)
    BY <2>5, DecideFacts
  <2>6. CASE Lookup(t) \/ ShowFirst(t)
    BY <2>6 DEF Lookup, ShowFirst
  <2> QED BY <2>2, <2>3, <2>4, <2>5, <2>6 DEF Step
<1>7. ASSUME Counting(pc[t], op[t]), ~Publish(t), ~Touch(t)
      PROVE  pc'[t] \in Uncounted
  <2> USE DEF TypeOK, Goto, Uncounted
  <2>1. pc[t] \in Uncounted /\ op[t].kind = "add"
    BY <1>7 DEF Counting
  <2>2. CASE GetShard(t)
    BY <2>1, <2>2 DEF GetShard
  <2>3. CASE EndScan(t)
    BY <2>1, <2>3 DEF EndScan
  <2>4. CASE EnterShard(t) \/ ReadLeaf(t) \/ Visit(t) \/ WriteLeaf(t) \/ EndRescan(t)
             \/ NewId(t) \/ Stamp(t) \/ Hit(t)
    BY <2>1, <2>4 DEF EnterShard, ReadLeaf, Visit, WriteLeaf, EndRescan, NewId, Stamp, Hit
  <2>5. ~(Consider(t) \/ Link(t) \/ ObserveFirst(t) \/ ObserveLast(t) \/ Decide(t)
          \/ Upgrade(t) \/ Lookup(t) \/ Params(t) \/ ShowFirst(t) \/ ShowLast(t))
    BY <2>1 DEF Consider, Link, ObserveFirst, ObserveLast, Decide, Upgrade, Lookup,
                Params, ShowFirst, ShowLast
  <2> QED BY <1>7, <2>2, <2>3, <2>4, <2>5 DEF Step
<1>8. ASSUME Counting(pc[t], op[t]), ~Publish(t), ~Touch(t)
      PROVE  Counting(pc'[t], op'[t])
  <2>1. pc'[t] \in Timed
    BY <1>7, <1>8 DEF Uncounted, Timed, HasLine
  <2> QED BY <1>7, <1>8, <2>1, RequestStays DEF Counting
<1>9. ASSUME Counting(pc'[t], op'[t])
      PROVE  Counting(pc[t], op[t]) /\ ~Publish(t) /\ ~Touch(t)
  BY <1>3, <1>4, <1>5, <1>6, <1>9 DEF Counting, Uncounted
<1> QED BY <1>1, <1>2, <1>8, <1>9

\* Whoever creates or applies came from add.
LEMMA AddersStay ==
  ASSUME TypeOK, AddersKnown, NEW t \in Threads, Call(t) \/ Step(t)
  PROVE  AddersKnown'
<1> DEFINE Adding == {"enter", "write", "rescan", "create", "stamp", "publish", "hit",
                      "touch"}
<1> SUFFICES ASSUME NEW u \in Threads, pc'[u] \in Adding PROVE op'[u].kind = "add"
  BY DEF AddersKnown
<1>1. CASE u # t
  BY <1>1, OthersStay DEF AddersKnown
<1>2. CASE u = t /\ Step(t)
  <2>1. pc[t] \in Timed /\ op'[t].kind = op[t].kind
    BY <1>2, RequestStays DEF Timed, HasLine
  <2>2. pc[t] \in Adding => op[t].kind = "add"
    BY DEF AddersKnown
  <2>3. pc[t] \notin Adding => op[t].kind = "add"
    <3> USE DEF TypeOK, Goto
    <3> SUFFICES ASSUME pc[t] \notin Adding PROVE op[t].kind = "add"
      OBVIOUS
    <3>1. ASSUME NEW result, Return(t, result) PROVE pc'[t] = "idle"
      BY <3>1 DEF Return
    <3>2. CASE GetShard(t)
      BY <1>2, <3>1, <3>2 DEF GetShard
    <3>3. CASE EndScan(t)
      BY <1>2, <3>1, <3>3 DEF EndScan
    <3>4. ~(EnterShard(t) \/ ReadLeaf(t) \/ Visit(t) \/ WriteLeaf(t) \/ EndRescan(t)
            \/ NewId(t) \/ Stamp(t) \/ Publish(t) \/ Hit(t) \/ Touch(t))
      BY <1>2 DEF EnterShard, ReadLeaf, Visit, WriteLeaf, EndRescan, NewId, Stamp,
                  Publish, Hit, Touch
    <3>5. ~(Consider(t) \/ ObserveFirst(t) \/ ObserveLast(t) \/ Decide(t))
      BY <1>2, DecideFacts DEF Consider, ObserveFirst, ObserveLast
    <3>6. ~(Link(t) \/ Upgrade(t) \/ Params(t) \/ ShowLast(t) \/ Lookup(t) \/ ShowFirst(t))
      BY <1>2, <3>1 DEF Link, Upgrade, Params, ShowLast, Lookup, ShowFirst
    <3> QED BY <1>2, <3>2, <3>3, <3>4, <3>5, <3>6 DEF Step
  <2> QED BY <1>2, <2>1, <2>2, <2>3
<1>3. CASE u = t /\ Call(t)
  <2>1. pc'[t] \in {"shard", "lookup"}
    BY <1>3 DEF Call, TypeOK, Goto
  <2> QED BY <1>3, <2>1
<1> QED BY <1>1, <1>2, <1>3

\* A step adds to the sizes what it counts: one line, on a new or an old body.
LEMMA StepSizes ==
  ASSUME IInv, IInv', SInv, NEW t \in Threads, Call(t) \/ Step(t)
  PROVE  Counted(bodies') = IF Publish(t) \/ Touch(t) THEN Counted(bodies) + 1
                            ELSE Counted(bodies)
<1>1. bodies \in Seq(Body) /\ bodies' \in Seq(Body) /\ TypeOK
  BY DEF IInv, TypeOK
<1>2. CASE Publish(t)
  <2>1. bodies' = Append(bodies, NewBody(op[t])) /\ NewBody(op[t]).size = 1
    BY <1>2 DEF Publish, NewBody
  <2>2. NewBody(op[t]) \in Body
    <3>1. bodies'[Len(bodies) + 1] = NewBody(op[t]) /\ Len(bodies) + 1 \in DOMAIN bodies'
      BY <1>2, PublishFacts
    <3> QED BY <1>1, <3>1
  <2> QED BY <1>1, <1>2, <2>1, <2>2, CountedOnNew
<1>3. CASE Touch(t)
  <2> DEFINE ref == op[t].best.ref
  <2>1. ref \in DOMAIN bodies
    BY <1>3, ApplierBody DEF Touch, Applying
  <2>2. bodies' = [bodies EXCEPT ![ref] = Touched(@, op[t].tick)]
    BY <1>3 DEF Touch
  <2>3. bodies[ref] \in Body
    BY <1>1, <2>1
  <2>4. Touched(bodies[ref], op[t].tick).size = bodies[ref].size + 1
    BY <2>3 DEF Touched, Body
  <2>5. /\ DOMAIN bodies' = DOMAIN bodies
        /\ bodies'[ref].size = bodies[ref].size + 1
        /\ \A b \in DOMAIN bodies \ {ref} : bodies'[b].size = bodies[b].size
    BY <1>1, <2>1, <2>2, <2>4
  <2> QED BY <1>1, <1>3, <2>1, <2>5, CountedOnHit
<1>4. CASE ~Publish(t) /\ ~Touch(t)
  <2>1. DOMAIN bodies' = DOMAIN bodies /\ \A b \in DOMAIN bodies : bodies'[b].size = bodies[b].size
    <3>1. \A b \in DOMAIN bodies : bodies[b] \in Body
      BY <1>1
    <3>2. CASE ObserveFirst(t) \/ ObserveLast(t)
      BY <3>1, <3>2 DEF ObserveFirst, ObserveLast, Body
    <3>3. CASE Upgrade(t)
      <4>1. PICK toks, ms : bodies' = [bodies EXCEPT ![op[t].best.ref].tokens = toks,
                                                     ![op[t].best.ref].members = ms]
        BY <3>3 DEF Upgrade
      <4> QED BY <3>1, <4>1 DEF Body
    <3>4. CASE Decide(t) \/ Timeless(t)
      <4>1. bodies' = bodies
        BY <1>1, <3>4, DecideFacts, TimelessFacts
      <4> QED BY <4>1
    <3> QED BY <1>4, <3>2, <3>3, <3>4 DEF Step, Timeless
  <2> QED BY <1>1, <1>4, <2>1, CountedStays
<1> QED BY <1>2, <1>3, <1>4

\* The empty miner has counted what it was given: nothing.
LEMMA InitCInv == ASSUME "add" \in Kinds, Init PROVE CInv
<1>1. /\ pc = [t \in Threads |-> "idle"] /\ bodies = <<>>
      /\ calls = [k \in Kinds |-> 0]
  BY DEF Init
<1>2. Waiting = {} /\ AddersKnown
  BY <1>1 DEF Waiting, Counting, Uncounted, AddersKnown
<1>3. DOMAIN bodies = {} /\ Counted(bodies) = 0
  BY <1>1, SumOfNone DEF Counted
<1>4. IsFiniteSet({}) /\ Cardinality({}) = 0
  BY FS_EmptySet
<1>5. calls["add"] = 0
  BY <1>1
<1> QED BY <1>2, <1>3, <1>4, <1>5 DEF CInv

\* A step that counts a line takes its thread from those that wait, and a call
\* of add adds one.
LEMMA NextCInv ==
  ASSUME "add" \in Kinds, IInv, IInv', SInv, CInv, NEW t \in Threads, Call(t) \/ Step(t)
  PROVE  CInv'
<1> DEFINE was == Counting(pc[t], op[t])
           is == Counting(pc'[t], op'[t])
<1>1. TypeOK /\ AddersKnown /\ IsFiniteSet(Waiting) /\ calls \in [Kinds -> Nat]
      /\ Counted(bodies) = calls["add"] - Cardinality(Waiting)
      /\ Cardinality(Waiting) \in Nat
  BY FS_CardinalityType DEF IInv, CInv, TypeOK
<1>2. AddersKnown'
  BY <1>1, AddersStay
<1>3. Waiting' = IF is THEN Waiting \cup {t} ELSE Waiting \ {t}
  <2>1. \A u \in Threads \ {t} : pc'[u] = pc[u] /\ op'[u] = op[u]
    BY <1>1, OthersStay
  <2> QED BY <2>1 DEF Waiting
<1>4. (t \in Waiting <=> was) /\ was \in BOOLEAN /\ is \in BOOLEAN
  BY DEF Waiting, Counting
<1> HIDE DEF was, is
<1>5. /\ IsFiniteSet(Waiting')
      /\ Cardinality(Waiting') = IF is /\ ~was THEN Cardinality(Waiting) + 1
                                 ELSE IF was /\ ~is THEN Cardinality(Waiting) - 1
                                 ELSE Cardinality(Waiting)
  <2>1. CASE is /\ ~was
    BY <1>1, <1>3, <1>4, <2>1, FS_AddElement
  <2>2. CASE was /\ ~is
    BY <1>1, <1>3, <1>4, <2>2, FS_RemoveElement
  <2>3. CASE is <=> was
    <3>1. Waiting' = Waiting
      BY <1>3, <1>4, <2>3
    <3> QED BY <1>1, <2>3, <3>1
  <2> QED BY <1>4, <2>1, <2>2, <2>3
<1>6. Counted(bodies') = IF Publish(t) \/ Touch(t) THEN Counted(bodies) + 1
                         ELSE Counted(bodies)
  BY StepSizes
<1>7. Counted(bodies') = calls'["add"] - Cardinality(Waiting')
  <2>1. CASE Call(t)
    <3>1. ~was /\ pc[t] = "idle" /\ calls'["add"] = IF is THEN calls["add"] + 1 ELSE calls["add"]
      BY <1>1, <2>1, CallCounts DEF was, is, Call
    <3>2. ~Publish(t) /\ ~Touch(t)
      BY <3>1 DEF Publish, Touch
    <3> QED BY <1>1, <1>5, <1>6, <3>1, <3>2
  <2>2. CASE Step(t)
    <3>1. /\ is <=> was /\ ~Publish(t) /\ ~Touch(t)
          /\ Publish(t) \/ Touch(t) => was
          /\ calls' = calls
      BY <1>1, <2>2, StepCounts DEF was, is
    <3>2. CASE Publish(t) \/ Touch(t)
      BY <1>1, <1>5, <1>6, <3>1, <3>2
    <3>3. CASE ~(Publish(t) \/ Touch(t))
      BY <1>1, <1>5, <1>6, <3>1, <3>3
    <3> QED BY <3>2, <3>3
  <2> QED BY <2>1, <2>2
<1> QED BY <1>2, <1>5, <1>7 DEF CInv

\* Every line that was handed to add is counted exactly once, on the body that
\* was created for it or on one it was matched to, as soon as its call has got
\* there: however the calls interleave, by no step twice and by none not at
\* all.  Where no call adds there is nothing to count, and calls has no entry.
THEOREM LinesAreCounted == ASSUME "add" \in Kinds PROVE Spec => []EveryLineCounted
<1> DEFINE Inv == IInv /\ SInv /\ CInv
<1>1. Init => Inv
  BY InitIInv, InitSInv, InitCInv
<1>2. Inv /\ [Next]_vars => Inv'
  <2> SUFFICES ASSUME Inv, [Next]_vars PROVE Inv'
    OBVIOUS
  <2>1. IInv' /\ SInv'
    BY NextIInv, NextSInv
  <2>2. ASSUME NEW t \in Threads, Call(t) \/ Step(t) PROVE CInv'
    BY <2>1, <2>2, NextCInv
  <2>3. CASE UNCHANGED vars
    <3>1. /\ pc' = pc /\ op' = op /\ bodies' = bodies /\ calls' = calls
      BY <2>3 DEF vars
    <3>2. Waiting' = Waiting /\ AddersKnown'
      BY <3>1 DEF CInv, Waiting, AddersKnown
    <3>3. Counted(bodies') = Counted(bodies)
      BY <3>1
    <3> QED BY <2>1, <3>1, <3>2, <3>3 DEF CInv
  <2>4. Rest => UNCHANGED vars
    BY DEF Rest
  <2> QED BY <2>1, <2>2, <2>3, <2>4 DEF Next
<1>3. Inv => EveryLineCounted
  BY SumOfSizes DEF CInv, EveryLineCounted, Waiting, Counting, Uncounted
<1> QED BY <1>1, <1>2, <1>3, PTL DEF Spec
=============================================================================
