----------------------------- MODULE CliProofs -----------------------------
(***************************************************************************)
(* Proofs about what the command line tool makes of its sources, for any   *)
(* sources, arguments and separators, and however the reads cut them.      *)
(***************************************************************************)
EXTENDS Cli, Induction

-----------------------------------------------------------------------------
(* The provers expand \o and Append where they see them, and then do not   *)
(* recognize the terms of a lemma.  These names keep them as they are.     *)

Cat(x, y)  == x \o y
More(s, e) == Append(s, e)

\* Two sequences join to one.
LEMMA CatType ==
  ASSUME NEW S, NEW x, NEW y, x \in Seq(S), y \in Seq(S)
  PROVE  Cat(x, y) \in Seq(S)
BY DEF Cat

\* Any grouping gives the same.
LEMMA CatGroup ==
  ASSUME NEW S, NEW x, NEW y, NEW z, x \in Seq(S), y \in Seq(S), z \in Seq(S)
  PROVE  Cat(x, Cat(y, z)) = Cat(Cat(x, y), z)
<1>1. x \o (y \o z) = (x \o y) \o z
  OBVIOUS
<1> QED BY <1>1 DEF Cat

\* The empty sequence adds nothing.
LEMMA CatNone ==
  ASSUME NEW S, NEW x, x \in Seq(S)
  PROVE  Cat(<<>>, x) = x /\ Cat(x, <<>>) = x
<1>1. <<>> \o x = x /\ x \o <<>> = x
  OBVIOUS
<1> QED BY <1>1 DEF Cat

\* The lengths add up.
LEMMA CatLength ==
  ASSUME NEW S, NEW x, NEW y, x \in Seq(S), y \in Seq(S)
  PROVE  Len(Cat(x, y)) = Len(x) + Len(y) /\ Len(x) \in Nat /\ Len(y) \in Nat
BY DEF Cat

\* One more element.
LEMMA MoreLaws ==
  ASSUME NEW S, NEW s, NEW e, s \in Seq(S), e \in S
  PROVE  /\ More(s, e) \in Seq(S) /\ More(s, e) # <<>>
         /\ Len(s) \in Nat /\ Len(More(s, e)) = Len(s) + 1
         /\ DOMAIN s = 1..Len(s) /\ DOMAIN More(s, e) = 1..(Len(s) + 1)
         /\ More(s, e)[Len(s) + 1] = e
         /\ \A i \in 1..Len(s) : More(s, e)[i] = s[i]
<1>1. /\ Append(s, e) \in Seq(S) /\ Append(s, e) # <<>>
      /\ Len(s) \in Nat /\ Len(Append(s, e)) = Len(s) + 1
      /\ DOMAIN s = 1..Len(s) /\ DOMAIN Append(s, e) = 1..(Len(s) + 1)
      /\ Append(s, e)[Len(s) + 1] = e
      /\ \A i \in 1..Len(s) : Append(s, e)[i] = s[i]
  OBVIOUS
<1> QED BY <1>1 DEF More

-----------------------------------------------------------------------------
(* Records with a separator between each two.                              *)

\* The records and the separators, one after the other.
Links(records, between) ==
  [i \in 1..(2 * Len(records) - 1) |->
     IF i % 2 = 1 THEN records[(i + 1) \div 2] ELSE between]

\* They are texts, a record at each odd place.
LEMMA LinksType ==
  ASSUME NEW S, NEW rs \in Seq(S), NEW b \in S
  PROVE  /\ Links(rs, b) \in Seq(S)
         /\ rs # <<>> => Len(Links(rs, b)) = 2 * Len(rs) - 1
         /\ rs = <<>> => Links(rs, b) = <<>>
<1>1. Len(rs) \in Nat /\ DOMAIN rs = 1..Len(rs)
  OBVIOUS
<1>2. ASSUME NEW i \in 1..(2 * Len(rs) - 1)
      PROVE  (IF i % 2 = 1 THEN rs[(i + 1) \div 2] ELSE b) \in S
  <2>1. i % 2 = 1 => (i + 1) \div 2 \in 1..Len(rs)
    BY <1>1
  <2> QED BY <2>1
<1>3. CASE rs = <<>>
  <2>1. 1..(2 * Len(rs) - 1) = {} /\ 1..0 = {}
    BY <1>3
  <2>2. Links(rs, b) = <<>>
    BY <2>1 DEF Links
  <2> QED BY <1>3, <2>2
<1>4. CASE rs # <<>>
  <2>1. 2 * Len(rs) - 1 \in Nat
    BY <1>1, <1>4
  <2>2. Links(rs, b) \in [1..(2 * Len(rs) - 1) -> S]
    BY <1>2 DEF Links
  <2> QED BY <1>4, <2>1, <2>2
<1> QED BY <1>3, <1>4

\* A record more follows a separator more.
LEMMA LinksMore ==
  ASSUME NEW S, NEW rs \in Seq(S), rs # <<>>, NEW b \in S, NEW r \in S
  PROVE  Links(Append(rs, r), b) = Append(Append(Links(rs, b), b), r)
<1> DEFINE n == Len(rs)
           m == 2 * n - 1
           more == Append(rs, r)
           ls == Links(rs, b)
           ms == Append(Append(ls, b), r)
<1>1. /\ n \in Nat /\ n # 0 /\ m \in Nat
      /\ more \in Seq(S) /\ Len(more) = n + 1 /\ more[n + 1] = r
      /\ \A i \in 1..n : more[i] = rs[i]
  OBVIOUS
<1>2. ls \in Seq(S) /\ Len(ls) = m
  BY LinksType
<1>3. \A i \in 1..m : ls[i] = IF i % 2 = 1 THEN rs[(i + 1) \div 2] ELSE b
  BY DEF Links
<1> HIDE DEF more, ls
<1>4. /\ ms \in Seq(S) /\ Len(ms) = m + 2 /\ ms[m + 1] = b /\ ms[m + 2] = r
      /\ \A i \in 1..m : ms[i] = ls[i]
  BY <1>2
<1>5. Links(more, b) \in Seq(S) /\ Len(Links(more, b)) = m + 2
  <2>1. more # <<>> /\ 2 * Len(more) - 1 = m + 2
    BY <1>1
  <2> HIDE DEF m
  <2>2. Links(more, b) \in Seq(S) /\ Len(Links(more, b)) = 2 * Len(more) - 1
    BY <1>1, <2>1, LinksType
  <2> QED BY <2>1, <2>2
<1>6. \A i \in 1..(m + 2) : Links(more, b)[i] = IF i % 2 = 1 THEN more[(i + 1) \div 2] ELSE b
  <2>1. 2 * Len(more) - 1 = m + 2
    BY <1>1
  <2> QED BY <2>1 DEF Links
<1>7. ASSUME NEW i \in 1..(m + 2) PROVE Links(more, b)[i] = ms[i]
  <2>1. CASE i \in 1..m
    <3>1. i % 2 = 1 => (i + 1) \div 2 \in 1..n
      BY <1>1, <2>1
    <3>2. i % 2 = 1 => more[(i + 1) \div 2] = rs[(i + 1) \div 2]
      BY <1>1, <3>1
    <3> QED BY <1>3, <1>4, <1>6, <2>1, <3>2
  <2>2. CASE i = m + 1
    <3>1. i % 2 = 0
      BY <1>1, <2>2
    <3> QED BY <1>4, <1>6, <2>2, <3>1
  <2>3. CASE i = m + 2
    <3>1. i = 2 * n + 1 /\ i + 1 = 2 * (n + 1)
      BY <1>1, <2>3
    <3>2. i % 2 = 1 /\ (i + 1) \div 2 = n + 1
      BY <1>1, <3>1
    <3> HIDE DEF m
    <3>3. Links(more, b)[i] = more[n + 1]
      BY <1>6, <3>2
    <3> QED BY <1>1, <1>4, <2>3, <3>3
  <2>4. i \in 1..m \/ i = m + 1 \/ i = m + 2
    BY <1>1
  <2> HIDE DEF m, ms
  <2> QED BY <2>1, <2>2, <2>3, <2>4
<1> HIDE DEF ms, m
<1>8. Links(more, b) = ms
  BY <1>4, <1>5, <1>7
<1> QED BY <1>8 DEF more, ms, ls

\* What a chain is, of no record, of one, and of one more.
LEMMA ChainSteps ==
  ASSUME NEW S, NEW rs \in Seq(Seq(S)), NEW b \in Seq(S), NEW r \in Seq(S)
  PROVE  /\ Chain(rs, b) \in Seq(S)
         /\ rs = <<>> => Chain(rs, b) = <<>>
         /\ Chain(More(rs, r), b) = IF rs = <<>> THEN r ELSE Cat(Cat(Chain(rs, b), b), r)
<1> DEFINE T == Seq(S)
<1>0. rs \in Seq(T) /\ b \in T /\ r \in T /\ Append(rs, r) \in Seq(T)
  OBVIOUS
<1>1. \A xs : Chain(xs, b) = FlattenSeq(Links(xs, b))
  BY DEF Chain, Links
<1> HIDE DEF T
<1>2. Links(rs, b) \in Seq(T) /\ (rs = <<>> => Links(rs, b) = <<>>)
  BY <1>0, LinksType
<1>3. Chain(rs, b) \in Seq(S)
  BY <1>1, <1>2, FlattenType DEF T
<1>4. rs = <<>> => Chain(rs, b) = <<>>
  BY <1>1, <1>2, FlattenNone
<1>5. CASE rs = <<>>
  <2>1. Append(rs, r) = <<r>> /\ Len(<<r>>) = 1
    BY <1>5
  <2>2. Links(<<r>>, b) = <<r>>
    BY <2>1 DEF Links
  <2>3. FlattenSeq(<<r>>) = r
    BY FlattenOne
  <2>4. Chain(Append(rs, r), b) = r
    BY <1>1, <2>1, <2>2, <2>3
  <2> QED BY <1>3, <1>4, <1>5, <2>4 DEF More
<1>6. CASE rs # <<>>
  <2>1. Links(Append(rs, r), b) = Append(Append(Links(rs, b), b), r)
    BY <1>0, <1>6, LinksMore
  <2>2. Append(Links(rs, b), b) \in Seq(T)
    BY <1>0, <1>2
  <2>3. FlattenSeq(Append(Append(Links(rs, b), b), r))
          = FlattenSeq(Append(Links(rs, b), b)) \o r
    BY <2>2, FlattenAppend DEF T
  <2>4. FlattenSeq(Append(Links(rs, b), b)) = FlattenSeq(Links(rs, b)) \o b
    BY <1>2, FlattenAppend DEF T
  <2>5. Chain(Append(rs, r), b) = (Chain(rs, b) \o b) \o r
    BY <1>1, <2>1, <2>3, <2>4
  <2> QED BY <1>3, <1>6, <2>5 DEF More, Cat
<1> QED BY <1>3, <1>4, <1>5, <1>6

\* Two parts of a sequence are the sequence.
LEMMA Halves ==
  ASSUME NEW S, NEW s \in Seq(S), NEW n \in 0..Len(s)
  PROVE  /\ SubSeq(s, 1, n) \in Seq(S) /\ Len(SubSeq(s, 1, n)) = n
         /\ SubSeq(s, n + 1, Len(s)) \in Seq(S)
         /\ s = SubSeq(s, 1, n) \o SubSeq(s, n + 1, Len(s))
<1>1. 1 \in 1..(Len(s) + 1) /\ n \in (1 - 1)..Len(s) /\ Len(s) \in n..Len(s)
  OBVIOUS
<1>2. SubSeq(s, 1, n) \o SubSeq(s, n + 1, Len(s)) = SubSeq(s, 1, Len(s))
  BY <1>1, ConcatAdjacentSubSeq
<1>3. SubSeq(s, 1, Len(s)) = s
  BY SubSeqFull
<1>4. \A i \in 1..Len(s) : s[i] \in S
  OBVIOUS
<1>5. SubSeq(s, 1, n) \in Seq(S) /\ Len(SubSeq(s, 1, n)) = n
  BY <1>4, SubSeqProperties
<1>6. SubSeq(s, n + 1, Len(s)) \in Seq(S)
  BY <1>4, SubSeqProperties
<1> QED BY <1>2, <1>3, <1>5, <1>6

\* A chain is a text, and of no record the empty one.
LEMMA ChainType ==
  ASSUME NEW S, NEW rs, NEW b, rs \in Seq(Seq(S)), b \in Seq(S)
  PROVE  Chain(rs, b) \in Seq(S) /\ (rs = <<>> => Chain(rs, b) = <<>>)
<1>1. <<>> \in Seq(S)
  OBVIOUS
<1> QED BY <1>1, ChainSteps

\* A chain of one record more.
LEMMA ChainMore ==
  ASSUME NEW S, NEW rs, NEW b, NEW r, rs \in Seq(Seq(S)), b \in Seq(S), r \in Seq(S)
  PROVE  Chain(More(rs, r), b) = IF rs = <<>> THEN r ELSE Cat(Cat(Chain(rs, b), b), r)
BY ChainSteps

-----------------------------------------------------------------------------
(* Records between separators.                                             *)

\* Places, of a separator that is given.
Found(sep, bytes) ==
  {i \in 1..(Len(bytes) - Len(sep) + 1) : SubSeq(bytes, i, i + Len(sep) - 1) = sep}

\* The first separator after the start of a record ends it.
EndsIt(sep, r) == \A i \in 1..Len(r) : i \notin Found(sep, r \o sep)

\* What was read to give the records.
Behind(sep, rs) == IF rs = <<>> THEN <<>> ELSE Cat(Chain(rs, sep), sep)

\* A source s of which b and u are still to be cut and to be read.
Going(sep, s, rs, b, u, cut) ==
  /\ s = Cat(Cat(Behind(sep, rs), b), u)
  /\ \A i \in DOMAIN rs : EndsIt(sep, rs[i])
  /\ ~cut => Found(sep, b) = {}

\* A source that was read: the property.
Whole(sep, s, rs) ==
  /\ s = Chain(rs, sep) \/ s = Cat(Chain(rs, sep), sep)
  /\ \A i \in DOMAIN rs :
       Found(sep, rs[i] \o sep)
         \cap 1..(Len(rs[i]) - IF i = Len(rs) THEN Len(sep) - 1 ELSE 0) = {}

\* What was read is a text.
LEMMA BehindType ==
  ASSUME NEW S, NEW sep, NEW rs, sep \in Seq(S), rs \in Seq(Seq(S))
  PROVE  Behind(sep, rs) \in Seq(S)
<1>1. <<>> \in Seq(S)
  OBVIOUS
<1>2. Chain(rs, sep) \in Seq(S)
  BY ChainType
<1>3. Cat(Chain(rs, sep), sep) \in Seq(S)
  BY <1>2, CatType
<1> QED BY <1>1, <1>3 DEF Behind

\* One record more, without the separator that follows it.
LEMMA ChainBehind ==
  ASSUME NEW S, NEW sep, NEW rs, NEW r, sep \in Seq(S), rs \in Seq(Seq(S)), r \in Seq(S)
  PROVE  Chain(More(rs, r), sep) = Cat(Behind(sep, rs), r)
<1>1. Chain(More(rs, r), sep)
        = IF rs = <<>> THEN r ELSE Cat(Cat(Chain(rs, sep), sep), r)
  BY ChainMore
<1>2. Cat(<<>>, r) = r
  BY CatNone
<1> QED BY <1>1, <1>2 DEF Behind

\* One record more and the separator that ends it.
LEMMA BehindMore ==
  ASSUME NEW S, NEW sep, NEW rs, NEW r, sep \in Seq(S), rs \in Seq(Seq(S)), r \in Seq(S)
  PROVE  Behind(sep, More(rs, r)) = Cat(Cat(Behind(sep, rs), r), sep)
<1> DEFINE T == Seq(S)
<1>1. Chain(More(rs, r), sep) = Cat(Behind(sep, rs), r)
  BY ChainBehind
<1>2. More(rs, r) # <<>>
  <2>1. rs \in Seq(T) /\ r \in T
    OBVIOUS
  <2> HIDE DEF T
  <2> QED BY <2>1, MoreLaws
<1> QED BY <1>1, <1>2 DEF Behind

\* The first separator in the bytes read ends a record.
LEMMA CutAt ==
  ASSUME NEW S, NEW sep, NEW b, sep \in Seq(S), sep # <<>>, b \in Seq(S),
         NEW pos, pos \in Found(sep, b), \A j \in Found(sep, b) : pos <= j
  PROVE  LET r    == SubSeq(b, 1, pos - 1)
             rest == SubSeq(b, pos + Len(sep), Len(b))
         IN  r \in Seq(S) /\ rest \in Seq(S) /\ b = Cat(Cat(r, sep), rest) /\ EndsIt(sep, r)
<1> DEFINE L == Len(sep)
           r == SubSeq(b, 1, pos - 1)
           rest == SubSeq(b, pos + L, Len(b))
           front == SubSeq(b, 1, pos + L - 1)
<1>1. /\ L \in Nat \ {0} /\ Len(b) \in Nat /\ pos \in Nat \ {0}
      /\ pos + L - 1 <= Len(b) /\ SubSeq(b, pos, pos + L - 1) = sep
  BY DEF Found
<1>2. r \in Seq(S) /\ Len(r) = pos - 1
  BY <1>1, Halves
<1>3. pos + L - 1 + 1 = pos + L /\ pos - 1 + 1 = pos /\ pos + L - 1 \in 0..Len(b)
  BY <1>1
<1>4. front \in Seq(S) /\ rest \in Seq(S) /\ b = front \o rest /\ Len(front) = pos + L - 1
  BY <1>3, Halves
<1>5. front = r \o sep
  <2>1. /\ 1 \in 1..(Len(b) + 1) /\ pos - 1 \in (1 - 1)..Len(b)
        /\ pos + L - 1 \in (pos - 1)..Len(b)
    BY <1>1
  <2>2. SubSeq(b, 1, pos - 1) \o SubSeq(b, pos - 1 + 1, pos + L - 1) = front
    BY <2>1, ConcatAdjacentSubSeq
  <2> QED BY <1>1, <1>3, <2>2
<1>6. ASSUME NEW i \in 1..Len(r), i \in Found(sep, r \o sep) PROVE FALSE
  <2>1. i \in Nat /\ 1 <= i /\ i < pos /\ SubSeq(front, i, i + L - 1) = sep
    BY <1>1, <1>2, <1>5, <1>6 DEF Found
  <2>2. SubSeq(front, i, i + L - 1) = SubSeq(b, i, i + L - 1)
    <3> DEFINE p == pos + L - 1
               q == i + L - 1
    <3>1. p \in 1..Len(b) /\ i \in 1..p /\ q \in 1..p /\ p - 1 + 1 = p
          /\ 1 \in 1..Len(b) /\ 1 + i - 1 = i /\ 1 + q - 1 = q
      BY <1>1, <2>1
    <3> HIDE DEF p, q
    <3>2. SubSeq(SubSeq(b, 1, p), i, q) = SubSeq(b, 1 + i - 1, 1 + q - 1)
      BY ONLY b \in Seq(S), <3>1, SubSeqOfSubSeq
    <3> QED BY <3>1, <3>2 DEF p, q
  <2>3. SubSeq(b, i, i + L - 1) = sep
    BY <2>1, <2>2
  <2>4. i \in 1..(Len(b) - L + 1)
    BY <1>1, <2>1
  <2>5. i \in Found(sep, b)
    BY <2>3, <2>4 DEF Found
  <2> QED BY <1>1, <2>1, <2>5
<1> HIDE DEF r, rest, front
<1> QED
  <2>1. EndsIt(sep, r)
    BY <1>6 DEF EndsIt
  <2>2. b = Cat(Cat(r, sep), rest)
    BY <1>4, <1>5 DEF Cat
  <2> QED BY <1>2, <1>4, <2>1, <2>2 DEF r, rest

\* A separator is not found in a record, either.
LEMMA NoneWithin ==
  ASSUME NEW S, NEW sep \in Seq(S), sep # <<>>, NEW r \in Seq(S),
         EndsIt(sep, r) \/ Found(sep, r) = {}
  PROVE  Found(sep, r \o sep) \cap 1..(Len(r) - (Len(sep) - 1)) = {}
<1> DEFINE L == Len(sep)
<1> SUFFICES ASSUME NEW i \in Found(sep, r \o sep), i \in 1..(Len(r) - (L - 1)) PROVE FALSE
  OBVIOUS
<1>1. /\ L \in Nat \ {0} /\ Len(r) \in Nat /\ i \in 1..Len(r) /\ i + L - 1 \in 1..Len(r)
      /\ i \in 1..(Len(r) - L + 1)
  OBVIOUS
<1>2. SubSeq(r \o sep, i, i + L - 1) = SubSeq(r, i, i + L - 1)
  BY <1>1, SubSeqOfConcat1
<1>3. SubSeq(r, i, i + L - 1) = sep
  BY <1>2 DEF Found
<1>4. i \in Found(sep, r)
  BY <1>1, <1>3 DEF Found
<1> QED BY <1>1, <1>4 DEF EndsIt

\* Nothing of a source was read yet.
LEMMA StartSource ==
  ASSUME NEW S, NEW sep, NEW s, sep \in Seq(S), sep # <<>>, s \in Seq(S)
  PROVE  Going(sep, s, <<>>, <<>>, s, FALSE)
<1>1. Found(sep, <<>>) = {}
  <2>1. Len(sep) \in Nat \ {0} /\ Len(<<>>) = 0
    OBVIOUS
  <2> QED BY <2>1 DEF Found
<1>2. <<>> \in Seq(S)
  OBVIOUS
<1>3. Cat(Cat(<<>>, <<>>), s) = s
  BY <1>2, CatNone
<1>4. DOMAIN <<>> = {}
  OBVIOUS
<1> QED BY <1>1, <1>3, <1>4 DEF Going, Behind

\* The bytes of a read join those before.
LEMMA ReadMore ==
  ASSUME NEW S, NEW sep, NEW s, NEW rs, NEW b, NEW u, NEW c,
         sep \in Seq(S), rs \in Seq(Seq(S)), b \in Seq(S), u \in Seq(S),
         Going(sep, s, rs, b, u, c), NEW n \in 1..Len(u)
  PROVE  Going(sep, s, rs, Cat(b, SubSeq(u, 1, n)), SubSeq(u, n + 1, Len(u)), TRUE)
<1> DEFINE v == SubSeq(u, 1, n)
           w == SubSeq(u, n + 1, Len(u))
           h == Behind(sep, rs)
<1>1. v \in Seq(S) /\ w \in Seq(S) /\ u = Cat(v, w)
  BY Halves DEF Cat
<1>2. h \in Seq(S)
  BY BehindType
<1>3. s = Cat(Cat(h, b), u)
  BY DEF Going
<1> HIDE DEF h, v, w
<1>4. Cat(h, b) \in Seq(S)
  BY <1>2, CatType
<1>5. Cat(Cat(h, b), Cat(v, w)) = Cat(Cat(Cat(h, b), v), w)
  BY <1>1, <1>4, CatGroup
<1>6. Cat(h, Cat(b, v)) = Cat(Cat(h, b), v)
  BY <1>1, <1>2, CatGroup
<1>7. s = Cat(Cat(h, Cat(b, v)), w)
  BY <1>1, <1>3, <1>5, <1>6
<1> QED BY <1>7 DEF Going, h, v, w

\* A record is cut off the bytes read.
LEMMA CutMore ==
  ASSUME NEW S, NEW sep, NEW s, NEW rs, NEW b, NEW u, NEW c,
         sep \in Seq(S), rs \in Seq(Seq(S)), b \in Seq(S), u \in Seq(S),
         Going(sep, s, rs, b, u, c), sep # <<>>,
         NEW pos, pos \in Found(sep, b), \A j \in Found(sep, b) : pos <= j
  PROVE  Going(sep, s, More(rs, SubSeq(b, 1, pos - 1)),
               SubSeq(b, pos + Len(sep), Len(b)), u, TRUE)
<1> DEFINE r == SubSeq(b, 1, pos - 1)
           rest == SubSeq(b, pos + Len(sep), Len(b))
           h == Behind(sep, rs)
           T == Seq(S)
<1>1. r \in Seq(S) /\ rest \in Seq(S) /\ b = Cat(Cat(r, sep), rest) /\ EndsIt(sep, r)
  BY CutAt
<1> HIDE DEF r, rest
<1>2. h \in Seq(S) /\ Behind(sep, More(rs, r)) = Cat(Cat(h, r), sep)
  <2>1. h \in Seq(S)
    BY BehindType
  <2>3. Behind(sep, More(rs, r)) = Cat(Cat(h, r), sep)
    BY <1>1, BehindMore
  <2> QED BY <2>1, <2>3
<1>3. s = Cat(Cat(h, b), u)
  BY DEF Going
<1>4. \A i \in DOMAIN More(rs, r) : EndsIt(sep, More(rs, r)[i])
  <2>1. rs \in Seq(T) /\ r \in T /\ \A i \in DOMAIN rs : EndsIt(sep, rs[i])
    BY <1>1 DEF Going
  <2> HIDE DEF T
  <2>2. /\ DOMAIN More(rs, r) = 1..(Len(rs) + 1) /\ More(rs, r)[Len(rs) + 1] = r
        /\ \A i \in 1..Len(rs) : More(rs, r)[i] = rs[i]
        /\ Len(rs) \in Nat /\ DOMAIN rs = 1..Len(rs)
    BY <2>1, MoreLaws
  <2> QED BY <1>1, <2>1, <2>2
<1> HIDE DEF h
<1>5. Cat(h, b) = Cat(Cat(Cat(h, r), sep), rest)
  <2>1. Cat(r, sep) \in Seq(S)
    BY <1>1, CatType
  <2>2. Cat(h, Cat(Cat(r, sep), rest)) = Cat(Cat(h, Cat(r, sep)), rest)
    BY <1>1, <1>2, <2>1, CatGroup
  <2>3. Cat(h, Cat(r, sep)) = Cat(Cat(h, r), sep)
    BY <1>1, <1>2, CatGroup
  <2> QED BY <1>1, <2>2, <2>3
<1> QED BY <1>2, <1>3, <1>4, <1>5 DEF Going, h, r, rest

\* What is left at the end of a source is a record.
LEMMA EndMore ==
  ASSUME NEW S, NEW sep, NEW s, NEW rs, NEW b, sep \in Seq(S), rs \in Seq(Seq(S)),
         b \in Seq(S), Going(sep, s, rs, b, <<>>, FALSE), sep # <<>>
  PROVE  Whole(sep, s, More(rs, b))
<1> DEFINE h == Behind(sep, rs)
           T == Seq(S)
           more == More(rs, b)
<1>1. h \in Seq(S) /\ Chain(more, sep) = Cat(h, b)
  BY BehindType, ChainBehind
<1>2. s = Cat(Cat(h, b), <<>>) /\ Found(sep, b) = {}
  BY DEF Going
<1>3. s = Chain(more, sep)
  <2>1. Cat(h, b) \in Seq(S)
    BY <1>1, CatType
  <2>2. Cat(Cat(h, b), <<>>) = Cat(h, b)
    BY <2>1, CatNone
  <2> QED BY <1>1, <1>2, <2>2
<1>4. rs \in Seq(T) /\ b \in T /\ \A i \in DOMAIN rs : EndsIt(sep, rs[i])
  BY DEF Going
<1> HIDE DEF T
<1>5. /\ DOMAIN more = 1..(Len(rs) + 1) /\ more[Len(rs) + 1] = b /\ Len(more) = Len(rs) + 1
      /\ \A i \in 1..Len(rs) : more[i] = rs[i]
      /\ Len(rs) \in Nat /\ DOMAIN rs = 1..Len(rs) /\ \A i \in 1..Len(rs) : rs[i] \in T
  BY <1>4, MoreLaws
<1> HIDE DEF more
<1>6. ASSUME NEW i \in DOMAIN more
      PROVE  Found(sep, more[i] \o sep)
               \cap 1..(Len(more[i]) - IF i = Len(more) THEN Len(sep) - 1 ELSE 0) = {}
  <2>1. CASE i = Len(more)
    <3>1. more[i] = b
      BY <1>5, <2>1
    <3>2. Found(sep, b \o sep) \cap 1..(Len(b) - (Len(sep) - 1)) = {}
      BY <1>2, NoneWithin
    <3> QED BY <2>1, <3>1, <3>2
  <2>2. CASE i # Len(more)
    <3>1. i \in 1..Len(rs)
      BY <1>5, <2>2
    <3>2. EndsIt(sep, more[i]) /\ more[i] \in Seq(S)
      BY <1>4, <1>5, <3>1 DEF T
    <3> QED BY <2>2, <3>2 DEF EndsIt
  <2> QED BY <2>1, <2>2
<1>7. Whole(sep, s, more)
  BY <1>3, <1>6 DEF Whole
<1> QED BY <1>7 DEF more

\* Nothing is left: the source ended with a separator, or was empty.
LEMMA EndNone ==
  ASSUME NEW S, NEW sep, NEW s, NEW rs, NEW c, sep \in Seq(S), rs \in Seq(Seq(S)),
         Going(sep, s, rs, <<>>, <<>>, c), sep # <<>>
  PROVE  Whole(sep, s, rs)
<1>0. <<>> \in Seq(S)
  OBVIOUS
<1>1. Behind(sep, rs) \in Seq(S)
  BY BehindType
<1>2. s = Behind(sep, rs)
  BY <1>0, <1>1, CatNone DEF Going
<1>3. s = Chain(rs, sep) \/ s = Cat(Chain(rs, sep), sep)
  <2>1. rs = <<>> => Chain(rs, sep) = <<>>
    BY ChainType
  <2> QED BY <1>2, <2>1 DEF Behind
<1>4. ASSUME NEW i \in DOMAIN rs
      PROVE  Found(sep, rs[i] \o sep)
               \cap 1..(Len(rs[i]) - IF i = Len(rs) THEN Len(sep) - 1 ELSE 0) = {}
  <2>1. EndsIt(sep, rs[i]) /\ rs[i] \in Seq(S)
    BY DEF Going
  <2>2. CASE i = Len(rs)
    BY <2>1, <2>2, NoneWithin
  <2>3. CASE i # Len(rs)
    BY <2>1, <2>3 DEF EndsIt
  <2> QED BY <2>2, <2>3
<1> QED BY <1>3, <1>4 DEF Whole

-----------------------------------------------------------------------------
(* The separator that the escapes spell.                                   *)

\* The states in which a character of the separator is read.
Reading == [escaped : BOOLEAN, out : Seq(Byte)]
Unread  == [escaped |-> FALSE, out |-> <<>>]

\* A character leads from one of them to another.
LEMMA UnescapeCharType ==
  ASSUME NEW state \in Reading, NEW c \in Byte
  PROVE  UnescapeChar(state, c) \in Reading
<1>1. /\ Backslash \in Byte
      /\ c \in DOMAIN EscapeOf => EscapeOf[c] \in Byte
  BY DEF Backslash, EscapeOf, Byte, LF, CR
<1>2. CASE ~state.escaped /\ c = Backslash
  BY <1>2 DEF UnescapeChar, Reading
<1>3. CASE ~state.escaped /\ c # Backslash
  BY <1>3 DEF UnescapeChar, Reading
<1>4. CASE state.escaped
  <2> DEFINE add == IF c \in DOMAIN EscapeOf THEN <<EscapeOf[c]>> ELSE <<Backslash, c>>
  <2>1. add \in Seq(Byte)
    BY <1>1
  <2> HIDE DEF add
  <2>2. [escaped |-> FALSE, out |-> state.out \o add] \in Reading
    BY <2>1 DEF Reading
  <2> QED BY <1>4, <2>2 DEF UnescapeChar, add
<1> QED BY <1>2, <1>3, <1>4

\* The equation of the fold.
Unescapes(g, s) ==
  g = [t \in SUBSET (DOMAIN s) |->
         IF t = {} THEN Unread ELSE UnescapeChar(g[t \ {Max(t)}], s[Max(t)])]

\* What Unescape computes, by the definition of the library's fold.
LEMMA UnescapeByEquation ==
  ASSUME NEW s
  PROVE  LET end == (CHOOSE g : Unescapes(g, s))[DOMAIN s]
         IN  Unescape(s) = end.out \o IF end.escaped THEN <<Backslash>> ELSE <<>>
BY DEF Unescape, FoldLeft, MapThenFoldSet, Unescapes, Unread

\* Unescape reads its characters one after the other.
LEMMA UnescapeSteps ==
  ASSUME NEW s, s \in Seq(Byte)
  PROVE  \E p \in [0..Len(s) -> Reading] :
           /\ p[0] = Unread
           /\ \A n \in 1..Len(s) : p[n] = UnescapeChar(p[n - 1], s[n])
           /\ Unescape(s) = p[Len(s)].out
                \o IF p[Len(s)].escaped THEN <<Backslash>> ELSE <<>>
<1> DEFINE F == [pair \in Reading \X Byte |-> UnescapeChar(pair[1], pair[2])]
           D == DOMAIN s
<1>0. D = 1..Len(s) /\ Len(s) \in Nat /\ \A i \in D : s[i] \in Byte
  OBVIOUS
<1>1. F \in [Reading \X Byte -> Reading]
  BY UnescapeCharType
<1>2. Unread \in Reading
  BY DEF Unread, Reading
<1>3. PICK g \in [SUBSET D -> Reading] : Folds(g, F, Unread, s)
  BY ONLY s \in Seq(Byte), <1>1, <1>2, FoldsExist
<1> HIDE DEF D
<1>4. Unescapes(g, s)
  <2>1. g = [t \in SUBSET D |-> FoldStep(g, F, Unread, s, t)]
    BY <1>3 DEF Folds, D
  <2>2. ASSUME NEW t \in SUBSET D
        PROVE  FoldStep(g, F, Unread, s, t)
                 = IF t = {} THEN Unread ELSE UnescapeChar(g[t \ {Max(t)}], s[Max(t)])
    <3>1. CASE t = {}
      BY <3>1 DEF FoldStep
    <3>2. CASE t # {}
      <4>1. Max(t) \in D
        BY <1>0, <3>2, GreatestNumber
      <4>2. g[t \ {Max(t)}] \in Reading /\ s[Max(t)] \in Byte
        BY <1>0, <1>3, <4>1
      <4>3. F[<<g[t \ {Max(t)}], s[Max(t)]>>] = UnescapeChar(g[t \ {Max(t)}], s[Max(t)])
        BY <4>2
      <4> QED BY <3>2, <4>3 DEF FoldStep
    <3> QED BY <3>1, <3>2
  <2> QED BY <2>1, <2>2 DEF Unescapes, D
<1> DEFINE h == CHOOSE f : Unescapes(f, s)
<1>5. Unescapes(h, s)
  BY <1>4
<1> HIDE DEF h
<1>6. \A t \in SUBSET D :
        h[t] = IF t = {} THEN Unread ELSE UnescapeChar(h[t \ {Max(t)}], s[Max(t)])
  BY <1>5 DEF Unescapes, D
<1> DEFINE p == [n \in 0..Len(s) |-> h[1..n]]
<1>7. p[0] = Unread
  <2>1. 1..0 = {} /\ 0 \in 0..Len(s)
    BY <1>0
  <2> QED BY <1>6, <2>1
<1>8. ASSUME NEW n \in 1..Len(s) PROVE p[n] = UnescapeChar(p[n - 1], s[n])
  <2>1. n \in Nat /\ n # 0 /\ n - 1 \in 0..Len(s) /\ n \in 0..Len(s) /\ 1..n # {}
        /\ 1..n \in SUBSET D
    BY <1>0
  <2>2. Max(1..n) = n /\ (1..n) \ {n} = 1..(n - 1)
    BY <2>1, GreatestUpto
  <2>3. h[1..n] = UnescapeChar(h[1..(n - 1)], s[n])
    BY <1>6, <2>1, <2>2
  <2> QED BY <2>1, <2>3
<1> DEFINE P == {n \in Nat : n <= Len(s) => p[n] \in Reading}
<1> HIDE DEF p
<1>9. 0 \in P
  BY <1>2, <1>7
<1>10. ASSUME NEW n \in Nat, n \in P PROVE n + 1 \in P
  <2> SUFFICES ASSUME n + 1 <= Len(s) PROVE p[n + 1] \in Reading
    OBVIOUS
  <2>1. n + 1 \in 1..Len(s) /\ n + 1 - 1 = n /\ p[n] \in Reading /\ s[n + 1] \in Byte
    BY <1>0, <1>10
  <2> QED BY <1>8, <2>1, UnescapeCharType
<1> HIDE DEF P
<1>11. \A n \in Nat : n \in P
  BY <1>9, <1>10, NumberInduction
<1>12. p \in [0..Len(s) -> Reading]
  <2>1. \A n \in 0..Len(s) : p[n] \in Reading
    BY <1>0, <1>11 DEF P
  <2> QED BY <2>1 DEF p
<1>13. Unescape(s) = p[Len(s)].out \o IF p[Len(s)].escaped THEN <<Backslash>> ELSE <<>>
  <2>1. h[D] = p[Len(s)]
    BY <1>0 DEF p
  <2> QED BY <2>1, UnescapeByEquation DEF h, D
<1> QED BY <1>7, <1>8, <1>12, <1>13

\* The separator consists of bytes.
LEMMA UnescapeType ==
  ASSUME NEW s, s \in Seq(Byte)
  PROVE  Unescape(s) \in Seq(Byte)
<1>1. PICK p \in [0..Len(s) -> Reading] :
        Unescape(s) = p[Len(s)].out \o IF p[Len(s)].escaped THEN <<Backslash>> ELSE <<>>
  BY UnescapeSteps
<1>2. p[Len(s)].out \in Seq(Byte)
  BY DEF Reading
<1>3. (IF p[Len(s)].escaped THEN <<Backslash>> ELSE <<>>) \in Seq(Byte)
  <2>1. Backslash \in Byte
    BY DEF Backslash, Byte
  <2> QED BY <2>1
<1> QED BY <1>1, <1>2, <1>3

-----------------------------------------------------------------------------
(* Types, and what is known of a run before and between its sources.       *)

Bytes == Seq(Byte)
Feds  == Seq(Bytes)

\* Inductive: the types of what is read, and when nothing is left to read.
RunInv ==
  /\ sources \in Seq(Bytes) /\ unread \in Bytes /\ buf \in Bytes
  /\ fed \in Seq(Feds) /\ Len(fed) <= Len(sources)
  /\ args.recordSeparator \in Bytes \cup {None}
  /\ options.mode = "separated" =>
       options.separator \in Bytes /\ options.separator # <<>>
  /\ cutting \in BOOLEAN /\ (cutting => options.mode = "separated")
  /\ fed = <<>> => unread = <<>> /\ buf = <<>> /\ ~cutting
  /\ outcome = "start" => fed = <<>> /\ options.mode = "lines"
  /\ outcome = "printed" =>
       unread = <<>> /\ buf = <<>> /\ ~cutting /\ Len(fed) = Len(sources)

\* Where the first line ends.
LEMMA LineEndIs ==
  ASSUME unread \in Bytes
  PROVE  /\ LineEnd \in 1..(Len(unread) + 1)
         /\ LineEnd \in DOMAIN unread => unread[LineEnd] = Newline
         /\ \A j \in 1..(LineEnd - 1) : j \in DOMAIN unread /\ unread[j] # Newline
<1> DEFINE E == {i \in DOMAIN unread : unread[i] = Newline}
           ends(i) == unread[i] = Newline /\ \A j \in 1..(i - 1) : unread[j] # Newline
<1>1. DOMAIN unread = 1..Len(unread) /\ Len(unread) \in Nat
  BY DEF Bytes
<1>2. CASE E = {}
  <2>1. LineEnd = Len(unread) + 1
    BY <1>2 DEF LineEnd
  <2> QED BY <1>1, <1>2, <2>1
<1>3. CASE E # {}
  <2>0. E \subseteq Nat
    BY <1>1
  <2>1. PICK i \in E : \A j \in E : i <= j
    BY <1>3, <2>0, LeastNumber
  <2>2. i \in DOMAIN unread /\ ends(i)
    BY <1>1, <2>1
  <2>3. LineEnd = CHOOSE k \in DOMAIN unread : ends(k)
    BY <1>3 DEF LineEnd
  <2>4. LineEnd \in DOMAIN unread /\ ends(LineEnd)
    BY <2>2, <2>3
  <2> QED BY <1>1, <2>4
<1> QED BY <1>2, <1>3

\* The line and what is left are texts.
LEMMA LineTypes ==
  ASSUME unread \in Bytes
  PROVE  Line \in Bytes /\ SubSeq(unread, LineEnd + 1, Len(unread)) \in Bytes
<1>1. /\ Len(unread) \in Nat /\ \A i \in 1..Len(unread) : unread[i] \in Byte
      /\ LineEnd \in Int /\ LineEnd >= 1 /\ LineEnd <= Len(unread) + 1
  BY LineEndIs DEF Bytes
<1>2. \A i \in 1..(LineEnd - 1) : unread[i] \in Byte
  BY <1>1
<1>3. \A i \in (LineEnd + 1)..Len(unread) : unread[i] \in Byte
  BY <1>1
<1>4. SubSeq(unread, 1, LineEnd - 1) \in Seq(Byte)
  BY <1>1, <1>2, SubSeqProperties
<1>5. SubSeq(unread, LineEnd + 1, Len(unread)) \in Seq(Byte)
  BY <1>1, <1>3, SubSeqProperties
<1> QED BY <1>4, <1>5 DEF Line, Bytes

\* A record in progress with one more line is a text.
LEMMA JoinedType ==
  ASSUME buf \in Bytes, NEW line, line \in Bytes
  PROVE  Joined(line) \in Bytes
<1>1. <<Newline>> \in Bytes
  BY RecordsAssumption DEF Bytes
<1>2. (buf \o <<Newline>>) \o line \in Bytes
  BY <1>1 DEF Bytes
<1> QED BY <1>2 DEF Joined

\* A record that is fed is the last one of the last source.
LEMMA FeedStep ==
  ASSUME fed \in Seq(Feds), NEW record, record \in Bytes, Feed(record)
  PROVE  /\ fed' \in Seq(Feds) /\ Len(fed') = Len(fed) /\ DOMAIN fed' = DOMAIN fed
         /\ \A k \in DOMAIN fed : k # Len(fed) => fed'[k] = fed[k]
         /\ Len(fed) \in DOMAIN fed =>
              /\ fed[Len(fed)] \in Feds
              /\ fed'[Len(fed)] = More(fed[Len(fed)], record)
<1> DEFINE n == Len(fed)
<1>1. fed' = [fed EXCEPT ![n] = Append(@, record)]
  BY DEF Feed
<1>2. /\ n \in Nat /\ DOMAIN fed = 1..n /\ fed \in [1..n -> Feds]
  OBVIOUS
<1>3. CASE n = 0
  <2>1. fed' = fed
    BY <1>1, <1>2, <1>3
  <2> QED BY <1>2, <1>3, <2>1
<1>4. CASE n # 0
  <2>1. n \in 1..n /\ fed[n] \in Feds
    BY <1>2, <1>4
  <2>2. Append(fed[n], record) \in Feds
    BY <2>1 DEF Feds
  <2> HIDE DEF n
  <2>3. fed' \in [1..n -> Feds] /\ DOMAIN fed' = 1..n
    BY <1>1, <1>2, <2>2
  <2>4. fed' \in Seq(Feds) /\ Len(fed') = n
    BY <1>2, <2>3
  <2>5. fed'[n] = More(fed[n], record)
    BY <1>1, <1>2, <2>1 DEF More
  <2>6. \A k \in 1..n : k # n => fed'[k] = fed[k]
    BY <1>1, <1>2
  <2> QED BY <1>2, <2>1, <2>3, <2>4, <2>5, <2>6 DEF n
<1> QED BY <1>3, <1>4

\* A part of a text is one.
LEMMA PartType ==
  ASSUME NEW s, s \in Bytes, NEW i \in Nat, i >= 1, NEW j \in Int, j <= Len(s)
  PROVE  SubSeq(s, i, j) \in Bytes
<1>1. \A k \in i..j : s[k] \in Byte
  BY DEF Bytes
<1> QED BY <1>1, SubSeqProperties DEF Bytes

\* The first separator in buf, if there is one.
LEMMA FindSubIs ==
  ASSUME Places(buf) # {}, buf \in Bytes, options.separator \in Bytes
  PROVE  FindSub(buf) \in Places(buf) /\ \A j \in Places(buf) : FindSub(buf) <= j
<1>0. Len(buf) \in Nat /\ Len(options.separator) \in Nat
  BY DEF Bytes
<1>1. Places(buf) \subseteq Nat
  <2> SUFFICES ASSUME NEW i \in Places(buf) PROVE i \in Nat
    OBVIOUS
  <2>1. i \in 1..(Len(buf) - Len(options.separator) + 1)
    BY DEF Places
  <2> QED BY <1>0, <2>1
<1>2. \E i \in Places(buf) : \A j \in Places(buf) : i <= j
  BY <1>1, LeastNumber
<1> QED BY <1>2 DEF FindSub

\* What is read of a source is a text.
LEMMA ContentsType ==
  ASSUME NEW source, source \in Bytes
  PROVE  LineEnds(source) \in Bytes /\ Contents(source) \in Bytes
<1> DEFINE piece(i) == IF source[i] = Return /\ i < Len(source) /\ source[i + 1] = Newline
                       THEN <<>> ELSE <<source[i]>>
           pieces == [i \in 1..Len(source) |-> piece(i)]
<1>1. source \in Seq(Byte) /\ Len(source) \in Nat /\ \A i \in 1..Len(source) : source[i] \in Byte
  BY DEF Bytes
<1>2. ASSUME NEW i \in 1..Len(source) PROVE piece(i) \in Seq(Byte)
  <2>1. <<>> \in Seq(Byte) /\ <<source[i]>> \in Seq(Byte)
    BY <1>1
  <2> QED BY <2>1
<1> HIDE DEF piece
<1> DEFINE T == Seq(Byte)
<1>3. pieces \in Seq(T)
  <2>1. \A i \in 1..Len(source) : piece(i) \in T
    BY <1>2
  <2> HIDE DEF T
  <2> QED BY <1>1, <2>1
<1>4. FlattenSeq(pieces) \in Seq(Byte)
  <2>1. pieces \in Seq(Seq(Byte))
    BY <1>3
  <2> HIDE DEF pieces
  <2> QED BY <2>1, FlattenType
<1>5. LineEnds(source) = FlattenSeq(pieces)
  BY DEF LineEnds, pieces, piece
<1>6. LineEnds(source) \in Bytes
  BY <1>4, <1>5 DEF Bytes
<1> QED BY <1>6 DEF Contents

\* RunInv holds at first.
LEMMA RunInit == Init => RunInv
<1> SUFFICES ASSUME Init PROVE RunInv
  OBVIOUS
<1>1. PICK case \in Cases : args = case.args /\ sources = case.sources
  BY DEF Init
<1>2. sources \in Seq(Bytes) /\ args.recordSeparator \in Bytes \cup {None}
  BY <1>1, CliAssumption DEF Bytes
<1>3. /\ unread = <<>> /\ buf = <<>> /\ cutting = FALSE /\ fed = <<>>
      /\ outcome = "start" /\ options.mode = "lines"
  BY DEF Init, Idle
<1>4. unread \in Bytes /\ buf \in Bytes
  BY <1>3 DEF Bytes
<1>5. fed \in Seq(Feds) /\ Len(fed) <= Len(sources)
  BY <1>2, <1>3
<1> QED BY <1>2, <1>3, <1>4, <1>5 DEF RunInv

\* Every step keeps RunInv.
LEMMA RunStep == RunInv /\ [Next]_vars => RunInv'
<1> SUFFICES ASSUME RunInv, [Next]_vars PROVE RunInv'
  OBVIOUS
<1> USE DEF RunInv
<1>0. <<>> \in Bytes /\ Len(fed) \in Nat /\ Len(sources) \in Nat
      /\ (fed = <<>> <=> Len(fed) = 0)
  BY DEF Bytes
<1>1. CASE UNCHANGED vars
  BY <1>1 DEF vars, ingestion
<1>2. CASE Refuse
  BY <1>2 DEF Refuse
<1>3. CASE Configure
  <2>1. options'.mode = "separated" =>
          /\ options'.separator = Unescape(args.recordSeparator)
          /\ args.recordSeparator # None
    BY <1>3 DEF Configure
  <2>2. args.recordSeparator # None =>
          /\ Unescape(args.recordSeparator) \in Bytes
          /\ Unescape(args.recordSeparator) # <<>>
    BY <1>3, UnescapeType DEF Configure, Refused, Bytes
  <2>3. /\ outcome' = "running" /\ UNCHANGED <<args, sources, unread, buf, cutting, fed>>
        /\ ~cutting
    BY <1>3 DEF Configure, Start
  <2> QED BY <2>1, <2>2, <2>3
<1>4. CASE Finish
  BY <1>4 DEF Finish, Drained, Running
<1>5. CASE Ingest /\ UNCHANGED <<args, built, found, output>>
  <2>0. Running /\ UNCHANGED <<options, sources, args>>
    BY <1>5 DEF Ingest, ReadLine, GroupLine, ReadChunk, Cut, EndSource, NextSource, Fail
  <2>1. CASE ReadLine
    <3>1. unread' \in Bytes /\ Line \in Bytes
      BY <2>1, LineTypes DEF ReadLine, TakeLine
    <3>2. Feed(Line) /\ UNCHANGED <<buf, cutting, outcome>> /\ unread # <<>>
      BY <2>1 DEF ReadLine
    <3>3. fed' \in Seq(Feds) /\ Len(fed') = Len(fed)
      BY <3>1, <3>2, FeedStep
    <3>4. fed' # <<>>
      BY <1>0, <3>2, <3>3
    <3> QED BY <2>0, <3>1, <3>2, <3>3, <3>4 DEF Running
  <2>2. CASE GroupLine
    <3>1. unread' \in Bytes /\ Line \in Bytes /\ Joined(Line) \in Bytes
      BY <2>2, LineTypes, JoinedType DEF GroupLine, TakeLine
    <3>2. UNCHANGED <<cutting, outcome>> /\ unread # <<>>
      BY <2>2 DEF GroupLine
    <3>3. fed' \in Seq(Feds) /\ Len(fed') = Len(fed)
      BY <2>2, FeedStep DEF GroupLine, NoFeed
    <3>4. fed' # <<>>
      BY <1>0, <3>2, <3>3
    <3>5. buf' \in Bytes
      BY <2>2, <3>1 DEF GroupLine
    <3> QED BY <2>0, <3>1, <3>2, <3>3, <3>4, <3>5 DEF Running
  <2>3. CASE ReadChunk
    <3>1. PICK n \in 1..SepChunk :
            /\ n <= Len(unread)
            /\ buf' = Extended(SubSeq(unread, 1, n))
            /\ unread' = SubSeq(unread, n + 1, Len(unread))
      BY <2>3 DEF ReadChunk
    <3>2. UNCHANGED <<fed, outcome>> /\ cutting' = TRUE /\ options.mode = "separated"
      BY <2>3 DEF ReadChunk, NoFeed
    <3>3. n \in Nat /\ n >= 1 /\ Len(unread) \in Nat
      BY RecordsAssumption DEF Bytes
    <3>4. SubSeq(unread, 1, n) \in Bytes /\ unread' \in Bytes
      BY <3>1, <3>3, PartType
    <3>5. buf' \in Bytes
      BY <3>1, <3>4 DEF Extended, Bytes
    <3>6. fed # <<>>
      BY <3>1, <3>3
    <3> QED BY <2>0, <3>2, <3>4, <3>5, <3>6 DEF Running
  <2>4. CASE Cut
    <3>2. fed # <<>> /\ UNCHANGED <<unread, outcome>> /\ options.mode = "separated"
      BY <2>4 DEF Cut
    <3>3. CASE Places(buf) = {}
      <4>1. cutting' = FALSE /\ UNCHANGED <<fed, buf>>
        BY <2>4, <3>3 DEF Cut, NoFeed
      <4> QED BY <2>0, <3>2, <4>1 DEF Running
    <3>4. CASE Places(buf) # {}
      <4> DEFINE pos == FindSub(buf)
      <4>1. /\ Feed(SubSeq(buf, 1, pos - 1)) /\ UNCHANGED cutting
            /\ buf' = SubSeq(buf, pos + Len(options.separator), Len(buf))
        BY <2>4, <3>4 DEF Cut
      <4>2. pos \in 1..(Len(buf) - Len(options.separator) + 1)
        BY <3>2, <3>4, FindSubIs DEF Places
      <4>3. /\ Len(options.separator) \in Nat /\ Len(buf) \in Nat
            /\ Len(options.separator) # 0
        BY <3>2 DEF Bytes
      <4> HIDE DEF pos
      <4>4. SubSeq(buf, 1, pos - 1) \in Bytes /\ buf' \in Bytes
        <5>1. /\ 1 \in Nat /\ pos - 1 \in Int /\ pos - 1 <= Len(buf)
              /\ pos + Len(options.separator) \in Nat /\ pos + Len(options.separator) >= 1
          BY <4>2, <4>3
        <5>2. SubSeq(buf, 1, pos - 1) \in Bytes
          BY <5>1, PartType
        <5>3. SubSeq(buf, pos + Len(options.separator), Len(buf)) \in Bytes
          <6>1. Len(buf) \in Int /\ Len(buf) <= Len(buf)
            BY <4>3
          <6> QED BY <5>1, <6>1, PartType
        <5> QED BY <4>1, <5>2, <5>3
      <4>5. fed' \in Seq(Feds) /\ Len(fed') = Len(fed)
        BY <4>1, <4>4, FeedStep
      <4>6. fed' # <<>>
        BY <1>0, <3>2, <4>5
      <4> QED BY <2>0, <3>2, <4>1, <4>4, <4>5, <4>6 DEF Running
    <3> QED BY <3>3, <3>4
  <2>5. CASE EndSource
    <3>1. /\ Feed(buf) /\ buf' = <<>> /\ UNCHANGED <<unread, cutting, outcome>>
          /\ unread = <<>> /\ ~cutting
      BY <2>5 DEF EndSource
    <3>2. fed' \in Seq(Feds) /\ Len(fed') = Len(fed)
      BY <3>1, FeedStep
    <3> QED BY <1>0, <2>0, <3>1, <3>2 DEF Running
  <2>6. CASE NextSource
    <3>1. /\ fed' = Append(fed, <<>>) /\ unread' = Contents(sources[Len(fed) + 1])
          /\ Len(fed) < Len(sources) /\ UNCHANGED <<buf, cutting, outcome>>
      BY <2>6 DEF NextSource
    <3>2. <<>> \in Feds /\ Len(fed) + 1 \in 1..Len(sources)
      BY <1>0, <3>1 DEF Feds
    <3>3. fed' \in Seq(Feds) /\ Len(fed') = Len(fed) + 1
      BY <3>1, <3>2
    <3>5. unread' \in Bytes
      <4>1. sources[Len(fed) + 1] \in Bytes
        BY <3>2
      <4> QED BY <3>1, <4>1, ContentsType
    <3>4. fed' # <<>> /\ Len(fed') <= Len(sources)
      BY <1>0, <3>1, <3>3
    <3> QED BY <2>0, <3>1, <3>3, <3>4, <3>5 DEF Running
  <2>7. CASE Fail
    BY <2>0, <2>7 DEF Fail
  <2> QED BY <1>5, <2>1, <2>2, <2>3, <2>4, <2>5, <2>6, <2>7 DEF Ingest
<1> QED BY <1>1, <1>2, <1>3, <1>4, <1>5 DEF Next

\* RunInv holds of every run.
LEMMA RunAlways == Spec => []RunInv
BY RunInit, RunStep, PTL DEF Spec

-----------------------------------------------------------------------------
(* The chunks of a read do not show.                                       *)

\* Inductive: what was read of each source.
ApartInv ==
  options.mode = "separated" =>
    \A k \in DOMAIN fed :
      /\ k # Len(fed) => Whole(options.separator, sources[k], fed[k])
      /\ k = Len(fed) =>
           \/ Going(options.separator, sources[k], fed[k], buf, unread, cutting)
           \/ /\ buf = <<>> /\ unread = <<>> /\ ~cutting
              /\ Whole(options.separator, sources[k], fed[k])

\* Places are where the separator is found.
LEMMA PlacesFound == \A bytes : Places(bytes) = Found(options.separator, bytes)
BY DEF Places, Found

\* Every step keeps ApartInv.
LEMMA ApartStep == RunInv /\ ApartInv /\ [Next]_vars => ApartInv'
<1> SUFFICES ASSUME RunInv, ApartInv, [Next]_vars, options'.mode = "separated"
             PROVE  ApartInv'
  BY DEF ApartInv
<1> DEFINE sep == options.separator
           last == Len(fed)
<1>0. /\ last \in Nat /\ DOMAIN fed = 1..last /\ sources \in Seq(Bytes)
      /\ fed \in Seq(Feds) /\ buf \in Bytes /\ unread \in Bytes
      /\ \A k \in DOMAIN fed : fed[k] \in Feds /\ sources[k] \in Bytes
  BY DEF RunInv
<1>1. CASE UNCHANGED <<options, sources, unread, buf, cutting, fed>>
  BY <1>1 DEF ApartInv
<1>2. CASE UNCHANGED vars \/ Refuse \/ Finish
  BY <1>1, <1>2 DEF vars, ingestion, Refuse, Finish
<1>3. CASE Configure
  <2>1. fed = <<>> /\ UNCHANGED fed
    BY <1>3 DEF Configure, Start, RunInv
  <2> QED BY <2>1 DEF ApartInv
<1>4. CASE Ingest /\ UNCHANGED <<args, built, found, output>>
  <2>0. Running /\ UNCHANGED <<options, sources, args>>
    BY <1>4 DEF Ingest, ReadLine, GroupLine, ReadChunk, Cut, EndSource, NextSource, Fail
  <2>1. /\ options.mode = "separated" /\ sep \in Bytes /\ sep # <<>>
        /\ options' = options /\ sources' = sources
    BY <2>0 DEF RunInv
  <2>2. \A k \in DOMAIN fed : k # last => Whole(sep, sources[k], fed[k])
    BY <2>1 DEF ApartInv
  <2>3. last \in DOMAIN fed =>
          \/ Going(sep, sources[last], fed[last], buf, unread, cutting)
          \/ /\ buf = <<>> /\ unread = <<>> /\ ~cutting
             /\ Whole(sep, sources[last], fed[last])
    BY <2>1 DEF ApartInv
  <2>4. last # 0 => last \in DOMAIN fed
    BY <1>0
  <2>5. fed = <<>> => unread = <<>> /\ buf = <<>> /\ ~cutting
    BY DEF RunInv
  <2>6. fed = <<>> <=> last = 0
    BY <1>0
  <2> HIDE DEF sep, last
  <2>7. CASE ReadLine \/ GroupLine
    BY <2>1, <2>7 DEF ReadLine, GroupLine
  <2>8. CASE ReadChunk
    <3>1. PICK n \in 1..SepChunk :
            /\ n <= Len(unread)
            /\ buf' = Extended(SubSeq(unread, 1, n))
            /\ unread' = SubSeq(unread, n + 1, Len(unread))
      BY <2>8 DEF ReadChunk
    <3>2. cutting' = TRUE /\ fed' = fed
      BY <2>8 DEF ReadChunk, NoFeed
    <3>3. n \in 1..Len(unread) /\ unread # <<>>
      BY <1>0, <3>1, RecordsAssumption DEF Bytes
    <3>4. last \in DOMAIN fed
      BY <2>4, <2>5, <2>6, <3>3
    <3>5. Going(sep, sources[last], fed[last], buf, unread, cutting)
      BY <2>3, <3>3, <3>4
    <3>6. Going(sep, sources[last], fed[last], Cat(buf, SubSeq(unread, 1, n)),
                SubSeq(unread, n + 1, Len(unread)), TRUE)
      BY <1>0, <2>1, <3>3, <3>4, <3>5, ReadMore DEF Bytes, Feds
    <3>7. Going(sep, sources[last], fed[last], buf', unread', cutting')
      BY <3>1, <3>2, <3>6 DEF Cat, Extended
    <3> QED BY <2>1, <2>2, <3>2, <3>7 DEF ApartInv, sep, last
  <2>9. CASE Cut
    <3>1. cutting /\ unread' = unread
      BY <2>9 DEF Cut
    <3>2. last \in DOMAIN fed
      BY <2>4, <2>5, <2>6, <3>1
    <3>3. Going(sep, sources[last], fed[last], buf, unread, cutting)
      BY <2>3, <3>1, <3>2
    <3>4. CASE Places(buf) = {}
      <4>1. cutting' = FALSE /\ UNCHANGED <<fed, buf>>
        BY <2>9, <3>4 DEF Cut, NoFeed
      <4>2. Found(sep, buf) = {}
        BY <3>4, PlacesFound DEF sep
      <4>3. Going(sep, sources[last], fed[last], buf, unread, FALSE)
        BY <3>3, <4>2 DEF Going
      <4> QED BY <2>1, <2>2, <3>1, <4>1, <4>3 DEF ApartInv, sep, last
    <3>5. CASE Places(buf) # {}
      <4> DEFINE pos == FindSub(buf)
                 record == SubSeq(buf, 1, pos - 1)
      <4>1. /\ Feed(record) /\ cutting' = cutting
            /\ buf' = SubSeq(buf, pos + Len(sep), Len(buf))
        BY <2>9, <3>5 DEF Cut, sep
      <4>2. pos \in Found(sep, buf) /\ \A j \in Found(sep, buf) : pos <= j
        BY <1>0, <2>1, <3>5, PlacesFound, FindSubIs DEF sep
      <4> HIDE DEF pos
      <4>3. Going(sep, sources[last], More(fed[last], record), buf', unread, TRUE)
        BY <1>0, <2>1, <3>2, <3>3, <4>1, <4>2, CutMore DEF Bytes, Feds
      <4>4. record \in Bytes
        <5>1. pos \in 1..(Len(buf) - Len(sep) + 1) /\ Len(sep) \in Nat \ {0}
              /\ Len(buf) \in Nat
          BY <1>0, <2>1, <4>2 DEF Found, Bytes
        <5>2. 1 \in Nat /\ pos - 1 \in Int /\ pos - 1 <= Len(buf)
          BY <5>1
        <5> QED BY <1>0, <5>2, PartType
      <4> HIDE DEF record
      <4>5. /\ Len(fed') = last /\ DOMAIN fed' = DOMAIN fed
            /\ \A k \in DOMAIN fed : k # last => fed'[k] = fed[k]
            /\ fed'[last] = More(fed[last], record)
        BY <1>0, <3>2, <4>1, <4>4, FeedStep DEF last
      <4> QED BY <2>1, <2>2, <3>1, <4>1, <4>3, <4>5 DEF ApartInv, sep
    <3> QED BY <3>4, <3>5
  <2>10. CASE EndSource
    <3>1. /\ Feed(buf) /\ buf' = <<>> /\ unread = <<>> /\ ~cutting /\ buf # <<>>
          /\ UNCHANGED <<unread, cutting>>
      BY <2>10 DEF EndSource
    <3>2. last \in DOMAIN fed
      BY <2>4, <2>5, <2>6, <3>1
    <3>3. Going(sep, sources[last], fed[last], buf, <<>>, FALSE)
      BY <2>3, <3>1, <3>2 DEF Going
    <3>4. Whole(sep, sources[last], More(fed[last], buf))
      BY <1>0, <2>1, <3>2, <3>3, EndMore DEF Bytes, Feds
    <3>5. /\ Len(fed') = last /\ DOMAIN fed' = DOMAIN fed
          /\ \A k \in DOMAIN fed : k # last => fed'[k] = fed[k]
          /\ fed'[last] = More(fed[last], buf)
      BY <1>0, <3>1, <3>2, FeedStep DEF last
    <3> QED BY <2>1, <2>2, <3>1, <3>4, <3>5 DEF ApartInv, sep
  <2>11. CASE NextSource
    <3>1. /\ fed' = Append(fed, <<>>) /\ unread' = sources[last + 1]
          /\ last < Len(sources) /\ UNCHANGED <<buf, cutting>>
          /\ unread = <<>> /\ ~cutting /\ buf = <<>>
      BY <2>1, <2>11 DEF NextSource, Contents, last
    <3>2. /\ last + 1 \in 1..Len(sources) /\ sources[last + 1] \in Bytes /\ last \in Nat
      BY <1>0, <3>1 DEF last
    <3>3. Going(sep, sources[last + 1], <<>>, <<>>, sources[last + 1], FALSE)
      BY <2>1, <3>2, StartSource DEF Bytes
    <3>4. last \in DOMAIN fed => Whole(sep, sources[last], fed[last])
      <4> SUFFICES ASSUME last \in DOMAIN fed,
                          Going(sep, sources[last], fed[last], <<>>, <<>>, cutting)
                   PROVE  Whole(sep, sources[last], fed[last])
        BY <2>3, <3>1
      <4> QED BY <1>0, <2>1, EndNone DEF Bytes, Feds
    <3>5. /\ Len(fed') = last + 1 /\ DOMAIN fed' = 1..(last + 1) /\ fed'[last + 1] = <<>>
          /\ \A k \in 1..last : fed'[k] = fed[k]
      BY <1>0, <3>1 DEF last
    <3>6. cutting = FALSE /\ cutting' = FALSE
      BY <3>1 DEF RunInv
    <3>7. ASSUME NEW k \in 1..last PROVE k # last + 1 /\ Whole(sep, sources[k], fed'[k])
      <4>1. k \in DOMAIN fed /\ fed'[k] = fed[k] /\ k # last + 1
        BY <1>0, <3>2, <3>5
      <4> QED BY <2>2, <3>4, <4>1
    <3>8. \A k \in 1..(last + 1) : k # last + 1 => k \in 1..last
      BY <3>2
    <3>9. Going(sep, sources[last + 1], fed'[last + 1], buf', unread', cutting')
      BY <3>1, <3>3, <3>5, <3>6
    <3> QED BY <2>1, <3>5, <3>7, <3>8, <3>9 DEF ApartInv, sep
  <2>12. CASE Fail
    BY <1>1, <2>12 DEF Fail
  <2> QED BY <1>4, <2>7, <2>8, <2>9, <2>10, <2>11, <2>12 DEF Ingest
<1> QED BY <1>2, <1>3, <1>4 DEF Next

\* ingest_separated (main.rs): however the reads cut a source, the records and
\* the separators are the source again, and each record ends at the first
\* separator after its start.  For every source, separator and size of a chunk.
THEOREM ChunksNeverShow == Spec => []ChunksDoNotShow
<1>1. Init => ApartInv
  BY DEF Init, Idle, ApartInv
<1>2. RunInv /\ ApartInv => ChunksDoNotShow
  <2> SUFFICES ASSUME RunInv, ApartInv, options.mode = "separated",
                      NEW k \in DOMAIN fed, Read(k)
               PROVE  Whole(options.separator, sources[k], fed[k])
    BY PlacesFound DEF ChunksDoNotShow, Whole, Cat
  <2>1. CASE k # Len(fed)
    BY <2>1 DEF ApartInv
  <2>2. CASE k = Len(fed)
    <3>1. unread = <<>> /\ buf = <<>>
      BY <2>2 DEF Read, RunInv
    <3>2. /\ options.separator \in Seq(Byte) /\ options.separator # <<>>
          /\ fed[k] \in Seq(Seq(Byte))
      BY DEF RunInv, Bytes, Feds
    <3>3. CASE Going(options.separator, sources[k], fed[k], <<>>, <<>>, cutting)
      BY <3>2, <3>3, EndNone
    <3> QED BY <2>2, <3>1, <3>3 DEF ApartInv
  <2> QED BY <2>1, <2>2
<1> QED BY <1>1, <1>2, RunAlways, ApartStep, PTL DEF Spec

-----------------------------------------------------------------------------
(* Lines that are grouped.                                                 *)

nl == <<Newline>>

\* A line is taken from u, and rest is left.
LineOf(u, line, rest) ==
  \/ u = Cat(Cat(line, nl), rest)
  \/ u = line /\ line # <<>> /\ rest = <<>>

\* A record that is fed and the empty lines that were dropped before it, at most
\* m: none, unless it is the first or empty lines start records.
Pads(m, r, p, free) == \E n \in 0..m : p = Cat(Newlines(n), r) /\ (free \/ n = 0)

\* Records with the empty lines before each, where e says that these start records.
Padded(e, m, rs, ps) ==
  /\ ps \in Seq(Seq(Byte)) /\ Len(ps) = Len(rs)
  /\ \A i \in 1..Len(rs) : Pads(m, rs[i], ps[i], e \/ i = 1)

\* A source s of which u is still to be read.
Grouping(e, s, rs, b, u) ==
  \E ps :
    /\ Padded(e, Len(s), rs, ps)
    /\ \/ /\ b = <<>> /\ (e \/ rs = <<>>)
          /\ \E n \in Nat : s = Cat(Cat(Behind(nl, ps), Newlines(n)), u)
       \/ /\ b # <<>>
          /\ \E q : /\ Pads(Len(s), b, q, e \/ rs = <<>>)
                    /\ \/ s = Cat(Cat(Cat(Behind(nl, ps), q), nl), u)
                       \/ u = <<>> /\ s = Cat(Behind(nl, ps), q)

\* A source that was read.
Grouped(e, s, rs) ==
  \E ps, n : /\ Padded(e, Len(s), rs, ps) /\ n \in Nat
             /\ s = Cat(Chain(ps, nl), Newlines(n))
             /\ e \/ rs = <<>> \/ n <= 1

\* Newlines are a text, longer by one with one more.
LEMMA NewlinesType ==
  ASSUME NEW n \in Nat
  PROVE  /\ nl \in Seq(Byte) /\ nl # <<>> /\ Newlines(n) \in Seq(Byte) /\ Newlines(0) = <<>>
         /\ Newlines(n + 1) = Cat(Newlines(n), nl) /\ Newlines(n + 1) = Cat(nl, Newlines(n))
         /\ Len(Newlines(n)) = n
<1>1. Newline \in Byte
  BY RecordsAssumption
<1>2. nl \in Seq(Byte) /\ nl # <<>> /\ Len(nl) = 1 /\ nl[1] = Newline
  BY <1>1 DEF nl
<1>3. \A m \in Nat : Newlines(m) \in Seq(Byte) /\ Len(Newlines(m)) = m
  BY <1>1 DEF Newlines
<1>4. Newlines(0) = <<>>
  BY <1>3
<1>5. Newlines(n + 1) = Newlines(n) \o nl
  <2>1. n + 1 \in Nat
    OBVIOUS
  <2>2. /\ Newlines(n) \o nl \in Seq(Byte) /\ Len(Newlines(n) \o nl) = n + 1
        /\ \A i \in 1..(n + 1) : (Newlines(n) \o nl)[i]
             = IF i <= n THEN Newlines(n)[i] ELSE nl[i - n]
    BY <1>2, <1>3
  <2>3. \A i \in 1..(n + 1) : (Newlines(n) \o nl)[i] = Newline
    <3> SUFFICES ASSUME NEW i \in 1..(n + 1) PROVE (Newlines(n) \o nl)[i] = Newline
      OBVIOUS
    <3>1. i <= n => Newlines(n)[i] = Newline
      BY DEF Newlines
    <3>2. ~(i <= n) => i - n = 1
      OBVIOUS
    <3> QED BY <1>2, <2>2, <3>1, <3>2
  <2>4. \A i \in 1..(n + 1) : Newlines(n + 1)[i] = Newline
    BY DEF Newlines
  <2> QED BY <1>3, <2>1, <2>2, <2>3, <2>4, SeqEqual
<1>6. Newlines(n + 1) = nl \o Newlines(n)
  <2>1. n + 1 \in Nat
    OBVIOUS
  <2>2. /\ nl \o Newlines(n) \in Seq(Byte) /\ Len(nl \o Newlines(n)) = n + 1
        /\ \A i \in 1..(n + 1) : (nl \o Newlines(n))[i]
             = IF i <= 1 THEN nl[i] ELSE Newlines(n)[i - 1]
    BY <1>2, <1>3
  <2>3. \A i \in 1..(n + 1) : (nl \o Newlines(n))[i] = Newline
    <3> SUFFICES ASSUME NEW i \in 1..(n + 1) PROVE (nl \o Newlines(n))[i] = Newline
      OBVIOUS
    <3>1. ~(i <= 1) => i - 1 \in 1..n /\ Newlines(n)[i - 1] = Newline
      BY DEF Newlines
    <3>2. i <= 1 => i = 1
      OBVIOUS
    <3> QED BY <1>2, <2>2, <3>1, <3>2
  <2>4. \A i \in 1..(n + 1) : Newlines(n + 1)[i] = Newline
    BY DEF Newlines
  <2> QED BY <1>3, <2>1, <2>2, <2>3, <2>4, SeqEqual
<1> QED BY <1>2, <1>3, <1>4, <1>5, <1>6 DEF Cat

\* A line is taken from what is left of a source.
LEMMA LineTaken ==
  ASSUME unread \in Bytes, unread # <<>>
  PROVE  LineOf(unread, Line, SubSeq(unread, LineEnd + 1, Len(unread)))
<1> DEFINE rest == SubSeq(unread, LineEnd + 1, Len(unread))
           e == LineEnd
           L == Len(unread)
<1>1. unread \in Seq(Byte) /\ L \in Nat /\ L # 0 /\ \A i \in 1..L : unread[i] \in Byte
  BY DEF Bytes
<1>2. e \in 1..(L + 1) /\ (e \in 1..L => unread[e] = Newline)
  BY <1>1, LineEndIs
<1> HIDE DEF e, L
<1>3. CASE e = L + 1
  <2>1. e - 1 = L /\ L < e + 1 /\ e + 1 \in Int /\ L \in Int
    BY <1>1, <1>3
  <2>2. SubSeq(unread, 1, e - 1) = unread
    BY <1>1, <2>1, SubSeqFull DEF L
  <2>3. SubSeq(unread, e + 1, L) = <<>>
    BY <2>1, SubSeqEmpty
  <2>4. unread # <<>>
    OBVIOUS
  <2> QED BY <2>2, <2>3, <2>4 DEF LineOf, Line, e, L
<1>4. CASE e # L + 1
  <2>1. e \in 1..L /\ e \in 0..L
    BY <1>1, <1>2, <1>4
  <2>2. /\ SubSeq(unread, 1, e) \in Seq(Byte)
        /\ SubSeq(unread, e + 1, L) \in Seq(Byte)
        /\ unread = SubSeq(unread, 1, e) \o SubSeq(unread, e + 1, L)
    BY <1>1, <2>1, Halves DEF L
  <2>3. SubSeq(unread, 1, e) = SubSeq(unread, 1, e - 1) \o <<unread[e]>>
    <3>1. 1 \in 1..Len(unread) /\ e \in 1..Len(unread)
      BY <1>1, <2>1 DEF L
    <3> QED BY <1>1, <3>1, SubSeqRecursiveSecond
  <2>4. unread[e] = Newline
    BY <1>2, <2>1
  <2>5. unread = Cat(Cat(Line, nl), rest)
    BY <2>2, <2>3, <2>4 DEF Cat, nl, Line, e, L
  <2> QED BY <2>5 DEF LineOf
<1> QED BY <1>3, <1>4

\* A line and its newline follow what was read.
LEMMA LineFollows ==
  ASSUME NEW x, NEW line, NEW rest, x \in Seq(Byte), line \in Seq(Byte), rest \in Seq(Byte)
  PROVE  Cat(x, Cat(Cat(line, nl), rest)) = Cat(Cat(Cat(x, line), nl), rest)
<1>1. nl \in Seq(Byte)
  BY NewlinesType
<1>2. Cat(line, nl) \in Seq(Byte)
  BY <1>1, CatType
<1>3. Cat(x, Cat(Cat(line, nl), rest)) = Cat(Cat(x, Cat(line, nl)), rest)
  BY <1>2, CatGroup
<1>4. Cat(x, Cat(line, nl)) = Cat(Cat(x, line), nl)
  BY <1>1, CatGroup
<1> QED BY <1>3, <1>4

\* Records are texts, with the empty lines before them, too.
LEMMA PadsType ==
  ASSUME NEW m \in Nat, NEW r, NEW p, NEW free, r \in Seq(Byte), Pads(m, r, p, free)
  PROVE  p \in Seq(Byte)
<1>1. PICK n \in 0..m : p = Cat(Newlines(n), r)
  BY DEF Pads
<1>2. n \in Nat
  OBVIOUS
<1>3. Newlines(n) \in Seq(Byte)
  BY <1>2, NewlinesType
<1> QED BY <1>1, <1>3, CatType

\* What is read after dropped empty lines is a record after more of them.
LEMMA PadsMore ==
  ASSUME NEW m \in Nat, NEW r, NEW p, NEW free, NEW x, r \in Seq(Byte), x \in Seq(Byte),
         Pads(m, r, p, free)
  PROVE  Pads(m, Cat(r, x), Cat(p, x), free)
<1>1. PICK n \in 0..m : p = Cat(Newlines(n), r) /\ (free \/ n = 0)
  BY DEF Pads
<1>2. n \in Nat
  OBVIOUS
<1>3. Newlines(n) \in Seq(Byte)
  BY <1>2, NewlinesType
<1>4. Cat(Newlines(n), Cat(r, x)) = Cat(Cat(Newlines(n), r), x)
  BY <1>3, CatGroup
<1>5. Cat(p, x) = Cat(Newlines(n), Cat(r, x))
  BY <1>1, <1>4
<1> QED BY <1>1, <1>5 DEF Pads

\* One record more.
LEMMA PaddedMore ==
  ASSUME NEW e, NEW m \in Nat, NEW rs, NEW ps, NEW r, NEW p, rs \in Seq(Seq(Byte)),
         r \in Seq(Byte), Padded(e, m, rs, ps), Pads(m, r, p, e \/ rs = <<>>)
  PROVE  Padded(e, m, More(rs, r), More(ps, p))
<1> DEFINE T == Seq(Byte)
<1>1. p \in T /\ r \in T /\ rs \in Seq(T) /\ ps \in Seq(T) /\ Len(ps) = Len(rs)
  BY PadsType DEF Padded
<1>2. \A i \in 1..Len(rs) : Pads(m, rs[i], ps[i], e \/ i = 1)
  BY DEF Padded
<1> HIDE DEF T
<1>3. rs = <<>> <=> Len(rs) = 0
  BY <1>1
<1>4. /\ Len(rs) \in Nat /\ Len(More(rs, r)) = Len(rs) + 1 /\ More(rs, r)[Len(rs) + 1] = r
      /\ \A i \in 1..Len(rs) : More(rs, r)[i] = rs[i]
  BY <1>1, MoreLaws
<1>5. /\ More(ps, p) \in Seq(T) /\ Len(More(ps, p)) = Len(rs) + 1
      /\ More(ps, p)[Len(rs) + 1] = p /\ \A i \in 1..Len(rs) : More(ps, p)[i] = ps[i]
  BY <1>1, MoreLaws
<1>6. ASSUME NEW i \in 1..(Len(rs) + 1)
      PROVE  Pads(m, More(rs, r)[i], More(ps, p)[i], e \/ i = 1)
  <2>1. CASE i \in 1..Len(rs)
    BY <1>2, <1>4, <1>5, <2>1
  <2>2. CASE i = Len(rs) + 1
    <3>1. rs = <<>> => i = 1
      BY <1>3, <2>2
    <3>2. Pads(m, r, p, e \/ i = 1)
      BY <3>1 DEF Pads
    <3> QED BY <1>4, <1>5, <2>2, <3>2
  <2> QED BY <1>4, <2>1, <2>2
<1> QED BY <1>4, <1>5, <1>6 DEF Padded, T

\* No record.
LEMMA PaddedNone ==
  ASSUME NEW e, NEW m PROVE Padded(e, m, <<>>, <<>>)
<1>1. <<>> \in Seq(Seq(Byte)) /\ Len(<<>>) = 0 /\ 1..0 = {}
  OBVIOUS
<1> QED BY <1>1 DEF Padded

\* Nothing of a source was read yet.
LEMMA GroupBegin ==
  ASSUME NEW e, NEW s, s \in Seq(Byte)
  PROVE  Grouping(e, s, <<>>, <<>>, s)
<1>1. Newlines(0) = <<>> /\ Cat(<<>>, <<>>) = <<>> /\ <<>> \in Seq(Byte)
  <2>1. <<>> \in Seq(Byte)
    OBVIOUS
  <2> QED BY <2>1, NewlinesType, CatNone
<1>2. s = Cat(Cat(Behind(nl, <<>>), Newlines(0)), s)
  BY <1>1, CatNone DEF Behind
<1>3. 0 \in Nat
  OBVIOUS
<1>4. Padded(e, Len(s), <<>>, <<>>)
  BY PaddedNone
<1> QED BY <1>2, <1>3, <1>4 DEF Grouping

\* With no record in progress an empty line is dropped, and another begins one.
LEMMA GroupFirst ==
  ASSUME NEW e, NEW s, NEW rs, NEW ps, NEW n \in Nat, NEW u, NEW line, NEW rest,
         s \in Seq(Byte), u \in Seq(Byte), line \in Seq(Byte), rest \in Seq(Byte),
         Padded(e, Len(s), rs, ps), s = Cat(Cat(Behind(nl, ps), Newlines(n)), u),
         LineOf(u, line, rest), e \/ rs = <<>> \/ (n = 0 /\ line # <<>>)
  PROVE  Grouping(e, s, rs, line, rest)
<1> DEFINE h == Behind(nl, ps)
           N == Newlines(n)
           x == Cat(h, N)
<1>1. N \in Seq(Byte) /\ Newlines(n + 1) = Cat(N, nl) /\ nl \in Seq(Byte) /\ Len(N) = n
  BY NewlinesType
<1>2. h \in Seq(Byte)
  BY <1>1, BehindType DEF Padded
<1>3. x \in Seq(Byte) /\ s = Cat(x, u)
  BY <1>1, <1>2, CatType
<1>4. n \in 0..Len(s)
  <2>1. Len(x) = Len(h) + n /\ Len(h) \in Nat
    BY <1>1, <1>2, CatLength
  <2> HIDE DEF x, h
  <2>2. Len(s) = Len(x) + Len(u) /\ Len(u) \in Nat
    BY <1>3, CatLength
  <2> QED BY <2>1, <2>2
<1> HIDE DEF h, N
<1>5. CASE line = <<>>
  <2>1. u = Cat(nl, rest) /\ (e \/ rs = <<>>)
    BY <1>1, <1>5, CatNone DEF LineOf
  <2>2. Cat(x, Cat(nl, rest)) = Cat(Cat(x, nl), rest)
    BY <1>1, <1>3, CatGroup
  <2>3. Cat(x, nl) = Cat(h, Cat(N, nl))
    BY <1>1, <1>2, CatGroup
  <2>4. s = Cat(Cat(h, Newlines(n + 1)), rest)
    BY <1>1, <1>3, <2>1, <2>2, <2>3
  <2>5. n + 1 \in Nat
    OBVIOUS
  <2> QED BY <1>5, <2>1, <2>4, <2>5 DEF Grouping, h
<1>6. CASE line # <<>>
  <2> DEFINE q == Cat(N, line)
  <2>1. Pads(Len(s), line, q, e \/ rs = <<>>)
    BY <1>4, <1>6 DEF Pads, N
  <2>2. Cat(x, line) = Cat(h, q)
    BY <1>1, <1>2, CatGroup
  <2> HIDE DEF q, x
  <2>3. CASE u = Cat(Cat(line, nl), rest)
    <3>1. s = Cat(Cat(Cat(x, line), nl), rest)
      BY <1>3, <2>3, LineFollows
    <3>2. s = Cat(Cat(Cat(h, q), nl), rest)
      BY <2>2, <3>1
    <3> QED BY <1>6, <2>1, <3>2 DEF Grouping, h
  <2>4. CASE u = line /\ rest = <<>>
    <3>1. s = Cat(h, q)
      BY <1>3, <2>2, <2>4
    <3> QED BY <1>6, <2>1, <2>4, <3>1 DEF Grouping, h
  <2> QED BY <2>3, <2>4 DEF LineOf
<1> QED BY <1>5, <1>6

\* A line joins a record.
LEMMA GroupJoin ==
  ASSUME NEW e, NEW s, NEW rs, NEW b, NEW u, NEW line, NEW rest, s \in Seq(Byte),
         b \in Seq(Byte), line \in Seq(Byte), rest \in Seq(Byte), u \in Seq(Byte),
         Grouping(e, s, rs, b, u), b # <<>>, u # <<>>, LineOf(u, line, rest)
  PROVE  Grouping(e, s, rs, Cat(Cat(b, nl), line), rest)
<1>1. PICK ps, q :
        /\ Padded(e, Len(s), rs, ps) /\ Pads(Len(s), b, q, e \/ rs = <<>>)
        /\ s = Cat(Cat(Cat(Behind(nl, ps), q), nl), u)
  BY DEF Grouping
<1> DEFINE h == Behind(nl, ps)
           b2 == Cat(Cat(b, nl), line)
           q2 == Cat(Cat(q, nl), line)
           y == Cat(Cat(h, q), nl)
<1>2. nl \in Seq(Byte) /\ nl # <<>> /\ Len(s) \in Nat
  BY NewlinesType
<1>3. h \in Seq(Byte) /\ q \in Seq(Byte)
  BY <1>1, <1>2, BehindType, PadsType DEF Padded
<1>4. Cat(b, nl) \in Seq(Byte) /\ Cat(q, nl) \in Seq(Byte) /\ Cat(h, q) \in Seq(Byte)
  BY <1>2, <1>3, CatType
<1>5. y \in Seq(Byte)
  BY <1>2, <1>4, CatType
<1>6. b2 # <<>>
  BY <1>2 DEF Cat
<1>7. Pads(Len(s), b2, q2, e \/ rs = <<>>)
  <2>1. Pads(Len(s), Cat(b, nl), Cat(q, nl), e \/ rs = <<>>)
    BY <1>1, <1>2, PadsMore
  <2> QED BY <1>2, <1>4, <2>1, PadsMore
<1> HIDE DEF h, b2
<1>8. Cat(y, line) = Cat(h, q2)
  <2>1. Cat(h, Cat(Cat(q, nl), line)) = Cat(Cat(h, Cat(q, nl)), line)
    BY <1>3, <1>4, CatGroup
  <2>2. Cat(h, Cat(q, nl)) = Cat(Cat(h, q), nl)
    BY <1>2, <1>3, CatGroup
  <2> QED BY <2>1, <2>2
<1>9. s = Cat(y, u)
  BY <1>1 DEF h
<1> HIDE DEF y, q2
<1>10. CASE u = Cat(Cat(line, nl), rest)
  <2>1. s = Cat(Cat(Cat(y, line), nl), rest)
    BY <1>5, <1>9, <1>10, LineFollows
  <2>2. s = Cat(Cat(Cat(h, q2), nl), rest)
    BY <1>8, <2>1
  <2> QED BY <1>1, <1>6, <1>7, <2>2 DEF Grouping, h, b2
<1>11. CASE u = line /\ rest = <<>>
  <2>1. s = Cat(h, q2)
    BY <1>8, <1>9, <1>11
  <2> QED BY <1>1, <1>6, <1>7, <1>11, <2>1 DEF Grouping, h, b2
<1> QED BY <1>10, <1>11 DEF LineOf

\* A line begins the next record, or is empty and lost.
LEMMA GroupCut ==
  ASSUME NEW e, NEW s, NEW rs, NEW b, NEW u, NEW line, NEW rest, s \in Seq(Byte),
         rs \in Seq(Seq(Byte)), b \in Seq(Byte), line \in Seq(Byte), rest \in Seq(Byte),
         u \in Seq(Byte), Grouping(e, s, rs, b, u), b # <<>>, u # <<>>,
         LineOf(u, line, rest), e \/ line # <<>>
  PROVE  Grouping(e, s, More(rs, b), line, rest)
<1>1. PICK ps, q :
        /\ Padded(e, Len(s), rs, ps) /\ Pads(Len(s), b, q, e \/ rs = <<>>)
        /\ s = Cat(Cat(Cat(Behind(nl, ps), q), nl), u)
  BY DEF Grouping
<1>2. nl \in Seq(Byte) /\ Len(s) \in Nat /\ Newlines(0) = <<>> /\ 0 \in Nat
  BY NewlinesType
<1>3. ps \in Seq(Seq(Byte)) /\ q \in Seq(Byte)
  BY <1>1, <1>2, PadsType DEF Padded
<1>4. Padded(e, Len(s), More(rs, b), More(ps, q))
  BY <1>1, <1>2, PaddedMore
<1>5. Behind(nl, More(ps, q)) = Cat(Cat(Behind(nl, ps), q), nl)
  BY <1>2, <1>3, BehindMore
<1>6. Behind(nl, More(ps, q)) \in Seq(Byte)
  <2>1. More(ps, q) \in Seq(Seq(Byte))
    BY <1>4 DEF Padded
  <2> QED BY <1>2, <2>1, BehindType
<1>7. s = Cat(Cat(Behind(nl, More(ps, q)), Newlines(0)), u)
  BY <1>1, <1>2, <1>5, <1>6, CatNone
<1> QED BY <1>2, <1>4, <1>7, GroupFirst

\* What is left at the end of a source is a record.
LEMMA GroupEnd ==
  ASSUME NEW e, NEW s, NEW rs, NEW b, s \in Seq(Byte), rs \in Seq(Seq(Byte)),
         b \in Seq(Byte), b # <<>>, Grouping(e, s, rs, b, <<>>)
  PROVE  Grouped(e, s, More(rs, b))
<1>1. PICK ps, q :
        /\ Padded(e, Len(s), rs, ps) /\ Pads(Len(s), b, q, e \/ rs = <<>>)
        /\ \/ s = Cat(Cat(Cat(Behind(nl, ps), q), nl), <<>>)
           \/ s = Cat(Behind(nl, ps), q)
  BY DEF Grouping
<1> DEFINE C == Chain(More(ps, q), nl)
<1>2. /\ nl \in Seq(Byte) /\ Len(s) \in Nat /\ Newlines(0) = <<>>
      /\ <<>> \in Seq(Byte) /\ 0 \in Nat /\ 0 + 1 = 1 /\ 0 <= 1 /\ 1 <= 1 /\ 1 \in Nat
  BY NewlinesType
<1>3. Newlines(1) = nl
  <2>1. Newlines(0 + 1) = Cat(Newlines(0), nl)
    BY <1>2, NewlinesType
  <2> QED BY <1>2, <2>1, CatNone
<1>4. ps \in Seq(Seq(Byte)) /\ q \in Seq(Byte)
  BY <1>1, <1>2, PadsType DEF Padded
<1>5. Padded(e, Len(s), More(rs, b), More(ps, q))
  BY <1>1, <1>2, PaddedMore
<1>6. C = Cat(Behind(nl, ps), q)
  BY <1>2, <1>4, ChainBehind
<1>7. C \in Seq(Byte) /\ Cat(C, nl) \in Seq(Byte)
  <2>1. Behind(nl, ps) \in Seq(Byte)
    BY <1>2, <1>4, BehindType
  <2>2. C \in Seq(Byte)
    BY <1>4, <1>6, <2>1, CatType
  <2> QED BY <1>2, <2>2, CatType
<1> HIDE DEF C
<1>8. s = Cat(C, Newlines(0)) \/ s = Cat(C, Newlines(1))
  <2>1. Cat(C, <<>>) = C /\ Cat(Cat(C, nl), <<>>) = Cat(C, nl)
    BY <1>7, CatNone
  <2> QED BY <1>1, <1>2, <1>3, <1>6, <2>1
<1> QED BY <1>2, <1>5, <1>8 DEF Grouped, C

\* No record is in progress.
LEMMA GroupNone ==
  ASSUME NEW e, NEW s, NEW rs, s \in Seq(Byte), Grouping(e, s, rs, <<>>, <<>>)
  PROVE  Grouped(e, s, rs)
<1>1. PICK ps, n :
        /\ n \in Nat /\ Padded(e, Len(s), rs, ps) /\ (e \/ rs = <<>>)
        /\ s = Cat(Cat(Behind(nl, ps), Newlines(n)), <<>>)
  BY DEF Grouping
<1> DEFINE N == Newlines(n)
           C == Chain(ps, nl)
<1>2. N \in Seq(Byte) /\ Newlines(n + 1) = Cat(nl, N) /\ nl \in Seq(Byte) /\ n + 1 \in Nat
  BY <1>1, NewlinesType
<1>3. ps \in Seq(Seq(Byte))
  BY <1>1 DEF Padded
<1>4. C \in Seq(Byte) /\ (ps = <<>> => C = <<>>)
  BY <1>2, <1>3, ChainType
<1>5. s = Cat(Behind(nl, ps), N)
  <2>1. Behind(nl, ps) \in Seq(Byte)
    BY <1>2, <1>3, BehindType
  <2>2. Cat(Behind(nl, ps), N) \in Seq(Byte)
    BY <1>2, <2>1, CatType
  <2> HIDE DEF N
  <2> QED BY <1>1, <2>2, CatNone DEF N
<1> HIDE DEF C, N
<1>6. CASE ps = <<>>
  <2>1. s = Cat(C, N)
    BY <1>4, <1>5, <1>6 DEF Behind
  <2> QED BY <1>1, <2>1 DEF Grouped, C, N
<1>7. CASE ps # <<>>
  <2>1. s = Cat(Cat(C, nl), N)
    BY <1>5, <1>7 DEF Behind, C
  <2>2. Cat(Cat(C, nl), N) = Cat(C, Cat(nl, N))
    BY <1>2, <1>4, CatGroup
  <2>3. s = Cat(C, Newlines(n + 1))
    BY <1>2, <2>1, <2>2
  <2> QED BY <1>1, <1>2, <2>3 DEF Grouped, C
<1> QED BY <1>6, <1>7

\* Inductive: what was read of each source.
GroupedInv ==
  options.mode = "multiline" =>
    \A k \in DOMAIN fed :
      /\ k # Len(fed) => Grouped(EmptyStarts, LineEnds(sources[k]), fed[k])
      /\ k = Len(fed) =>
           \/ Grouping(EmptyStarts, LineEnds(sources[k]), fed[k], buf, unread)
           \/ buf = <<>> /\ unread = <<>> /\ Grouped(EmptyStarts, LineEnds(sources[k]), fed[k])

\* Every step keeps GroupedInv.
LEMMA GroupedStep ==
  RunInv /\ GroupedInv /\ [Next]_vars => GroupedInv'
<1> SUFFICES ASSUME RunInv, GroupedInv, [Next]_vars, options'.mode = "multiline"
             PROVE  GroupedInv'
  BY DEF GroupedInv
<1> DEFINE last == Len(fed)
           e == EmptyStarts
           text(k) == LineEnds(sources[k])
<1>0. /\ last \in Nat /\ DOMAIN fed = 1..last /\ sources \in Seq(Bytes)
      /\ fed \in Seq(Feds) /\ buf \in Bytes /\ unread \in Bytes
      /\ Len(sources) \in Nat
      /\ \A k \in DOMAIN fed : fed[k] \in Feds
  BY DEF RunInv
<1>a. \A k \in 1..Len(sources) : text(k) \in Seq(Byte)
  BY <1>0, ContentsType DEF Bytes
<1>b. DOMAIN fed \subseteq 1..Len(sources)
  BY <1>0 DEF RunInv
<1>1. CASE UNCHANGED <<options, sources, unread, buf, fed>>
  BY <1>1 DEF GroupedInv, EmptyStarts
<1>2. CASE UNCHANGED vars \/ Refuse \/ Finish
  BY <1>1, <1>2 DEF vars, ingestion, Refuse, Finish
<1>3. CASE Configure
  <2>1. fed = <<>> /\ UNCHANGED fed
    BY <1>3 DEF Configure, Start, RunInv
  <2> QED BY <2>1 DEF GroupedInv
<1>4. CASE Ingest /\ UNCHANGED <<args, built, found, output>>
  <2>0. Running /\ UNCHANGED <<options, sources, args>>
    BY <1>4 DEF Ingest, ReadLine, GroupLine, ReadChunk, Cut, EndSource, NextSource, Fail
  <2>1. /\ options.mode = "multiline" /\ options' = options /\ sources' = sources
        /\ EmptyStarts' = e /\ \A k : LineEnds(sources'[k]) = text(k)
    BY <2>0 DEF EmptyStarts
  <2>2. \A k \in DOMAIN fed : k # last => Grouped(e, text(k), fed[k])
    BY <2>1 DEF GroupedInv
  <2>3. last \in DOMAIN fed =>
          \/ Grouping(e, text(last), fed[last], buf, unread)
          \/ buf = <<>> /\ unread = <<>> /\ Grouped(e, text(last), fed[last])
    BY <2>1 DEF GroupedInv
  <2>4. last # 0 => last \in DOMAIN fed
    BY <1>0
  <2>5. fed = <<>> => unread = <<>> /\ buf = <<>>
    BY DEF RunInv
  <2>6. fed = <<>> <=> last = 0
    BY <1>0
  <2>12. GroupedInv' <=>
           \A k \in DOMAIN fed' :
             /\ k # Len(fed') => Grouped(e, text(k), fed'[k])
             /\ k = Len(fed') =>
                  \/ Grouping(e, text(k), fed'[k], buf', unread')
                  \/ buf' = <<>> /\ unread' = <<>> /\ Grouped(e, text(k), fed'[k])
    BY <2>1 DEF GroupedInv
  <2> HIDE DEF last, e, text
  <2>7. CASE ReadLine \/ ReadChunk \/ Cut
    BY <2>1, <2>7 DEF ReadLine, ReadChunk, Cut, RunInv
  <2>8. CASE GroupLine
    <3> DEFINE rest == SubSeq(unread, LineEnd + 1, Len(unread))
    <3>1. unread # <<>> /\ unread' = rest
      BY <2>8 DEF GroupLine, TakeLine
    <3>2. Line \in Bytes /\ rest \in Bytes /\ LineOf(unread, Line, rest)
      BY <1>0, <3>1, LineTypes, LineTaken
    <3>3. last \in DOMAIN fed
      BY <2>4, <2>5, <2>6, <3>1
    <3>4. Grouping(e, text(last), fed[last], buf, unread)
      BY <2>3, <3>1, <3>3
    <3>5. fed[last] \in Seq(Seq(Byte)) /\ buf \in Seq(Byte) /\ Line \in Seq(Byte)
          /\ rest \in Seq(Byte) /\ unread \in Seq(Byte) /\ text(last) \in Seq(Byte)
      BY <1>0, <1>a, <1>b, <3>2, <3>3 DEF Bytes, Feds
    <3> HIDE DEF rest
    <3>6. CASE Starts(options.start, Line) /\ buf # <<>>
      <4>1. Feed(buf) /\ buf' = Line /\ (e \/ Line # <<>>)
        BY <2>8, <3>6 DEF GroupLine, EmptyStarts, e
      <4>2. Grouping(e, text(last), More(fed[last], buf), Line, rest)
        BY <3>1, <3>2, <3>4, <3>5, <3>6, <4>1, GroupCut
      <4>3. /\ Len(fed') = last /\ DOMAIN fed' = DOMAIN fed
            /\ \A k \in DOMAIN fed : k # last => fed'[k] = fed[k]
            /\ fed'[last] = More(fed[last], buf)
        BY <1>0, <3>3, <4>1, FeedStep DEF last
      <4> QED BY <2>2, <2>12, <3>1, <4>1, <4>2, <4>3
    <3>7. CASE ~(Starts(options.start, Line) /\ buf # <<>>)
      <4>1. fed' = fed /\ buf' = Joined(Line)
        BY <2>8, <3>7 DEF GroupLine, NoFeed
      <4>2. Grouping(e, text(last), fed[last], Joined(Line), rest)
        <5>1. CASE buf = <<>>
          <6>1. PICK ps, n :
                  /\ n \in Nat /\ Padded(e, Len(text(last)), fed[last], ps) /\ (e \/ fed[last] = <<>>)
                  /\ text(last) = Cat(Cat(Behind(nl, ps), Newlines(n)), unread)
            BY <3>4, <5>1 DEF Grouping
          <6>2. Grouping(e, text(last), fed[last], Line, rest)
            BY <3>2, <3>5, <6>1, GroupFirst
          <6> QED BY <5>1, <6>2 DEF Joined
        <5>2. CASE buf # <<>>
          <6>1. Grouping(e, text(last), fed[last], Cat(Cat(buf, nl), Line), rest)
            BY <3>1, <3>2, <3>4, <3>5, <5>2, GroupJoin
          <6> QED BY <5>2, <6>1 DEF Joined, Cat, nl
        <5> QED BY <5>1, <5>2
      <4> QED BY <2>2, <2>12, <3>1, <4>1, <4>2 DEF last
    <3> QED BY <3>6, <3>7
  <2>9. CASE EndSource
    <3>1. Feed(buf) /\ buf' = <<>> /\ unread = <<>> /\ unread' = <<>> /\ buf # <<>>
      BY <2>9 DEF EndSource
    <3>2. last \in DOMAIN fed
      BY <2>4, <2>5, <2>6, <3>1
    <3>3. Grouping(e, text(last), fed[last], buf, <<>>)
      BY <2>3, <3>1, <3>2
    <3>4. fed[last] \in Seq(Seq(Byte)) /\ buf \in Seq(Byte) /\ text(last) \in Seq(Byte)
      BY <1>0, <1>a, <1>b, <3>2 DEF Bytes, Feds
    <3>5. Grouped(e, text(last), More(fed[last], buf))
      BY <3>1, <3>3, <3>4, GroupEnd
    <3>6. /\ Len(fed') = last /\ DOMAIN fed' = DOMAIN fed
          /\ \A k \in DOMAIN fed : k # last => fed'[k] = fed[k]
          /\ fed'[last] = More(fed[last], buf)
      BY <1>0, <3>1, <3>2, FeedStep DEF last
    <3> QED BY <2>2, <2>12, <3>1, <3>5, <3>6
  <2>10. CASE NextSource
    <3>1. /\ fed' = Append(fed, <<>>) /\ unread' = text(last + 1)
          /\ last < Len(sources) /\ buf' = buf
          /\ unread = <<>> /\ buf = <<>>
      BY <2>1, <2>10 DEF NextSource, Contents, last, text
    <3>2. /\ last + 1 \in 1..Len(sources) /\ text(last + 1) \in Seq(Byte) /\ last \in Nat
      <4>1. last + 1 \in 1..Len(sources) /\ last \in Nat
        BY <1>0, <3>1 DEF last
      <4> QED BY <1>a, <4>1
    <3>3. Grouping(e, text(last + 1), <<>>, <<>>, text(last + 1))
      BY <3>2, GroupBegin
    <3>4. last \in DOMAIN fed => Grouped(e, text(last), fed[last])
      <4>1. last \in DOMAIN fed => text(last) \in Seq(Byte)
        BY <1>a, <1>b
      <4> QED BY <2>3, <3>1, <4>1, GroupNone
    <3>5. /\ Len(fed') = last + 1 /\ DOMAIN fed' = 1..(last + 1) /\ fed'[last + 1] = <<>>
          /\ \A k \in 1..last : fed'[k] = fed[k]
      BY <1>0, <3>1 DEF last
    <3>6. ASSUME NEW k \in 1..last PROVE k # last + 1 /\ Grouped(e, text(k), fed'[k])
      <4>1. k \in DOMAIN fed /\ fed'[k] = fed[k] /\ k # last + 1
        BY <1>0, <3>2, <3>5
      <4> QED BY <2>2, <3>4, <4>1
    <3>7. \A k \in 1..(last + 1) : k # last + 1 => k \in 1..last
      BY <3>2
    <3>8. Grouping(e, text(last + 1), fed'[last + 1], buf', unread')
      BY <3>1, <3>3, <3>5
    <3> QED BY <2>12, <3>5, <3>6, <3>7, <3>8
  <2>11. CASE Fail
    BY <1>1, <2>11 DEF Fail
  <2> QED BY <1>4, <2>7, <2>8, <2>9, <2>10, <2>11 DEF Ingest
<1> QED BY <1>2, <1>3, <1>4 DEF Next

\* GroupedInv holds of every run.
LEMMA GroupedAlways ==
  Spec => []GroupedInv
<1>1. Init => GroupedInv
  BY DEF Init, Idle, GroupedInv
<1>2. RunInv /\ GroupedInv /\ [Next]_vars => GroupedInv'
  BY GroupedStep
<1> QED BY <1>1, <1>2, RunAlways, PTL DEF Spec

\* ingest_multiline_start (main.rs): the records of a source are its lines
\* again, but for empty ones at its start and the newline at its end, and, if the
\* pattern takes empty lines for starts, but for some of these.  For every source
\* and every pattern.
THEOREM LinesAreKept == Spec => []GroupingKeepsLines
<1>1. RunInv /\ GroupedInv => GroupingKeepsLines
  <2> SUFFICES ASSUME RunInv, GroupedInv, options.mode = "multiline",
                      NEW k \in DOMAIN fed, Read(k)
               PROVE  LET text == LineEnds(sources[k])
                      IN  \E before \in [1..Len(fed[k]) -> 0..Len(text)],
                             after \in 0..Len(text) :
                            /\ text = Chain([i \in 1..Len(fed[k]) |->
                                               Newlines(before[i]) \o fed[k][i]], nl)
                                        \o Newlines(after)
                            /\ EmptyStarts \/ fed[k] = <<>> \/ after <= 1
                            /\ EmptyStarts \/ \A i \in 2..Len(fed[k]) : before[i] = 0
    BY DEF GroupingKeepsLines, nl
  <2> DEFINE s == LineEnds(sources[k])
             rs == fed[k]
  <2>0. s \in Seq(Byte) /\ Len(s) \in Nat /\ rs \in Seq(Seq(Byte)) /\ Len(rs) \in Nat
    <3>1. k \in 1..Len(fed) /\ k \in 1..Len(sources) /\ sources[k] \in Bytes
      BY DEF RunInv
    <3>2. s \in Seq(Byte)
      BY <3>1, ContentsType DEF Bytes
    <3>3. rs \in Seq(Seq(Byte))
      BY <3>1 DEF RunInv, Feds, Bytes
    <3> QED BY <3>2, <3>3
  <2>1. Grouped(EmptyStarts, s, rs)
    <3>1. CASE k # Len(fed)
      BY <3>1 DEF GroupedInv
    <3>2. CASE k = Len(fed)
      <4>1. unread = <<>> /\ buf = <<>>
        BY <3>2 DEF Read, RunInv
      <4> QED BY <2>0, <3>2, <4>1, GroupNone DEF GroupedInv
    <3> QED BY <3>1, <3>2
  <2> HIDE DEF s, rs
  <2>2. PICK ps, after :
          /\ Padded(EmptyStarts, Len(s), rs, ps) /\ after \in Nat
          /\ s = Cat(Chain(ps, nl), Newlines(after))
          /\ EmptyStarts \/ rs = <<>> \/ after <= 1
    BY <2>1 DEF Grouped
  <2> DEFINE of(i, n) == ps[i] = Cat(Newlines(n), rs[i]) /\ ((EmptyStarts \/ i = 1) \/ n = 0)
             before == [i \in 1..Len(rs) |-> CHOOSE n \in 0..Len(s) : of(i, n)]
  <2>3. ASSUME NEW i \in 1..Len(rs) PROVE before[i] \in 0..Len(s) /\ of(i, before[i])
    <3>1. \E n \in 0..Len(s) : of(i, n)
      BY <2>2 DEF Padded, Pads
    <3> HIDE DEF of
    <3> QED BY <3>1
  <2>4. before \in [1..Len(rs) -> 0..Len(s)]
    BY <2>3
  <2> HIDE DEF before
  <2>5. ps = [i \in 1..Len(rs) |-> Newlines(before[i]) \o rs[i]]
    <3>1. DOMAIN ps = 1..Len(rs) /\ ps = [i \in DOMAIN ps |-> ps[i]]
      BY <2>2 DEF Padded
    <3>2. \A i \in 1..Len(rs) : ps[i] = Newlines(before[i]) \o rs[i]
      BY <2>3 DEF Cat
    <3> QED BY <3>1, <3>2
  <2>6. after \in 0..Len(s)
    <3>1. nl \in Seq(Byte) /\ Newlines(after) \in Seq(Byte) /\ Len(Newlines(after)) = after
      BY <2>2, NewlinesType
    <3>2. Chain(ps, nl) \in Seq(Byte)
      BY <2>2, <3>1, ChainType DEF Padded
    <3>3. Len(s) = Len(Chain(ps, nl)) + after /\ Len(Chain(ps, nl)) \in Nat
      BY <2>2, <3>1, <3>2, CatLength
    <3> QED BY <2>2, <3>3
  <2>7. s = Chain([i \in 1..Len(rs) |-> Newlines(before[i]) \o rs[i]], nl) \o Newlines(after)
    BY <2>2, <2>5 DEF Cat
  <2>8. EmptyStarts \/ \A i \in 2..Len(rs) : before[i] = 0
    <3>1. \A i \in 2..Len(rs) : i \in 1..Len(rs) /\ i # 1
      BY <2>0
    <3> QED BY <2>3, <3>1
  <2> QED BY <2>2, <2>4, <2>6, <2>7, <2>8 DEF s, rs
<1> QED BY <1>1, GroupedAlways, RunAlways, PTL

-----------------------------------------------------------------------------
(* Lines that begin a record.                                              *)

\* The line of a record that starts at a place.
LineFrom(r, j) ==
  LET e == SelectInSubSeq(r, j, Len(r), LAMBDA b : b = Newline)
  IN  SubSeq(r, j, (IF e = 0 THEN Len(r) + 1 ELSE e) - 1)

\* No line but the first starts a record, for the pattern p.
Follow(p, r) ==
  \A j \in 2..(Len(r) + 1) : r[j - 1] = Newline => ~Starts(p, LineFrom(r, j))

\* A record that begins as one that is not the first should.
Begins(p, r) == Starts(p, LineFrom(r, 1)) \/ Starts(p, <<>>)

\* The records of one source: the property.
Begun(p, rs) == \A i \in DOMAIN rs : (i > 1 => Begins(p, rs[i])) /\ Follow(p, rs[i])

OneLine(line) == \A i \in 1..Len(line) : line[i] # Newline

\* A line ends at e.
EndsAt(r, j, e) ==
  /\ e \in j..(Len(r) + 1)
  /\ \A i \in j..(e - 1) : r[i] # Newline
  /\ e <= Len(r) => r[e] = Newline

\* The line up to its end.
LEMMA LineFromIs ==
  ASSUME NEW r, r \in Seq(Byte), NEW j, j \in 1..(Len(r) + 1), NEW e, EndsAt(r, j, e)
  PROVE  LineFrom(r, j) = SubSeq(r, j, e - 1)
<1> DEFINE I == {i \in j..Len(r) : r[i] = Newline}
<1>0. Len(r) \in Nat /\ j \in Nat /\ j >= 1 /\ e \in Nat /\ j <= e /\ e <= Len(r) + 1
  BY DEF EndsAt
<1>1. SelectInSubSeq(r, j, Len(r), LAMBDA b : b = Newline) = IF I # {} THEN Min(I) ELSE 0
  BY DEF SelectInSubSeq
<1>2. CASE e <= Len(r)
  <2>1. e \in I /\ \A i \in I : e <= i
    <3>1. e \in I
      BY <1>0, <1>2 DEF EndsAt
    <3>2. ASSUME NEW i \in I, i < e PROVE FALSE
      <4>1. i \in j..(e - 1)
        BY <1>0, <3>2
      <4> QED BY <4>1 DEF EndsAt
    <3>3. \A i \in I : i \in Int
      BY <1>0
    <3> QED BY <1>0, <3>1, <3>2, <3>3
  <2>2. \A x \in I : (\A i \in I : x <= i) => x = e
    <3>1. \A x \in I : x \in Int
      BY <1>0
    <3> QED BY <1>0, <2>1, <3>1
  <2> HIDE DEF I
  <2>3. Min(I) = e
    BY <2>1, <2>2 DEF Min
  <2>4. SelectInSubSeq(r, j, Len(r), LAMBDA b : b = Newline) = e
    BY <1>1, <2>1, <2>3
  <2>5. e # 0
    BY <1>0
  <2> QED BY <2>4, <2>5 DEF LineFrom
<1>3. CASE e = Len(r) + 1
  <2>1. I = {}
    BY <1>0, <1>3 DEF EndsAt
  <2> HIDE DEF I
  <2> QED BY <1>1, <1>3, <2>1 DEF LineFrom
<1> QED BY <1>0, <1>2, <1>3

\* A line ends somewhere.
LEMMA EndsSomewhere ==
  ASSUME NEW r, r \in Seq(Byte), NEW j, j \in 1..(Len(r) + 1)
  PROVE  \E e : EndsAt(r, j, e)
<1> DEFINE I == {i \in j..Len(r) : r[i] = Newline}
<1>0. Len(r) \in Nat /\ j \in Nat /\ j >= 1 /\ j <= Len(r) + 1
  OBVIOUS
<1>1. CASE I = {}
  <2>1. EndsAt(r, j, Len(r) + 1)
    BY <1>0, <1>1 DEF EndsAt
  <2> QED BY <2>1
<1>2. CASE I # {}
  <2>1. I \subseteq Nat
    BY <1>0
  <2>2. PICK e \in I : \A i \in I : e <= i
    BY <1>2, <2>1, LeastNumber
  <2>3. e \in j..Len(r) /\ r[e] = Newline /\ e \in j..(Len(r) + 1)
    BY <1>0, <2>2
  <2>4. ASSUME NEW i \in j..(e - 1), r[i] = Newline PROVE FALSE
    <3>1. i \in I /\ i < e
      BY <1>0, <2>3, <2>4
    <3> QED BY <1>0, <2>2, <2>3, <3>1
  <2>5. EndsAt(r, j, e)
    BY <2>3, <2>4 DEF EndsAt
  <2> QED BY <2>5
<1> QED BY <1>1, <1>2

\* A line alone is the line at 1, and none follows it.
LEMMA LineAlone ==
  ASSUME NEW p, NEW line, line \in Seq(Byte), OneLine(line)
  PROVE  LineFrom(line, 1) = line /\ Follow(p, line)
<1>0. Len(line) \in Nat
  OBVIOUS
<1>1. EndsAt(line, 1, Len(line) + 1)
  BY <1>0 DEF EndsAt, OneLine
<1>2. 1 \in 1..(Len(line) + 1) /\ Len(line) + 1 - 1 = Len(line)
  BY <1>0
<1>3. LineFrom(line, 1) = SubSeq(line, 1, Len(line) + 1 - 1)
  <2> DEFINE e == Len(line) + 1
  <2>1. EndsAt(line, 1, e)
    BY <1>1
  <2> HIDE DEF e
  <2>2. LineFrom(line, 1) = SubSeq(line, 1, e - 1)
    BY <1>2, <2>1, LineFromIs
  <2> QED BY <2>2 DEF e
<1>4. SubSeq(line, 1, Len(line)) = line
  BY SubSeqFull
<1>5. \A j \in 2..(Len(line) + 1) : line[j - 1] # Newline
  BY <1>0 DEF OneLine
<1> QED BY <1>2, <1>3, <1>4, <1>5 DEF Follow

\* The lines of a record that another line joins.
LEMMA JoinedAt ==
  ASSUME NEW b, NEW line, b \in Seq(Byte), line \in Seq(Byte)
  PROVE  LET r == Cat(Cat(b, nl), line)
         IN  /\ r \in Seq(Byte) /\ Len(b) \in Nat /\ Len(line) \in Nat
             /\ Len(r) = Len(b) + 1 + Len(line)
             /\ \A i \in 1..Len(b) : r[i] = b[i]
             /\ r[Len(b) + 1] = Newline
             /\ \A i \in 1..Len(line) : r[Len(b) + 1 + i] = line[i]
<1> DEFINE c == b \o nl
<1>1. nl \in Seq(Byte) /\ Len(nl) = 1 /\ nl[1] = Newline
  BY NewlinesType DEF nl
<1>2. c \in Seq(Byte) /\ Len(c) = Len(b) + 1 /\ Len(b) \in Nat /\ Len(line) \in Nat
      /\ \A i \in 1..(Len(b) + 1) : c[i] = IF i <= Len(b) THEN b[i] ELSE nl[i - Len(b)]
  <2>1. c \in Seq(Byte) /\ Len(c) = Len(b) + Len(nl)
        /\ \A i \in 1..(Len(b) + Len(nl)) : c[i] = IF i <= Len(b) THEN b[i] ELSE nl[i - Len(b)]
    BY ONLY b \in Seq(Byte), <1>1, ConcatProperties
  <2> QED BY <1>1, <2>1
<1>3. /\ \A i \in 1..Len(b) : c[i] = b[i]
      /\ c[Len(b) + 1] = Newline
  BY <1>1, <1>2
<1> HIDE DEF c
<1>4. c \o line \in Seq(Byte) /\ Len(c \o line) = Len(c) + Len(line)
      /\ \A i \in 1..(Len(c) + Len(line)) :
           (c \o line)[i] = IF i <= Len(c) THEN c[i] ELSE line[i - Len(c)]
  BY <1>2, ConcatProperties
<1>5. \A i \in 1..(Len(b) + 1) : (c \o line)[i] = c[i]
  BY <1>2, <1>4
<1>6. \A i \in 1..Len(line) : (c \o line)[Len(b) + 1 + i] = line[i]
  <2> SUFFICES ASSUME NEW i \in 1..Len(line)
               PROVE  (c \o line)[Len(b) + 1 + i] = line[i]
    OBVIOUS
  <2>1. /\ Len(b) + 1 + i \in 1..(Len(c) + Len(line)) /\ ~(Len(b) + 1 + i <= Len(c))
        /\ Len(b) + 1 + i - Len(c) = i
    BY <1>2
  <2> QED BY <1>4, <2>1
<1>7. Cat(Cat(b, nl), line) = c \o line
  BY DEF Cat, c
<1>8. \A i \in 1..Len(b) : i \in 1..(Len(b) + 1)
  BY <1>2
<1>9. Len(b) + 1 \in 1..(Len(b) + 1)
  BY <1>2
<1> QED BY <1>2, <1>3, <1>4, <1>5, <1>6, <1>7, <1>8, <1>9

\* A line that joins a record leaves its lines as they are.
LEMMA SameLines ==
  ASSUME NEW b, NEW line, b \in Seq(Byte), line \in Seq(Byte), NEW j, j \in 1..Len(b)
  PROVE  LineFrom(Cat(Cat(b, nl), line), j) = LineFrom(b, j)
<1> DEFINE r == Cat(Cat(b, nl), line)
<1>1. /\ r \in Seq(Byte) /\ Len(b) \in Nat /\ Len(line) \in Nat
      /\ Len(r) = Len(b) + 1 + Len(line)
      /\ \A i \in 1..Len(b) : r[i] = b[i]
      /\ r[Len(b) + 1] = Newline
  BY JoinedAt
<1> HIDE DEF r
<1>2. j \in Nat /\ j >= 1 /\ j \in 1..(Len(b) + 1) /\ j \in 1..(Len(r) + 1)
  BY <1>1
<1>3. PICK e : EndsAt(b, j, e)
  BY <1>2, EndsSomewhere
<1>4. e \in Nat /\ j <= e /\ e <= Len(b) + 1
  BY <1>1, <1>2, <1>3 DEF EndsAt
<1>5. EndsAt(r, j, e)
  <2>1. \A i \in j..(e - 1) : r[i] # Newline
    <3> SUFFICES ASSUME NEW i \in j..(e - 1) PROVE r[i] # Newline
      OBVIOUS
    <3>1. i \in 1..Len(b)
      BY <1>1, <1>2, <1>4
    <3> QED BY <1>1, <1>3, <3>1 DEF EndsAt
  <2>2. r[e] = Newline
    <3>1. CASE e = Len(b) + 1
      BY <1>1, <3>1
    <3>2. CASE e # Len(b) + 1
      <4>0. Len(b) \in Nat
        BY <1>1
      <4>1. e \in 1..Len(b) /\ e <= Len(b)
        BY <1>2, <1>4, <3>2, <4>0
      <4> QED BY <1>1, <1>3, <4>1 DEF EndsAt
    <3> QED BY <3>1, <3>2
  <2>3. e \in j..(Len(r) + 1)
    BY <1>1, <1>2, <1>4
  <2> QED BY <2>1, <2>2, <2>3 DEF EndsAt
<1>6. LineFrom(b, j) = SubSeq(b, j, e - 1) /\ LineFrom(r, j) = SubSeq(r, j, e - 1)
  BY <1>1, <1>2, <1>3, <1>5, LineFromIs
<1>7. SubSeq(r, j, e - 1) = SubSeq(b, j, e - 1)
  <2>1. j \in Int /\ e - 1 \in Int /\ \A i \in j..(e - 1) : i \in 1..Len(b)
    BY <1>1, <1>2, <1>4
  <2>2. \A i \in j..(e - 1) : b[i] \in Byte /\ r[i] \in Byte /\ r[i] = b[i]
    BY <1>1, <2>1
  <2> DEFINE n == e - 1 - j + 1
             x == SubSeq(r, j, e - 1)
             y == SubSeq(b, j, e - 1)
  <2>3. /\ x \in Seq(Byte) /\ Len(x) = IF j <= e - 1 THEN n ELSE 0
        /\ \A i \in 1..n : x[i] = r[j + i - 1]
    BY <2>1, <2>2, SubSeqProperties
  <2>4. /\ y \in Seq(Byte) /\ Len(y) = IF j <= e - 1 THEN n ELSE 0
        /\ \A i \in 1..n : y[i] = b[j + i - 1]
    BY <2>1, <2>2, SubSeqProperties
  <2>5. \A i \in 1..n : j + i - 1 \in j..(e - 1)
    BY <1>2, <1>4
  <2>6. \A i \in 1..Len(x) : i \in 1..n
    BY <1>2, <1>4, <2>3
  <2>7. \A i \in 1..Len(x) : x[i] = y[i]
    BY <2>2, <2>3, <2>4, <2>5, <2>6
  <2> HIDE DEF x, y
  <2> QED BY <2>3, <2>4, <2>7, SeqEqual DEF x, y
<1> QED BY <1>6, <1>7 DEF r

\* A line that starts no record joins one.
LEMMA FollowJoined ==
  ASSUME NEW p, NEW b, NEW line, b \in Seq(Byte), b # <<>>, line \in Seq(Byte), OneLine(line),
         Follow(p, b), ~Starts(p, line)
  PROVE  LET r == Cat(Cat(b, nl), line)
         IN  Follow(p, r) /\ LineFrom(r, 1) = LineFrom(b, 1)
<1> DEFINE r == Cat(Cat(b, nl), line)
           m == Len(b)
<1>1. /\ r \in Seq(Byte) /\ m \in Nat /\ Len(line) \in Nat
      /\ Len(r) = m + 1 + Len(line)
      /\ \A i \in 1..m : r[i] = b[i]
      /\ r[m + 1] = Newline
      /\ \A i \in 1..Len(line) : r[m + 1 + i] = line[i]
  BY JoinedAt
<1>2. \A j \in 1..m : LineFrom(r, j) = LineFrom(b, j)
  BY SameLines
<1>3. m # 0 /\ 1 \in 1..m
  OBVIOUS
<1> HIDE DEF r
<1>6. LineFrom(b, m + 1) = <<>>
  <2>1. EndsAt(b, m + 1, m + 1) /\ m + 1 \in 1..(Len(b) + 1) /\ m + 1 \in Int
        /\ m + 1 - 1 \in Int /\ m + 1 - 1 < m + 1
    BY <1>1 DEF EndsAt
  <2> DEFINE e == m + 1
  <2>2. LineFrom(b, e) = SubSeq(b, e, e - 1)
    BY <2>1, LineFromIs
  <2>3. SubSeq(b, e, e - 1) = <<>>
    BY <2>1, SubSeqEmpty
  <2> QED BY <2>2, <2>3
<1>4. ASSUME NEW j \in 2..(Len(r) + 1), r[j - 1] = Newline PROVE ~Starts(p, LineFrom(r, j))
  <2>1. j \in Nat /\ j >= 2 /\ j <= Len(r) + 1 /\ j \in 1..(Len(r) + 1)
    BY <1>1
  <2>2. CASE j <= m
    <3>1. j \in 1..m /\ j \in 2..(m + 1) /\ j - 1 \in 1..m
      BY <1>1, <2>1, <2>2
    <3>2. b[j - 1] = Newline
      BY <1>1, <1>4, <3>1
    <3>3. ~Starts(p, LineFrom(b, j))
      BY <3>1, <3>2 DEF Follow
    <3> QED BY <1>2, <3>1, <3>3
  <2>3. CASE j = m + 1
    <3>1. EndsAt(r, j, j)
      BY <1>1, <2>1, <2>3 DEF EndsAt
    <3>2. LineFrom(r, j) = SubSeq(r, j, j - 1)
      BY <1>1, <2>1, <3>1, LineFromIs
    <3>3. j \in Int /\ j - 1 \in Int /\ j - 1 < j
      BY <2>1
    <3>4. SubSeq(r, j, j - 1) = <<>>
      BY <3>3, SubSeqEmpty
    <3>5. j \in 2..(m + 1) /\ j - 1 \in 1..m
      BY <1>1, <2>1, <2>3
    <3>6. b[j - 1] = Newline
      BY <1>1, <1>4, <3>5
    <3>7. ~Starts(p, LineFrom(b, j))
      BY <3>5, <3>6 DEF Follow
    <3> QED BY <1>6, <2>3, <3>2, <3>4, <3>7
  <2>4. CASE j = m + 2
    <3> DEFINE e == Len(r) + 1
    <3>1. \A i \in j..(e - 1) : i - (m + 1) \in 1..Len(line) /\ m + 1 + (i - (m + 1)) = i
      BY <1>1, <2>1, <2>4
    <3>2. ASSUME NEW i \in j..(e - 1) PROVE r[i] # Newline
      <4> DEFINE k == i - (m + 1)
      <4>1. k \in 1..Len(line) /\ m + 1 + k = i
        BY <3>1
      <4> HIDE DEF k
      <4> QED BY <1>1, <4>1 DEF OneLine
    <3>3. e \in j..(Len(r) + 1) /\ ~(e <= Len(r))
      BY <1>1, <2>1
    <3>4. EndsAt(r, j, e)
      BY <3>2, <3>3 DEF EndsAt
    <3>5. LineFrom(r, j) = SubSeq(r, j, e - 1)
      BY <1>1, <2>1, <3>4, LineFromIs
    <3>6. SubSeq(r, j, e - 1) = line
      <4> DEFINE x == SubSeq(r, j, e - 1)
      <4>1. j \in Int /\ e - 1 \in Int /\ e - 1 = Len(r) /\ (j <= e - 1 <=> Len(line) # 0)
            /\ e - 1 - j + 1 = Len(line)
        BY <1>1, <2>1, <2>4
      <4>2. \A i \in j..(e - 1) : r[i] \in Byte
        BY <1>1, <2>1, <4>1
      <4>3. /\ x \in Seq(Byte)
            /\ Len(x) = IF j <= e - 1 THEN e - 1 - j + 1 ELSE 0
            /\ \A i \in 1..(e - 1 - j + 1) : x[i] = r[j + i - 1]
        BY <4>1, <4>2, SubSeqProperties
      <4>4. \A i \in 1..Len(line) : j + i - 1 = m + 1 + i
        BY <1>1, <2>4
      <4> HIDE DEF x, e
      <4>5. Len(x) = Len(line) /\ \A i \in 1..Len(x) : x[i] = line[i]
        BY <1>1, <4>1, <4>3, <4>4
      <4>6. x = line
        BY <4>3, <4>5, SeqEqual
      <4> QED BY <4>6 DEF x
    <3> QED BY <3>5, <3>6
  <2>5. CASE j > m + 2
    <3>1. j - 1 - (m + 1) \in 1..Len(line) /\ m + 1 + (j - 1 - (m + 1)) = j - 1
      BY <1>1, <2>1, <2>5
    <3>2. r[j - 1] = line[j - 1 - (m + 1)]
      BY <1>1, <3>1
    <3> QED BY <1>4, <3>1, <3>2 DEF OneLine
  <2> QED BY <1>1, <2>1, <2>2, <2>3, <2>4, <2>5
<1>5. Follow(p, r) /\ LineFrom(r, 1) = LineFrom(b, 1)
  BY <1>2, <1>3, <1>4 DEF Follow
<1> QED BY <1>5 DEF r

\* Records that are begun as they should, with one more.
LEMMA BegunMore ==
  ASSUME NEW p, NEW rs, NEW b, rs \in Seq(Seq(Byte)), b \in Seq(Byte), Begun(p, rs),
         Follow(p, b), rs # <<>> => Begins(p, b)
  PROVE  Begun(p, More(rs, b))
<1> DEFINE T == Seq(Byte)
<1>1. rs \in Seq(T) /\ b \in T /\ (rs = <<>> <=> Len(rs) = 0)
  OBVIOUS
<1> HIDE DEF T
<1>2. /\ DOMAIN More(rs, b) = 1..(Len(rs) + 1) /\ More(rs, b)[Len(rs) + 1] = b
      /\ \A i \in 1..Len(rs) : More(rs, b)[i] = rs[i]
      /\ Len(rs) \in Nat /\ DOMAIN rs = 1..Len(rs)
  BY <1>1, MoreLaws
<1>3. ASSUME NEW i \in 1..(Len(rs) + 1)
      PROVE  /\ i > 1 => Begins(p, More(rs, b)[i])
             /\ Follow(p, More(rs, b)[i])
  <2>1. CASE i = Len(rs) + 1
    <3>1. i > 1 => rs # <<>>
      BY <1>1, <1>2, <2>1
    <3> QED BY <1>2, <2>1, <3>1
  <2>2. CASE i # Len(rs) + 1
    <3>1. i \in 1..Len(rs)
      BY <1>2, <2>2
    <3> QED BY <1>2, <3>1 DEF Begun
  <2> QED BY <2>1, <2>2
<1> QED BY <1>2, <1>3 DEF Begun

\* Inductive: the lines of the records that were fed, and of the next one.
BeginInv ==
  options.mode = "multiline" =>
    \A k \in DOMAIN fed :
      /\ Begun(options.start, fed[k])
      /\ k = Len(fed) /\ buf # <<>> =>
           Follow(options.start, buf) /\ (fed[k] # <<>> => Begins(options.start, buf))

\* Every step keeps BeginInv.
LEMMA BeginStep ==
  RunInv /\ GroupedInv /\ BeginInv /\ [Next]_vars => BeginInv'
<1> SUFFICES ASSUME RunInv, GroupedInv, BeginInv, [Next]_vars, options'.mode = "multiline"
             PROVE  BeginInv'
  BY DEF BeginInv
<1> DEFINE last == Len(fed)
           p == options.start
<1>0. /\ last \in Nat /\ DOMAIN fed = 1..last
      /\ fed \in Seq(Feds) /\ buf \in Bytes /\ unread \in Bytes
      /\ \A k \in DOMAIN fed : fed[k] \in Feds
  BY DEF RunInv
<1>1. CASE UNCHANGED <<options, buf, fed>>
  BY <1>1 DEF BeginInv
<1>2. CASE UNCHANGED vars \/ Refuse \/ Finish
  BY <1>1, <1>2 DEF vars, ingestion, Refuse, Finish
<1>3. CASE Configure
  <2>1. fed = <<>> /\ UNCHANGED fed
    BY <1>3 DEF Configure, Start, RunInv
  <2> QED BY <2>1 DEF BeginInv
<1>4. CASE Ingest /\ UNCHANGED <<args, built, found, output>>
  <2>0. Running /\ UNCHANGED <<options, sources, args>>
    BY <1>4 DEF Ingest, ReadLine, GroupLine, ReadChunk, Cut, EndSource, NextSource, Fail
  <2>1. options.mode = "multiline" /\ options' = options
    BY <2>0
  <2>2. \A k \in DOMAIN fed : Begun(p, fed[k])
    BY <2>1 DEF BeginInv
  <2>3. last \in DOMAIN fed /\ buf # <<>> =>
           Follow(p, buf) /\ (fed[last] # <<>> => Begins(p, buf))
    BY <2>1 DEF BeginInv
  <2>4. last # 0 => last \in DOMAIN fed
    BY <1>0
  <2>5. fed = <<>> => unread = <<>> /\ buf = <<>>
    BY DEF RunInv
  <2>6. fed = <<>> <=> last = 0
    BY <1>0
  <2>12. BeginInv' <=>
           \A k \in DOMAIN fed' :
             /\ Begun(p, fed'[k])
             /\ k = Len(fed') /\ buf' # <<>> =>
                  Follow(p, buf') /\ (fed'[k] # <<>> => Begins(p, buf'))
    BY <2>1 DEF BeginInv
  <2> HIDE DEF last, p
  <2>7. CASE ReadLine \/ ReadChunk \/ Cut
    BY <2>1, <2>7 DEF ReadLine, ReadChunk, Cut, RunInv
  <2>8. CASE GroupLine
    <3>1. unread # <<>> /\ Line \in Bytes
      BY <1>0, <2>8, LineTypes DEF GroupLine
    <3>2. last \in DOMAIN fed
      BY <2>4, <2>5, <2>6, <3>1
    <3>3. buf = <<>> => fed[last] = <<>> \/ Starts(p, <<>>)
      BY <2>1, <3>1, <3>2 DEF GroupedInv, Grouping, EmptyStarts, last, p
    <3>4. OneLine(Line)
      <4>1. /\ Len(unread) \in Nat /\ LineEnd \in 1..(Len(unread) + 1)
            /\ \A j \in 1..(LineEnd - 1) : j \in DOMAIN unread /\ unread[j] # Newline
            /\ unread \in Seq(Byte)
        BY <1>0, LineEndIs DEF Bytes
      <4>2. LineEnd - 1 \in 0..Len(unread)
        BY <4>1
      <4>3. Len(Line) = LineEnd - 1 /\ \A i \in 1..(LineEnd - 1) : Line[i] = unread[i]
        <5>1. 1 \in Int /\ LineEnd - 1 \in Int /\ \A i \in 1..(LineEnd - 1) : unread[i] \in Byte
          BY <4>1
        <5> DEFINE e == LineEnd - 1
        <5> HIDE DEF e
        <5>2. /\ Len(SubSeq(unread, 1, e)) = IF 1 <= e THEN e - 1 + 1 ELSE 0
              /\ \A i \in 1..(e - 1 + 1) : SubSeq(unread, 1, e)[i] = unread[1 + i - 1]
          BY <5>1, SubSeqProperties DEF e
        <5>0. e \in 0..Len(unread) /\ Len(unread) \in Nat
          BY <4>1, <4>2 DEF e
        <5>3. e - 1 + 1 = e /\ (~(1 <= e) => e = 0) /\ \A i \in 1..e : 1 + i - 1 = i
          BY ONLY <5>0
        <5>4. Len(SubSeq(unread, 1, e)) = e /\ \A i \in 1..e : SubSeq(unread, 1, e)[i] = unread[i]
          BY <5>2, <5>3
        <5> QED BY <5>4 DEF e, Line
      <4> QED BY <4>1, <4>3 DEF OneLine
    <3>5. LineFrom(Line, 1) = Line /\ Follow(p, Line)
      BY <3>1, <3>4, LineAlone DEF Bytes
    <3>6. CASE Starts(p, Line) /\ buf # <<>>
      <4>1. Feed(buf) /\ buf' = Line
        BY <2>8, <3>6 DEF GroupLine, p
      <4>2. /\ Len(fed') = last /\ DOMAIN fed' = DOMAIN fed
            /\ \A k \in DOMAIN fed : k # last => fed'[k] = fed[k]
            /\ fed'[last] = More(fed[last], buf)
        BY <1>0, <3>2, <4>1, FeedStep DEF last
      <4>3. Begun(p, More(fed[last], buf))
        BY <1>0, <2>2, <2>3, <3>2, <3>6, BegunMore DEF Bytes, Feds
      <4> QED BY <2>2, <2>12, <3>5, <3>6, <4>1, <4>2, <4>3 DEF Begins
    <3>7. CASE ~(Starts(p, Line) /\ buf # <<>>)
      <4>1. fed' = fed /\ buf' = Joined(Line)
        BY <2>8, <3>7 DEF GroupLine, NoFeed, p
      <4>2. CASE buf = <<>>
        <5>1. buf' = Line
          BY <4>1, <4>2 DEF Joined
        <5> QED BY <2>2, <2>12, <3>3, <3>5, <4>1, <4>2, <5>1 DEF Begins, last
      <4>3. CASE buf # <<>>
        <5>1. buf' = Cat(Cat(buf, nl), Line) /\ ~Starts(p, Line)
          BY <3>7, <4>1, <4>3 DEF Joined, Cat, nl
        <5>2. Follow(p, buf') /\ LineFrom(buf', 1) = LineFrom(buf, 1)
          BY <1>0, <2>3, <3>1, <3>2, <3>4, <4>3, <5>1, FollowJoined DEF Bytes
        <5> QED BY <2>2, <2>3, <2>12, <3>2, <4>1, <4>3, <5>2 DEF Begins, last
      <4> QED BY <4>2, <4>3
    <3> QED BY <3>6, <3>7
  <2>9. CASE EndSource
    <3>1. Feed(buf) /\ buf' = <<>> /\ buf # <<>>
      BY <2>9 DEF EndSource
    <3>2. last \in DOMAIN fed
      BY <2>4, <2>5, <2>6, <3>1
    <3>3. Begun(p, More(fed[last], buf))
      BY <1>0, <2>2, <2>3, <3>1, <3>2, BegunMore DEF Bytes, Feds
    <3>4. /\ Len(fed') = last /\ DOMAIN fed' = DOMAIN fed
          /\ \A k \in DOMAIN fed : k # last => fed'[k] = fed[k]
          /\ fed'[last] = More(fed[last], buf)
      BY <1>0, <3>1, <3>2, FeedStep DEF last
    <3> QED BY <2>2, <2>12, <3>1, <3>3, <3>4
  <2>10. CASE NextSource
    <3>1. fed' = Append(fed, <<>>) /\ buf' = <<>>
      BY <2>10 DEF NextSource
    <3>2. /\ DOMAIN fed' = 1..(last + 1) /\ fed'[last + 1] = <<>> /\ last \in Nat
          /\ \A k \in 1..last : fed'[k] = fed[k]
      BY <1>0, <3>1 DEF last
    <3>3. Begun(p, <<>>)
      BY DEF Begun
    <3>4. \A k \in 1..(last + 1) : k = last + 1 \/ k \in 1..last
      BY <3>2
    <3>5. DOMAIN fed = 1..last
      BY <1>0
    <3>6. \A k \in DOMAIN fed' : Begun(p, fed'[k])
      BY <2>2, <3>2, <3>3, <3>4, <3>5
    <3> QED BY <2>12, <3>1, <3>6
  <2>11. CASE Fail
    BY <1>1, <2>11 DEF Fail
  <2> QED BY <1>4, <2>7, <2>8, <2>9, <2>10, <2>11 DEF Ingest
<1> QED BY <1>2, <1>3, <1>4 DEF Next

\* ingest_multiline_start (main.rs): a line that starts a record is the first
\* of its record, and every record but the first of a source begins with one, or
\* has lost the empty one that started it.  For every source and every pattern.
THEOREM StartsBeginRecords == Spec => []GroupsBeginAtStarts
<1>1. Init => BeginInv
  BY DEF Init, Idle, BeginInv
<1>2. RunInv /\ GroupedInv /\ BeginInv /\ [Next]_vars => BeginInv'
  BY BeginStep
<1>3. BeginInv => GroupsBeginAtStarts
  BY DEF BeginInv, Begun, Begins, Follow, LineFrom, GroupsBeginAtStarts, EmptyStarts
<1> QED BY <1>1, <1>2, <1>3, GroupedAlways, RunAlways, PTL DEF Spec

-----------------------------------------------------------------------------
(* Times.                                                                  *)

\* Division undoes multiplication by a thousand, and leaves a remainder that
\* is the difference.
LEMMA Thousands ==
  ASSUME NEW t \in Nat
  PROVE  /\ t \div 1000 \in Nat
         /\ (t \div 1000) * 1000 = t - (t % 1000)
         /\ t % 1000 >= 0
         /\ (t * 1000) \div 1000 = t
         /\ (t * 1000 * 1000) \div (1000 * 1000) = t
  BY SMT

\* An event logged in any of four units gets one time.
LEMMA UnitsScale ==
  ASSUME NEW t \in Limit..(Limit * 1000 - 1)
  PROVE  /\ ScaleEpoch(t \div 1000) = t - (t % 1000)
         /\ ScaleEpoch(t) = t
         /\ ScaleEpoch(t * 1000) = t
         /\ ScaleEpoch(t * 1000 * 1000) = t
<1>1. Limit \in Nat /\ Limit > 0
  BY EventTimeAssumption
<1>2. t \in Nat /\ Limit <= t /\ t < Limit * 1000
  BY <1>1
<1>3. ScaleEpoch(t \div 1000) = t - (t % 1000)
  <2>1. t \div 1000 < Limit
    BY <1>1, <1>2, SMT
  <2> QED BY <1>2, <2>1, Thousands DEF ScaleEpoch
<1>4. ScaleEpoch(t) = t
  BY <1>1, <1>2 DEF ScaleEpoch
<1>5. ScaleEpoch(t * 1000) = t
  <2>1. Limit * 1000 <= t * 1000 /\ t * 1000 < Limit * 1000 * 1000
    BY <1>1, <1>2
  <2> QED BY <1>1, <1>2, <2>1, Thousands DEF ScaleEpoch
<1>6. ScaleEpoch(t * 1000 * 1000) = t
  <2>1. Limit * 1000 * 1000 <= t * 1000 * 1000
    BY <1>1, <1>2
  <2> QED BY <1>1, <1>2, <2>1, Thousands DEF ScaleEpoch
<1> QED BY <1>3, <1>4, <1>5, <1>6

\* scale_epoch (main.rs): an event logged in any of four units gets one time,
\* for every limit between seconds and milliseconds.
THEOREM UnitsAgree == EpochUnitsAgree
BY UnitsScale DEF EpochUnitsAgree


-----------------------------------------------------------------------------
(* The times of records.                                                   *)

\* The time of a record under the options o, and the calls it may lead to.
TimeOf(o, record) ==
  LET value == ExtractField(record, o.timeKey) IN
  IF o.timeKey = None \/ value = None THEN None
  ELSE ParseEventMs(Readings(value), o.formatted)

Call(o, record) == [text |-> record, ms |-> TimeOf(o, record)]
Calls(o) == {Call(o, record) : record \in Bytes}

\* A set of at most one element as a sequence.
LEMMA OneToSeq ==
  ASSUME NEW S, NEW x, x \in S
  PROVE  SetToSeq({}) \in Seq(S) /\ SetToSeq({x}) \in Seq(S)
<1>1. Cardinality({}) = 0 /\ Cardinality({x}) = 1
  BY FS_EmptySet, FS_Singleton
<1>2. SetToSeq({}) \in Seq(S)
  <2> DEFINE e == [i \in 1..0 |-> x]
  <2>1. e \in [1..0 -> {}] /\ IsInjective(e)
    BY DEF IsInjective
  <2>2. SetToSeq({}) \in [1..0 -> {}]
    BY <1>1, <2>1 DEF SetToSeq
  <2> QED BY <2>2
<1>3. SetToSeq({x}) \in Seq(S)
  <2> DEFINE e == [i \in 1..1 |-> x]
  <2>1. e \in [1..1 -> {x}] /\ IsInjective(e)
    BY DEF IsInjective
  <2>2. SetToSeq({x}) \in [1..1 -> {x}]
    BY <1>1, <2>1 DEF SetToSeq
  <2> DEFINE q == SetToSeq({x})
  <2> HIDE DEF q
  <2>3. q \in [1..1 -> S] /\ 1 \in Nat
    BY <2>2 DEF q
  <2>4. q \in Seq(S)
    BY ONLY <2>3, SeqDef
  <2> QED BY <2>4 DEF q
<1> QED BY <1>2, <1>3

\* Inductive: without a key, a record is added as it is, with its time.
TimedInv ==
  /\ outcome = "start" => added = <<>>
  /\ options.key = None => added \in Seq(Calls(options))

\* A record that is fed is added as it is, or not at all.
LEMMA FeedTimed ==
  ASSUME options.key = None, added \in Seq(Calls(options)),
         NEW record, record \in Bytes, Feed(record)
  PROVE  added' \in Seq(Calls(options))
<1> DEFINE call == Call(options, record)
           new == {[text |-> text, ms |-> EventMs(record)] : text \in Texts(record)}
<1>1. added' = added \o SetToSeq(new)
  BY DEF Feed
<1>2. EventMs(record) = TimeOf(options, record)
  BY DEF EventMs, TimeOf
<1>3. Texts(record) = {} \/ Texts(record) = {record}
  BY DEF Texts
<1>4. new = {} \/ new = {call}
  BY <1>2, <1>3 DEF Call
<1>5. call \in Calls(options)
  BY DEF Calls
<1> HIDE DEF new, call
<1>6. SetToSeq(new) \in Seq(Calls(options))
  BY <1>4, <1>5, OneToSeq
<1> QED BY <1>1, <1>6

\* Every step keeps TimedInv.
LEMMA TimedStep == RunInv /\ TimedInv /\ [Next]_vars => TimedInv'
<1> SUFFICES ASSUME RunInv, TimedInv, [Next]_vars PROVE TimedInv'
  OBVIOUS
<1>1. CASE UNCHANGED <<options, added>> /\ (outcome' = "start" => outcome = "start")
  BY <1>1 DEF TimedInv
<1>2. CASE UNCHANGED vars \/ Refuse \/ Finish
  BY <1>1, <1>2 DEF vars, ingestion, Refuse, Finish
<1>3. CASE Configure
  <2>1. added = <<>> /\ added' = <<>>
    BY <1>3 DEF Configure, Start, TimedInv
  <2>2. added' \in Seq(Calls(options)')
    BY <2>1
  <2> QED BY <2>1, <2>2 DEF TimedInv
<1>4. CASE Ingest /\ UNCHANGED <<args, built, found, output>>
  <2>0. Running /\ UNCHANGED options
    BY <1>4 DEF Ingest, ReadLine, GroupLine, ReadChunk, Cut, EndSource, NextSource, Fail
  <2>1. ASSUME NEW record, record \in Bytes, Feed(record), outcome' = outcome
        PROVE  TimedInv'
    <3>1. options.key = None => added' \in Seq(Calls(options))
      BY <2>1, FeedTimed DEF TimedInv
    <3> QED BY <2>0, <2>1, <3>1 DEF TimedInv, Running
  <2>2. buf \in Bytes /\ Line \in Bytes
    BY LineTypes DEF RunInv
  <2>3. CASE ReadLine
    BY <2>1, <2>2, <2>3 DEF ReadLine
  <2>4. CASE GroupLine
    BY <1>1, <2>0, <2>1, <2>2, <2>4 DEF GroupLine, NoFeed
  <2>5. CASE ReadChunk
    BY <1>1, <2>0, <2>5 DEF ReadChunk, NoFeed
  <2>6. CASE Cut
    <3>1. CASE Places(buf) = {}
      BY <1>1, <2>0, <2>6, <3>1 DEF Cut, NoFeed
    <3>2. CASE Places(buf) # {}
      <4> DEFINE pos == FindSub(buf)
      <4>1. Feed(SubSeq(buf, 1, pos - 1)) /\ outcome' = outcome
        BY <2>6, <3>2 DEF Cut
      <4>2. options.separator \in Bytes /\ options.separator # <<>>
        BY <2>6 DEF Cut, RunInv
      <4>3. pos \in 1..(Len(buf) - Len(options.separator) + 1)
        BY <2>2, <3>2, <4>2, FindSubIs DEF Places
      <4>4. /\ Len(options.separator) \in Nat /\ Len(buf) \in Nat
            /\ Len(options.separator) # 0
        BY <2>2, <4>2 DEF Bytes
      <4> HIDE DEF pos
      <4>5. 1 \in Nat /\ 1 >= 1 /\ pos - 1 \in Int /\ pos - 1 <= Len(buf)
        BY <4>3, <4>4
      <4>6. SubSeq(buf, 1, pos - 1) \in Bytes
        BY <2>2, <4>5, PartType
      <4> QED BY <2>1, <4>1, <4>6
    <3> QED BY <3>1, <3>2
  <2>7. CASE EndSource
    BY <2>1, <2>2, <2>7 DEF EndSource
  <2>8. CASE NextSource
    BY <1>1, <2>0, <2>8 DEF NextSource
  <2>9. CASE Fail
    BY <1>1, <2>0, <2>9 DEF Fail, Running
  <2> QED BY <1>4, <2>3, <2>4, <2>5, <2>6, <2>7, <2>8, <2>9 DEF Ingest
<1> QED BY <1>2, <1>3, <1>4 DEF Next

\* parse_event_ms and Ingestor::feed (main.rs): a record of an event has the
\* same time, but for the part of a second, whichever of the four units the
\* program that logged it uses.  For every source, way of reading and limit.
THEOREM TimesAreUnitless == Spec => []TimesIgnoreUnits
<1>1. Init => TimedInv
  <2>1. Init => added = <<>> /\ outcome = "start"
    BY DEF Init, Idle
  <2>2. <<>> \in Seq(Calls(options))
    OBVIOUS
  <2> QED BY <2>1, <2>2 DEF TimedInv
<1>2. RunInv /\ TimedInv => TimesIgnoreUnits
  <2> SUFFICES ASSUME TimedInv, options.key = None, options.timeKey # None,
                      ~options.formatted, NEW i \in DOMAIN added
               PROVE  LET value == ExtractField(added[i].text, options.timeKey)
                          n     == IF value = None THEN None ELSE Readings(value).integer
                      IN  n # None =>
                            \A t \in Limit..(Limit * 1000 - 1) :
                              n \in LoggedAs(t) => added[i].ms \in {t, t - (t % 1000)}
    BY DEF TimesIgnoreUnits
  <2>1. PICK record \in Bytes : added[i] = Call(options, record)
    <3>1. added \in Seq(Calls(options))
      BY DEF TimedInv
    <3>2. added[i] \in Calls(options)
      BY <3>1
    <3> QED BY <3>2 DEF Calls
  <2>2. added[i].text = record /\ added[i].ms = TimeOf(options, record)
    BY <2>1 DEF Call
  <2> DEFINE value == ExtractField(record, options.timeKey)
             n     == IF value = None THEN None ELSE Readings(value).integer
  <2> SUFFICES ASSUME n # None, NEW t \in Limit..(Limit * 1000 - 1), n \in LoggedAs(t)
               PROVE  TimeOf(options, record) \in {t, t - (t % 1000)}
    BY <2>2
  <2>3. value # None /\ n = Readings(value).integer
    OBVIOUS
  <2>4. TimeOf(options, record) = ScaleEpoch(n)
    BY <2>3 DEF TimeOf, ParseEventMs
  <2> HIDE DEF value, n
  <2>5. n = t \div 1000 \/ n = t \/ n = t * 1000 \/ n = t * 1000 * 1000
    BY DEF LoggedAs
  <2> QED BY <2>4, <2>5, UnitsScale
<1> QED BY <1>1, <1>2, TimedStep, RunAlways, PTL DEF Spec


-----------------------------------------------------------------------------
(* What the separator means, unit by unit.                                 *)

\* A unit is a character, or a backslash and a character.
Units(C) == {<<c>> : c \in C} \cup {<<Backslash, c>> : c \in C}

MeaningOf(unit) ==
  IF Len(unit) = 2 /\ unit[2] \in DOMAIN EscapeOf THEN <<EscapeOf[unit[2]]>> ELSE unit

\* How units are spelled, and what they mean.
Spelling(us) == FlattenSeq(us)
Meanings(us) == [j \in 1..Len(us) |-> MeaningOf(us[j])]
Meant(us)    == FlattenSeq(Meanings(us))

\* Units and their meanings are texts.
LEMMA UnitTypes ==
  ASSUME NEW u \in Units(Byte)
  PROVE  u \in Seq(Byte) /\ MeaningOf(u) \in Seq(Byte)
<1>1. Backslash \in Byte /\ \A c \in DOMAIN EscapeOf : EscapeOf[c] \in Byte
  BY DEF Backslash, EscapeOf, Byte, LF, CR
<1>2. PICK c \in Byte : u = <<c>> \/ u = <<Backslash, c>>
  BY DEF Units
<1>3. <<c>> \in Seq(Byte) /\ <<Backslash, c>> \in Seq(Byte)
  BY <1>1
<1>4. u \in Seq(Byte)
  BY <1>2, <1>3
<1>5. u[2] \in DOMAIN EscapeOf => <<EscapeOf[u[2]]>> \in Seq(Byte)
  BY <1>1
<1> QED BY <1>4, <1>5 DEF MeaningOf

\* What a unit of each kind means.
LEMMA UnitMeans ==
  ASSUME NEW c
  PROVE  /\ MeaningOf(<<c>>) = <<c>>
         /\ MeaningOf(<<Backslash, c>>)
              = IF c \in DOMAIN EscapeOf THEN <<EscapeOf[c]>> ELSE <<Backslash, c>>
<1>1. Len(<<c>>) = 1 /\ Len(<<Backslash, c>>) = 2 /\ <<Backslash, c>>[2] = c /\ 1 # 2
  OBVIOUS
<1> QED BY <1>1 DEF MeaningOf

\* The meanings of units are a sequence of texts.
LEMMA MeaningsType ==
  ASSUME NEW us \in Seq(Units(Byte))
  PROVE  /\ us \in Seq(Seq(Byte)) /\ Meanings(us) \in Seq(Seq(Byte))
         /\ Len(Meanings(us)) = Len(us)
         /\ \A j \in 1..Len(us) : Meanings(us)[j] = MeaningOf(us[j])
<1> DEFINE T == Seq(Byte)
<1>1. Len(us) \in Nat /\ \A j \in 1..Len(us) : us[j] \in Units(Byte)
  OBVIOUS
<1>2. \A j \in 1..Len(us) : us[j] \in T /\ MeaningOf(us[j]) \in T
  BY <1>1, UnitTypes
<1>3. us \in [1..Len(us) -> Units(Byte)]
  OBVIOUS
<1> HIDE DEF T
<1>4. us \in [1..Len(us) -> T]
  BY <1>2, <1>3
<1>5. us \in Seq(T)
  BY <1>1, <1>4
<1>6. Meanings(us) \in [1..Len(us) -> T]
  BY <1>2 DEF Meanings
<1>7. Meanings(us) \in Seq(T) /\ Len(Meanings(us)) = Len(us)
  BY <1>1, <1>6
<1>8. \A j \in 1..Len(us) : Meanings(us)[j] = MeaningOf(us[j])
  BY DEF Meanings
<1> QED BY <1>5, <1>7, <1>8 DEF T

\* No units spell and mean nothing.
LEMMA UnitsNone == Spelling(<<>>) = <<>> /\ Meant(<<>>) = <<>>
<1>1. Meanings(<<>>) = <<>>
  <2>1. Len(<<>>) = 0 /\ 1..0 = {}
    OBVIOUS
  <2> QED BY <2>1 DEF Meanings
<1> QED BY <1>1, FlattenNone DEF Spelling, Meant

\* One unit more is spelled, and means, one thing more.
LEMMA UnitsMore ==
  ASSUME NEW us \in Seq(Units(Byte)), NEW u \in Units(Byte)
  PROVE  /\ Spelling(More(us, u)) = Cat(Spelling(us), u)
         /\ Meant(More(us, u)) = Cat(Meant(us), MeaningOf(u))
         /\ Spelling(us) \in Seq(Byte) /\ Meant(us) \in Seq(Byte)
<1> DEFINE T == Seq(Byte)
<1>1. u \in T /\ MeaningOf(u) \in T
  BY UnitTypes
<1>2. us \in Seq(T) /\ Meanings(us) \in Seq(T) /\ Len(Meanings(us)) = Len(us)
      /\ \A j \in 1..Len(us) : Meanings(us)[j] = MeaningOf(us[j])
  BY MeaningsType
<1>3. Spelling(More(us, u)) = Cat(Spelling(us), u)
  <2>1. us \in Seq(Seq(Byte)) /\ u \in Seq(Byte)
    BY <1>1, <1>2
  <2>2. FlattenSeq(Append(us, u)) = FlattenSeq(us) \o u
    BY ONLY <2>1, FlattenAppend
  <2> QED BY <2>2 DEF Spelling, More, Cat
<1>4. Meanings(More(us, u)) = More(Meanings(us), MeaningOf(u))
  <2> HIDE DEF T
  <2> DEFINE ms == Meanings(us)
             m  == MeaningOf(u)
             vs == More(us, u)
             ns == More(ms, m)
  <2>1. /\ Len(us) \in Nat /\ Len(vs) = Len(us) + 1 /\ vs[Len(us) + 1] = u
        /\ \A j \in 1..Len(us) : vs[j] = us[j]
    BY <1>1, <1>2, MoreLaws
  <2>2. /\ ns \in Seq(T) /\ Len(ns) = Len(ms) + 1 /\ DOMAIN ns = 1..(Len(ms) + 1)
        /\ ns[Len(ms) + 1] = m
        /\ \A j \in 1..Len(ms) : ns[j] = ms[j]
    BY <1>1, <1>2, MoreLaws
  <2> HIDE DEF vs, ns, m
  <2>3. ns = [j \in 1..(Len(us) + 1) |-> ns[j]]
    BY <1>2, <2>2
  <2>4. ASSUME NEW j \in 1..(Len(us) + 1) PROVE ns[j] = MeaningOf(vs[j])
    <3>1. j \in 1..Len(us) \/ j = Len(us) + 1
      BY <2>1
    <3>2. CASE j \in 1..Len(us)
      BY <1>2, <2>1, <2>2, <3>2
    <3>3. CASE j = Len(us) + 1
      BY <1>2, <2>1, <2>2, <3>3 DEF m
    <3> QED BY <3>1, <3>2, <3>3
  <2>5. Meanings(vs) = [j \in 1..(Len(us) + 1) |-> MeaningOf(vs[j])]
    BY <2>1 DEF Meanings
  <2>6. Meanings(vs) = ns
    BY <2>3, <2>4, <2>5
  <2> QED BY <2>6 DEF vs, ns, m
<1>5. Meant(More(us, u)) = Cat(Meant(us), MeaningOf(u))
  <2>1. Meanings(us) \in Seq(Seq(Byte)) /\ MeaningOf(u) \in Seq(Byte)
    BY <1>1, <1>2
  <2>2. FlattenSeq(Append(Meanings(us), MeaningOf(u))) = FlattenSeq(Meanings(us)) \o MeaningOf(u)
    BY ONLY <2>1, FlattenAppend
  <2> QED BY <1>4, <2>2 DEF Meant, More, Cat
<1>6. Spelling(us) \in Seq(Byte) /\ Meant(us) \in Seq(Byte)
  <2>1. us \in Seq(Seq(Byte)) /\ Meanings(us) \in Seq(Seq(Byte))
    BY <1>2
  <2> QED BY <2>1, FlattenType DEF Spelling, Meant
<1> QED BY <1>3, <1>5, <1>6

\* The first i elements of a sequence.
First(s, i) == SubSeq(s, 1, i)

\* From none to all of them, one by one.
LEMMA FirstMore ==
  ASSUME NEW S, NEW s \in Seq(S)
  PROVE  /\ First(s, 0) = <<>> /\ First(s, Len(s)) = s
         /\ \A i \in 1..Len(s) :
              /\ First(s, i - 1) \in Seq(S)
              /\ First(s, i) = Cat(First(s, i - 1), <<s[i]>>)
<1>1. SubSeq(s, 1, 0) = <<>> /\ SubSeq(s, 1, Len(s)) = s
  OBVIOUS
<1>2. ASSUME NEW i \in 1..Len(s)
      PROVE  /\ SubSeq(s, 1, i - 1) \in Seq(S)
             /\ SubSeq(s, 1, i) = SubSeq(s, 1, i - 1) \o <<s[i]>>
  OBVIOUS
<1> QED BY <1>1, <1>2 DEF First, Cat

\* What was read of raw, in a state, is spelled by units that mean what the
\* state holds, but for a backslash whose character is still to come.
Pending(state) == IF state.escaped THEN <<Backslash>> ELSE <<>>

Spells(us, raw, i, state) ==
  /\ us \in Seq(Units(ToSet(raw)))
  /\ Len(us) + (IF state.escaped THEN 1 ELSE 0) <= i
  /\ state.escaped => Backslash \in ToSet(raw)
  /\ \A j \in 1..Len(us) : us[j] # <<Backslash>>
  /\ Cat(Spelling(us), Pending(state)) = First(raw, i)
  /\ Meant(us) = state.out

\* The units of a text are units.
LEMMA UnitsWithin ==
  ASSUME NEW raw \in Seq(Byte)
  PROVE  /\ ToSet(raw) \subseteq Byte /\ \A i \in 1..Len(raw) : raw[i] \in ToSet(raw)
         /\ Units(ToSet(raw)) \subseteq Units(Byte)
         /\ \A us \in Seq(Units(ToSet(raw))) : us \in Seq(Units(Byte))
<1>1. ToSet(raw) \subseteq Byte /\ \A i \in 1..Len(raw) : raw[i] \in ToSet(raw)
  BY DEF ToSet
<1>2. Units(ToSet(raw)) \subseteq Units(Byte)
  BY <1>1 DEF Units
<1> HIDE DEF Units
<1>3. \A us \in Seq(Units(ToSet(raw))) : us \in Seq(Units(Byte))
  BY <1>2, SeqMonotonic
<1> QED BY <1>1, <1>2, <1>3

\* So it is after one character more.
LEMMA SpellsMore ==
  ASSUME NEW raw \in Seq(Byte), NEW i \in 1..Len(raw), NEW state \in Reading,
         NEW us, Spells(us, raw, i - 1, state)
  PROVE  \E vs : Spells(vs, raw, i, UnescapeChar(state, raw[i]))
<1> DEFINE c == raw[i]
           U == Units(ToSet(raw))
           next == UnescapeChar(state, c)
           before == First(raw, i - 1)
<1>1. c \in Byte /\ c \in ToSet(raw) /\ U \subseteq Units(Byte) /\ us \in Seq(Units(Byte))
  BY UnitsWithin DEF Spells
<1>2. before \in Seq(Byte) /\ First(raw, i) = Cat(before, <<c>>)
  BY FirstMore
<1>3. Spelling(us) \in Seq(Byte) /\ Meant(us) \in Seq(Byte)
  <2>1. <<c>> \in Units(Byte)
    BY <1>1 DEF Units
  <2> QED BY <1>1, <2>1, UnitsMore
<1>4. /\ us \in Seq(U) /\ Meant(us) = state.out
      /\ Len(us) + (IF state.escaped THEN 1 ELSE 0) <= i - 1
      /\ state.escaped => Backslash \in ToSet(raw)
      /\ \A j \in 1..Len(us) : us[j] # <<Backslash>>
      /\ Cat(Spelling(us), Pending(state)) = before
  BY DEF Spells
<1>5. state.escaped \in BOOLEAN /\ state.out \in Seq(Byte) /\ Len(us) \in Nat
  BY <1>4 DEF Reading
<1>6. <<c>> \in U /\ <<Backslash, c>> \in U
  BY <1>1 DEF Units
<1>7. Backslash \in Byte /\ <<c>> \in Seq(Byte) /\ <<Backslash>> \in Seq(Byte)
      /\ <<Backslash, c>> \in Seq(Byte)
  <2>1. Backslash \in Byte
    BY DEF Backslash, Byte
  <2> QED BY <1>1, <2>1
<1> HIDE DEF U, before
<1>8. ASSUME NEW u \in U, u # <<Backslash>>, ~next.escaped,
             Cat(Spelling(us), u) = First(raw, i),
             next.out = Cat(Meant(us), MeaningOf(u))
      PROVE  Spells(More(us, u), raw, i, next)
  <2>1. u \in Units(Byte)
    BY <1>1
  <2>2. /\ Spelling(More(us, u)) = Cat(Spelling(us), u)
        /\ Meant(More(us, u)) = Cat(Meant(us), MeaningOf(u))
    BY <1>1, <2>1, UnitsMore
  <2>3. /\ More(us, u) \in Seq(U) /\ Len(More(us, u)) = Len(us) + 1
        /\ More(us, u)[Len(us) + 1] = u
        /\ \A j \in 1..Len(us) : More(us, u)[j] = us[j]
    BY <1>4, MoreLaws
  <2>4. ASSUME NEW j \in 1..Len(More(us, u)) PROVE More(us, u)[j] # <<Backslash>>
    <3>1. j \in 1..Len(us) \/ j = Len(us) + 1
      BY <1>5, <2>3
    <3>2. CASE j \in 1..Len(us)
      BY <1>4, <2>3, <3>2
    <3>3. CASE j = Len(us) + 1
      BY <1>8, <2>3, <3>3
    <3> QED BY <3>1, <3>2, <3>3
  <2>5. Cat(Spelling(More(us, u)), Pending(next)) = First(raw, i)
    <3>1. Cat(Spelling(us), u) \in Seq(Byte) /\ Pending(next) = <<>>
      <4>1. u \in Seq(Byte)
        BY <2>1, UnitTypes
      <4> QED BY <1>3, <1>8, <4>1, CatType DEF Pending
    <3> HIDE DEF next
    <3>2. Cat(Cat(Spelling(us), u), <<>>) = Cat(Spelling(us), u)
      BY <3>1, CatNone
    <3> QED BY <1>8, <2>2, <3>1, <3>2
  <2> HIDE DEF next
  <2>6. Len(More(us, u)) + (IF next.escaped THEN 1 ELSE 0) <= i
    <3>1. i \in Int /\ Len(us) <= i - 1
      BY <1>4, <1>5
    <3> QED BY <1>5, <1>8, <2>3, <3>1
  <2> QED BY <1>8, <2>2, <2>3, <2>4, <2>5, <2>6 DEF Spells, U
<1>9. CASE ~state.escaped /\ c = Backslash
  <2>1. next = [state EXCEPT !.escaped = TRUE]
    BY <1>9 DEF UnescapeChar
  <2>2. next.escaped /\ next.out = state.out
    BY <2>1 DEF Reading
  <2>3. Cat(Spelling(us), Pending(next)) = First(raw, i)
    <3>1. Pending(next) = <<c>> /\ Pending(state) = <<>>
      BY <1>9, <2>2 DEF Pending
    <3>2. Cat(Spelling(us), <<>>) = Spelling(us)
      BY <1>3, CatNone
    <3>3. Spelling(us) = before
      BY <1>4, <3>1, <3>2
    <3> HIDE DEF next
    <3> QED BY <1>2, <3>1, <3>3
  <2> HIDE DEF next
  <2>4. Len(us) + (IF next.escaped THEN 1 ELSE 0) <= i
    BY <1>4, <1>5, <1>9, <2>2
  <2>5. Spells(us, raw, i, next)
    BY <1>1, <1>4, <1>9, <2>2, <2>3, <2>4 DEF Spells, U
  <2> QED BY <2>5 DEF next
<1>10. CASE ~state.escaped /\ c # Backslash
  <2>1. next = [state EXCEPT !.out = Append(@, c)]
    BY <1>10 DEF UnescapeChar
  <2>2. ~next.escaped /\ next.out = Append(state.out, c)
    BY <1>10, <2>1 DEF Reading
  <2>3. Append(state.out, c) = state.out \o <<c>>
    BY <1>1, <1>5
  <2>4. next.out = Cat(Meant(us), MeaningOf(<<c>>))
    BY <1>4, <2>2, <2>3, UnitMeans DEF Cat
  <2>5. Cat(Spelling(us), <<c>>) = First(raw, i)
    <3>1. Pending(state) = <<>>
      BY <1>10 DEF Pending
    <3>2. Cat(Spelling(us), <<>>) = Spelling(us)
      BY <1>3, CatNone
    <3> QED BY <1>2, <1>4, <3>1, <3>2
  <2>6. <<c>> # <<Backslash>>
    BY <1>10
  <2>7. Spells(More(us, <<c>>), raw, i, next)
    BY <1>6, <1>8, <2>2, <2>4, <2>5, <2>6
  <2> QED BY <2>7
<1>11. CASE state.escaped
  <2> DEFINE u == <<Backslash, c>>
             m == IF c \in DOMAIN EscapeOf THEN <<EscapeOf[c]>> ELSE <<Backslash, c>>
  <2>1. next = [escaped |-> FALSE, out |-> state.out \o m]
    BY <1>11 DEF UnescapeChar
  <2>2. MeaningOf(u) = m
    BY UnitMeans
  <2>3. ~next.escaped /\ next.out = Cat(Meant(us), MeaningOf(u))
    <3> HIDE DEF m, u
    <3>1. ~next.escaped /\ next.out = state.out \o m
      BY <2>1
    <3> QED BY <1>4, <2>2, <3>1 DEF Cat
  <2>4. Cat(Spelling(us), u) = First(raw, i)
    <3> DEFINE bs  == <<Backslash>>
               one == <<c>>
    <3>1. Pending(state) = bs /\ First(raw, i) = Cat(before, one)
      BY <1>2, <1>11 DEF Pending
    <3>2. u = Cat(bs, one)
      BY <1>7 DEF Cat
    <3>3. bs \in Seq(Byte) /\ one \in Seq(Byte)
      BY <1>7
    <3> HIDE DEF bs, one, u
    <3>4. Cat(Spelling(us), Cat(bs, one)) = Cat(Cat(Spelling(us), bs), one)
      BY ONLY <1>3, <3>3, CatGroup
    <3> QED BY <1>4, <3>1, <3>2, <3>4
  <2>5. u # <<Backslash>>
    <3>1. Len(u) = 2 /\ Len(<<Backslash>>) = 1
      OBVIOUS
    <3> QED BY <3>1
  <2>6. Spells(More(us, u), raw, i, next)
    BY <1>6, <1>8, <2>3, <2>4, <2>5
  <2> QED BY <2>6
<1> QED BY <1>5, <1>9, <1>10, <1>11

\* All of raw is spelled by units that mean what Unescape makes of it.
LEMMA UnescapeMeans ==
  ASSUME NEW raw \in Seq(Byte)
  PROVE  \E us \in Seq(Units(ToSet(raw))) :
           /\ Len(us) <= Len(raw)
           /\ \A j \in 1..(Len(us) - 1) : us[j] # <<Backslash>>
           /\ Spelling(us) = raw
           /\ Meant(us) = Unescape(raw)
<1>1. PICK p \in [0..Len(raw) -> Reading] :
        /\ p[0] = Unread
        /\ \A n \in 1..Len(raw) : p[n] = UnescapeChar(p[n - 1], raw[n])
        /\ Unescape(raw) = p[Len(raw)].out
             \o IF p[Len(raw)].escaped THEN <<Backslash>> ELSE <<>>
  BY UnescapeSteps
<1>0. Len(raw) \in Nat
  OBVIOUS
<1> DEFINE P == {n \in Nat : n <= Len(raw) => \E us : Spells(us, raw, n, p[n])}
<1>2. 0 \in P
  <2>1. Spells(<<>>, raw, 0, p[0])
    <3>1. <<>> \in Seq(Units(ToSet(raw))) /\ Len(<<>>) = 0 /\ 1..0 = {}
      OBVIOUS
    <3>2. ~p[0].escaped /\ p[0].out = <<>> /\ Pending(p[0]) = <<>>
      BY <1>1 DEF Unread, Pending
    <3>3. Cat(Spelling(<<>>), Pending(p[0])) = First(raw, 0)
      <4>1. Cat(<<>>, <<>>) = <<>>
        BY DEF Cat
      <4> QED BY <3>2, <4>1, UnitsNone, FirstMore
    <3> QED BY <3>1, <3>2, <3>3, UnitsNone DEF Spells
  <2> QED BY <2>1
<1>3. ASSUME NEW n \in Nat, n \in P PROVE n + 1 \in P
  <2> SUFFICES ASSUME n + 1 <= Len(raw) PROVE \E us : Spells(us, raw, n + 1, p[n + 1])
    OBVIOUS
  <2>1. n + 1 \in 1..Len(raw) /\ n + 1 - 1 = n /\ n <= Len(raw) /\ n \in 0..Len(raw)
    BY <1>0
  <2>2. PICK us : Spells(us, raw, n, p[n])
    BY <1>3, <2>1
  <2>3. p[n] \in Reading /\ p[n + 1] = UnescapeChar(p[n], raw[n + 1])
    BY <1>1, <2>1
  <2>4. Spells(us, raw, n + 1 - 1, p[n])
    BY <2>1, <2>2
  <2>5. \E vs : Spells(vs, raw, n + 1, UnescapeChar(p[n], raw[n + 1]))
    BY ONLY <2>1, <2>3, <2>4, raw \in Seq(Byte), SpellsMore
  <2> QED BY <2>3, <2>5
<1> HIDE DEF P
<1>4. \A n \in Nat : n \in P
  BY <1>2, <1>3, NumberInduction
<1> DEFINE state == p[Len(raw)]
<1>5. PICK us : Spells(us, raw, Len(raw), state)
  BY <1>0, <1>4 DEF P
<1>6. state \in Reading
  BY <1>0, <1>1
<1>7. Unescape(raw) = Cat(state.out, Pending(state))
  BY <1>1 DEF Cat, Pending
<1> HIDE DEF state
<1>8. /\ us \in Seq(Units(ToSet(raw))) /\ us \in Seq(Units(Byte))
      /\ Len(us) + (IF state.escaped THEN 1 ELSE 0) <= Len(raw)
      /\ \A j \in 1..Len(us) : us[j] # <<Backslash>>
      /\ Cat(Spelling(us), Pending(state)) = raw
      /\ Meant(us) = state.out
      /\ Len(us) \in Nat
  BY <1>5, UnitsWithin, FirstMore DEF Spells
<1>9. <<Backslash>> \in Units(Byte)
  <2>1. Backslash \in Byte
    BY DEF Backslash, Byte
  <2> QED BY <2>1 DEF Units
<1>10. Spelling(us) \in Seq(Byte) /\ Meant(us) \in Seq(Byte)
  BY <1>8, <1>9, UnitsMore
<1>11. CASE ~state.escaped
  <2>1. Pending(state) = <<>>
    BY <1>11 DEF Pending
  <2>2. Cat(Spelling(us), <<>>) = Spelling(us) /\ Cat(Meant(us), <<>>) = Meant(us)
    BY <1>10, CatNone
  <2>3. Spelling(us) = raw /\ Meant(us) = Unescape(raw)
    BY <1>7, <1>8, <2>1, <2>2
  <2>4. Len(us) <= Len(raw) /\ \A j \in 1..(Len(us) - 1) : us[j] # <<Backslash>>
    BY <1>0, <1>8, <1>11
  <2> QED BY <1>8, <2>3, <2>4
<1>12. CASE state.escaped
  <2> DEFINE u == <<Backslash>>
             vs == More(us, u)
  <2>1. Pending(state) = u /\ u \in Units(ToSet(raw))
    BY <1>5, <1>12 DEF Pending, Spells, Units
  <2>2. MeaningOf(u) = u
    BY UnitMeans
  <2>3. Spelling(vs) = Cat(Spelling(us), u) /\ Meant(vs) = Cat(Meant(us), u)
    BY <1>8, <1>9, <2>2, UnitsMore
  <2>4. Spelling(vs) = raw /\ Meant(vs) = Unescape(raw)
    BY <1>7, <1>8, <2>1, <2>3
  <2>5. /\ vs \in Seq(Units(ToSet(raw))) /\ Len(vs) = Len(us) + 1
        /\ \A j \in 1..Len(us) : vs[j] = us[j]
    BY <1>8, <2>1, MoreLaws
  <2> HIDE DEF vs, u
  <2>6. Len(vs) <= Len(raw) /\ Len(vs) - 1 = Len(us)
    BY <1>0, <1>8, <1>12, <2>5
  <2>7. \A j \in 1..(Len(vs) - 1) : vs[j] # <<Backslash>>
    BY <1>8, <2>5, <2>6
  <2> QED BY <2>4, <2>5, <2>6, <2>7
<1> QED BY <1>6, <1>11, <1>12 DEF Reading

\* Inductive: where the separator comes from.
MeantInv ==
  options.mode = "separated" =>
    /\ args.recordSeparator # None
    /\ options.separator = Unescape(args.recordSeparator)

\* unescape (main.rs): the separator is what --record-separator spells, a
\* backslash before a character that is no escape, and a last one, standing
\* for themselves.  For every argument.
THEOREM SeparatorsAreMeant == Spec => []SeparatorIsMeant
<1>1. Init => MeantInv
  BY DEF Init, MeantInv
<1>2. MeantInv /\ [Next]_vars => MeantInv'
  <2> SUFFICES ASSUME MeantInv, [Next]_vars PROVE MeantInv'
    OBVIOUS
  <2>1. CASE UNCHANGED <<options, args>>
    BY <2>1 DEF MeantInv
  <2>2. CASE Configure
    BY <2>2 DEF Configure, MeantInv
  <2>3. CASE UNCHANGED vars \/ Refuse \/ Finish
    BY <2>1, <2>3 DEF vars, ingestion, Refuse, Finish
  <2>4. CASE Ingest /\ UNCHANGED <<args, built, found, output>>
    BY <2>1, <2>4
      DEF Ingest, ReadLine, GroupLine, ReadChunk, Cut, EndSource, NextSource, Fail
  <2> QED BY <2>2, <2>3, <2>4 DEF Next
<1>3. RunInv /\ MeantInv => SeparatorIsMeant
  <2> DEFINE raw == args.recordSeparator
  <2> SUFFICES ASSUME RunInv, MeantInv, options.mode = "separated"
               PROVE  \E n \in 1..Len(raw) : \E spelled \in [1..n -> Units(ToSet(raw))] :
                        /\ FlattenSeq(spelled) = raw
                        /\ \A i \in 1..(n - 1) : spelled[i] # <<Backslash>>
                        /\ options.separator
                             = FlattenSeq([i \in 1..n |-> MeaningOf(spelled[i])])
    BY DEF SeparatorIsMeant, Units, MeaningOf
  <2>1. raw \in Seq(Byte) /\ options.separator = Unescape(raw) /\ Unescape(raw) # <<>>
    BY DEF RunInv, MeantInv, Bytes
  <2> HIDE DEF raw
  <2>2. PICK us \in Seq(Units(ToSet(raw))) :
          /\ Len(us) <= Len(raw)
          /\ \A j \in 1..(Len(us) - 1) : us[j] # <<Backslash>>
          /\ Spelling(us) = raw
          /\ Meant(us) = Unescape(raw)
    BY <2>1, UnescapeMeans
  <2>3. us # <<>>
    BY <2>1, <2>2, UnitsNone
  <2>4. Len(us) \in 1..Len(raw) /\ us \in [1..Len(us) -> Units(ToSet(raw))]
    <3>1. Len(us) \in Nat /\ Len(us) # 0 /\ Len(raw) \in Nat
      BY <2>1, <2>3
    <3>2. us \in [1..Len(us) -> Units(ToSet(raw))]
      OBVIOUS
    <3> QED BY <2>2, <3>1, <3>2
  <2>5. FlattenSeq(us) = raw
    BY <2>2 DEF Spelling
  <2>6. options.separator = FlattenSeq([i \in 1..Len(us) |-> MeaningOf(us[i])])
    BY <2>1, <2>2 DEF Meant, Meanings
  <2> QED BY <2>2, <2>4, <2>5, <2>6
<1> QED BY <1>1, <1>2, <1>3, RunAlways, PTL DEF Spec

=============================================================================
