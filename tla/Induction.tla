----------------------------- MODULE Induction -----------------------------
(***************************************************************************)
(* Induction over the natural numbers, and what it says of the folds the   *)
(* models are built from.  A set stands for the property that is proved    *)
(* by induction: the theorems with an operator as their parameter are of   *)
(* no use to the provers, a set that is closed under + 1 is.               *)
(***************************************************************************)
EXTENDS Integers, SequencesExt, FiniteSetTheorems, SequenceTheorems,
        WellFoundedInduction, TLAPS

\* The order of numbers.
Smaller == {pair \in Nat \X Nat : pair[1] < pair[2]}

\* No infinite descent among numbers.
LEMMA SmallerWellFounded == IsWellFoundedOn(Smaller, Nat)
BY NatLessThanWellFounded, Zenon DEF OpToRel, Smaller

\* A set of numbers has a least one.
LEMMA LeastNumber ==
  ASSUME NEW S, S \subseteq Nat, S # {}
  PROVE  \E n \in S : \A m \in S : n <= m
<1>1. PICK n \in S : \A m \in S : ~(<<m, n>> \in Smaller)
  BY SmallerWellFounded, WFMin
<1>2. \A m \in Nat, k \in Nat : m < k => <<m, k>> \in Smaller
  BY DEF Smaller
<1>3. \A m \in S : ~(m < n)
  BY <1>1, <1>2
<1> QED BY <1>1, <1>3

\* What holds of 0 and, with every number, of the next, holds of all numbers.
LEMMA NumberInduction ==
  ASSUME NEW P, 0 \in P, \A n \in Nat : n \in P => n + 1 \in P
  PROVE  \A n \in Nat : n \in P
<1> SUFFICES ASSUME Nat \ P # {} PROVE FALSE
  OBVIOUS
<1>1. PICK n \in Nat \ P : \A m \in Nat \ P : n <= m
  BY LeastNumber
<1>2. n # 0 /\ n - 1 \in Nat
  BY <1>1
<1>3. n - 1 \in P
  BY <1>1, <1>2
<1> QED BY <1>1, <1>2, <1>3

-----------------------------------------------------------------------------
(* Sums over a finite set.                                                 *)

\* The element a fold takes next.
Taken(s) == CHOOSE x \in s : TRUE

\* The equation of the function that sums f over the subsets of S.
Sums(g, f, S) ==
  g = [s \in SUBSET S |-> IF s = {} THEN 0 ELSE f[Taken(s)] + g[s \ {Taken(s)}]]

SumOf(f, S) == MapThenSumSet(LAMBDA x : f[x], S)

\* A set that is not empty has a next element.
LEMMA NextIsIn == ASSUME NEW s, s # {} PROVE Taken(s) \in s
BY DEF Taken

\* A finite set with an element less is smaller by one.
LEMMA OneLess ==
  ASSUME NEW s, IsFiniteSet(s), NEW x \in s
  PROVE  /\ IsFiniteSet(s \ {x})
         /\ Cardinality(s) \in Nat /\ Cardinality(s \ {x}) \in Nat
         /\ Cardinality(s) = Cardinality(s \ {x}) + 1
<1>1. IsFiniteSet(s \ {x}) /\ Cardinality(s \ {x}) = Cardinality(s) - 1
  BY FS_RemoveElement
<1>2. Cardinality(s) \in Nat /\ Cardinality(s \ {x}) \in Nat
  BY <1>1, FS_CardinalityType
<1> QED BY <1>1, <1>2

\* The sums over the subsets of a finite set exist.
LEMMA SumsExist ==
  ASSUME NEW S, IsFiniteSet(S), NEW f, \A x \in S : f[x] \in Nat
  PROVE  \E g \in [SUBSET S -> Nat] : Sums(g, f, S)
<1> DEFINE Step(g, s) == IF s = {} THEN 0 ELSE f[Taken(s)] + g[s \ {Taken(s)}]
           Upto(g, n) == \A s \in SUBSET S : Cardinality(s) <= n => g[s] = Step(g, s)
           P == {n \in Nat : \E g \in [SUBSET S -> Nat] : Upto(g, n)}
<1>1. \A s \in SUBSET S : IsFiniteSet(s) /\ Cardinality(s) \in Nat
  BY FS_Subset, FS_CardinalityType
<1>2. \A s \in SUBSET S : s # {} =>
        /\ Taken(s) \in S /\ s \ {Taken(s)} \in SUBSET S
        /\ Cardinality(s) = Cardinality(s \ {Taken(s)}) + 1
  BY <1>1, NextIsIn, OneLess
<1>3. ASSUME NEW g \in [SUBSET S -> Nat], NEW s \in SUBSET S PROVE Step(g, s) \in Nat
  <2>1. CASE s = {}
    BY <2>1
  <2>2. CASE s # {}
    <3>1. f[Taken(s)] \in Nat /\ g[s \ {Taken(s)}] \in Nat
      BY <1>2, <2>2
    <3> QED BY <2>2, <3>1
  <2> QED BY <2>1, <2>2
<1>4. 0 \in P
  <2> DEFINE g == [s \in SUBSET S |-> 0]
  <2>1. ASSUME NEW s \in SUBSET S, Cardinality(s) <= 0 PROVE s = {}
    <3>1. s # {} => Cardinality(s \ {Taken(s)}) \in Nat
                    /\ Cardinality(s) = Cardinality(s \ {Taken(s)}) + 1
      BY <1>1, <1>2
    <3>2. Cardinality(s) \in Nat
      BY <1>1
    <3> QED BY <2>1, <3>1, <3>2
  <2>2. g \in [SUBSET S -> Nat] /\ Upto(g, 0)
    BY <2>1
  <2> QED BY <2>2
<1>5. ASSUME NEW n \in Nat, n \in P PROVE n + 1 \in P
  <2>1. PICK g \in [SUBSET S -> Nat] : Upto(g, n)
    BY <1>5
  <2> DEFINE h == [s \in SUBSET S |-> Step(g, s)]
  <2>2. h \in [SUBSET S -> Nat]
    BY <1>3
  <2>3. \A s \in SUBSET S : Cardinality(s) <= n => h[s] = g[s]
    BY <2>1
  <2>4. ASSUME NEW s \in SUBSET S, Cardinality(s) <= n + 1 PROVE h[s] = Step(h, s)
    <3>1. CASE s = {}
      BY <3>1
    <3>2. CASE s # {}
      <4>1. s \ {Taken(s)} \in SUBSET S /\ Cardinality(s \ {Taken(s)}) <= n
        BY <1>1, <1>2, <2>4, <3>2
      <4>2. h[s \ {Taken(s)}] = g[s \ {Taken(s)}]
        BY <2>3, <4>1
      <4> QED BY <3>2, <4>2
    <3> QED BY <3>1, <3>2
  <2>5. Upto(h, n + 1)
    BY <2>4
  <2> HIDE DEF h, Upto
  <2>6. \E x \in [SUBSET S -> Nat] : Upto(x, n + 1)
    BY ONLY <2>2, <2>5
  <2>7. n + 1 \in Nat
    BY ONLY n \in Nat
  <2> QED BY ONLY <2>6, <2>7
<1> HIDE DEF P
<1>6. \A n \in Nat : n \in P
  BY <1>4, <1>5, NumberInduction
<1>7. PICK g \in [SUBSET S -> Nat] : Upto(g, Cardinality(S))
  BY <1>1, <1>6 DEF P
<1>8. \A s \in SUBSET S : Cardinality(s) <= Cardinality(S)
  BY FS_Subset
<1>9. \A s \in SUBSET S : g[s] = Step(g, s)
  BY <1>7, <1>8
<1>10. g = [s \in SUBSET S |-> Step(g, s)]
  BY <1>9
<1> QED BY <1>10 DEF Sums

\* Any element may be summed first.
LEMMA SumsPick ==
  ASSUME NEW S, IsFiniteSet(S), NEW f, \A x \in S : f[x] \in Nat,
         NEW g \in [SUBSET S -> Nat], Sums(g, f, S),
         NEW R \in SUBSET S, NEW y \in R
  PROVE  g[R] = f[y] + g[R \ {y}]
<1> DEFINE P == {n \in Nat : \A s \in SUBSET S : Cardinality(s) <= n =>
                   \A x \in s : g[s] = f[x] + g[s \ {x}]}
<1>1. \A s \in SUBSET S : IsFiniteSet(s) /\ Cardinality(s) \in Nat
  BY FS_Subset, FS_CardinalityType
<1>2. \A s \in SUBSET S : \A x \in s :
        s \ {x} \in SUBSET S /\ Cardinality(s) = Cardinality(s \ {x}) + 1
  BY <1>1, OneLess
<1>3. \A s \in SUBSET S : s # {} =>
        Taken(s) \in s /\ g[s] = f[Taken(s)] + g[s \ {Taken(s)}]
  BY NextIsIn DEF Sums
<1>4. 0 \in P
  <2> SUFFICES ASSUME NEW s \in SUBSET S, Cardinality(s) <= 0, NEW x \in s PROVE FALSE
    OBVIOUS
  <2>1. Cardinality(s \ {x}) \in Nat /\ Cardinality(s) = Cardinality(s \ {x}) + 1
    BY <1>1, <1>2
  <2> QED BY <2>1
<1>5. ASSUME NEW n \in Nat, n \in P PROVE n + 1 \in P
  <2> SUFFICES ASSUME NEW s \in SUBSET S, Cardinality(s) <= n + 1, NEW x \in s
               PROVE  g[s] = f[x] + g[s \ {x}]
    OBVIOUS
  <2> DEFINE z == Taken(s)
             less == s \ {x}
             rest == s \ {z}
  <2>1. z \in s /\ g[s] = f[z] + g[rest]
    BY <1>3
  <2>2. CASE x = z
    BY <2>1, <2>2
  <2>3. CASE x # z
    <3>1. /\ less \in SUBSET S /\ rest \in SUBSET S
          /\ Cardinality(less) <= n /\ Cardinality(rest) <= n
          /\ z \in less /\ x \in rest
      BY <1>1, <1>2, <2>1, <2>3
    <3>2. g[less] = f[z] + g[less \ {z}] /\ g[rest] = f[x] + g[rest \ {x}]
      BY <1>5, <3>1
    <3>3. less \ {z} = rest \ {x} /\ less \ {z} \in SUBSET S
      OBVIOUS
    <3>4. f[x] \in Nat /\ f[z] \in Nat /\ g[less \ {z}] \in Nat
      BY <2>1, <3>3
    <3>5. g[s] = f[z] + g[rest] /\ g[rest] = f[x] + g[less \ {z}]
          /\ g[less] = f[z] + g[less \ {z}]
      BY <2>1, <3>2, <3>3
    <3> HIDE DEF z, less, rest
    <3>6. g[s] = f[x] + g[less]
      BY <3>4, <3>5
    <3> QED BY <3>6 DEF less
  <2> QED BY <2>2, <2>3
<1> HIDE DEF P
<1>6. \A n \in Nat : n \in P
  BY <1>4, <1>5, NumberInduction
<1>7. Cardinality(R) \in P /\ Cardinality(R) <= Cardinality(R)
  BY <1>1, <1>6
<1> QED BY <1>7 DEF P

\* A sum depends on what is summed only.
LEMMA SumsAgree ==
  ASSUME NEW S, IsFiniteSet(S), NEW f, NEW g, Sums(g, f, S),
         NEW R, IsFiniteSet(R), NEW e, NEW h, Sums(h, e, R),
         NEW T, T \subseteq S, T \subseteq R, \A x \in T : f[x] = e[x]
  PROVE  g[T] = h[T]
<1> DEFINE P == {n \in Nat : \A s \in SUBSET T : Cardinality(s) <= n => g[s] = h[s]}
<1>0. IsFiniteSet(T) /\ SUBSET T \subseteq SUBSET S /\ SUBSET T \subseteq SUBSET R
  BY FS_Subset
<1>1. \A s \in SUBSET T : IsFiniteSet(s) /\ Cardinality(s) \in Nat
  BY <1>0, FS_Subset, FS_CardinalityType
<1>2. \A s \in SUBSET T : s # {} =>
        /\ Taken(s) \in T /\ s \ {Taken(s)} \in SUBSET T
        /\ Cardinality(s) = Cardinality(s \ {Taken(s)}) + 1
        /\ g[s] = f[Taken(s)] + g[s \ {Taken(s)}]
        /\ h[s] = e[Taken(s)] + h[s \ {Taken(s)}]
  <2> SUFFICES ASSUME NEW s \in SUBSET T, s # {}
               PROVE  /\ Taken(s) \in T /\ s \ {Taken(s)} \in SUBSET T
                      /\ Cardinality(s) = Cardinality(s \ {Taken(s)}) + 1
                      /\ g[s] = f[Taken(s)] + g[s \ {Taken(s)}]
                      /\ h[s] = e[Taken(s)] + h[s \ {Taken(s)}]
    OBVIOUS
  <2>1. Taken(s) \in s
    BY NextIsIn
  <2>2. Cardinality(s) = Cardinality(s \ {Taken(s)}) + 1
    BY <1>1, <2>1, OneLess
  <2>3. s \in SUBSET S /\ s \in SUBSET R
    BY <1>0
  <2>4. g[s] = f[Taken(s)] + g[s \ {Taken(s)}] /\ h[s] = e[Taken(s)] + h[s \ {Taken(s)}]
    BY <2>3 DEF Sums
  <2> QED BY <2>1, <2>2, <2>4
<1>3. g[{}] = 0 /\ h[{}] = 0
  BY DEF Sums
<1>4. 0 \in P
  <2> SUFFICES ASSUME NEW s \in SUBSET T, Cardinality(s) <= 0 PROVE g[s] = h[s]
    OBVIOUS
  <2>1. s # {} => Cardinality(s \ {Taken(s)}) \in Nat
                  /\ Cardinality(s) = Cardinality(s \ {Taken(s)}) + 1
    BY <1>1, <1>2
  <2> QED BY <1>1, <1>3, <2>1
<1>5. ASSUME NEW n \in Nat, n \in P PROVE n + 1 \in P
  <2> SUFFICES ASSUME NEW s \in SUBSET T, Cardinality(s) <= n + 1 PROVE g[s] = h[s]
    OBVIOUS
  <2>1. CASE s = {}
    BY <1>3, <2>1
  <2>2. CASE s # {}
    <3> DEFINE less == s \ {Taken(s)}
    <3>1. less \in SUBSET T /\ Cardinality(less) \in Nat /\ Cardinality(less) <= n
      BY <1>1, <1>2, <2>2
    <3>2. g[less] = h[less]
      BY <1>5, <3>1
    <3> QED BY <1>2, <2>2, <3>2
  <2> QED BY <2>1, <2>2
<1> HIDE DEF P
<1>6. \A n \in Nat : n \in P
  BY <1>4, <1>5, NumberInduction
<1> QED BY <1>0, <1>1, <1>6 DEF P

\* What the library's fold computes, by its definition.
LEMMA SumByEquation ==
  ASSUME NEW S, NEW f
  PROVE  SumOf(f, S) = (CHOOSE g : Sums(g, f, S))[S]
BY DEF SumOf, MapThenSumSet, MapThenFoldSet, Sums, Taken

\* A sum and the function that has it among its values.
LEMMA SumKnown ==
  ASSUME NEW S, IsFiniteSet(S), NEW f, \A x \in S : f[x] \in Nat,
         NEW g, Sums(g, f, S)
  PROVE  SumOf(f, S) = g[S]
<1> DEFINE h == CHOOSE h : Sums(h, f, S)
<1>1. Sums(h, f, S)
  OBVIOUS
<1>2. SumOf(f, S) = h[S]
  BY SumByEquation
<1> HIDE DEF h
<1>3. h[S] = g[S]
  BY <1>1, SumsAgree
<1> QED BY <1>2, <1>3

\* The sum over the empty set.
LEMMA SumOfNone == ASSUME NEW f PROVE SumOf(f, {}) = 0
<1>1. IsFiniteSet({}) /\ \A x \in {} : f[x] \in Nat
  BY FS_EmptySet
<1>2. PICK g : Sums(g, f, {})
  BY <1>1, SumsExist
<1>3. SumOf(f, {}) = g[{}]
  BY <1>1, <1>2, SumKnown
<1> QED BY <1>2, <1>3 DEF Sums

\* A sum of numbers is one.
LEMMA SumType ==
  ASSUME NEW S, IsFiniteSet(S), NEW f, \A x \in S : f[x] \in Nat
  PROVE  SumOf(f, S) \in Nat
<1>1. PICK g \in [SUBSET S -> Nat] : Sums(g, f, S)
  BY SumsExist
<1>2. SumOf(f, S) = g[S]
  BY <1>1, SumKnown
<1> QED BY <1>1, <1>2

\* A sum depends on what is summed only.
LEMMA SumAgree ==
  ASSUME NEW S, IsFiniteSet(S), NEW f, NEW e,
         \A x \in S : f[x] \in Nat /\ f[x] = e[x]
  PROVE  SumOf(f, S) = SumOf(e, S)
<1>1. \A x \in S : f[x] \in Nat /\ e[x] \in Nat
  OBVIOUS
<1>2. PICK g : Sums(g, f, S)
  BY <1>1, SumsExist
<1>3. PICK h : Sums(h, e, S)
  BY <1>1, SumsExist
<1>4. g[S] = h[S]
  BY <1>2, <1>3, SumsAgree
<1>5. SumOf(f, S) = g[S] /\ SumOf(e, S) = h[S]
  BY <1>1, <1>2, <1>3, SumKnown
<1> QED BY <1>4, <1>5

\* An element can be summed apart.
LEMMA SumWithout ==
  ASSUME NEW S, IsFiniteSet(S), NEW f, \A x \in S : f[x] \in Nat, NEW y \in S
  PROVE  SumOf(f, S) = f[y] + SumOf(f, S \ {y})
<1>1. IsFiniteSet(S \ {y}) /\ S \in SUBSET S
  BY FS_Subset
<1>2. PICK g \in [SUBSET S -> Nat] : Sums(g, f, S)
  BY SumsExist
<1>3. PICK h : Sums(h, f, S \ {y})
  BY <1>1, SumsExist
<1>4. g[S] = f[y] + g[S \ {y}]
  BY ONLY IsFiniteSet(S), \A x \in S : f[x] \in Nat, y \in S, <1>1, <1>2, SumsPick
<1>5. g[S \ {y}] = h[S \ {y}]
  BY <1>1, <1>2, <1>3, SumsAgree
<1>6. SumOf(f, S) = g[S]
  BY <1>2, SumKnown
<1>7. SumOf(f, S \ {y}) = h[S \ {y}]
  BY <1>1, <1>3, SumKnown
<1> QED BY <1>4, <1>5, <1>6, <1>7

-----------------------------------------------------------------------------
(* Sequences of sequences.                                                 *)

\* The equation of the function that joins the first i of the sequences.
JoinStep(g, ss, i) == IF i = 1 THEN ss[i] ELSE g[i - 1] \o ss[i]
Joins(g, ss) == g = [i \in 1..Len(ss) |-> JoinStep(g, ss, i)]

\* The equation at one place.
LEMMA JoinsAt ==
  ASSUME NEW ss, NEW g, Joins(g, ss), NEW i \in 1..Len(ss)
  PROVE  g[i] = IF i = 1 THEN ss[i] ELSE g[i - 1] \o ss[i]
<1>1. g[i] = JoinStep(g, ss, i)
  BY DEF Joins
<1> QED BY <1>1 DEF JoinStep

\* The sequences can be joined.
LEMMA JoinsExist ==
  ASSUME NEW S, NEW ss \in Seq(Seq(S))
  PROVE  \E g \in [1..Len(ss) -> Seq(S)] : Joins(g, ss)
<1> DEFINE L == Len(ss)
           Step(g, i) == JoinStep(g, ss, i)
           P == {n \in Nat : \E g \in [1..L -> Seq(S)] :
                   \A i \in 1..L : i <= n => g[i] = Step(g, i)}
<1>1. L \in Nat /\ \A i \in 1..L : ss[i] \in Seq(S) /\ i \in Nat /\ (i # 1 => i - 1 \in 1..L)
  OBVIOUS
<1>2. 0 \in P
  <2> DEFINE g == [i \in 1..L |-> <<>>]
  <2>1. g \in [1..L -> Seq(S)] /\ \A i \in 1..L : ~(i <= 0)
    OBVIOUS
  <2> QED BY <2>1
<1>3. ASSUME NEW n \in Nat, n \in P PROVE n + 1 \in P
  <2>1. PICK g \in [1..L -> Seq(S)] : \A i \in 1..L : i <= n => g[i] = Step(g, i)
    BY <1>3
  <2> DEFINE h == [i \in 1..L |-> Step(g, i)]
  <2>2. h \in [1..L -> Seq(S)]
    <3>1. ASSUME NEW i \in 1..L PROVE Step(g, i) \in Seq(S)
      <4>1. CASE i = 1
        BY <1>1, <4>1 DEF JoinStep
      <4>2. CASE i # 1
        <5>1. g[i - 1] \in Seq(S) /\ ss[i] \in Seq(S)
          BY <1>1, <4>2
        <5> QED BY <4>2, <5>1 DEF JoinStep
      <4> QED BY <4>1, <4>2
    <3> QED BY <3>1
  <2>3. ASSUME NEW i \in 1..L, i <= n + 1 PROVE h[i] = Step(h, i)
    <3>1. CASE i = 1
      BY <3>1 DEF JoinStep
    <3>2. CASE i # 1
      <4>1. i - 1 \in 1..L /\ i - 1 <= n
        BY <1>1, <2>3, <3>2
      <4>2. h[i - 1] = g[i - 1]
        BY <2>1, <4>1
      <4> QED BY <3>2, <4>2 DEF JoinStep
    <3> QED BY <3>1, <3>2
  <2>4. \A i \in 1..L : i <= n + 1 => h[i] = Step(h, i)
    BY <2>3
  <2> HIDE DEF h, Step
  <2>5. \E x \in [1..L -> Seq(S)] : \A i \in 1..L : i <= n + 1 => x[i] = Step(x, i)
    BY ONLY <2>2, <2>4
  <2>6. n + 1 \in Nat
    BY ONLY n \in Nat
  <2> QED BY ONLY <2>5, <2>6
<1> HIDE DEF P
<1>4. \A n \in Nat : n \in P
  BY <1>2, <1>3, NumberInduction
<1>5. PICK g \in [1..L -> Seq(S)] : \A i \in 1..L : i <= L => g[i] = Step(g, i)
  BY <1>1, <1>4 DEF P
<1>6. ASSUME NEW i \in 1..L PROVE g[i] = Step(g, i)
  <2>1. i <= L
    BY <1>1
  <2> QED BY <1>5, <2>1
<1>7. g = [i \in 1..L |-> Step(g, i)]
  BY <1>6
<1> QED BY <1>7 DEF Joins

\* Two sequences have the same first m elements.
SameUpto(ss, tt, m) == \A i \in 1..m : ss[i] = tt[i]

\* How the first m sequences are joined does not depend on those after them.
LEMMA JoinsAgree ==
  ASSUME NEW ss, NEW tt, NEW g, NEW h, Joins(g, ss), Joins(h, tt),
         Len(ss) \in Nat, Len(tt) \in Nat,
         NEW m \in Nat, m <= Len(ss), m <= Len(tt), SameUpto(ss, tt, m),
         NEW k \in 1..m
  PROVE  g[k] = h[k]
<1> DEFINE P == {n \in Nat : n \in 1..m => g[n] = h[n]}
<1>1. 0 \in P
  OBVIOUS
<1>2. ASSUME NEW n \in Nat, n \in P PROVE n + 1 \in P
  <2> SUFFICES ASSUME n + 1 \in 1..m PROVE g[n + 1] = h[n + 1]
    OBVIOUS
  <2>1. n + 1 \in 1..Len(ss) /\ n + 1 \in 1..Len(tt) /\ ss[n + 1] = tt[n + 1]
    BY DEF SameUpto
  <2>2. /\ g[n + 1] = IF n + 1 = 1 THEN ss[n + 1] ELSE g[n + 1 - 1] \o ss[n + 1]
        /\ h[n + 1] = IF n + 1 = 1 THEN tt[n + 1] ELSE h[n + 1 - 1] \o tt[n + 1]
    BY <2>1, JoinsAt
  <2>3. CASE n = 0
    BY <2>1, <2>2, <2>3
  <2>4. CASE n # 0
    <3>1. n + 1 - 1 = n /\ n \in 1..m
      BY <2>4
    <3>2. g[n + 1 - 1] = h[n + 1 - 1]
      BY <1>2, <3>1
    <3> QED BY <2>1, <2>2, <2>4, <3>2
  <2> QED BY <2>3, <2>4
<1> HIDE DEF P
<1>3. \A n \in Nat : n \in P
  BY <1>1, <1>2, NumberInduction
<1> QED BY <1>3 DEF P

\* What FlattenSeq computes, from the function that joins.
LEMMA FlattenKnown ==
  ASSUME NEW S, NEW ss \in Seq(Seq(S)), ss # <<>>, NEW g, Joins(g, ss)
  PROVE  FlattenSeq(ss) = g[Len(ss)]
<1> DEFINE h == CHOOSE h : Joins(h, ss)
<1>1. Joins(h, ss)
  OBVIOUS
<1>2. Len(ss) \in Nat /\ Len(ss) # 0
  OBVIOUS
<1>3. FlattenSeq(ss) = h[Len(ss)]
  BY <1>2 DEF FlattenSeq, Joins, JoinStep
<1> HIDE DEF h
<1>4. Len(ss) \in 1..Len(ss) /\ Len(ss) <= Len(ss) /\ SameUpto(ss, ss, Len(ss))
  BY <1>2 DEF SameUpto
<1>5. g[Len(ss)] = h[Len(ss)]
  BY <1>1, <1>2, <1>4, JoinsAgree
<1> QED BY <1>3, <1>5

\* No sequences make the empty one.
LEMMA FlattenNone == FlattenSeq(<<>>) = <<>>
BY DEF FlattenSeq

\* Sequences of elements make one.
LEMMA FlattenType ==
  ASSUME NEW S, NEW ss \in Seq(Seq(S))
  PROVE  FlattenSeq(ss) \in Seq(S)
<1>1. CASE ss = <<>>
  <2>1. <<>> \in Seq(S)
    OBVIOUS
  <2> QED BY <1>1, <2>1, FlattenNone
<1>2. CASE ss # <<>>
  <2>1. PICK g \in [1..Len(ss) -> Seq(S)] : Joins(g, ss)
    BY JoinsExist
  <2>2. FlattenSeq(ss) = g[Len(ss)]
    BY <1>2, <2>1, FlattenKnown
  <2>3. Len(ss) \in 1..Len(ss)
    BY <1>2
  <2> QED BY <2>2, <2>3
<1> QED BY <1>1, <1>2

\* The last of the sequences follows the others.
LEMMA FlattenLast ==
  ASSUME NEW S, NEW ss \in Seq(Seq(S)), NEW tt \in Seq(Seq(S)), ss # <<>>,
         Len(tt) = Len(ss) + 1, \A i \in 1..Len(ss) : ss[i] = tt[i]
  PROVE  FlattenSeq(tt) = FlattenSeq(ss) \o tt[Len(tt)]
<1>1. /\ Len(ss) \in Nat /\ Len(tt) \in Nat /\ Len(ss) # 0 /\ tt # <<>>
      /\ Len(ss) \in 1..Len(ss) /\ Len(tt) \in 1..Len(tt) /\ Len(tt) # 1
      /\ Len(ss) <= Len(ss) /\ Len(ss) <= Len(tt) /\ Len(tt) - 1 = Len(ss)
  OBVIOUS
<1>2. PICK h : Joins(h, tt)
  BY JoinsExist
<1>3. PICK g : Joins(g, ss)
  BY JoinsExist
<1>4. FlattenSeq(tt) = h[Len(tt)] /\ FlattenSeq(ss) = g[Len(ss)]
  BY <1>1, <1>2, <1>3, FlattenKnown
<1>5. h[Len(tt)] = h[Len(ss)] \o tt[Len(tt)]
  <2>1. h[Len(tt)] = IF Len(tt) = 1 THEN tt[Len(tt)] ELSE h[Len(tt) - 1] \o tt[Len(tt)]
    BY ONLY <1>1, <1>2, JoinsAt
  <2> QED BY <1>1, <2>1
<1>6. g[Len(ss)] = h[Len(ss)]
  <2>1. SameUpto(ss, tt, Len(ss))
    BY DEF SameUpto
  <2> QED BY ONLY <1>1, <1>2, <1>3, <2>1, JoinsAgree
<1> QED BY <1>4, <1>5, <1>6

\* A sequence is what flattening makes of it alone.
LEMMA FlattenOne ==
  ASSUME NEW S, NEW s \in Seq(S)
  PROVE  FlattenSeq(<<s>>) = s
<1>1. <<s>> \in Seq(Seq(S)) /\ Len(<<s>>) = 1 /\ <<s>>[1] = s /\ <<s>> # <<>>
      /\ 1 \in 1..1
  OBVIOUS
<1>2. PICK g \in [1..Len(<<s>>) -> Seq(S)] : Joins(g, <<s>>)
  BY <1>1, JoinsExist
<1>3. FlattenSeq(<<s>>) = g[Len(<<s>>)]
  BY <1>1, <1>2, FlattenKnown
<1>4. g[1] = <<s>>[1]
  BY <1>1, <1>2, JoinsAt
<1> QED BY <1>1, <1>3, <1>4

\* One sequence more follows the others.
LEMMA FlattenAppend ==
  ASSUME NEW S, NEW ss \in Seq(Seq(S)), NEW s \in Seq(S)
  PROVE  FlattenSeq(Append(ss, s)) = FlattenSeq(ss) \o s
<1> DEFINE T == Seq(S)
<1>1. ss \in Seq(T) /\ s \in T
  OBVIOUS
<1> HIDE DEF T
<1>2. /\ Append(ss, s) \in Seq(T) /\ Len(Append(ss, s)) = Len(ss) + 1
      /\ Append(ss, s)[Len(ss) + 1] = s
      /\ \A i \in 1..Len(ss) : ss[i] = Append(ss, s)[i]
  BY <1>1
<1>3. CASE ss = <<>>
  <2>1. Append(ss, s) = <<s>> /\ <<>> \o s = s
    BY <1>3
  <2> QED BY <1>3, <2>1, FlattenOne, FlattenNone
<1>4. CASE ss # <<>>
  <2>1. FlattenSeq(Append(ss, s)) = FlattenSeq(ss) \o Append(ss, s)[Len(Append(ss, s))]
    BY <1>2, <1>4, FlattenLast DEF T
  <2> QED BY <1>2, <2>1
<1> QED BY <1>3, <1>4

-----------------------------------------------------------------------------
(* Folds of a sequence, from the left.                                     *)

\* A set of numbers up to L has a greatest one.
LEMMA GreatestNumber ==
  ASSUME NEW L \in Nat, NEW t, t \subseteq 1..L, t # {}
  PROVE  Max(t) \in t
<1> DEFINE D == {L - x : x \in t}
<1>0. \A x \in t : L - x \in Nat /\ x \in Int
  OBVIOUS
<1>1. D \subseteq Nat /\ D # {}
  BY <1>0
<1>2. PICK n \in D : \A m \in D : n <= m
  BY <1>1, LeastNumber
<1>3. PICK x \in t : n = L - x
  BY <1>2
<1>4. \A y \in t : x >= y
  <2> SUFFICES ASSUME NEW y \in t PROVE x >= y
    OBVIOUS
  <2>1. L - x <= L - y
    BY <1>2, <1>3
  <2>2. x \in Int /\ y \in Int
    BY <1>3
  <2> QED BY <2>1, <2>2
<1> QED BY <1>3, <1>4 DEF Max

\* The greatest of the first n numbers is n.
LEMMA GreatestUpto ==
  ASSUME NEW n \in Nat, n # 0
  PROVE  Max(1..n) = n /\ (1..n) \ {n} = 1..(n - 1)
<1>1. n \in 1..n /\ \A y \in 1..n : n >= y
  OBVIOUS
<1>2. ASSUME NEW x \in 1..n, \A y \in 1..n : x >= y PROVE x = n
  <2>1. x >= n
    BY <1>1, <1>2
  <2> QED BY <2>1
<1> QED BY <1>1, <1>2 DEF Max

\* The equation of the function that folds seq at the places in a set.
FoldStep(g, F, base, seq, t) ==
  IF t = {} THEN base ELSE F[<<g[t \ {Max(t)}], seq[Max(t)]>>]

Folds(g, F, base, seq) ==
  g = [t \in SUBSET (DOMAIN seq) |-> FoldStep(g, F, base, seq, t)]

\* A fold exists.
LEMMA FoldsExist ==
  ASSUME NEW A, NEW E, NEW F \in [A \X E -> A], NEW base \in A, NEW seq \in Seq(E)
  PROVE  \E g \in [SUBSET (DOMAIN seq) -> A] : Folds(g, F, base, seq)
<1> DEFINE D == DOMAIN seq
           Step(g, t) == FoldStep(g, F, base, seq, t)
           Upto(g, n) == \A t \in SUBSET D : Cardinality(t) <= n => g[t] = Step(g, t)
           P == {n \in Nat : \E g \in [SUBSET D -> A] : Upto(g, n)}
<1>0. /\ D = 1..Len(seq) /\ Len(seq) \in Nat /\ IsFiniteSet(D)
      /\ \A i \in D : seq[i] \in E
  BY FS_Interval
<1> HIDE DEF D
<1>1. \A t \in SUBSET D : IsFiniteSet(t) /\ Cardinality(t) \in Nat
  BY <1>0, FS_Subset, FS_CardinalityType
<1>2. \A t \in SUBSET D : t # {} => Max(t) \in t
  BY <1>0, GreatestNumber
<1>3. \A t \in SUBSET D : t # {} =>
        /\ Max(t) \in D /\ t \ {Max(t)} \in SUBSET D
        /\ Cardinality(t) = Cardinality(t \ {Max(t)}) + 1
  BY <1>1, <1>2, OneLess
<1>4. ASSUME NEW g \in [SUBSET D -> A], NEW t \in SUBSET D PROVE Step(g, t) \in A
  <2>1. CASE t = {}
    BY <2>1 DEF FoldStep
  <2>2. CASE t # {}
    <3>1. g[t \ {Max(t)}] \in A /\ seq[Max(t)] \in E
      BY <1>0, <1>3, <2>2
    <3>2. F[<<g[t \ {Max(t)}], seq[Max(t)]>>] \in A
      BY <3>1
    <3> QED BY <2>2, <3>2 DEF FoldStep
  <2> QED BY <2>1, <2>2
<1>5. 0 \in P
  <2> DEFINE g == [t \in SUBSET D |-> base]
  <2>1. ASSUME NEW t \in SUBSET D, Cardinality(t) <= 0 PROVE t = {}
    <3>1. t # {} => Cardinality(t \ {Max(t)}) \in Nat
                    /\ Cardinality(t) = Cardinality(t \ {Max(t)}) + 1
      BY <1>1, <1>3
    <3>2. Cardinality(t) \in Nat
      BY <1>1
    <3> QED BY <2>1, <3>1, <3>2
  <2>2. g \in [SUBSET D -> A] /\ Upto(g, 0)
    BY <2>1 DEF FoldStep
  <2> QED BY <2>2
<1>6. ASSUME NEW n \in Nat, n \in P PROVE n + 1 \in P
  <2>1. PICK g \in [SUBSET D -> A] : Upto(g, n)
    BY <1>6
  <2> DEFINE h == [t \in SUBSET D |-> Step(g, t)]
  <2>2. h \in [SUBSET D -> A]
    BY <1>4
  <2>3. \A t \in SUBSET D : Cardinality(t) <= n => h[t] = g[t]
    BY <2>1
  <2>4. ASSUME NEW t \in SUBSET D, Cardinality(t) <= n + 1 PROVE h[t] = Step(h, t)
    <3>1. CASE t = {}
      BY <3>1 DEF FoldStep
    <3>2. CASE t # {}
      <4>1. t \ {Max(t)} \in SUBSET D /\ Cardinality(t \ {Max(t)}) <= n
        <5>1. /\ t \ {Max(t)} \in SUBSET D
              /\ Cardinality(t) = Cardinality(t \ {Max(t)}) + 1
          BY <1>3, <3>2
        <5>2. Cardinality(t \ {Max(t)}) \in Nat
          BY <1>1, <5>1
        <5> QED BY <2>4, <5>1, <5>2
      <4>2. h[t \ {Max(t)}] = g[t \ {Max(t)}]
        BY <2>3, <4>1
      <4> QED BY <3>2, <4>2 DEF FoldStep
    <3> QED BY <3>1, <3>2
  <2>5. Upto(h, n + 1)
    BY <2>4
  <2> HIDE DEF h, Upto
  <2>6. \E x \in [SUBSET D -> A] : Upto(x, n + 1)
    BY ONLY <2>2, <2>5
  <2>7. n + 1 \in Nat
    BY ONLY n \in Nat
  <2> QED BY ONLY <2>6, <2>7
<1> HIDE DEF P
<1>7. \A n \in Nat : n \in P
  BY <1>5, <1>6, NumberInduction
<1>8. PICK g \in [SUBSET D -> A] : Upto(g, Cardinality(D))
  BY <1>1, <1>7 DEF P
<1>9. \A t \in SUBSET D : Cardinality(t) <= Cardinality(D)
  BY <1>0, FS_Subset
<1>10. \A t \in SUBSET D : g[t] = Step(g, t)
  BY <1>8, <1>9
<1>11. g = [t \in SUBSET D |-> Step(g, t)]
  BY <1>10
<1> QED BY <1>11 DEF Folds, D
=============================================================================
