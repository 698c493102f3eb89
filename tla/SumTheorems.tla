---------------------------- MODULE SumTheorems ----------------------------
(***************************************************************************)
(* Sums over a finite set, MapThenSumSet of FiniteSetsExt: the recursion   *)
(* it is defined by has a solution, so a sum over a finite set can be      *)
(* taken apart and put together again.                                     *)
(***************************************************************************)
EXTENDS Integers, FiniteSetsExt, FiniteSetTheorems, WellFoundedInduction,
        TLAPS

(***************************************************************************)
(* Induction, over sets rather than over predicates.                       *)
(***************************************************************************)

LEMMA NatSetInduction ==
  ASSUME NEW T, 0 \in T, \A n \in Nat : n \in T => n + 1 \in T
  PROVE  Nat \subseteq T
<1> DEFINE R == OpToRel(<, Nat)
<1> SUFFICES ASSUME Nat \ T # {} PROVE FALSE
  OBVIOUS
<1>1. IsWellFoundedOn(R, Nat)
  BY NatLessThanWellFounded
<1> HIDE DEF R
<1>2. PICK m \in Nat \ T : \A k \in Nat \ T : ~ (<<k, m>> \in R)
  BY <1>1, WFMin
<1>3. \A k \in Nat \ T : ~ (k < m)
  BY <1>2 DEF R, OpToRel
<1> QED
  BY <1>3, m - 1 \in Nat

\* Every subset of a finite set is reached from the empty set by putting
\* elements in.
LEMMA SubsetInduction ==
  ASSUME NEW S, IsFiniteSet(S), NEW T, {} \in T,
         \A s \in SUBSET S : s # {} /\ (\A x \in s : s \ {x} \in T) => s \in T
  PROVE  SUBSET S \subseteq T
<1> DEFINE N == {n \in Nat : \A s \in SUBSET S : Cardinality(s) = n => s \in T}
<1>1. \A s \in SUBSET S : IsFiniteSet(s) /\ Cardinality(s) \in Nat
  BY FS_Subset, FS_CardinalityType
<1>2. 0 \in N
  BY <1>1, FS_EmptySet
<1>3. ASSUME NEW n \in N PROVE n + 1 \in N
  <2> SUFFICES ASSUME NEW s \in SUBSET S, Cardinality(s) = n + 1
               PROVE  s \in T
    OBVIOUS
  <2>1. s # {}
    BY FS_EmptySet
  <2>2. ASSUME NEW x \in s PROVE s \ {x} \in T
    <3>1. Cardinality(s \ {x}) = n
      BY <1>1, FS_RemoveElement
    <3> QED
      BY <3>1
  <2> QED
    BY <2>1, <2>2
<1>4. Nat \subseteq N
  <2> HIDE DEF N
  <2> QED
    BY <1>2, <1>3, NatSetInduction
<1> QED
  BY <1>1, <1>4

(***************************************************************************)
(* The recursion of MapThenSumSet.                                         *)
(***************************************************************************)

Sum(h, S) == MapThenSumSet(LAMBDA o : h[o], S)

Picked(s) == CHOOSE x \in s : TRUE

Added(h, g, s) == IF s = {} THEN 0 ELSE h[Picked(s)] + g[s \ {Picked(s)}]

IsSum(h, S, g) == g = [s \in SUBSET S |-> Added(h, g, s)]

\* MapThenSumSet takes some function that conforms to the recursion...
LEMMA SumChosen ==
  ASSUME NEW S, NEW h
  PROVE  Sum(h, S) = (CHOOSE g : IsSum(h, S, g))[S]
BY DEF Sum, MapThenSumSet, MapThenFoldSet, IsSum, Added, Picked

\* ... and there is one.
LEMMA SumExists ==
  ASSUME NEW S, IsFiniteSet(S), NEW h
  PROVE  \E g : IsSum(h, S, g)
<1> DEFINE Upto(g, n) ==
      \A s \in SUBSET S : Cardinality(s) <= n => g[s] = Added(h, g, s)
<1> DEFINE N == {n \in Nat : \E g : Upto(g, n)}
<1>1. \A s \in SUBSET S : IsFiniteSet(s) /\ Cardinality(s) \in Nat
  BY FS_Subset, FS_CardinalityType
<1>2. 0 \in N
  <2>1. \A s \in SUBSET S : Cardinality(s) <= 0 => s = {}
    BY <1>1, FS_EmptySet
  <2>2. Upto([s \in SUBSET S |-> 0], 0)
    BY <2>1 DEF Added
  <2> QED
    BY <2>2
<1>3. ASSUME NEW n \in Nat, n \in N PROVE n + 1 \in N
  <2>1. PICK g : Upto(g, n)
    BY <1>3
  <2> DEFINE G == [s \in SUBSET S |-> Added(h, g, s)]
  <2>2. ASSUME NEW s \in SUBSET S, Cardinality(s) <= n + 1
        PROVE  G[s] = Added(h, G, s)
    <3>1. CASE s = {}
      BY <3>1 DEF Added
    <3>2. CASE s # {}
      <4>1. Picked(s) \in s
        BY <3>2 DEF Picked
      <4> DEFINE r == s \ {Picked(s)}
      <4>2. r \in SUBSET S /\ Cardinality(r) <= n
        BY <1>1, <2>2, <4>1, FS_RemoveElement
      <4>3. g[r] = G[r]
        BY <2>1, <4>2
      <4> QED
        BY <3>2, <4>3 DEF Added
    <3> QED
      BY <3>1, <3>2
  <2>3. \E u : Upto(u, n + 1)
    BY <2>2, Upto(G, n + 1)
  <2> QED
    BY <2>3
<1>4. Cardinality(S) \in N
  <2> HIDE DEF N
  <2> QED
    BY <1>1, <1>2, <1>3, NatSetInduction
<1>5. PICK g : Upto(g, Cardinality(S))
  BY <1>4
<1> DEFINE G == [s \in SUBSET S |-> g[s]]
<1>6. ASSUME NEW s \in SUBSET S PROVE G[s] = Added(h, G, s)
  <2>1. Cardinality(s) <= Cardinality(S)
    BY FS_Subset
  <2>2. g[s] = Added(h, g, s)
    BY <1>5, <2>1
  <2> QED
    BY <2>2 DEF Added
<1>7. IsSum(h, S, G)
  BY <1>6 DEF IsSum
<1> QED
  BY <1>7

LEMMA SumConforms ==
  ASSUME NEW S, IsFiniteSet(S), NEW h
  PROVE  \E g : IsSum(h, S, g) /\ Sum(h, S) = g[S]
BY SumChosen, SumExists, Zenon

(***************************************************************************)
(* Taking a sum apart.                                                     *)
(***************************************************************************)

LEMMA SumInt ==
  ASSUME NEW S, IsFiniteSet(S), NEW h \in [S -> Int], NEW g, IsSum(h, S, g)
  PROVE  \A s \in SUBSET S : g[s] \in Int
<1> DEFINE T == {s \in SUBSET S : g[s] \in Int}
<1>1. \A s \in SUBSET S : g[s] = Added(h, g, s)
  BY DEF IsSum
<1>2. {} \in T
  BY <1>1 DEF Added
<1>3. ASSUME NEW s \in SUBSET S, s # {}, \A x \in s : s \ {x} \in T
      PROVE  s \in T
  <2>1. Picked(s) \in s
    BY <1>3 DEF Picked
  <2>2. h[Picked(s)] \in Int /\ g[s \ {Picked(s)}] \in Int
    BY <1>3, <2>1
  <2>3. g[s] = h[Picked(s)] + g[s \ {Picked(s)}]
    BY <1>1, <1>3 DEF Added
  <2> QED
    BY <2>2, <2>3
<1>4. SUBSET S \subseteq T
  <2> HIDE DEF T
  <2> QED
    BY <1>2, <1>3, SubsetInduction
<1> QED
  BY <1>4

TakenOut(h, g, s, x) == g[s] = h[x] + g[s \ {x}]

\* Whatever element the recursion picks, any one can be taken out.
LEMMA SumSplit ==
  ASSUME NEW S, IsFiniteSet(S), NEW h \in [S -> Int], NEW g, IsSum(h, S, g),
         NEW e \in S
  PROVE  TakenOut(h, g, S, e)
<1> DEFINE T == {s \in SUBSET S : \A x \in s : g[s] = h[x] + g[s \ {x}]}
<1>1. \A s \in SUBSET S : g[s] = Added(h, g, s) /\ g[s] \in Int
  BY SumInt DEF IsSum
<1>2. {} \in T
  OBVIOUS
<1>3. ASSUME NEW s \in SUBSET S, s # {}, \A x \in s : s \ {x} \in T
      PROVE  s \in T
  <2> DEFINE p == Picked(s)
  <2>1. p \in s
    BY <1>3 DEF Picked
  <2>2. g[s] = h[p] + g[s \ {p}]
    BY <1>1, <1>3 DEF Added
  <2> HIDE DEF p
  <2>3. ASSUME NEW x \in s, x # p PROVE g[s] = h[x] + g[s \ {x}]
    <3>1. g[s \ {p}] = h[x] + g[(s \ {p}) \ {x}]
      BY <1>3, <2>1, <2>3
    <3>2. g[s \ {x}] = h[p] + g[(s \ {x}) \ {p}]
      BY <1>3, <2>1, <2>3
    <3>3. g[s \ {x}] = h[p] + g[(s \ {p}) \ {x}]
      <4>1. (s \ {x}) \ {p} = (s \ {p}) \ {x}
        OBVIOUS
      <4> QED
        BY <3>2, <4>1
    <3>4. g[(s \ {p}) \ {x}] \in Int /\ h[x] \in Int /\ h[p] \in Int
      BY <1>1, <2>1
    <3> QED
      BY <2>2, <3>1, <3>3, <3>4
  <2> QED
    BY <2>2, <2>3
<1>4. SUBSET S \subseteq T
  <2> HIDE DEF T
  <2> QED
    BY <1>2, <1>3, SubsetInduction
<1> QED
  BY <1>4 DEF TakenOut

\* Only the summands matter.
LEMMA SumAgree ==
  ASSUME NEW S, IsFiniteSet(S), NEW h \in [S -> Int], NEW k \in [S -> Int],
         NEW g, IsSum(h, S, g), NEW f, IsSum(k, S, f)
  PROVE  \A s \in SUBSET S : (\A x \in s : h[x] = k[x]) => g[s] = f[s]
<1> DEFINE T == {s \in SUBSET S : (\A x \in s : h[x] = k[x]) => g[s] = f[s]}
<1>1. \A s \in SUBSET S : g[s] = Added(h, g, s) /\ f[s] = Added(k, f, s)
  BY DEF IsSum
<1>2. {} \in T
  BY <1>1 DEF Added
<1>3. ASSUME NEW s \in SUBSET S, s # {}, \A x \in s : s \ {x} \in T
      PROVE  s \in T
  <2>1. Picked(s) \in s
    BY <1>3 DEF Picked
  <2> QED
    BY <1>1, <1>3, <2>1 DEF Added
<1>4. SUBSET S \subseteq T
  <2> HIDE DEF T
  <2> QED
    BY <1>2, <1>3, SubsetInduction
<1> QED
  BY <1>4

(***************************************************************************)
(* The theorems.                                                           *)
(***************************************************************************)

\* A sum of integers is an integer.
THEOREM SumType ==
  ASSUME NEW S, IsFiniteSet(S), NEW h \in [S -> Int]
  PROVE  Sum(h, S) \in Int
BY SumConforms, SumInt

\* A sum of nothing but zeroes is zero.
THEOREM SumZero ==
  ASSUME NEW S, IsFiniteSet(S)
  PROVE  Sum([o \in S |-> 0], S) = 0
<1> DEFINE z == [o \in S |-> 0]
<1>1. PICK g : IsSum(z, S, g) /\ Sum(z, S) = g[S]
  BY SumConforms
<1> DEFINE T == {s \in SUBSET S : g[s] = 0}
<1>2. \A s \in SUBSET S : g[s] = Added(z, g, s)
  BY <1>1 DEF IsSum
<1>3. {} \in T
  BY <1>2 DEF Added
<1>4. ASSUME NEW s \in SUBSET S, s # {}, \A x \in s : s \ {x} \in T
      PROVE  s \in T
  <2>1. Picked(s) \in s
    BY <1>4 DEF Picked
  <2>2. z[Picked(s)] = 0 /\ g[s \ {Picked(s)}] = 0
    BY <1>4, <2>1
  <2> QED
    BY <1>2, <1>4, <2>2 DEF Added
<1>5. SUBSET S \subseteq T
  <2> HIDE DEF T
  <2> QED
    BY <1>3, <1>4, SubsetInduction
<1> QED
  BY <1>1, <1>5

\* Changing one summand changes the sum by as much.
THEOREM SumChange ==
  ASSUME NEW S, IsFiniteSet(S), NEW h \in [S -> Int], NEW k \in [S -> Int],
         NEW x \in S, \A o \in S \ {x} : k[o] = h[o]
  PROVE  Sum(k, S) = Sum(h, S) + k[x] - h[x]
<1>1. PICK g : IsSum(h, S, g) /\ Sum(h, S) = g[S]
  BY SumConforms
<1>2. PICK f : IsSum(k, S, f) /\ Sum(k, S) = f[S]
  BY SumConforms
<1> S \in SUBSET S /\ S \ {x} \in SUBSET S
  OBVIOUS
<1>3. g[S] = h[x] + g[S \ {x}] /\ g[S \ {x}] \in Int
  <2>1. g[S \ {x}] \in Int
    BY <1>1, SumInt
  <2>2. TakenOut(h, g, S, x)
    BY <1>1, SumSplit
  <2> QED
    BY <2>1, <2>2 DEF TakenOut
<1>4. f[S] = k[x] + f[S \ {x}] /\ f[S \ {x}] \in Int
  <2>1. f[S \ {x}] \in Int
    BY <1>2, SumInt
  <2>2. TakenOut(k, f, S, x)
    BY <1>2, SumSplit
  <2> QED
    BY <2>1, <2>2 DEF TakenOut
<1>5. f[S \ {x}] = g[S \ {x}]
  BY <1>1, <1>2, SumAgree
<1> QED
  BY <1>1, <1>2, <1>3, <1>4, <1>5

\* Moving an amount from one summand to another changes nothing.
THEOREM SumMove ==
  ASSUME NEW S, IsFiniteSet(S), NEW h \in [S -> Int], NEW k \in [S -> Int],
         NEW x \in S, NEW y \in S, x # y, k[x] + k[y] = h[x] + h[y],
         \A o \in S \ {x, y} : k[o] = h[o]
  PROVE  Sum(k, S) = Sum(h, S)
<1> DEFINE m == [h EXCEPT ![x] = k[x]]
<1>1. m \in [S -> Int] /\ m[x] = k[x] /\ \A o \in S \ {x} : m[o] = h[o]
  OBVIOUS
<1> HIDE DEF m
<1>2. Sum(m, S) = Sum(h, S) + k[x] - h[x]
  BY <1>1, SumChange
<1>3. Sum(k, S) = Sum(m, S) + k[y] - h[y]
  <2>1. \A o \in S \ {y} : k[o] = m[o]
    BY <1>1
  <2> QED
    BY <1>1, <2>1, SumChange
<1> QED
  BY <1>2, <1>3, SumType
=============================================================================
