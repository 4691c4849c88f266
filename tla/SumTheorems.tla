------------------------------ MODULE SumTheorems ------------------------------
(***************************************************************************)
(* What a sum over a finite set is: the lemmas the proofs about amounts    *)
(* rest on.  SumFunctionOnSet of the community modules adds the values of  *)
(* a function over a set in whatever order CHOOSE takes the elements; the  *)
(* lemmas say that the order does not matter, and that a sum may be split, *)
(* filtered, grouped by a key and renamed.                                 *)
(***************************************************************************)
EXTENDS Integers, FiniteSets, Functions, FiniteSetTheorems, WellFoundedInduction, TLAPS

-----------------------------------------------------------------------------
(* Induction over the subsets of a finite set, by a set of good ones.       *)

\* A set of subsets that holds every subset whose proper subsets it holds
\* holds them all.
LEMMA AllSubsets ==
  ASSUME NEW T, IsFiniteSet(T), NEW good,
         \A s \in SUBSET T : (\A u \in SUBSET s : u # s => u \in good) => s \in good
  PROVE  \A s \in SUBSET T : s \in good
<1>1. SUFFICES ASSUME NEW b \in SUBSET T, b \notin good PROVE FALSE
  OBVIOUS
<1> DEFINE bad == {s \in SUBSET T : s \notin good}
<1>2. FiniteSubsetsOf(T) = SUBSET T
  BY FS_FiniteSubsetsOfFinite
<1>3. bad \subseteq SUBSET T /\ bad # {}
  BY <1>1
<1> HIDE DEF bad
<1>6. IsWellFoundedOn(StrictSubsetOrdering(T), SUBSET T)
  BY <1>2, FS_StrictSubsetOrderingWellFounded
<1>4. PICK m \in bad : \A y \in bad : ~(<<y, m>> \in StrictSubsetOrdering(T))
  BY <1>3, <1>6, WFMin
<1> USE DEF bad
<1>5. ASSUME NEW u \in SUBSET m, u # m PROVE u \in good
  <2>1. u \in SUBSET T /\ <<u, m>> \in StrictSubsetOrdering(T)
    BY <1>5 DEF StrictSubsetOrdering
  <2> QED BY <1>4, <2>1
<1> QED BY <1>4, <1>5

\* A set of subsets that holds the empty one, and with a subset each one that
\* has an element more, holds the whole set.
LEMMA OneByOne ==
  ASSUME NEW T, IsFiniteSet(T), NEW good, {} \in good,
         \A s \in SUBSET T : \A x \in T : x \notin s /\ s \in good => s \cup {x} \in good
  PROVE  T \in good
<1>1. ASSUME NEW s \in SUBSET T, \A u \in SUBSET s : u # s => u \in good PROVE s \in good
  <2>1. CASE s = {}
    BY <2>1
  <2>2. CASE s # {}
    <3>1. PICK x \in s : TRUE
      BY <2>2
    <3>2. s \ {x} \in good /\ s \ {x} \in SUBSET T /\ x \notin s \ {x} /\ x \in T
      BY <1>1, <3>1
    <3>3. (s \ {x}) \cup {x} = s
      BY <3>1
    <3> QED BY <3>2, <3>3
  <2> QED BY <2>1, <2>2
<1> QED BY <1>1, AllSubsets

\* A set of natural numbers has a lowest one.
LEMMA Lowest ==
  ASSUME NEW S, S \subseteq Nat, S # {}
  PROVE  \E x \in S : \A y \in S : x <= y
<1>1. PICK x \in S : \A y \in S : ~(<<y, x>> \in OpToRel(<, Nat))
  BY NatLessThanWellFounded, WFMin
<1>2. \A y \in S : x \in Nat /\ y \in Nat
  OBVIOUS
<1>3. \A y \in S : ~(y < x)
  BY <1>1, <1>2, Zenon DEF OpToRel
<1> QED BY <1>2, <1>3

-----------------------------------------------------------------------------
(* The sum as the library defines it.                                       *)

Pick(s) == CHOOSE x \in s : TRUE

LEMMA Picked == \A s : s # {} => Pick(s) \in s
BY DEF Pick

\* g holds the sums of f over the subsets of S in D.
Sums(g, f, D) == g = [s \in D |-> IF s = {} THEN 0 ELSE f[Pick(s)] + g[s \ {Pick(s)}]]

\* The subsets with no more than k elements.
UpTo(S, k) == {s \in SUBSET S : Cardinality(s) <= k}

LEMMA SumsExist ==
  ASSUME NEW S, IsFiniteSet(S), NEW f
  PROVE  \E g : Sums(g, f, SUBSET S)
<1> DEFINE n == Cardinality(S)
           bad == {k \in Nat : ~\E g : Sums(g, f, UpTo(S, k))}
<1>0. \A s \in SUBSET S : IsFiniteSet(s) /\ Cardinality(s) \in Nat /\ Cardinality(s) <= n
  BY FS_Subset, FS_CardinalityType
<1>1. n \in Nat /\ UpTo(S, n) = SUBSET S
  BY <1>0, FS_CardinalityType DEF UpTo
<1>2. SUFFICES ASSUME n \in bad PROVE FALSE
  BY <1>1
<1>3. PICK m \in bad : \A y \in bad : m <= y
  BY <1>2, Lowest
<1>4. \A k \in Nat : k < m => k \notin bad
  BY <1>3
<1>5. CASE m = 0
  <2>1. \A s \in UpTo(S, 0) : s = {}
    BY <1>0, FS_EmptySet DEF UpTo
  <2>2. Sums([s \in UpTo(S, 0) |-> 0], f, UpTo(S, 0))
    BY <2>1 DEF Sums
  <2> QED BY <1>3, <1>5, <2>2
<1>6. CASE m # 0
  <2>1. m \in Nat /\ m - 1 \in Nat /\ m - 1 < m
    BY <1>3, <1>6
  <2>2. PICK g : Sums(g, f, UpTo(S, m - 1))
    BY <1>4, <2>1
  <2> DEFINE h == [s \in UpTo(S, m) |-> IF s = {} THEN 0 ELSE f[Pick(s)] + g[s \ {Pick(s)}]]
  <2>3. ASSUME NEW s \in UpTo(S, m - 1) PROVE h[s] = g[s]
    <3>1. s \in UpTo(S, m)
      BY <1>0, <2>1 DEF UpTo
    <3>2. g[s] = IF s = {} THEN 0 ELSE f[Pick(s)] + g[s \ {Pick(s)}]
      BY <2>2 DEF Sums
    <3> QED BY <3>1, <3>2
  <2>4. ASSUME NEW s \in UpTo(S, m), s # {} PROVE s \ {Pick(s)} \in UpTo(S, m - 1)
    <3>1. s \in SUBSET S /\ Pick(s) \in s /\ IsFiniteSet(s) /\ Cardinality(s) \in Nat /\ Cardinality(s) <= m
      BY <1>0, <2>4, Picked DEF UpTo
    <3>2. Cardinality(s \ {Pick(s)}) = Cardinality(s) - 1
      BY <3>1, FS_RemoveElement
    <3>3. s \ {Pick(s)} \in SUBSET S
      BY <3>1
    <3> QED BY <2>1, <3>1, <3>2, <3>3 DEF UpTo
  <2>5. h = [s \in UpTo(S, m) |-> IF s = {} THEN 0 ELSE f[Pick(s)] + h[s \ {Pick(s)}]]
    BY <2>3, <2>4
  <2> QED BY <1>3, <2>5 DEF Sums
<1> QED BY <1>5, <1>6

LEMMA SumUnfolds ==
  ASSUME NEW S, IsFiniteSet(S), NEW f
  PROVE  \E g : Sums(g, f, SUBSET S) /\ SumFunctionOnSet(f, S) = g[S]
<1>1. \E g : Sums(g, f, SUBSET S)
  BY SumsExist
<1> QED BY <1>1 DEF SumFunctionOnSet, FoldFunctionOnSet, MapThenFoldSet, Sums, Pick

\* The sums of a set and of a subset of it are taken in the same way.
LEMMA SumsAgree ==
  ASSUME NEW S, IsFiniteSet(S), NEW f, NEW g, Sums(g, f, SUBSET S), NEW T \in SUBSET S,
         NEW h, Sums(h, f, SUBSET T)
  PROVE  h[T] = g[T]
<1> DEFINE good == {s \in SUBSET T : h[s] = g[s]}
<1>1. IsFiniteSet(T)
  BY FS_Subset
<1>2. ASSUME NEW s \in SUBSET T, \A u \in SUBSET s : u # s => u \in good PROVE s \in good
  <2>1. CASE s = {}
    BY <2>1 DEF Sums
  <2>2. CASE s # {}
    <3>1. Pick(s) \in s
      BY <2>2, Picked
    <3>2. s \ {Pick(s)} \in good
      BY <1>2, <3>1
    <3>3. h[s] = f[Pick(s)] + h[s \ {Pick(s)}] /\ g[s] = f[Pick(s)] + g[s \ {Pick(s)}]
      BY <2>2 DEF Sums
    <3> QED BY <3>2, <3>3
  <2> QED BY <2>1, <2>2
<1> HIDE DEF good
<1>3. \A s \in SUBSET T : s \in good
  BY <1>1, <1>2, AllSubsets
<1> QED BY <1>3 DEF good

LEMMA SumOfNone == \A f : SumFunctionOnSet(f, {}) = 0
<1>1. ASSUME NEW f PROVE SumFunctionOnSet(f, {}) = 0
  <2>1. PICK g : Sums(g, f, SUBSET {}) /\ SumFunctionOnSet(f, {}) = g[{}]
    BY SumUnfolds, FS_EmptySet
  <2> QED BY <2>1 DEF Sums
<1> QED BY <1>1

\* The library takes the chosen element first.
LEMMA SumPicks ==
  ASSUME NEW S, IsFiniteSet(S), S # {}, NEW f
  PROVE  SumFunctionOnSet(f, S) = f[Pick(S)] + SumFunctionOnSet(f, S \ {Pick(S)})
<1>1. PICK g : Sums(g, f, SUBSET S) /\ SumFunctionOnSet(f, S) = g[S]
  BY SumUnfolds
<1> DEFINE T == S \ {Pick(S)}
<1>2. T \in SUBSET S /\ IsFiniteSet(T)
  BY FS_Subset
<1>3. PICK h : Sums(h, f, SUBSET T) /\ SumFunctionOnSet(f, T) = h[T]
  BY <1>2, SumUnfolds
<1> HIDE DEF T
<1>4. h[T] = g[T]
  <2>1. Sums(g, f, SUBSET S) /\ Sums(h, f, SUBSET T)
    BY <1>1, <1>3
  <2> QED BY <1>2, <2>1, SumsAgree
<1>5. g[S] = f[Pick(S)] + g[T]
  BY <1>1 DEF Sums, T
<1> QED BY <1>1, <1>3, <1>4, <1>5 DEF T

-----------------------------------------------------------------------------
(* Sums of whole numbers.                                                   *)

\* f has a whole number on every element of S.
Addable(f, S) == \A x \in S : f[x] \in Int

LEMMA SumIsWhole ==
  ASSUME NEW S, IsFiniteSet(S), NEW f, Addable(f, S)
  PROVE  SumFunctionOnSet(f, S) \in Int
<1> DEFINE good == {s \in SUBSET S : SumFunctionOnSet(f, s) \in Int}
<1>1. ASSUME NEW s \in SUBSET S, \A u \in SUBSET s : u # s => u \in good PROVE s \in good
  <2>1. CASE s = {}
    BY <2>1, SumOfNone
  <2>2. CASE s # {}
    <3>1. Pick(s) \in s /\ IsFiniteSet(s)
      BY <2>2, Picked, FS_Subset
    <3>2. s \ {Pick(s)} \in good /\ f[Pick(s)] \in Int
      BY <1>1, <3>1 DEF Addable
    <3>3. SumFunctionOnSet(f, s) = f[Pick(s)] + SumFunctionOnSet(f, s \ {Pick(s)})
      BY <2>2, <3>1, SumPicks
    <3> QED BY <3>2, <3>3
  <2> QED BY <2>1, <2>2
<1> HIDE DEF good
<1>2. S \in good
  BY <1>1, AllSubsets
<1> QED BY <1>2 DEF good

LEMMA SumsAreWhole ==
  ASSUME NEW S, IsFiniteSet(S), NEW f, Addable(f, S)
  PROVE  \A s \in SUBSET S : IsFiniteSet(s) /\ Addable(f, s) /\ SumFunctionOnSet(f, s) \in Int
<1>1. ASSUME NEW s \in SUBSET S PROVE IsFiniteSet(s) /\ Addable(f, s)
  BY FS_Subset DEF Addable
<1> QED BY <1>1, SumIsWhole

\* Any element may be taken first.
LEMMA SumTakes ==
  ASSUME NEW S, IsFiniteSet(S), NEW f, Addable(f, S), NEW x \in S
  PROVE  SumFunctionOnSet(f, S) = f[x] + SumFunctionOnSet(f, S \ {x})
<1> DEFINE Total(s) == SumFunctionOnSet(f, s)
           good == {s \in SUBSET S : \A y \in s : Total(s) = f[y] + Total(s \ {y})}
<1>0. \A s \in SUBSET S : IsFiniteSet(s) /\ Total(s) \in Int
  BY SumsAreWhole
<1>1. ASSUME NEW s \in SUBSET S, \A u \in SUBSET s : u # s => u \in good PROVE s \in good
  <2>1. SUFFICES ASSUME NEW y \in s PROVE Total(s) = f[y] + Total(s \ {y})
    OBVIOUS
  <2> DEFINE p == Pick(s)
  <2>2. p \in s /\ IsFiniteSet(s)
    BY <2>1, <1>0, Picked
  <2>3. Total(s) = f[p] + Total(s \ {p})
    BY <2>1, <2>2, SumPicks
  <2> HIDE DEF p
  <2>4. CASE y = p
    BY <2>3, <2>4
  <2>5. CASE y # p
    <3>1. s \ {p} \in good /\ y \in s \ {p} /\ s \ {y} \in good /\ p \in s \ {y}
      BY <1>1, <2>1, <2>2, <2>5
    <3>2. Total(s \ {p}) = f[y] + Total((s \ {p}) \ {y})
      BY <3>1
    <3>3. Total(s \ {y}) = f[p] + Total((s \ {y}) \ {p})
      BY <3>1
    <3>4. (s \ {p}) \ {y} = (s \ {y}) \ {p}
      OBVIOUS
    <3>5. f[y] \in Int /\ f[p] \in Int /\ Total((s \ {y}) \ {p}) \in Int
      BY <1>0, <2>1, <2>2 DEF Addable
    <3>6. PICK r \in Int : r = Total((s \ {y}) \ {p})
      BY <3>5
    <3>7. Total(s) = f[p] + (f[y] + r)
      BY <2>3, <3>2, <3>4, <3>6, Zenon
    <3>8. Total(s \ {y}) = f[p] + r
      BY <3>3, <3>6, Zenon
    <3> HIDE DEF Total
    <3> QED BY <3>5, <3>7, <3>8
  <2> QED BY <2>4, <2>5
<1> HIDE DEF good, Total
<1>2. S \in good
  BY <1>1, AllSubsets
<1> QED BY <1>2 DEF good, Total

\* ... and a new one added.
LEMMA SumGains ==
  ASSUME NEW S, IsFiniteSet(S), NEW f, Addable(f, S), NEW s \in SUBSET S, NEW x \in S, x \notin s
  PROVE  SumFunctionOnSet(f, s \cup {x}) = f[x] + SumFunctionOnSet(f, s)
<1>1. s \cup {x} \in SUBSET S /\ x \in s \cup {x} /\ (s \cup {x}) \ {x} = s
  OBVIOUS
<1>2. IsFiniteSet(s \cup {x}) /\ Addable(f, s \cup {x})
  BY <1>1, SumsAreWhole
<1>3. SumFunctionOnSet(f, s \cup {x}) = f[x] + SumFunctionOnSet(f, (s \cup {x}) \ {x})
  BY <1>1, <1>2, SumTakes
<1> QED BY <1>1, <1>3

LEMMA SumOfOne ==
  ASSUME NEW f, NEW x, f[x] \in Int
  PROVE  SumFunctionOnSet(f, {x}) = f[x]
<1>1. IsFiniteSet({x}) /\ Addable(f, {x}) /\ {} \in SUBSET {x} /\ {} \cup {x} = {x}
  BY FS_Singleton DEF Addable
<1>2. SumFunctionOnSet(f, {} \cup {x}) = f[x] + SumFunctionOnSet(f, {})
  BY <1>1, SumGains
<1> QED BY <1>1, <1>2, SumOfNone

-----------------------------------------------------------------------------
(* Sums of related functions over one set.                                  *)

LEMMA SumSame ==
  ASSUME NEW S, IsFiniteSet(S), NEW f, NEW g, Addable(f, S), \A x \in S : f[x] = g[x]
  PROVE  SumFunctionOnSet(f, S) = SumFunctionOnSet(g, S)
<1> DEFINE good == {s \in SUBSET S : SumFunctionOnSet(f, s) = SumFunctionOnSet(g, s)}
<1>0. Addable(g, S)
  BY DEF Addable
<1>1. {} \in good
  BY SumOfNone
<1>2. ASSUME NEW s \in SUBSET S, NEW x \in S, x \notin s, s \in good PROVE s \cup {x} \in good
  <2>1. SumFunctionOnSet(f, s \cup {x}) = f[x] + SumFunctionOnSet(f, s)
    BY <1>2, SumGains
  <2>2. SumFunctionOnSet(g, s \cup {x}) = g[x] + SumFunctionOnSet(g, s)
    BY <1>0, <1>2, SumGains
  <2> QED BY <1>2, <2>1, <2>2
<1> HIDE DEF good
<1>3. S \in good
  BY <1>1, <1>2, OneByOne
<1> QED BY <1>3 DEF good

LEMMA SumPlus ==
  ASSUME NEW S, IsFiniteSet(S), NEW f, NEW g, NEW h, Addable(f, S), Addable(g, S),
         \A x \in S : h[x] = f[x] + g[x]
  PROVE  SumFunctionOnSet(h, S) = SumFunctionOnSet(f, S) + SumFunctionOnSet(g, S)
<1> DEFINE good == {s \in SUBSET S : SumFunctionOnSet(h, s) = SumFunctionOnSet(f, s) + SumFunctionOnSet(g, s)}
<1>0. Addable(h, S)
  BY DEF Addable
<1>1. {} \in good
  BY SumOfNone
<1>2. ASSUME NEW s \in SUBSET S, NEW x \in S, x \notin s, s \in good PROVE s \cup {x} \in good
  <2>1. SumFunctionOnSet(f, s \cup {x}) = f[x] + SumFunctionOnSet(f, s)
    BY <1>2, SumGains
  <2>2. SumFunctionOnSet(g, s \cup {x}) = g[x] + SumFunctionOnSet(g, s)
    BY <1>2, SumGains
  <2>3. SumFunctionOnSet(h, s \cup {x}) = h[x] + SumFunctionOnSet(h, s)
    BY <1>0, <1>2, SumGains
  <2>4. SumFunctionOnSet(f, s) \in Int /\ SumFunctionOnSet(g, s) \in Int /\ f[x] \in Int /\ g[x] \in Int
    BY SumsAreWhole DEF Addable
  <2> QED BY <1>2, <2>1, <2>2, <2>3, <2>4
<1> HIDE DEF good
<1>3. S \in good
  BY <1>1, <1>2, OneByOne
<1> QED BY <1>3 DEF good

LEMMA SumOfZeros ==
  ASSUME NEW S, IsFiniteSet(S), NEW f, \A x \in S : f[x] = 0
  PROVE  SumFunctionOnSet(f, S) = 0
<1>1. Addable(f, S)
  BY DEF Addable
<1>2. SumFunctionOnSet(f, S) = SumFunctionOnSet(f, S) + SumFunctionOnSet(f, S)
  BY <1>1, SumPlus
<1> QED BY <1>1, <1>2, SumIsWhole

-----------------------------------------------------------------------------
(* Sums over related sets.                                                  *)

LEMMA SumUnion ==
  ASSUME NEW S, IsFiniteSet(S), NEW T, IsFiniteSet(T), S \cap T = {},
         NEW f, Addable(f, S), Addable(f, T)
  PROVE  SumFunctionOnSet(f, S \cup T) = SumFunctionOnSet(f, S) + SumFunctionOnSet(f, T)
<1> DEFINE U == S \cup T
           good == {s \in SUBSET T : SumFunctionOnSet(f, S \cup s) = SumFunctionOnSet(f, S) + SumFunctionOnSet(f, s)}
<1>0. IsFiniteSet(U) /\ Addable(f, U) /\ SumFunctionOnSet(f, S) \in Int
  BY FS_Union, SumIsWhole DEF Addable
<1> HIDE DEF U
<1>1. {} \in good
  <2>1. S \cup {} = S
    OBVIOUS
  <2> QED BY <1>0, <2>1, SumOfNone
<1>2. ASSUME NEW s \in SUBSET T, NEW x \in T, x \notin s, s \in good PROVE s \cup {x} \in good
  <2>1. SumFunctionOnSet(f, s \cup {x}) = f[x] + SumFunctionOnSet(f, s)
    BY <1>2, SumGains
  <2>2. S \cup s \in SUBSET U /\ x \in U /\ x \notin S \cup s /\ (S \cup s) \cup {x} = S \cup (s \cup {x})
    BY <1>2 DEF U
  <2>3. SumFunctionOnSet(f, (S \cup s) \cup {x}) = f[x] + SumFunctionOnSet(f, S \cup s)
    <3>1. PICK v : v = S \cup s
      OBVIOUS
    <3>2. v \in SUBSET U /\ x \in U /\ x \notin v
      BY <2>2, <3>1
    <3>3. SumFunctionOnSet(f, v \cup {x}) = f[x] + SumFunctionOnSet(f, v)
      BY <1>0, <3>2, SumGains
    <3> QED BY <3>1, <3>3
  <2>4. SumFunctionOnSet(f, s) \in Int /\ f[x] \in Int
    BY SumsAreWhole DEF Addable
  <2>5. SumFunctionOnSet(f, S \cup (s \cup {x})) = f[x] + SumFunctionOnSet(f, S \cup s)
    BY <2>2, <2>3, Zenon
  <2>6. SumFunctionOnSet(f, S \cup s) = SumFunctionOnSet(f, S) + SumFunctionOnSet(f, s)
    BY <1>2
  <2>7. SumFunctionOnSet(f, S \cup (s \cup {x})) = SumFunctionOnSet(f, S) + SumFunctionOnSet(f, s \cup {x})
    BY <1>0, <2>1, <2>4, <2>5, <2>6
  <2> QED BY <2>7
<1> HIDE DEF good
<1>3. T \in good
  BY <1>1, <1>2, OneByOne
<1> QED BY <1>3 DEF good

\* A sum over a part of a set is one over the set, with nothing on the rest.
LEMMA SumWithin ==
  ASSUME NEW S, IsFiniteSet(S), NEW T \in SUBSET S, NEW f, Addable(f, T),
         NEW g, \A x \in S : g[x] = IF x \in T THEN f[x] ELSE 0
  PROVE  SumFunctionOnSet(f, T) = SumFunctionOnSet(g, S)
<1>1. IsFiniteSet(T) /\ IsFiniteSet(S \ T) /\ T \cap (S \ T) = {} /\ T \cup (S \ T) = S
  BY FS_Subset
<1>2. Addable(g, T) /\ Addable(g, S \ T)
  BY DEF Addable
<1>3. SumFunctionOnSet(g, T) = SumFunctionOnSet(f, T) /\ SumFunctionOnSet(g, T) \in Int
  BY <1>1, <1>2, SumSame, SumIsWhole
<1>4. SumFunctionOnSet(g, S \ T) = 0
  BY <1>1, SumOfZeros
<1>5. SumFunctionOnSet(g, T \cup (S \ T)) = SumFunctionOnSet(g, T) + SumFunctionOnSet(g, S \ T)
  BY <1>1, <1>2, SumUnion
<1>6. SumFunctionOnSet(g, S) = SumFunctionOnSet(g, T) + SumFunctionOnSet(g, S \ T)
  BY <1>1, <1>5, Zenon
<1> QED BY <1>3, <1>4, <1>6

LEMMA SumMinus ==
  ASSUME NEW S, IsFiniteSet(S), NEW f, NEW g, NEW h, Addable(f, S), Addable(g, S),
         \A x \in S : h[x] = f[x] - g[x]
  PROVE  SumFunctionOnSet(h, S) = SumFunctionOnSet(f, S) - SumFunctionOnSet(g, S)
<1>1. Addable(h, S) /\ \A x \in S : f[x] = h[x] + g[x]
  BY DEF Addable
<1>2. SumFunctionOnSet(f, S) = SumFunctionOnSet(h, S) + SumFunctionOnSet(g, S)
  BY <1>1, SumPlus
<1> QED BY <1>1, <1>2, SumIsWhole

\* The values of a function on a finite set.
LEMMA ImageFinite ==
  ASSUME NEW f, IsFiniteSet(DOMAIN f)
  PROVE  IsFiniteSet({f[x] : x \in DOMAIN f})
<1> DEFINE T == {f[x] : x \in DOMAIN f}
           g == [x \in DOMAIN f |-> f[x]]
<1>1. g \in Surjection(DOMAIN f, T)
  BY DEF Surjection
<1> HIDE DEF T, g
<1>2. IsFiniteSet(T)
  BY <1>1, FS_Surjection
<1> QED BY <1>2 DEF T

-----------------------------------------------------------------------------
(* Sums of sums.                                                            *)

\* g holds what f adds up to over the elements of S with each key of K.
Grouped(g, K, f, S, key) ==
  /\ \A x \in S : key[x] \in K
  /\ \A k \in K : g[k] = SumFunctionOnSet(f, {x \in S : key[x] = k})

\* Grouped by a key, the groups add up to the whole.
LEMMA SumBy ==
  ASSUME NEW S, IsFiniteSet(S), NEW K, IsFiniteSet(K), NEW key, NEW f, Addable(f, S),
         NEW g, Grouped(g, K, f, S, key)
  PROVE  SumFunctionOnSet(g, K) = SumFunctionOnSet(f, S)
<1> DEFINE Within(C) == {x \in S : key[x] \in C}
           Group(k) == {x \in S : key[x] = k}
           good == {C \in SUBSET K : SumFunctionOnSet(g, C) = SumFunctionOnSet(f, Within(C))}
<1> USE DEF Grouped
<1>0. \A s \in SUBSET S : IsFiniteSet(s) /\ Addable(f, s) /\ SumFunctionOnSet(f, s) \in Int
  BY SumsAreWhole
<1>1. Addable(g, K)
  BY <1>0 DEF Addable
<1>2. {} \in good
  <2>1. Within({}) = {}
    OBVIOUS
  <2> QED BY <2>1, SumOfNone
<1>3. ASSUME NEW C \in SUBSET K, NEW k \in K, k \notin C, C \in good PROVE C \cup {k} \in good
  <2>1. SumFunctionOnSet(g, C \cup {k}) = g[k] + SumFunctionOnSet(g, C)
    BY <1>1, <1>3, SumGains
  <2>2. PICK u \in SUBSET S : u = Within(C)
    OBVIOUS
  <2>3. PICK v \in SUBSET S : v = Group(k)
    OBVIOUS
  <2>4. u \cap v = {} /\ Within(C \cup {k}) = u \cup v
    BY <1>3, <2>2, <2>3
  <2>5. SumFunctionOnSet(f, u \cup v) = SumFunctionOnSet(f, u) + SumFunctionOnSet(f, v)
    BY <1>0, <2>4, SumUnion
  <2>6. g[k] = SumFunctionOnSet(f, v) /\ SumFunctionOnSet(g, C) = SumFunctionOnSet(f, u)
    BY <1>3, <2>2, <2>3
  <2>7. SumFunctionOnSet(f, u) \in Int /\ SumFunctionOnSet(f, v) \in Int
    BY <1>0
  <2>8. SumFunctionOnSet(g, C \cup {k}) = SumFunctionOnSet(f, u \cup v)
    BY <2>1, <2>5, <2>6, <2>7
  <2> HIDE DEF Within
  <2> QED BY <2>4, <2>8
<1> HIDE DEF good
<1>4. K \in good
  BY <1>2, <1>3, OneByOne
<1>5. Within(K) = S
  OBVIOUS
<1> HIDE DEF Within
<1> QED BY <1>4, <1>5 DEF good

\* Rows first or columns first.
LEMMA SumExchange ==
  ASSUME NEW A, IsFiniteSet(A), NEW B, IsFiniteSet(B), NEW f, \A a \in A : Addable(f[a], B),
         NEW rows, \A a \in A : rows[a] = SumFunctionOnSet(f[a], B),
         NEW t, \A b \in B : \A a \in A : t[b][a] = f[a][b],
         NEW columns, \A b \in B : columns[b] = SumFunctionOnSet(t[b], A)
  PROVE  SumFunctionOnSet(rows, A) = SumFunctionOnSet(columns, B)
<1> DEFINE part(C) == [b \in B |-> SumFunctionOnSet(t[b], C)]
           good == {C \in SUBSET A : SumFunctionOnSet(rows, C) = SumFunctionOnSet(part(C), B)}
<1>0. Addable(rows, A) /\ \A b \in B : Addable(t[b], A)
  BY SumIsWhole DEF Addable
<1>1. \A C \in SUBSET A : Addable(part(C), B)
  BY <1>0, SumsAreWhole DEF Addable
<1>2. {} \in good
  <2>1. SumFunctionOnSet(part({}), B) = 0
    BY SumOfNone, SumOfZeros
  <2> QED BY <2>1, SumOfNone
<1>3. ASSUME NEW C \in SUBSET A, NEW a \in A, a \notin C, C \in good PROVE C \cup {a} \in good
  <2>1. SumFunctionOnSet(rows, C \cup {a}) = rows[a] + SumFunctionOnSet(rows, C)
    BY <1>0, <1>3, SumGains
  <2>2. PICK p : p = part(C)
    OBVIOUS
  <2>3. PICK q : q = part(C \cup {a})
    OBVIOUS
  <2>4. \A b \in B : q[b] = f[a][b] + p[b]
    <3>1. SUFFICES ASSUME NEW b \in B PROVE q[b] = f[a][b] + p[b]
      OBVIOUS
    <3>2. SumFunctionOnSet(t[b], C \cup {a}) = t[b][a] + SumFunctionOnSet(t[b], C)
      BY <1>0, <1>3, SumGains
    <3> QED BY <2>2, <2>3, <3>2
  <2>5. Addable(p, B) /\ Addable(f[a], B)
    BY <1>1, <2>2
  <2>6. SumFunctionOnSet(q, B) = SumFunctionOnSet(f[a], B) + SumFunctionOnSet(p, B)
    BY <2>4, <2>5, SumPlus
  <2>7. SumFunctionOnSet(rows, C) = SumFunctionOnSet(p, B)
    BY <1>3, <2>2
  <2>8. SumFunctionOnSet(rows, C \cup {a}) = SumFunctionOnSet(q, B)
    BY <2>1, <2>6, <2>7
  <2> HIDE DEF part
  <2> QED BY <2>3, <2>8
<1> HIDE DEF good
<1>4. A \in good
  BY <1>2, <1>3, OneByOne
<1>5. SumFunctionOnSet(rows, A) = SumFunctionOnSet(part(A), B)
  BY <1>4 DEF good
<1>6. \A b \in B : part(A)[b] = columns[b]
  OBVIOUS
<1>7. SumFunctionOnSet(part(A), B) = SumFunctionOnSet(columns, B)
  <2>1. Addable(part(A), B)
    BY <1>1
  <2> HIDE DEF part
  <2> QED BY <1>6, <2>1, SumSame
<1> QED BY <1>5, <1>7

\* The elements may be named otherwise, as long as no two get one name.
LEMMA SumRenamed ==
  ASSUME NEW S, IsFiniteSet(S), NEW T, IsFiniteSet(T), NEW name,
         \A x \in S : name[x] \in T,
         \A x, y \in S : name[x] = name[y] => x = y,
         \A y \in T : \E x \in S : name[x] = y,
         NEW f, Addable(f, T), NEW g, \A x \in S : g[x] = f[name[x]]
  PROVE  SumFunctionOnSet(g, S) = SumFunctionOnSet(f, T)
<1> DEFINE img(s) == {name[x] : x \in s}
           good == {s \in SUBSET S : SumFunctionOnSet(g, s) = SumFunctionOnSet(f, img(s))}
<1>3. Addable(g, S)
  BY DEF Addable
<1>4. {} \in good
  <2>1. img({}) = {}
    OBVIOUS
  <2> QED BY <2>1, SumOfNone
<1>5. ASSUME NEW s \in SUBSET S, NEW x \in S, x \notin s, s \in good PROVE s \cup {x} \in good
  <2>1. SumFunctionOnSet(g, s \cup {x}) = g[x] + SumFunctionOnSet(g, s)
    BY <1>3, <1>5, SumGains
  <2>2. PICK u : u = img(s)
    OBVIOUS
  <2>3. u \in SUBSET T /\ name[x] \in T /\ name[x] \notin u /\ img(s \cup {x}) = u \cup {name[x]}
    BY <1>5, <2>2
  <2>4. SumFunctionOnSet(f, u \cup {name[x]}) = f[name[x]] + SumFunctionOnSet(f, u)
    BY <2>3, SumGains
  <2>5. SumFunctionOnSet(g, s) = SumFunctionOnSet(f, u)
    BY <1>5, <2>2
  <2>6. SumFunctionOnSet(g, s \cup {x}) = SumFunctionOnSet(f, u \cup {name[x]})
    BY <2>1, <2>4, <2>5
  <2> HIDE DEF img
  <2> QED BY <2>3, <2>6
<1> HIDE DEF good
<1>6. S \in good
  BY <1>4, <1>5, OneByOne
<1>7. img(S) = T
  OBVIOUS
<1> HIDE DEF img
<1> QED BY <1>6, <1>7 DEF good

-----------------------------------------------------------------------------
(* Sums filtered by two keys.                                               *)

\* A function that is f on its domain adds up to what f does there.
LEMMA SumOverDomain ==
  ASSUME NEW S, IsFiniteSet(S), NEW f, Addable(f, S), NEW g, DOMAIN g = S, \A x \in S : g[x] = f[x]
  PROVE  SumFunction(g) = SumFunctionOnSet(f, S)
<1>1. SumFunctionOnSet(f, S) = SumFunctionOnSet(g, S)
  BY SumSame
<1> QED BY <1>1 DEF SumFunction

Among(S, k, A, l, B) == {x \in S : k[x] \in A /\ l[x] \in B}

\* g holds what f adds up to over the elements of S whose first key is a and
\* whose second is in B, for each a in A.
FirstGrouped(g, A, f, S, k, l, B) ==
  \A a \in A : g[a] = SumFunctionOnSet(f, Among(S, k, {a}, l, B))
SecondGrouped(g, B, f, S, k, l, A) ==
  \A b \in B : g[b] = SumFunctionOnSet(f, Among(S, k, A, l, {b}))

LEMMA SumByFirst ==
  ASSUME NEW S, IsFiniteSet(S), NEW f, Addable(f, S), NEW k, NEW l, NEW A, IsFiniteSet(A), NEW B,
         NEW g, FirstGrouped(g, A, f, S, k, l, B)
  PROVE  SumFunctionOnSet(g, A) = SumFunctionOnSet(f, Among(S, k, A, l, B))
<1>1. PICK T \in SUBSET S : T = Among(S, k, A, l, B)
  BY DEF Among
<1>2. IsFiniteSet(T) /\ Addable(f, T) /\ \A x \in T : k[x] \in A
  BY <1>1, SumsAreWhole DEF Among
<1>3. ASSUME NEW a \in A PROVE g[a] = SumFunctionOnSet(f, {x \in T : k[x] = a})
  <2>1. Among(S, k, {a}, l, B) = {x \in T : k[x] = a}
    BY <1>1 DEF Among
  <2> QED BY <2>1 DEF FirstGrouped
<1>4. Grouped(g, A, f, T, k)
  BY <1>2, <1>3 DEF Grouped
<1>5. SumFunctionOnSet(g, A) = SumFunctionOnSet(f, T)
  BY <1>2, <1>4, SumBy
<1> QED BY <1>1, <1>5

LEMMA SumBySecond ==
  ASSUME NEW S, IsFiniteSet(S), NEW f, Addable(f, S), NEW k, NEW l, NEW A, NEW B, IsFiniteSet(B),
         NEW g, SecondGrouped(g, B, f, S, k, l, A)
  PROVE  SumFunctionOnSet(g, B) = SumFunctionOnSet(f, Among(S, k, A, l, B))
<1>1. \A C : Among(S, k, A, l, C) = Among(S, l, C, k, A)
  BY DEF Among
<1>2. FirstGrouped(g, B, f, S, l, k, A)
  BY <1>1 DEF FirstGrouped, SecondGrouped
<1>3. SumFunctionOnSet(g, B) = SumFunctionOnSet(f, Among(S, l, B, k, A))
  BY <1>2, SumByFirst
<1> QED BY <1>1, <1>3

LEMMA SumOfBoth ==
  ASSUME NEW S, IsFiniteSet(S), NEW f, Addable(f, S), NEW k, NEW l, NEW A, NEW C, A \cap C = {}, NEW B
  PROVE  SumFunctionOnSet(f, Among(S, k, A \cup C, l, B))
           = SumFunctionOnSet(f, Among(S, k, A, l, B)) + SumFunctionOnSet(f, Among(S, k, C, l, B))
<1>1. PICK T \in SUBSET S : T = Among(S, k, A, l, B)
  BY DEF Among
<1>2. PICK U \in SUBSET S : U = Among(S, k, C, l, B)
  BY DEF Among
<1>3. T \cap U = {} /\ T \cup U = Among(S, k, A \cup C, l, B)
  BY <1>1, <1>2 DEF Among
<1>4. IsFiniteSet(T) /\ IsFiniteSet(U) /\ Addable(f, T) /\ Addable(f, U)
  BY SumsAreWhole
<1>5. SumFunctionOnSet(f, T \cup U) = SumFunctionOnSet(f, T) + SumFunctionOnSet(f, U)
  BY <1>3, <1>4, SumUnion
<1> QED BY <1>1, <1>2, <1>3, <1>5

-----------------------------------------------------------------------------
(* Finitely many numbers have a last one. *)

LEMMA HasLast ==
  ASSUME NEW T, IsFiniteSet(T), T \subseteq Nat, NEW x \in T
  PROVE  \E h \in T : \A y \in T : h >= y
<1> DEFINE good == {s \in SUBSET T : s = {} \/ \E h \in s : \A y \in s : y <= h}
<1>1. {} \in good
  OBVIOUS
<1>2. ASSUME NEW s \in SUBSET T, NEW z \in T, z \notin s, s \in good PROVE s \cup {z} \in good
  <2>1. z \in Nat /\ s \subseteq Nat
    OBVIOUS
  <2>2. CASE s = {}
    BY <2>1, <2>2
  <2>3. CASE s # {}
    <3>1. PICK h \in s : \A y \in s : y <= h
      BY <1>2, <2>3
    <3>2. CASE z <= h
      BY <3>1, <3>2
    <3>3. CASE ~(z <= h)
      <4>1. h <= z /\ \A y \in s : y <= z
        BY <2>1, <3>1, <3>3
      <4> QED BY <2>1, <4>1
    <3> QED BY <3>2, <3>3
  <2> QED BY <2>2, <2>3
<1>3. T \in good
  <2> HIDE DEF good
  <2> QED BY <1>1, <1>2, OneByOne
<1> QED BY <1>3
================================================================================
