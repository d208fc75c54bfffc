------------------------------ MODULE SumProofs ------------------------------
(***************************************************************************)
(* What SumFunctionOnSet adds up, for any function and any finite set.     *)
(* Functions defines it by recursion over the subsets of the set.          *)
(***************************************************************************)
EXTENDS Functions, FiniteSetTheorems, TLAPS

-----------------------------------------------------------------------------
(* Induction, with the set of the values for which the claim holds.        *)

\* Induction on the numbers.
LEMMA NaturalInduction ==
  ASSUME NEW G, 0 \in G, \A n \in Nat : n \in G => n + 1 \in G
  PROVE  Nat \subseteq G
<1> DEFINE R   == OpToRel(<, Nat)
           Bad == Nat \ G
<1>1. IsWellFoundedOn(R, Nat)
  BY NatLessThanWellFounded
<1>2. \A m, n \in Nat : m < n => <<m, n>> \in R
  BY DEF OpToRel
<1> HIDE DEF R
<1> SUFFICES ASSUME Bad # {} PROVE FALSE
  OBVIOUS
<1>3. PICK n \in Bad : \A m \in Bad : ~ (<<m, n>> \in R)
  BY <1>1, WFMin
<1>4. n \in Nat \ {0}
  OBVIOUS
<1>5. n - 1 \in Nat /\ n - 1 < n /\ n - 1 + 1 = n
  BY <1>4
<1>6. n - 1 \in G
  BY <1>2, <1>3, <1>5
<1> QED
  BY <1>5, <1>6

\* G contains a finite set if it contains {} and, with any subset, also that
\* subset and one element more.
LEMMA SubsetInduction ==
  ASSUME NEW S, IsFiniteSet(S), NEW G,
         \A T \in SUBSET S : (\A U \in SUBSET T : U # T => U \in G) => T \in G
  PROVE  SUBSET S \subseteq G
<1> DEFINE R   == StrictSubsetOrdering(S)
           Bad == (SUBSET S) \ G
<1>1. IsWellFoundedOn(R, SUBSET S)
  BY FS_StrictSubsetOrderingWellFounded, FS_FiniteSubsetsOfFinite
<1>2. \A T, U \in SUBSET S : U \subseteq T /\ U # T => <<U, T>> \in R
  BY DEF StrictSubsetOrdering
<1> HIDE DEF R
<1> SUFFICES ASSUME Bad # {} PROVE FALSE
  OBVIOUS
<1>3. Bad \subseteq SUBSET S
  OBVIOUS
<1>4. \E T \in Bad : \A U \in Bad : ~ (<<U, T>> \in R)
  <2> HIDE DEF Bad
  <2> QED
    BY ONLY <1>1, <1>3, Bad # {}, WFMin
<1>5. PICK T \in Bad : \A U \in Bad : ~ (<<U, T>> \in R)
  BY <1>4
<1>6. T \in SUBSET S /\ T \notin G
  BY <1>5
<1>7. PICK U \in SUBSET T : U # T /\ U \notin G
  BY <1>6
<1>8. U \in Bad
  BY <1>6, <1>7
<1> QED
  BY <1>2, <1>5, <1>6, <1>7, <1>8

-----------------------------------------------------------------------------
(* The recursion.                                                          *)

Pick(s)       == CHOOSE x \in s : TRUE
Body(f, g, s) == IF s = {} THEN 0 ELSE f[Pick(s)] + g[s \ {Pick(s)}]
SumsUp(f, g, S) == g = [s \in SUBSET S |-> Body(f, g, s)]

\* What the fold takes out of a set is a member of it.
LEMMA PickFacts == ASSUME NEW s, s # {} PROVE Pick(s) \in s
BY DEF Pick

\* The community modules' definition, opened once.
LEMMA SumIsBody ==
  ASSUME NEW f, NEW S
  PROVE  SumFunctionOnSet(f, S) = (CHOOSE g : SumsUp(f, g, S))[S]
BY DEF SumFunctionOnSet, FoldFunctionOnSet, MapThenFoldSet, SumsUp, Body, Pick

\* There is a function that the recursion defines: one for the subsets of up
\* to n elements gives one for those of up to n + 1.
LEMMA RecursionExists ==
  ASSUME NEW f, NEW S, IsFiniteSet(S)
  PROVE  \E g : SumsUp(f, g, S)
<1> DEFINE Small(n) == {s \in SUBSET S : Cardinality(s) <= n}
           G == {n \in Nat : \E g : \A s \in Small(n) : g[s] = Body(f, g, s)}
<1>1. ASSUME NEW s \in SUBSET S
      PROVE  /\ IsFiniteSet(s) /\ Cardinality(s) \in Nat /\ Cardinality(s) <= Cardinality(S)
             /\ Cardinality(s) = 0 <=> s = {}
             /\ s # {} => /\ s \ {Pick(s)} \in SUBSET S
                          /\ Cardinality(s \ {Pick(s)}) = Cardinality(s) - 1
  <2>1. IsFiniteSet(s) /\ Cardinality(s) \in Nat /\ Cardinality(s) <= Cardinality(S)
    BY FS_Subset, FS_CardinalityType
  <2> QED
    BY <2>1, FS_EmptySet, FS_RemoveElement, PickFacts
<1>2. 0 \in G
  <2> DEFINE g == [s \in {{}} |-> 0]
  <2>1. ASSUME NEW s \in Small(0) PROVE s = {}
    <3>1. s \in SUBSET S /\ Cardinality(s) <= 0
      BY <2>1
    <3>2. Cardinality(s) \in Nat /\ (Cardinality(s) = 0 <=> s = {})
      BY <1>1, <3>1
    <3> QED
      BY <3>1, <3>2
  <2>2. \A s \in Small(0) : g[s] = Body(f, g, s)
    BY <2>1 DEF Body
  <2> HIDE DEF g
  <2> QED
    BY <2>2
<1>3. ASSUME NEW n \in Nat, n \in G PROVE n + 1 \in G
  <2>1. PICK g : \A s \in Small(n) : g[s] = Body(f, g, s)
    BY <1>3
  <2> DEFINE h == [s \in SUBSET S |-> Body(f, g, s)]
  <2>2. \A s \in Small(n) : h[s] = g[s]
    BY <2>1
  <2>3. ASSUME NEW s \in Small(n + 1) PROVE h[s] = Body(f, h, s)
    <3>1. h[s] = Body(f, g, s)
      OBVIOUS
    <3>2. CASE s = {}
      BY <3>1, <3>2 DEF Body
    <3>3. CASE s # {}
      <4>1. s \ {Pick(s)} \in Small(n)
        <5>0. s \in SUBSET S /\ Cardinality(s) <= n + 1
          BY <2>3
        <5>1. s \in SUBSET S /\ Cardinality(s) <= n + 1 /\ Cardinality(s) \in Nat
          BY <1>1, <5>0
        <5>2. /\ s \ {Pick(s)} \in SUBSET S
              /\ Cardinality(s \ {Pick(s)}) = Cardinality(s) - 1
          BY <1>1, <3>3, <5>1
        <5>3. Cardinality(s) - 1 <= n
          BY <5>1
        <5> QED
          BY <5>2, <5>3
      <4>2. h[s \ {Pick(s)}] = g[s \ {Pick(s)}]
        BY <2>2, <4>1
      <4> HIDE DEF h
      <4> QED
        BY <3>1, <3>3, <4>2 DEF Body
    <3> QED
      BY <3>2, <3>3
  <2> HIDE DEF h
  <2> QED
    BY <2>3
<1>4. Cardinality(S) \in G
  <2>1. Nat \subseteq G
    <3> HIDE DEF G
    <3> QED
      BY <1>2, <1>3, NaturalInduction
  <2> QED
    BY <2>1, FS_CardinalityType
<1>5. PICK g : \A s \in Small(Cardinality(S)) : g[s] = Body(f, g, s)
  BY <1>4
<1> DEFINE h == [s \in SUBSET S |-> g[s]]
<1>6. ASSUME NEW s \in SUBSET S PROVE h[s] = Body(f, h, s)
  <2>1. g[s] = Body(f, g, s)
    BY <1>1, <1>5
  <2>2. s # {} => h[s \ {Pick(s)}] = g[s \ {Pick(s)}]
    BY <1>1
  <2> QED
    BY <2>1, <2>2 DEF Body
<1>7. h = [s \in SUBSET S |-> Body(f, h, s)]
  BY <1>6
<1> HIDE DEF h
<1> QED
  BY <1>7 DEF SumsUp

\* And only one: it adds up a subset of two sets to the same.
LEMMA RecursionAgrees ==
  ASSUME NEW f, NEW f2, NEW S, NEW S2, IsFiniteSet(S), NEW g, NEW g2,
         SumsUp(f, g, S), SumsUp(f2, g2, S2), S \subseteq S2, \A x \in S : f[x] = f2[x]
  PROVE  g[S] = g2[S]
<1> DEFINE Good == {s \in SUBSET S : g[s] = g2[s]}
<1>1. ASSUME NEW s \in SUBSET S
      PROVE  g[s] = Body(f, g, s) /\ g2[s] = Body(f2, g2, s)
  BY DEF SumsUp
<1>2. ASSUME NEW T \in SUBSET S, \A U \in SUBSET T : U # T => U \in Good
      PROVE  T \in Good
  <2>1. CASE T = {}
    BY <1>1, <2>1 DEF Body
  <2>2. CASE T # {}
    <3>1. Pick(T) \in T
      BY <2>2, PickFacts
    <3>2. T \ {Pick(T)} \in SUBSET T /\ T \ {Pick(T)} # T
      BY <3>1
    <3>3. g[T \ {Pick(T)}] = g2[T \ {Pick(T)}] /\ f[Pick(T)] = f2[Pick(T)]
      BY <1>2, <3>1, <3>2
    <3>4. g[T] = f[Pick(T)] + g[T \ {Pick(T)}] /\ g2[T] = f2[Pick(T)] + g2[T \ {Pick(T)}]
      BY <1>1, <2>2 DEF Body
    <3> QED
      BY <3>3, <3>4
  <2> QED
    BY <2>1, <2>2
<1>3. SUBSET S \subseteq Good
  <2> HIDE DEF Good
  <2> QED
    BY <1>2, SubsetInduction
<1> QED
  BY <1>3

\* A function that satisfies the recursion has the sums as its values.
LEMMA SumAdds ==
  ASSUME NEW f, NEW S, IsFiniteSet(S), NEW s \in SUBSET S, NEW g, SumsUp(f, g, S)
  PROVE  g[s] = SumFunctionOnSet(f, s)
<1> DEFINE h == CHOOSE h : SumsUp(f, h, s)
<1>1. IsFiniteSet(s)
  BY FS_Subset
<1>2. SumsUp(f, h, s)
  BY <1>1, RecursionExists
<1>3. SumFunctionOnSet(f, s) = h[s]
  BY SumIsBody
<1> HIDE DEF h
<1> QED
  BY <1>1, <1>2, <1>3, RecursionAgrees

-----------------------------------------------------------------------------
(* What is used elsewhere.                                                 *)

\* The sum over no element.
LEMMA SumEmpty == ASSUME NEW f PROVE SumFunctionOnSet(f, {}) = 0
<1>1. IsFiniteSet({})
  BY FS_EmptySet
<1>2. PICK g : SumsUp(f, g, {})
  BY <1>1, RecursionExists
<1>3. g[{}] = 0
  BY <1>2 DEF SumsUp, Body
<1> QED
  BY <1>1, <1>2, <1>3, SumAdds

\* The sum over a set, from the sum without the element the fold takes.
LEMMA SumPick ==
  ASSUME NEW f, NEW S, IsFiniteSet(S), S # {}
  PROVE  SumFunctionOnSet(f, S) = f[Pick(S)] + SumFunctionOnSet(f, S \ {Pick(S)})
<1>1. PICK g : SumsUp(f, g, S)
  BY RecursionExists
<1>2. g[S] = f[Pick(S)] + g[S \ {Pick(S)}]
  BY <1>1 DEF SumsUp, Body
<1>3. S \in SUBSET S /\ S \ {Pick(S)} \in SUBSET S
  OBVIOUS
<1>4. g[S] = SumFunctionOnSet(f, S)
  BY <1>1, <1>3, SumAdds
<1>5. g[S \ {Pick(S)}] = SumFunctionOnSet(f, S \ {Pick(S)})
  BY <1>1, <1>3, SumAdds
<1> QED
  BY <1>2, <1>4, <1>5

\* Only the values on the set count.
LEMMA SumSame ==
  ASSUME NEW f, NEW f2, NEW S, IsFiniteSet(S), \A x \in S : f[x] = f2[x]
  PROVE  SumFunctionOnSet(f, S) = SumFunctionOnSet(f2, S)
<1>1. PICK g : SumsUp(f, g, S)
  BY RecursionExists
<1>2. PICK g2 : SumsUp(f2, g2, S)
  BY RecursionExists
<1>3. g[S] = g2[S]
  BY <1>1, <1>2, RecursionAgrees
<1>4. S \in SUBSET S
  OBVIOUS
<1> QED
  BY <1>1, <1>2, <1>3, <1>4, SumAdds

\* A sum of integers is an integer.
LEMMA SumType ==
  ASSUME NEW f, NEW S, IsFiniteSet(S), \A x \in S : f[x] \in Int
  PROVE  SumFunctionOnSet(f, S) \in Int
<1> DEFINE Good == {s \in SUBSET S : SumFunctionOnSet(f, s) \in Int}
<1>1. ASSUME NEW T \in SUBSET S, \A U \in SUBSET T : U # T => U \in Good
      PROVE  T \in Good
  <2>1. CASE T = {}
    BY <2>1, SumEmpty
  <2>2. CASE T # {}
    <3>1. Pick(T) \in T /\ IsFiniteSet(T)
      BY <2>2, PickFacts, FS_Subset
    <3>2. T \ {Pick(T)} \in SUBSET T /\ T \ {Pick(T)} # T
      BY <3>1
    <3>3. SumFunctionOnSet(f, T \ {Pick(T)}) \in Int /\ f[Pick(T)] \in Int
      BY <1>1, <3>1, <3>2
    <3> QED
      BY <2>2, <3>1, <3>3, SumPick
  <2> QED
    BY <2>1, <2>2
<1>2. SUBSET S \subseteq Good
  <2> HIDE DEF Good
  <2> QED
    BY <1>1, SubsetInduction
<1> QED
  BY <1>2

\* The order of adding does not matter: any element can be the last.
LEMMA SumRemove ==
  ASSUME NEW f, NEW S, IsFiniteSet(S), \A x \in S : f[x] \in Int, NEW x \in S
  PROVE  SumFunctionOnSet(f, S) = f[x] + SumFunctionOnSet(f, S \ {x})
<1> DEFINE Sum(s) == SumFunctionOnSet(f, s)
           Good == {s \in SUBSET S : \A y \in s : Sum(s) = f[y] + Sum(s \ {y})}
<1>1. ASSUME NEW T \in SUBSET S, \A U \in SUBSET T : U # T => U \in Good
      PROVE  T \in Good
  <2> SUFFICES ASSUME NEW y \in T PROVE Sum(T) = f[y] + Sum(T \ {y})
    OBVIOUS
  <2> DEFINE p == Pick(T)
  <2>1. p \in T /\ IsFiniteSet(T)
    BY PickFacts, FS_Subset
  <2>2. Sum(T) = f[p] + Sum(T \ {p})
    BY <2>1, SumPick
  <2>3. CASE y = p
    BY <2>2, <2>3
  <2>4. CASE y # p
    <3> HIDE DEF p, Sum
    <3>1. T \ {p} \in SUBSET T /\ T \ {p} # T /\ y \in T \ {p}
      BY <2>1, <2>4
    <3>2. Sum(T \ {p}) = f[y] + Sum((T \ {p}) \ {y})
      BY <1>1, <3>1
    <3>3. T \ {y} \in SUBSET T /\ T \ {y} # T /\ p \in T \ {y}
      BY <2>1, <2>4
    <3>4. Sum(T \ {y}) = f[p] + Sum((T \ {y}) \ {p})
      BY <1>1, <3>3
    <3>5. (T \ {p}) \ {y} = (T \ {y}) \ {p}
      OBVIOUS
    <3>6. IsFiniteSet((T \ {p}) \ {y}) /\ \A z \in (T \ {p}) \ {y} : f[z] \in Int
      BY <2>1, FS_Subset, (T \ {p}) \ {y} \subseteq T
    <3>7. Sum((T \ {p}) \ {y}) \in Int
      BY <3>6, SumType DEF Sum
    <3>8. f[p] \in Int /\ f[y] \in Int
      BY <2>1
    <3> DEFINE r == Sum((T \ {p}) \ {y})
    <3>9. Sum(T) = f[p] + (f[y] + r) /\ Sum(T \ {y}) = f[p] + r
      BY <2>2, <3>2, <3>4, <3>5
    <3>10. \A a, b, c \in Int : a + (b + c) = b + (a + c)
      OBVIOUS
    <3>11. f[p] + (f[y] + r) = f[y] + (f[p] + r)
      <4> HIDE DEF r
      <4> QED
        BY <3>7, <3>8, <3>10 DEF r
    <3> QED
      BY <3>9, <3>11
  <2> QED
    BY <2>3, <2>4
<1>2. SUBSET S \subseteq Good
  <2> HIDE DEF Good
  <2> QED
    BY <1>1, SubsetInduction
<1> QED
  BY <1>2

\* One value more, and one value changed.
LEMMA SumAdd ==
  ASSUME NEW f, NEW S, IsFiniteSet(S), \A y \in S : f[y] \in Int, NEW x, x \notin S, f[x] \in Int
  PROVE  SumFunctionOnSet(f, S \cup {x}) = f[x] + SumFunctionOnSet(f, S)
<1> DEFINE T == S \cup {x}
<1>1. IsFiniteSet(T)
  BY FS_AddElement
<1>2. x \in T /\ T \ {x} = S /\ \A y \in T : f[y] \in Int
  OBVIOUS
<1> HIDE DEF T
<1>3. SumFunctionOnSet(f, T) = f[x] + SumFunctionOnSet(f, T \ {x})
  BY <1>1, <1>2, SumRemove
<1> QED
  BY <1>2, <1>3 DEF T

\* The sum after one value changed.
LEMMA SumChange ==
  ASSUME NEW f, NEW f2, NEW S, IsFiniteSet(S), NEW x \in S,
         \A y \in S : f[y] \in Int /\ f2[y] \in Int,
         \A y \in S \ {x} : f[y] = f2[y]
  PROVE  SumFunctionOnSet(f2, S) = SumFunctionOnSet(f, S) + f2[x] - f[x]
<1>1. IsFiniteSet(S \ {x})
  BY FS_Subset, S \ {x} \subseteq S
<1>2. SumFunctionOnSet(f, S \ {x}) = SumFunctionOnSet(f2, S \ {x})
  BY <1>1, SumSame
<1>3. SumFunctionOnSet(f, S \ {x}) \in Int
  BY <1>1, SumType
<1>4. SumFunctionOnSet(f, S) = f[x] + SumFunctionOnSet(f, S \ {x})
  BY SumRemove
<1>5. SumFunctionOnSet(f2, S) = f2[x] + SumFunctionOnSet(f2, S \ {x})
  BY SumRemove
<1>6. f[x] \in Int /\ f2[x] \in Int
  OBVIOUS
<1> QED
  BY <1>2, <1>3, <1>4, <1>5, <1>6

\* A sum over the values that b takes on S, each once, is a sum over S.
LEMMA SumImage ==
  ASSUME NEW S, IsFiniteSet(S), NEW b, NEW f, NEW g,
         \A x, y \in S : b[x] = b[y] => x = y,
         \A x \in S : f[x] \in Int /\ g[b[x]] = f[x]
  PROVE  SumFunctionOnSet(g, {b[x] : x \in S}) = SumFunctionOnSet(f, S)
<1> DEFINE Image(T) == {b[x] : x \in T}
           Good == {T \in SUBSET S : /\ IsFiniteSet(Image(T))
                                     /\ SumFunctionOnSet(g, Image(T)) = SumFunctionOnSet(f, T)}
<1>1. ASSUME NEW T \in SUBSET S, \A U \in SUBSET T : U # T => U \in Good
      PROVE  T \in Good
  <2>1. CASE T = {}
    <3>1. Image(T) = {} /\ IsFiniteSet({})
      BY <2>1, FS_EmptySet
    <3>2. SumFunctionOnSet(g, Image(T)) = SumFunctionOnSet(f, T)
      BY <2>1, <3>1, SumEmpty
    <3> QED
      BY <3>1, <3>2
  <2>2. CASE T # {}
    <3>1. PICK x : x \in T
      BY <2>2
    <3> DEFINE U == T \ {x}
    <3>2. U \in Good
      <4>1. U \in SUBSET T /\ U # T
        BY <3>1
      <4> QED
        BY <1>1, <4>1
    <3>3. Image(T) = Image(U) \cup {b[x]} /\ b[x] \notin Image(U)
      BY <3>1
    <3>4. IsFiniteSet(Image(U)) /\ SumFunctionOnSet(g, Image(U)) = SumFunctionOnSet(f, U)
      BY <3>2
    <3>5. \A y \in Image(U) : g[y] \in Int
      OBVIOUS
    <3>6. g[b[x]] = f[x] /\ f[x] \in Int /\ \A y \in T : f[y] \in Int
      BY <3>1
    <3>7. IsFiniteSet(T)
      BY FS_Subset
    <3>8. SumFunctionOnSet(f, T) = f[x] + SumFunctionOnSet(f, U)
      BY <3>1, <3>6, <3>7, SumRemove
    <3> HIDE DEF Image, U
    <3>9. SumFunctionOnSet(g, Image(U) \cup {b[x]}) = g[b[x]] + SumFunctionOnSet(g, Image(U))
      BY <3>3, <3>4, <3>5, <3>6, SumAdd
    <3>10. IsFiniteSet(Image(T)) /\ SumFunctionOnSet(g, Image(T)) = SumFunctionOnSet(f, T)
      BY <3>3, <3>4, <3>6, <3>8, <3>9, FS_AddElement
    <3> QED
      BY <3>10 DEF Good
  <2> QED
    BY <2>1, <2>2
<1>2. SUBSET S \subseteq Good
  <2> HIDE DEF Good
  <2> QED
    BY <1>1, SubsetInduction
<1>3. S \in SUBSET S
  OBVIOUS
<1> QED
  BY <1>2, <1>3
=============================================================================
