---------------------------- MODULE FiniteSums ----------------------------
(* Sums over finite sets of integers that a function gives: that the fold   *)
(* of the community modules is a sum, in whatever order it takes elements.  *)
(* And how many members a finite set has after it gains or loses one, and   *)
(* that what a fold along a sequence computes exists.                       *)
EXTENDS Integers, FiniteSets, Functions, FiniteSetTheorems, TLAPS

(* Every set of naturals that has a member has a least one. *)
LEMMA LeastNatural ==
  ASSUME NEW T, T \subseteq Nat, T # {}
  PROVE  \E x \in T : \A y \in T : x <= y
<1> DEFINE R == OpToRel(<, Nat)
<1>1. ASSUME NEW x \in Nat, NEW y \in Nat, y < x PROVE <<y, x>> \in R
  BY <1>1, Zenon DEF OpToRel
<1>2. IsWellFoundedOn(R, Nat)
  BY NatLessThanWellFounded, Zenon
<1> HIDE DEF R
<1>3. \E x \in T : \A y \in T : ~(<<y, x>> \in R)
  BY <1>2, WFMin
<1>4. PICK x \in T : \A y \in T : ~(<<y, x>> \in R)
  BY <1>3
<1>5. ASSUME NEW y \in T PROVE x <= y
  <2>1. x \in Nat /\ y \in Nat /\ ~(y < x)
    BY <1>1, <1>4
  <2> QED
    BY <2>1
<1> QED
  BY <1>5

(* Every set of subsets of a finite set that has a member has a minimal one. *)
LEMMA MinimalSubset ==
  ASSUME NEW S, IsFiniteSet(S), NEW B, B \subseteq SUBSET S, B # {}
  PROVE  \E T \in B : \A U \in B : U \subseteq T => U = T
<1>1. B \subseteq FiniteSubsetsOf(S)
  BY FS_FiniteSubsetsOfFinite
<1>2. \E T \in B : \A U \in B : ~(<<U, T>> \in StrictSubsetOrdering(S))
  BY <1>1, FS_StrictSubsetOrderingWellFounded, WFMin
<1>3. ASSUME NEW T \in B, NEW U \in B, U \subseteq T, U # T
      PROVE  <<U, T>> \in StrictSubsetOrdering(S)
  BY <1>3 DEF StrictSubsetOrdering
<1> QED
  BY <1>2, <1>3

Pick(s) == CHOOSE x \in s : TRUE
Terms(f, S, g) ==
  [s \in SUBSET S |-> IF s = {} THEN 0 ELSE f[Pick(s)] + g[s \ {Pick(s)}]]
IsFold(f, S, g) == g = Terms(f, S, g)

(* How the fold is defined. *)
LEMMA FoldDef ==
  ASSUME NEW f, NEW S
  PROVE  SumFunctionOnSet(f, S) = (CHOOSE g : IsFold(f, S, g))[S]
BY DEF SumFunctionOnSet, FoldFunctionOnSet, MapThenFoldSet, IsFold, Terms, Pick

(* What is left of a set without the element the fold takes from it. *)
LEMMA PickOne ==
  ASSUME NEW S, S # {}
  PROVE  Pick(S) \in S
BY Zenon DEF Pick

(* A fold over a finite set exists: built up by the size of the subsets. *)
LEMMA FoldExists ==
  ASSUME NEW f, NEW S, IsFiniteSet(S)
  PROVE  \E g : IsFold(f, S, g)
<1> DEFINE Value(g, s) == IF s = {} THEN 0 ELSE f[Pick(s)] + g[s \ {Pick(s)}]
           Small(n) == {s \in SUBSET S : Cardinality(s) <= n}
           Upto(n, g) == \A s \in Small(n) : g[s] = Value(g, s)
           Bad == {n \in Nat : ~\E g : Upto(n, g)}
<1>1. \A s \in SUBSET S : IsFiniteSet(s) /\ Cardinality(s) \in Nat
  BY FS_Subset, FS_CardinalityType
<1>2. ASSUME NEW s \in SUBSET S, s # {}
      PROVE  s \ {Pick(s)} \in SUBSET S /\ Cardinality(s \ {Pick(s)}) = Cardinality(s) - 1
  BY <1>1, <1>2, PickOne, FS_RemoveElement
<1>3. \E g : Upto(0, g)
  <2> DEFINE zero == [s \in SUBSET S |-> 0]
  <2>1. \A s \in Small(0) : s = {}
    BY <1>1, FS_EmptySet
  <2>2. Upto(0, zero)
    BY <2>1
  <2> QED
    BY <2>2
<1>4. ASSUME NEW n \in Nat, NEW h, Upto(n, h) PROVE \E g : Upto(n + 1, g)
  <2> DEFINE g == [s \in SUBSET S |-> Value(h, s)]
  <2>1. ASSUME NEW s \in Small(n) PROVE g[s] = h[s]
    BY <1>4
  <2>2. ASSUME NEW s \in Small(n + 1) PROVE g[s] = Value(g, s)
    <3>1. CASE s = {}
      BY <3>1
    <3>2. CASE s # {}
      <4>1. s \ {Pick(s)} \in Small(n)
        BY <1>1, <1>2, <3>2
      <4>2. g[s \ {Pick(s)}] = h[s \ {Pick(s)}]
        BY <2>1, <4>1
      <4>3. g[s] = f[Pick(s)] + h[s \ {Pick(s)}]
        BY <3>2
      <4> QED
        BY <3>2, <4>2, <4>3
    <3> QED
      BY <3>1, <3>2
  <2>3. Upto(n + 1, g)
    BY <2>2
  <2> HIDE DEF g
  <2> QED
    BY <2>3
<1> HIDE DEF Upto
<1>5. Bad = {}
  <2>1. SUFFICES ASSUME Bad # {} PROVE FALSE
    OBVIOUS
  <2>2. PICK n \in Bad : \A m \in Bad : n <= m
    BY <2>1, LeastNatural
  <2>3. n # 0
    BY <1>3
  <2>4. n - 1 \in Nat /\ n - 1 \notin Bad
    BY <2>2, <2>3
  <2>5. PICK h : Upto(n - 1, h)
    BY <2>4
  <2>6. \E g : Upto(n, g)
    BY <1>4, <2>4, <2>5
  <2> QED
    BY <2>6
<1>6. PICK g : Upto(Cardinality(S), g)
  BY <1>1, <1>5
<1> DEFINE G == [s \in SUBSET S |-> g[s]]
<1>7. ASSUME NEW s \in SUBSET S PROVE G[s] = Value(G, s)
  <2>1. s \in Small(Cardinality(S))
    BY FS_Subset
  <2>2. g[s] = Value(g, s)
    BY <1>6, <2>1 DEF Upto
  <2>3. s \ {Pick(s)} \in SUBSET S
    OBVIOUS
  <2> QED
    BY <2>2, <2>3
<1>8. G = Terms(f, S, G)
  BY <1>7 DEF Terms
<1> QED
  BY <1>8, Zenon DEF IsFold

(* Folds over two sets agree on what both have. *)
LEMMA FoldsAgree ==
  ASSUME NEW f, NEW S, IsFiniteSet(S), NEW T \in SUBSET S, NEW g, NEW h,
         IsFold(f, S, g), IsFold(f, T, h)
  PROVE  \A U \in SUBSET T : h[U] = g[U]
<1> DEFINE Bad == {U \in SUBSET T : h[U] # g[U]}
<1>1. SUFFICES ASSUME Bad # {} PROVE FALSE
  OBVIOUS
<1>2. IsFiniteSet(T)
  BY FS_Subset
<1>3. PICK U \in Bad : \A V \in Bad : V \subseteq U => V = U
  <2>1. Bad \subseteq SUBSET T
    OBVIOUS
  <2> HIDE DEF Bad
  <2> QED
    BY <1>1, <1>2, <2>1, MinimalSubset
<1>3a. U \in SUBSET T /\ U \in SUBSET S /\ U \ {Pick(U)} \in SUBSET T
  OBVIOUS
<1>4. /\ h[U] = IF U = {} THEN 0 ELSE f[Pick(U)] + h[U \ {Pick(U)}]
      /\ g[U] = IF U = {} THEN 0 ELSE f[Pick(U)] + g[U \ {Pick(U)}]
  BY <1>3a DEF IsFold, Terms
<1>5. U # {}
  BY <1>4
<1>6. h[U \ {Pick(U)}] = g[U \ {Pick(U)}]
  BY <1>3, <1>3a, <1>5, PickOne
<1> QED
  BY <1>4, <1>6

(* The sum over a set, from the sum over what is left without one element. *)
LEMMA SumPick ==
  ASSUME NEW f, NEW S, IsFiniteSet(S)
  PROVE  /\ S = {} => SumFunctionOnSet(f, S) = 0
         /\ S # {} => SumFunctionOnSet(f, S) = f[Pick(S)] + SumFunctionOnSet(f, S \ {Pick(S)})
<1> DEFINE T == S \ {Pick(S)}
           g == CHOOSE k : IsFold(f, S, k)
           h == CHOOSE k : IsFold(f, T, k)
<1>1. IsFiniteSet(T)
  BY FS_RemoveElement
<1>2. IsFold(f, S, g) /\ IsFold(f, T, h)
  <2>1. \E k : IsFold(f, S, k)
    BY FoldExists
  <2>2. \E k : IsFold(f, T, k)
    BY <1>1, FoldExists
  <2> QED
    BY <2>1, <2>2, Zenon
<1>3. SumFunctionOnSet(f, S) = g[S] /\ SumFunctionOnSet(f, T) = h[T]
  BY FoldDef
<1> HIDE DEF g, h
<1>4. h[T] = g[T]
  <2>1. T \in SUBSET S /\ T \in SUBSET T
    OBVIOUS
  <2> HIDE DEF T
  <2> QED
    BY <1>2, <2>1, FoldsAgree
<1>5. g[S] = IF S = {} THEN 0 ELSE f[Pick(S)] + g[T]
  BY <1>2 DEF IsFold, Terms
<1> QED
  BY <1>3, <1>4, <1>5

(* The sum of nothing. *)
LEMMA SumEmpty ==
  ASSUME NEW f
  PROVE  SumFunctionOnSet(f, {}) = 0
BY FS_EmptySet, SumPick

(* Sums of integers are integers. *)
LEMMA SumType ==
  ASSUME NEW f, NEW S, IsFiniteSet(S), \A x \in S : f[x] \in Int
  PROVE  SumFunctionOnSet(f, S) \in Int
<1> DEFINE Bad == {U \in SUBSET S : SumFunctionOnSet(f, U) \notin Int}
<1>1. SUFFICES ASSUME Bad # {} PROVE FALSE
  OBVIOUS
<1>2. PICK U \in Bad : \A V \in Bad : V \subseteq U => V = U
  <2>1. Bad \subseteq SUBSET S
    OBVIOUS
  <2> HIDE DEF Bad
  <2> QED
    BY <1>1, <2>1, MinimalSubset
<1>3. IsFiniteSet(U) /\ U \in SUBSET S
  BY FS_Subset
<1>4. U # {}
  BY SumEmpty
<1>5. Pick(U) \in U /\ U \ {Pick(U)} \notin Bad /\ U \ {Pick(U)} \in SUBSET S
  BY <1>2, <1>3, <1>4, PickOne
<1>6. SumFunctionOnSet(f, U) = f[Pick(U)] + SumFunctionOnSet(f, U \ {Pick(U)})
  BY <1>3, <1>4, SumPick
<1> QED
  BY <1>3, <1>5, <1>6

(* A sum is any one of its terms and the sum of the others: the order in   *)
(* which the fold takes the elements does not matter.                      *)
LEMMA SumRemove ==
  ASSUME NEW f, NEW S, IsFiniteSet(S), \A y \in S : f[y] \in Int, NEW x \in S
  PROVE  SumFunctionOnSet(f, S) = f[x] + SumFunctionOnSet(f, S \ {x})
<1> DEFINE Splits(U, y) == SumFunctionOnSet(f, U) = f[y] + SumFunctionOnSet(f, U \ {y})
           Bad == {U \in SUBSET S : \E y \in U : ~Splits(U, y)}
<1>1. SUFFICES ASSUME Bad # {} PROVE FALSE
  OBVIOUS
<1>2. PICK U \in Bad : \A V \in Bad : V \subseteq U => V = U
  <2>1. Bad \subseteq SUBSET S
    OBVIOUS
  <2> HIDE DEF Bad
  <2> QED
    BY <1>1, <2>1, MinimalSubset
<1>3. PICK y \in U : ~Splits(U, y)
  OBVIOUS
<1> DEFINE p == Pick(U)
<1>4. U \in SUBSET S /\ IsFiniteSet(U) /\ p \in U
  <2>1. U \in SUBSET S /\ U # {}
    OBVIOUS
  <2> QED
    BY <2>1, FS_Subset, PickOne
<1>5. Splits(U, p)
  BY <1>4, SumPick
<1> HIDE DEF p
<1>6. p # y
  BY <1>3, <1>5
<1>7. U \ {p} \notin Bad /\ U \ {y} \notin Bad
  BY <1>2, <1>3, <1>4
<1>8. Splits(U \ {p}, y) /\ Splits(U \ {y}, p)
  BY <1>3, <1>4, <1>6, <1>7
<1>9. (U \ {p}) \ {y} = (U \ {y}) \ {p}
  OBVIOUS
<1>10. SumFunctionOnSet(f, (U \ {p}) \ {y}) \in Int
  <2>1. IsFiniteSet((U \ {p}) \ {y})
    BY <1>4, FS_RemoveElement
  <2> QED
    BY <1>4, <2>1, SumType
<1>11. f[p] \in Int /\ f[y] \in Int
  BY <1>3, <1>4
<1> DEFINE rest == SumFunctionOnSet(f, (U \ {p}) \ {y})
<1>12. SumFunctionOnSet(f, U \ {p}) = f[y] + rest
  BY <1>8
<1>13. SumFunctionOnSet(f, U \ {y}) = f[p] + rest
  BY <1>8, <1>9
<1>14. rest \in Int
  BY <1>10
<1> HIDE DEF rest
<1>15. SumFunctionOnSet(f, U) = f[p] + (f[y] + rest)
  BY <1>5, <1>12
<1>16. SumFunctionOnSet(f, U) = f[y] + (f[p] + rest)
  BY <1>11, <1>14, <1>15
<1> QED
  BY <1>3, <1>13, <1>16

(* One more term. *)
LEMMA SumAdd ==
  ASSUME NEW f, NEW S, IsFiniteSet(S), NEW x, x \notin S,
         \A y \in S \cup {x} : f[y] \in Int
  PROVE  SumFunctionOnSet(f, S \cup {x}) = f[x] + SumFunctionOnSet(f, S)
<1>1. IsFiniteSet(S \cup {x})
  BY FS_AddElement
<1>2. (S \cup {x}) \ {x} = S
  OBVIOUS
<1> QED
  BY <1>1, <1>2, SumRemove

(* A sum depends on the terms only. *)
LEMMA SumAgree ==
  ASSUME NEW f, NEW g, NEW S, IsFiniteSet(S), \A x \in S : f[x] = g[x]
  PROVE  SumFunctionOnSet(f, S) = SumFunctionOnSet(g, S)
<1> DEFINE Bad == {U \in SUBSET S : SumFunctionOnSet(f, U) # SumFunctionOnSet(g, U)}
<1>1. SUFFICES ASSUME Bad # {} PROVE FALSE
  OBVIOUS
<1>2. PICK U \in Bad : \A V \in Bad : V \subseteq U => V = U
  <2>1. Bad \subseteq SUBSET S
    OBVIOUS
  <2> HIDE DEF Bad
  <2> QED
    BY <1>1, <2>1, MinimalSubset
<1>3. IsFiniteSet(U) /\ U \in SUBSET S
  BY FS_Subset
<1>4. U # {}
  BY SumEmpty
<1>5. Pick(U) \in U /\ U \ {Pick(U)} \notin Bad /\ U \ {Pick(U)} \in SUBSET S
  BY <1>2, <1>3, <1>4, PickOne
<1>6. /\ SumFunctionOnSet(f, U) = f[Pick(U)] + SumFunctionOnSet(f, U \ {Pick(U)})
      /\ SumFunctionOnSet(g, U) = g[Pick(U)] + SumFunctionOnSet(g, U \ {Pick(U)})
  BY <1>3, <1>4, SumPick
<1> QED
  BY <1>3, <1>5, <1>6

(* A sum of zeros. *)
LEMMA SumZero ==
  ASSUME NEW S, IsFiniteSet(S)
  PROVE  SumFunctionOnSet([x \in S |-> 0], S) = 0
<1> DEFINE f == [x \in S |-> 0]
           Bad == {U \in SUBSET S : SumFunctionOnSet(f, U) # 0}
<1>1. SUFFICES ASSUME Bad # {} PROVE FALSE
  OBVIOUS
<1>2. PICK U \in Bad : \A V \in Bad : V \subseteq U => V = U
  <2>1. Bad \subseteq SUBSET S
    OBVIOUS
  <2> HIDE DEF Bad
  <2> QED
    BY <1>1, <2>1, MinimalSubset
<1>3. IsFiniteSet(U) /\ U \in SUBSET S
  BY FS_Subset
<1>4. U # {}
  BY SumEmpty
<1>5. Pick(U) \in U /\ U \ {Pick(U)} \notin Bad /\ U \ {Pick(U)} \in SUBSET S
  BY <1>2, <1>3, <1>4, PickOne
<1>6. f[Pick(U)] = 0
  BY <1>3, <1>5
<1> HIDE DEF f
<1>7. SumFunctionOnSet(f, U) = f[Pick(U)] + SumFunctionOnSet(f, U \ {Pick(U)})
  BY <1>3, <1>4, SumPick
<1> QED
  BY <1>3, <1>5, <1>6, <1>7

(* Terms add up one by one. *)
LEMMA SumPlus ==
  ASSUME NEW f, NEW g, NEW h, NEW S, IsFiniteSet(S),
         \A x \in S : f[x] \in Int /\ g[x] \in Int /\ h[x] = f[x] + g[x]
  PROVE  SumFunctionOnSet(h, S) = SumFunctionOnSet(f, S) + SumFunctionOnSet(g, S)
<1> DEFINE Bad == {U \in SUBSET S :
                     SumFunctionOnSet(h, U) # SumFunctionOnSet(f, U) + SumFunctionOnSet(g, U)}
<1>1. SUFFICES ASSUME Bad # {} PROVE FALSE
  OBVIOUS
<1>2. PICK U \in Bad : \A V \in Bad : V \subseteq U => V = U
  <2>1. Bad \subseteq SUBSET S
    OBVIOUS
  <2> HIDE DEF Bad
  <2> QED
    BY <1>1, <2>1, MinimalSubset
<1>3. IsFiniteSet(U) /\ U \in SUBSET S
  BY FS_Subset
<1>4. U # {}
  <2>1. SumFunctionOnSet(f, {}) = 0 /\ SumFunctionOnSet(g, {}) = 0 /\ SumFunctionOnSet(h, {}) = 0
    BY SumEmpty
  <2>2. {} \notin Bad
    BY <2>1
  <2> HIDE DEF Bad
  <2> QED
    BY <2>2
<1> DEFINE V == U \ {Pick(U)}
<1>5. Pick(U) \in U /\ V \notin Bad /\ V \in SUBSET S /\ IsFiniteSet(V)
  BY <1>2, <1>3, <1>4, PickOne, FS_RemoveElement
<1>6. /\ SumFunctionOnSet(f, U) = f[Pick(U)] + SumFunctionOnSet(f, V)
      /\ SumFunctionOnSet(g, U) = g[Pick(U)] + SumFunctionOnSet(g, V)
      /\ SumFunctionOnSet(h, U) = h[Pick(U)] + SumFunctionOnSet(h, V)
  BY <1>3, <1>4, SumPick
<1>7. SumFunctionOnSet(h, V) = SumFunctionOnSet(f, V) + SumFunctionOnSet(g, V)
  BY <1>5
<1>8. SumFunctionOnSet(f, V) \in Int /\ SumFunctionOnSet(g, V) \in Int
  BY <1>5, SumType
<1>9. f[Pick(U)] \in Int /\ g[Pick(U)] \in Int /\ h[Pick(U)] = f[Pick(U)] + g[Pick(U)]
  BY <1>3, <1>5
<1>10. U \notin Bad
  <2> HIDE DEF V
  <2> QED
    BY <1>3, <1>6, <1>7, <1>8, <1>9
<1> QED
  BY <1>2, <1>10

(* The terms f over T are the terms g over S, at the places h. *)
MovedTerms(f, T, h, g, S) ==
  /\ \A x \in S : h[x] \in T /\ f[h[x]] \in Int /\ g[x] = f[h[x]]
  /\ \A y \in T : \E x \in S : y = h[x]
  /\ \A x, y \in S : h[x] = h[y] => x = y

(* The same terms at other places have the same sum. *)
LEMMA SumMoved ==
  ASSUME NEW f, NEW T, NEW h, NEW g, NEW S, IsFiniteSet(S), MovedTerms(f, T, h, g, S)
  PROVE  SumFunctionOnSet(g, S) = SumFunctionOnSet(f, T)
<1> USE DEF MovedTerms
<1> DEFINE To(U) == {h[x] : x \in U}
           Bad == {U \in SUBSET S : SumFunctionOnSet(g, U) # SumFunctionOnSet(f, To(U))}
<1>1. SUFFICES ASSUME Bad # {} PROVE FALSE
  <2>1. To(S) = T
    OBVIOUS
  <2> QED
    BY <2>1
<1>2. PICK U \in Bad : \A V \in Bad : V \subseteq U => V = U
  <2>1. Bad \subseteq SUBSET S
    OBVIOUS
  <2> HIDE DEF Bad
  <2> QED
    BY <1>1, <2>1, MinimalSubset
<1>3. IsFiniteSet(U) /\ U \in SUBSET S
  BY FS_Subset
<1>4. U # {}
  <2>1. To({}) = {}
    OBVIOUS
  <2> QED
    BY <2>1, SumEmpty
<1> DEFINE p == Pick(U)
           V == U \ {p}
<1>5. p \in U /\ V \notin Bad /\ V \in SUBSET S
  BY <1>2, <1>3, <1>4, PickOne
<1>6. SumFunctionOnSet(g, U) = g[p] + SumFunctionOnSet(g, V)
  BY <1>3, <1>4, SumPick
<1>7. SumFunctionOnSet(g, V) = SumFunctionOnSet(f, To(V))
  BY <1>5
<1>8. SumFunctionOnSet(f, To(V) \cup {h[p]}) = f[h[p]] + SumFunctionOnSet(f, To(V))
  <2>1. IsFiniteSet(To(V))
    <3>1. IsFiniteSet(V)
      BY <1>3, FS_RemoveElement
    <3>2. [x \in V |-> h[x]] \in Surjection(V, To(V))
      BY DEF Surjection
    <3> HIDE DEF V, To
    <3> QED
      BY <3>1, <3>2, FS_Surjection
  <2>2. h[p] \notin To(V)
    BY <1>3, <1>5
  <2>3. \A y \in To(V) \cup {h[p]} : f[y] \in Int
    BY <1>3, <1>5
  <2> HIDE DEF To, V, p
  <2> QED
    BY <2>1, <2>2, <2>3, SumAdd
<1>9. To(U) = To(V) \cup {h[p]}
  BY <1>5
<1>10. g[p] = f[h[p]]
  BY <1>3, <1>5
<1> QED
  BY <1>2, <1>6, <1>7, <1>8, <1>9, <1>10

(* One term changes. *)
LEMMA SumChange ==
  ASSUME NEW f, NEW g, NEW S, IsFiniteSet(S), NEW x \in S,
         \A y \in S : f[y] \in Int /\ g[y] \in Int,
         \A y \in S : y # x => f[y] = g[y]
  PROVE  SumFunctionOnSet(g, S) = SumFunctionOnSet(f, S) - f[x] + g[x]
<1>1. IsFiniteSet(S \ {x})
  BY FS_RemoveElement
<1>2. SumFunctionOnSet(f, S \ {x}) = SumFunctionOnSet(g, S \ {x})
  BY <1>1, SumAgree
<1>3. /\ SumFunctionOnSet(f, S) = f[x] + SumFunctionOnSet(f, S \ {x})
      /\ SumFunctionOnSet(g, S) = g[x] + SumFunctionOnSet(g, S \ {x})
  BY SumRemove
<1>4. SumFunctionOnSet(f, S \ {x}) \in Int
  BY <1>1, SumType
<1> QED
  BY <1>2, <1>3, <1>4

(* More terms, none negative, make no smaller sum. *)
LEMMA SumMonotone ==
  ASSUME NEW f, NEW S, IsFiniteSet(S), \A x \in S : f[x] \in Int /\ f[x] >= 0,
         NEW T \in SUBSET S
  PROVE  SumFunctionOnSet(f, T) <= SumFunctionOnSet(f, S)
<1> DEFINE Bad == {U \in SUBSET S : T \subseteq U
                     /\ ~(SumFunctionOnSet(f, T) <= SumFunctionOnSet(f, U))}
<1>1. SUFFICES ASSUME Bad # {} PROVE FALSE
  OBVIOUS
<1>2. PICK U \in Bad : \A V \in Bad : V \subseteq U => V = U
  <2>1. Bad \subseteq SUBSET S
    OBVIOUS
  <2> HIDE DEF Bad
  <2> QED
    BY <1>1, <2>1, MinimalSubset
<1>3. IsFiniteSet(U) /\ U \in SUBSET S /\ T \subseteq U /\ IsFiniteSet(T)
  BY FS_Subset
<1>4. \A V \in SUBSET S : IsFiniteSet(V) => SumFunctionOnSet(f, V) \in Int
  BY SumType
<1>5. T # U
  BY <1>3, <1>4
<1>6. PICK x \in U : x \notin T
  BY <1>3, <1>5
<1>7. IsFiniteSet(U \ {x}) /\ U \ {x} \in SUBSET S /\ T \subseteq U \ {x}
  BY <1>3, <1>6, FS_RemoveElement
<1>8. U \ {x} \notin Bad
  BY <1>2, <1>6
<1>9. SumFunctionOnSet(f, U) = f[x] + SumFunctionOnSet(f, U \ {x})
  BY <1>3, SumRemove
<1>10. f[x] \in Int /\ f[x] >= 0
  BY <1>3
<1> QED
  BY <1>3, <1>4, <1>7, <1>8, <1>9, <1>10

(* A sum of no negative terms is at least each of them, and not negative. *)
LEMMA SumMember ==
  ASSUME NEW f, NEW S, IsFiniteSet(S), \A x \in S : f[x] \in Int /\ f[x] >= 0
  PROVE  /\ SumFunctionOnSet(f, S) >= 0
         /\ \A x \in S : f[x] <= SumFunctionOnSet(f, S)
<1>1. SumFunctionOnSet(f, S) \in Int
  BY SumType
<1>2. SumFunctionOnSet(f, {}) <= SumFunctionOnSet(f, S)
  BY SumMonotone
<1>3. ASSUME NEW x \in S PROVE f[x] <= SumFunctionOnSet(f, S)
  <2>1. SumFunctionOnSet(f, {x}) <= SumFunctionOnSet(f, S)
    BY SumMonotone
  <2>2. SumFunctionOnSet(f, {} \cup {x}) = f[x] + SumFunctionOnSet(f, {})
    BY FS_EmptySet, SumAdd
  <2>3. {} \cup {x} = {x}
    OBVIOUS
  <2> QED
    BY <2>1, <2>2, <2>3, SumEmpty
<1> QED
  BY <1>1, <1>2, <1>3, SumEmpty

-----------------------------------------------------------------------------
(* Sets that differ in r at most have as many other members.                *)
LEMMA OneDiffers ==
  ASSUME NEW S, NEW T, NEW r, IsFiniteSet(S), IsFiniteSet(T), S \ {r} = T \ {r}
  PROVE  Cardinality(T) + (IF r \in S THEN 1 ELSE 0) = Cardinality(S) + (IF r \in T THEN 1 ELSE 0)
<1>1. \A X : IsFiniteSet(X) => Cardinality(X) \in Nat /\ Cardinality(X \ {r}) = Cardinality(X) - (IF r \in X THEN 1 ELSE 0)
  BY FS_RemoveElement, FS_CardinalityType
<1> QED
  BY <1>1

-----------------------------------------------------------------------------
(* A number that is no less than any other of the set.                      *)
LEMMA GreatestNatural ==
  ASSUME NEW n \in Nat, NEW T, T \subseteq 0..n, T # {}
  PROVE  \E x \in T : \A y \in T : x >= y
<1>1. {n - x : x \in T} \subseteq Nat /\ {n - x : x \in T} # {}
  <2>1. \A x \in T : n - x \in Nat
    OBVIOUS
  <2>2. PICK x \in T : TRUE
    OBVIOUS
  <2> QED
    BY <2>1, <2>2
<1>2. PICK d \in {n - x : x \in T} : \A e \in {n - x : x \in T} : d <= e
  BY <1>1, LeastNatural
<1>3. PICK x \in T : d = n - x
  BY <1>2
<1>4. \A y \in T : n - x <= n - y
  BY <1>2, <1>3
<1>5. ASSUME NEW y \in T PROVE x >= y
  <2>1. x \in Int /\ y \in Int
    OBVIOUS
  <2>2. n - x <= n - y
    BY <1>4
  <2> QED
    BY <2>1, <2>2
<1> QED
  BY <1>5

(* A function of the subsets of a finite set can be given by what it is of  *)
(* the empty set and how it is computed from the set without one element.   *)
Picks(S, pick) == \A s \in SUBSET S : s # {} => pick[s] \in s
StaysIn(V, S, step) == \A x \in S, v \in V : step[x][v] \in V
Iteration(S, V, base, pick, step, h) ==
  /\ h \in [SUBSET S -> V]
  /\ \A s \in SUBSET S :
       h[s] = IF s = {} THEN base ELSE step[pick[s]][h[s \ {pick[s]}]]
LEMMA IterationExists ==
  ASSUME NEW S, IsFiniteSet(S), NEW V, NEW base \in V, NEW pick, NEW step,
         Picks(S, pick), StaysIn(V, S, step)
  PROVE  \E h : Iteration(S, V, base, pick, step, h)
<1> USE DEF Picks, StaysIn
<1> DEFINE Value(g, s) == IF s = {} THEN base ELSE step[pick[s]][g[s \ {pick[s]}]]
           Small(n) == {s \in SUBSET S : Cardinality(s) <= n}
           Upto(n, g) == g \in [SUBSET S -> V] /\ \A s \in Small(n) : g[s] = Value(g, s)
           Bad == {n \in Nat : ~\E g : Upto(n, g)}
<1>1. \A s \in SUBSET S : IsFiniteSet(s) /\ Cardinality(s) \in Nat
  BY FS_Subset, FS_CardinalityType
<1>2. ASSUME NEW s \in SUBSET S, s # {}
      PROVE  s \ {pick[s]} \in SUBSET S /\ Cardinality(s \ {pick[s]}) = Cardinality(s) - 1
  BY <1>1, <1>2, FS_RemoveElement
<1>3. \E g : Upto(0, g)
  <2> DEFINE all == [s \in SUBSET S |-> base]
  <2>1. \A s \in Small(0) : s = {}
    BY <1>1, FS_EmptySet
  <2>2. Upto(0, all)
    BY <2>1
  <2> QED
    BY <2>2
<1>4. ASSUME NEW n \in Nat, NEW h, Upto(n, h) PROVE \E g : Upto(n + 1, g)
  <2> DEFINE g == [s \in SUBSET S |-> Value(h, s)]
  <2>1. ASSUME NEW s \in Small(n) PROVE g[s] = h[s]
    BY <1>4
  <2>2. ASSUME NEW s \in Small(n + 1) PROVE g[s] = Value(g, s)
    <3>1. CASE s = {}
      BY <3>1
    <3>2. CASE s # {}
      <4>1. s \ {pick[s]} \in Small(n)
        BY <1>1, <1>2, <3>2
      <4>2. g[s \ {pick[s]}] = h[s \ {pick[s]}]
        BY <2>1, <4>1
      <4>3. g[s] = step[pick[s]][h[s \ {pick[s]}]]
        BY <3>2
      <4> QED
        BY <3>2, <4>2, <4>3
    <3> QED
      BY <3>1, <3>2
  <2>3. ASSUME NEW s \in SUBSET S PROVE Value(h, s) \in V
    <3>1. CASE s = {}
      BY <3>1
    <3>2. CASE s # {}
      <4>1. pick[s] \in S /\ h[s \ {pick[s]}] \in V
        BY <1>2, <1>4, <3>2
      <4> QED
        BY <3>2, <4>1
    <3> QED
      BY <3>1, <3>2
  <2>4. g \in [SUBSET S -> V]
    BY <2>3
  <2>5. Upto(n + 1, g)
    BY <2>2, <2>4
  <2> HIDE DEF g
  <2> QED
    BY <2>5
<1> HIDE DEF Upto
<1>5. Bad = {}
  <2>1. SUFFICES ASSUME Bad # {} PROVE FALSE
    OBVIOUS
  <2>2. PICK n \in Bad : \A m \in Bad : n <= m
    BY <2>1, LeastNatural
  <2>3. n # 0
    BY <1>3
  <2>4. n - 1 \in Nat /\ n - 1 \notin Bad
    BY <2>2, <2>3
  <2>5. PICK h : Upto(n - 1, h)
    BY <2>4
  <2>6. \E g : Upto(n, g)
    BY <1>4, <2>4, <2>5
  <2> QED
    BY <2>6
<1>6. PICK g : Upto(Cardinality(S), g)
  BY <1>1, <1>5
<1>7. \A s \in SUBSET S : s \in Small(Cardinality(S))
  BY FS_Subset
<1>8. g \in [SUBSET S -> V] /\ \A s \in SUBSET S : g[s] = Value(g, s)
  BY <1>6, <1>7 DEF Upto
<1> QED
  BY <1>8, Zenon DEF Iteration
=============================================================================
