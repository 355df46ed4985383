------------------------------ MODULE RowSums ------------------------------
(***************************************************************************)
(* Lemmas about SumFunctionOnSet of the community module Functions, the    *)
(* sum that the models of the sheets add up rows with.                     *)
(*                                                                         *)
(* SumFunctionOnSet(f, S) unfolds to a recursive function on the subsets   *)
(* of S.  That there is one is proved here from the naturals' order        *)
(* (Naturals), that it has its values whatever the element chosen first    *)
(* from the order of finite sets by inclusion (StrictSubsetOrdering): each *)
(* induction is over a set of good cases rather than a predicate.          *)
(***************************************************************************)
EXTENDS Functions, FiniteSetTheorems, WellFoundedInduction, TLAPS

----------------------------------------------------------------------------
(* Induction over finite sets, from smaller ones: what holds of a set when *)
(* it holds of its proper subsets holds of the whole.                      *)
LEMMA FromProperSubsets ==
    ASSUME NEW S, IsFiniteSet(S), NEW Good,
           \A T \in SUBSET S :
                (\A U \in SUBSET T : U # T => U \in Good) => T \in Good
    PROVE  \A T \in SUBSET S : T \in Good
<1>. DEFINE Bad == (SUBSET S) \ Good
            R == StrictSubsetOrdering(S)
<1>1. SUFFICES ASSUME Bad # {} PROVE FALSE
    OBVIOUS
<1>2. IsWellFoundedOn(R, SUBSET S)
    BY FS_StrictSubsetOrderingWellFounded, FS_FiniteSubsetsOfFinite
<1>3. Bad \subseteq SUBSET S
    OBVIOUS
<1>. HIDE DEF R, Bad
<1>4. PICK T \in Bad : \A U \in Bad : ~ (<<U, T>> \in R)
    BY <1>1, <1>2, <1>3, WFMin
<1>5. T \in SUBSET S /\ T \notin Good
    BY DEF Bad
<1>6. PICK U \in SUBSET T : U # T /\ U \notin Good
    BY <1>5
<1>7. U \in Bad /\ <<U, T>> \in R
    BY <1>5, <1>6 DEF Bad, R, StrictSubsetOrdering
<1>. QED BY <1>4, <1>7

(* The same, one element at a time.                                        *)
LEMMA ElementByElement ==
    ASSUME NEW S, IsFiniteSet(S), NEW Good,
           {} \in Good,
           \A T \in SUBSET S, x \in S :
                x \notin T /\ T \in Good => T \cup {x} \in Good
    PROVE  S \in Good
<1>1. ASSUME NEW T \in SUBSET S, \A U \in SUBSET T : U # T => U \in Good
      PROVE  T \in Good
    <2>1. CASE T = {}
        BY <2>1
    <2>2. CASE T # {}
        <3>1. PICK x \in T : TRUE
            BY <2>2
        <3>2. T \ {x} \in SUBSET T /\ T \ {x} # T
            BY <3>1
        <3>3. T \ {x} \in Good
            BY <1>1, <3>2
        <3>4. T \ {x} \in SUBSET S /\ x \in S /\ x \notin T \ {x} /\ (T \ {x}) \cup {x} = T
            BY <3>1
        <3>. QED BY <3>3, <3>4
    <2>. QED BY <2>1, <2>2
<1>2. \A T \in SUBSET S : T \in Good
    BY <1>1, FromProperSubsets
<1>. QED BY <1>2

(* A finite set of integers has a largest element. *)
LEMMA LargestExists ==
    ASSUME NEW T \in SUBSET Int, IsFiniteSet(T), T # {}
    PROVE  \E x \in T : \A y \in T : x >= y
<1>. DEFINE Good == {U \in SUBSET T : U # {} => \E x \in U : \A y \in U : x >= y}
<1>1. {} \in Good
    OBVIOUS
<1>2. ASSUME NEW U \in SUBSET T, NEW z \in T, U \in Good
      PROVE  U \cup {z} \in Good
    <2>1. CASE U = {}
        BY <2>1
    <2>2. CASE U # {}
        <3>1. PICK x \in U : \A y \in U : x >= y
            BY <1>2, <2>2
        <3>2. x >= z \/ z >= x
            OBVIOUS
        <3>3. CASE x >= z
            BY <3>1, <3>3
        <3>4. CASE z >= x
            <4>1. \A y \in U \cup {z} : z >= y
                BY <3>1, <3>4
            <4>. QED BY <4>1
        <3>. QED BY <3>2, <3>3, <3>4
    <2>. QED BY <2>1, <2>2
<1>. HIDE DEF Good
<1>3. T \in Good
    BY <1>1, <1>2, ElementByElement
<1>. QED BY <1>3 DEF Good

(* Induction over the naturals.                                            *)
LEMMA NextByNext ==
    ASSUME NEW Good, 0 \in Good, \A n \in Nat : n \in Good => n + 1 \in Good
    PROVE  \A n \in Nat : n \in Good
<1>. DEFINE Bad == Nat \ Good
            R == {ss \in Nat \X Nat : ss[1] < ss[2]}
<1>1. SUFFICES ASSUME Bad # {} PROVE FALSE
    OBVIOUS
<1>2. IsWellFoundedOn(R, Nat)
    BY NatLessThanWellFounded, Zenon DEF OpToRel
<1>3. Bad \subseteq Nat
    OBVIOUS
<1>. HIDE DEF R, Bad
<1>4. PICK n \in Bad : \A m \in Bad : ~ (<<m, n>> \in R)
    BY <1>1, <1>2, <1>3, WFMin
<1>5. n \in Nat /\ n \notin Good
    BY DEF Bad
<1>6. n - 1 \in Nat /\ n = (n - 1) + 1
    BY <1>5
<1>7. n - 1 \notin Good
    BY <1>5, <1>6
<1>8. n - 1 \in Bad /\ <<n - 1, n>> \in R
    BY <1>5, <1>6, <1>7 DEF Bad, R
<1>. QED BY <1>4, <1>8

----------------------------------------------------------------------------
(* The function that a sum over S unfolds to: g on the sets of C adds the  *)
(* values of f, from a chosen element on.                                  *)
Pick(s) == CHOOSE x \in s : TRUE
AddsUp(g, f, C) ==
    g = [s \in C |-> IF s = {} THEN 0 ELSE f[Pick(s)] + g[s \ {Pick(s)}]]

LEMMA SumIsValue ==
    ASSUME NEW f, NEW S
    PROVE  SumFunctionOnSet(f, S) = (CHOOSE g : AddsUp(g, f, SUBSET S))[S]
BY DEF SumFunctionOnSet, FoldFunctionOnSet, MapThenFoldSet, AddsUp, Pick

LEMMA PickIn == \A s : s # {} => Pick(s) \in s
BY DEF Pick

(* There is such a function, however large the sets of C: one for sets of  *)
(* at most n elements gives one for sets of at most n + 1.                 *)
LEMMA AddingUpExists ==
    ASSUME NEW f, NEW S, IsFiniteSet(S)
    PROVE  \E g : AddsUp(g, f, SUBSET S)
<1>. DEFINE Upto(n) == {s \in SUBSET S : Cardinality(s) <= n}
            Good == {n \in Nat : \E g : AddsUp(g, f, Upto(n))}
            Longer(g, n) == [s \in Upto(n) |->
                IF s = {} THEN 0 ELSE f[Pick(s)] + g[s \ {Pick(s)}]]
<1>1. \A s \in SUBSET S : IsFiniteSet(s) /\ Cardinality(s) \in Nat
    BY FS_Subset, FS_CardinalityType
<1>2. ASSUME NEW s \in SUBSET S, s # {}
      PROVE  /\ s \ {Pick(s)} \in SUBSET S
             /\ Cardinality(s \ {Pick(s)}) = Cardinality(s) - 1
    <2>1. IsFiniteSet(s) /\ Pick(s) \in s
        BY <1>1, <1>2, PickIn
    <2>. QED BY <2>1, FS_RemoveElement
<1>3. 0 \in Good
    <2>1. \A s \in Upto(0) : s = {}
        BY <1>1, FS_EmptySet
    <2>2. AddsUp(Longer(<<>>, 0), f, Upto(0))
        BY <2>1 DEF AddsUp
    <2>. QED BY <2>2
<1>4. ASSUME NEW n \in Nat, n \in Good
      PROVE  n + 1 \in Good
    <2>1. PICK g : AddsUp(g, f, Upto(n))
        BY <1>4
    <2>. DEFINE h == Longer(g, n + 1)
    <2>2. \A s \in Upto(n + 1) : s # {} => s \ {Pick(s)} \in Upto(n) /\ s \ {Pick(s)} \in Upto(n + 1)
        BY <1>1, <1>2
    <2>3. ASSUME NEW t \in Upto(n)
          PROVE  g[t] = h[t]
        <3>1. t \in Upto(n + 1)
            BY <1>1
        <3>2. h[t] = IF t = {} THEN 0 ELSE f[Pick(t)] + g[t \ {Pick(t)}]
            BY <3>1
        <3>3. g[t] = IF t = {} THEN 0 ELSE f[Pick(t)] + g[t \ {Pick(t)}]
            BY <2>1 DEF AddsUp
        <3>. QED BY <3>2, <3>3
    <2>4. \A s \in Upto(n + 1) : s # {} => g[s \ {Pick(s)}] = h[s \ {Pick(s)}]
        BY <2>2, <2>3
    <2>5. AddsUp(h, f, Upto(n + 1))
        <3>. DEFINE k == [s \in Upto(n + 1) |->
                             IF s = {} THEN 0 ELSE f[Pick(s)] + h[s \ {Pick(s)}]]
        <3>. HIDE DEF Upto
        <3>1. \A s \in Upto(n + 1) : h[s] = k[s]
            BY <2>4
        <3>2. h = k
            BY <3>1
        <3>. QED BY <3>2 DEF AddsUp
    <2>. HIDE DEF h, Upto
    <2>6. \E k : AddsUp(k, f, Upto(n + 1))
        BY <2>5
    <2>. QED BY <2>6
<1>5. Cardinality(S) \in Good
    <2>. HIDE DEF Good
    <2>1. \A n \in Nat : n \in Good
        BY <1>3, <1>4, NextByNext
    <2>. QED BY <2>1, FS_CardinalityType
<1>6. Upto(Cardinality(S)) = SUBSET S
    BY FS_Subset
<1>. QED BY <1>5, <1>6

(* The value for a set is the same in all of them.                         *)
LEMMA AddingUpUnique ==
    ASSUME NEW f, NEW S, IsFiniteSet(S), NEW T \in SUBSET S,
           NEW g, NEW h, AddsUp(g, f, SUBSET S), AddsUp(h, f, SUBSET T)
    PROVE  \A U \in SUBSET T : g[U] = h[U]
<1>. DEFINE Good == {U \in SUBSET T : g[U] = h[U]}
<1>1. IsFiniteSet(T)
    BY FS_Subset
<1>2. ASSUME NEW U \in SUBSET T, \A V \in SUBSET U : V # U => V \in Good
      PROVE  U \in Good
    <2>1. g[U] = IF U = {} THEN 0 ELSE f[Pick(U)] + g[U \ {Pick(U)}]
        BY DEF AddsUp
    <2>2. h[U] = IF U = {} THEN 0 ELSE f[Pick(U)] + h[U \ {Pick(U)}]
        BY DEF AddsUp
    <2>3. U # {} => U \ {Pick(U)} \in SUBSET U /\ U \ {Pick(U)} # U
        BY PickIn
    <2>4. U # {} => g[U \ {Pick(U)}] = h[U \ {Pick(U)}]
        BY <1>2, <2>3
    <2>. QED BY <2>1, <2>2, <2>4
<1>. HIDE DEF Good
<1>3. \A U \in SUBSET T : U \in Good
    BY <1>1, <1>2, FromProperSubsets
<1>. QED BY <1>3 DEF Good

(* The sum of nothing is zero.                                             *)
LEMMA SumEmpty == \A f : SumFunctionOnSet(f, {}) = 0
<1>1. SUFFICES ASSUME NEW f PROVE SumFunctionOnSet(f, {}) = 0
    OBVIOUS
<1>. DEFINE g == CHOOSE h : AddsUp(h, f, SUBSET {})
<1>2. AddsUp(g, f, SUBSET {})
    BY AddingUpExists, FS_EmptySet
<1>. HIDE DEF g
<1>3. g[{}] = 0
    BY <1>2 DEF AddsUp
<1>. QED BY <1>3, SumIsValue DEF g

(* One unfolding: the element that CHOOSE takes, and the rest.             *)
LEMMA SumFromPick ==
    ASSUME NEW f, NEW S, IsFiniteSet(S), S # {}
    PROVE  SumFunctionOnSet(f, S) = f[Pick(S)] + SumFunctionOnSet(f, S \ {Pick(S)})
<1>1. PICK T : T = S \ {Pick(S)}
    OBVIOUS
<1>2. IsFiniteSet(T) /\ T \in SUBSET S
    BY <1>1, FS_Subset
<1>3. PICK g : g = CHOOSE k : AddsUp(k, f, SUBSET S)
    OBVIOUS
<1>4. PICK h : h = CHOOSE k : AddsUp(k, f, SUBSET T)
    OBVIOUS
<1>5. AddsUp(g, f, SUBSET S)
    BY <1>3, AddingUpExists
<1>6. AddsUp(h, f, SUBSET T)
    BY <1>2, <1>4, AddingUpExists
<1>7. g[T] = h[T]
    BY <1>2, <1>5, <1>6, AddingUpUnique
<1>8. g[S] = f[Pick(S)] + g[T]
    BY <1>1, <1>5 DEF AddsUp
<1>9. SumFunctionOnSet(f, S) = g[S] /\ SumFunctionOnSet(f, T) = h[T]
    BY <1>3, <1>4, SumIsValue
<1>. QED BY <1>1, <1>7, <1>8, <1>9

----------------------------------------------------------------------------
(* Sums of integers: any element may be taken out first. *)
LEMMA SumType ==
    ASSUME NEW f, NEW S, IsFiniteSet(S), \A x \in S : f[x] \in Int
    PROVE  SumFunctionOnSet(f, S) \in Int
<1>. DEFINE Good == {T \in SUBSET S : SumFunctionOnSet(f, T) \in Int}
<1>1. ASSUME NEW T \in SUBSET S, \A U \in SUBSET T : U # T => U \in Good
      PROVE  T \in Good
    <2>1. CASE T = {}
        BY <2>1, SumEmpty
    <2>2. CASE T # {}
        <3>1. IsFiniteSet(T)
            BY FS_Subset
        <3>2. Pick(T) \in T /\ T \ {Pick(T)} \in SUBSET T /\ T \ {Pick(T)} # T
            BY <2>2, PickIn
        <3>3. SumFunctionOnSet(f, T \ {Pick(T)}) \in Int /\ f[Pick(T)] \in Int
            BY <1>1, <3>2
        <3>4. SumFunctionOnSet(f, T) = f[Pick(T)] + SumFunctionOnSet(f, T \ {Pick(T)})
            BY <2>2, <3>1, SumFromPick
        <3>. QED BY <3>3, <3>4
    <2>. QED BY <2>1, <2>2
<1>. HIDE DEF Good
<1>2. S \in Good
    BY <1>1, FromProperSubsets
<1>. QED BY <1>2 DEF Good

(* Any element can be taken out, not only the chosen one.                  *)
LEMMA SumRemove ==
    ASSUME NEW f, NEW S, IsFiniteSet(S), \A x \in S : f[x] \in Int
    PROVE  \A x \in S :
                SumFunctionOnSet(f, S) = f[x] + SumFunctionOnSet(f, S \ {x})
<1>. DEFINE Without(T, x) ==
                SumFunctionOnSet(f, T) = f[x] + SumFunctionOnSet(f, T \ {x})
            Good == {T \in SUBSET S : \A x \in T : Without(T, x)}
<1>1. ASSUME NEW T \in SUBSET S, \A U \in SUBSET T : U # T => U \in Good,
             NEW x \in T
      PROVE  Without(T, x)
    <2>1. IsFiniteSet(T)
        BY FS_Subset
    <2>2. PICK c \in T : SumFunctionOnSet(f, T) = f[c] + SumFunctionOnSet(f, T \ {c})
        BY <2>1, SumFromPick, PickIn
    <2>3. CASE x = c
        BY <2>2, <2>3
    <2>4. CASE x # c
        <3>1. T \ {c} \in Good /\ T \ {x} \in Good
            BY <1>1
        <3>2. (T \ {c}) \ {x} = (T \ {x}) \ {c}
            OBVIOUS
        <3>. DEFINE rest == SumFunctionOnSet(f, (T \ {x}) \ {c})
        <3>3. SumFunctionOnSet(f, T \ {c}) = f[x] + rest
            BY <2>4, <3>1, <3>2
        <3>4. SumFunctionOnSet(f, T \ {x}) = f[c] + rest
            BY <2>4, <3>1
        <3>5. IsFiniteSet((T \ {x}) \ {c}) /\ (T \ {x}) \ {c} \in SUBSET S
            BY <2>1, FS_Subset
        <3>6. rest \in Int
            BY <3>5, SumType
        <3>7. f[x] \in Int /\ f[c] \in Int
            OBVIOUS
        <3>. HIDE DEF rest
        <3>. QED BY <2>2, <3>3, <3>4, <3>6, <3>7
    <2>. QED BY <2>3, <2>4
<1>2. ASSUME NEW T \in SUBSET S, \A U \in SUBSET T : U # T => U \in Good
      PROVE  T \in Good
    <2>1. \A x \in T : Without(T, x)
        BY <1>1, <1>2
    <2>. QED BY <2>1
<1>. HIDE DEF Good
<1>3. S \in Good
    BY <1>2, FromProperSubsets
<1>. QED BY <1>3 DEF Good

(* Any new element adds its value.                                         *)
LEMMA SumAdd ==
    ASSUME NEW f, NEW S, IsFiniteSet(S), NEW x, x \notin S,
           \A y \in S \cup {x} : f[y] \in Int
    PROVE  SumFunctionOnSet(f, S \cup {x}) = f[x] + SumFunctionOnSet(f, S)
<1>1. IsFiniteSet(S \cup {x}) /\ x \in S \cup {x} /\ (S \cup {x}) \ {x} = S
    BY FS_AddElement
<1>2. SumFunctionOnSet(f, S \cup {x}) = f[x] + SumFunctionOnSet(f, (S \cup {x}) \ {x})
    BY <1>1, SumRemove
<1>. QED BY <1>1, <1>2

----------------------------------------------------------------------------
(* What follows from it, element by element.  Terms in some relation have  *)
(* sums in that relation.                                                  *)
LEMMA SumEqual ==
    ASSUME NEW f, NEW g, NEW S, IsFiniteSet(S),
           \A x \in S : f[x] \in Int /\ f[x] = g[x]
    PROVE  SumFunctionOnSet(f, S) = SumFunctionOnSet(g, S)
<1>. DEFINE Good == {T \in SUBSET S : SumFunctionOnSet(f, T) = SumFunctionOnSet(g, T)}
<1>1. {} \in Good
    BY SumEmpty
<1>2. ASSUME NEW T \in SUBSET S, NEW x \in S, x \notin T, T \in Good
      PROVE  T \cup {x} \in Good
    <2>1. IsFiniteSet(T) /\ \A y \in T \cup {x} : f[y] \in Int /\ g[y] \in Int
        BY FS_Subset
    <2>2. SumFunctionOnSet(f, T \cup {x}) = f[x] + SumFunctionOnSet(f, T)
        BY <1>2, <2>1, SumAdd
    <2>3. SumFunctionOnSet(g, T \cup {x}) = g[x] + SumFunctionOnSet(g, T)
        BY <1>2, <2>1, SumAdd
    <2>. QED BY <1>2, <2>2, <2>3
<1>. HIDE DEF Good
<1>3. S \in Good
    BY <1>1, <1>2, ElementByElement
<1>. QED BY <1>3 DEF Good

(* Sums are monotonic in their terms.                                      *)
LEMMA SumAtMost ==
    ASSUME NEW f, NEW g, NEW S, IsFiniteSet(S),
           \A x \in S : f[x] \in Int /\ g[x] \in Int /\ f[x] <= g[x]
    PROVE  SumFunctionOnSet(f, S) <= SumFunctionOnSet(g, S)
<1>. DEFINE Good == {T \in SUBSET S : SumFunctionOnSet(f, T) <= SumFunctionOnSet(g, T)}
<1>1. {} \in Good
    BY SumEmpty
<1>2. ASSUME NEW T \in SUBSET S, NEW x \in S, x \notin T, T \in Good
      PROVE  T \cup {x} \in Good
    <2>1. IsFiniteSet(T) /\ \A y \in T \cup {x} : f[y] \in Int /\ g[y] \in Int
        BY FS_Subset
    <2>2. SumFunctionOnSet(f, T \cup {x}) = f[x] + SumFunctionOnSet(f, T)
        BY <1>2, <2>1, SumAdd
    <2>3. SumFunctionOnSet(g, T \cup {x}) = g[x] + SumFunctionOnSet(g, T)
        BY <1>2, <2>1, SumAdd
    <2>4. SumFunctionOnSet(f, T) \in Int /\ SumFunctionOnSet(g, T) \in Int
        BY <2>1, SumType
    <2>5. f[x] \in Int /\ g[x] \in Int /\ f[x] <= g[x]
        OBVIOUS
    <2>6. SumFunctionOnSet(f, T) <= SumFunctionOnSet(g, T)
        BY <1>2
    <2>7. SumFunctionOnSet(f, T \cup {x}) <= SumFunctionOnSet(g, T \cup {x})
        BY <2>2, <2>3, <2>4, <2>5, <2>6
    <2>. QED BY <2>7
<1>. HIDE DEF Good
<1>3. S \in Good
    BY <1>1, <1>2, ElementByElement
<1>. QED BY <1>3 DEF Good

(* Over two disjoint sets a sum splits.                                    *)
LEMMA SumOfUnion ==
    ASSUME NEW f, NEW S, NEW U, IsFiniteSet(S), IsFiniteSet(U), S \cap U = {},
           \A x \in S \cup U : f[x] \in Int
    PROVE  SumFunctionOnSet(f, S \cup U) = SumFunctionOnSet(f, S) + SumFunctionOnSet(f, U)
<1>. DEFINE Good == {T \in SUBSET U :
        SumFunctionOnSet(f, S \cup T) = SumFunctionOnSet(f, S) + SumFunctionOnSet(f, T)}
<1>1. SumFunctionOnSet(f, S) \in Int
    BY SumType
<1>2. {} \in Good
    <2>1. S \cup {} = S /\ SumFunctionOnSet(f, {}) = 0
        BY SumEmpty
    <2>. QED BY <1>1, <2>1
<1>3. ASSUME NEW T \in SUBSET U, NEW x \in U, x \notin T, T \in Good
      PROVE  T \cup {x} \in Good
    <2>1. IsFiniteSet(T) /\ IsFiniteSet(S \cup T) /\ x \notin S \cup T
        BY <1>3, FS_Subset, FS_Union
    <2>2. SumFunctionOnSet(f, T \cup {x}) = f[x] + SumFunctionOnSet(f, T)
        BY <1>3, <2>1, SumAdd
    <2>3. SumFunctionOnSet(f, (S \cup T) \cup {x}) = f[x] + SumFunctionOnSet(f, S \cup T)
        BY <2>1, SumAdd
    <2>4. SumFunctionOnSet(f, T) \in Int /\ f[x] \in Int
        BY <2>1, SumType
    <2>5. SumFunctionOnSet(f, S \cup T) = SumFunctionOnSet(f, S) + SumFunctionOnSet(f, T)
        BY <1>3
    <2>6. SumFunctionOnSet(f, (S \cup T) \cup {x})
          = SumFunctionOnSet(f, S) + SumFunctionOnSet(f, T \cup {x})
        BY <1>1, <2>2, <2>3, <2>4, <2>5
    <2>7. SumFunctionOnSet(f, S \cup (T \cup {x}))
          = SumFunctionOnSet(f, S) + SumFunctionOnSet(f, T \cup {x})
        <3>1. (S \cup T) \cup {x} = S \cup (T \cup {x})
            OBVIOUS
        <3>. QED BY <2>6, <3>1, Zenon
    <2>. QED BY <2>7
<1>. HIDE DEF Good
<1>4. U \in Good
    BY <1>2, <1>3, ElementByElement
<1>. QED BY <1>4 DEF Good

(* The sum of ones is the number of elements.                              *)
LEMMA SumOfOnes ==
    ASSUME NEW f, NEW S, IsFiniteSet(S), \A x \in S : f[x] = 1
    PROVE  SumFunctionOnSet(f, S) = Cardinality(S)
<1>. DEFINE Good == {T \in SUBSET S : SumFunctionOnSet(f, T) = Cardinality(T)}
<1>1. {} \in Good
    BY SumEmpty, FS_EmptySet
<1>2. ASSUME NEW T \in SUBSET S, NEW x \in S, x \notin T, T \in Good
      PROVE  T \cup {x} \in Good
    <2>1. IsFiniteSet(T) /\ \A y \in T \cup {x} : f[y] \in Int
        BY FS_Subset
    <2>2. SumFunctionOnSet(f, T \cup {x}) = 1 + SumFunctionOnSet(f, T)
        BY <1>2, <2>1, SumAdd
    <2>3. Cardinality(T \cup {x}) = Cardinality(T) + 1 /\ Cardinality(T) \in Nat
        BY <1>2, <2>1, FS_AddElement, FS_CardinalityType
    <2>. QED BY <1>2, <2>2, <2>3
<1>. HIDE DEF Good
<1>3. S \in Good
    BY <1>1, <1>2, ElementByElement
<1>. QED BY <1>3 DEF Good

(* A sum of sums is the sum of the termwise sums.                          *)
LEMMA SumOfSums ==
    ASSUME NEW f, NEW g, NEW h, NEW S, IsFiniteSet(S),
           \A x \in S : f[x] \in Int /\ g[x] \in Int /\ h[x] = f[x] + g[x]
    PROVE  SumFunctionOnSet(h, S) = SumFunctionOnSet(f, S) + SumFunctionOnSet(g, S)
<1>. DEFINE Good == {T \in SUBSET S :
        SumFunctionOnSet(h, T) = SumFunctionOnSet(f, T) + SumFunctionOnSet(g, T)}
<1>1. {} \in Good
    BY SumEmpty
<1>2. ASSUME NEW T \in SUBSET S, NEW x \in S, x \notin T, T \in Good
      PROVE  T \cup {x} \in Good
    <2>1. /\ IsFiniteSet(T)
          /\ \A y \in T \cup {x} : f[y] \in Int /\ g[y] \in Int /\ h[y] \in Int
        BY FS_Subset
    <2>2. SumFunctionOnSet(f, T \cup {x}) = f[x] + SumFunctionOnSet(f, T)
        BY <1>2, <2>1, SumAdd
    <2>3. SumFunctionOnSet(g, T \cup {x}) = g[x] + SumFunctionOnSet(g, T)
        BY <1>2, <2>1, SumAdd
    <2>4. SumFunctionOnSet(h, T \cup {x}) = h[x] + SumFunctionOnSet(h, T)
        BY <1>2, <2>1, SumAdd
    <2>5. SumFunctionOnSet(f, T) \in Int /\ SumFunctionOnSet(g, T) \in Int
        BY <2>1, SumType
    <2>6. f[x] \in Int /\ g[x] \in Int /\ h[x] = f[x] + g[x]
        OBVIOUS
    <2>7. SumFunctionOnSet(h, T) = SumFunctionOnSet(f, T) + SumFunctionOnSet(g, T)
        BY <1>2
    <2>8. SumFunctionOnSet(h, T \cup {x})
          = SumFunctionOnSet(f, T \cup {x}) + SumFunctionOnSet(g, T \cup {x})
        BY <2>2, <2>3, <2>4, <2>5, <2>6, <2>7
    <2>. QED BY <2>8
<1>. HIDE DEF Good
<1>3. S \in Good
    BY <1>1, <1>2, ElementByElement
<1>. QED BY <1>3 DEF Good

(* A common factor comes out of the sum.                                   *)
LEMMA SumOfMultiples ==
    ASSUME NEW f, NEW g, NEW c \in Int, NEW S, IsFiniteSet(S),
           \A x \in S : f[x] \in Int /\ g[x] = c * f[x]
    PROVE  SumFunctionOnSet(g, S) = c * SumFunctionOnSet(f, S)
<1>. DEFINE Good == {T \in SUBSET S : SumFunctionOnSet(g, T) = c * SumFunctionOnSet(f, T)}
<1>1. {} \in Good
    BY SumEmpty
<1>2. ASSUME NEW T \in SUBSET S, NEW x \in S, x \notin T, T \in Good
      PROVE  T \cup {x} \in Good
    <2>1. IsFiniteSet(T) /\ \A y \in T \cup {x} : f[y] \in Int /\ g[y] \in Int
        BY FS_Subset
    <2>2. SumFunctionOnSet(f, T \cup {x}) = f[x] + SumFunctionOnSet(f, T)
        BY <1>2, <2>1, SumAdd
    <2>3. SumFunctionOnSet(g, T \cup {x}) = g[x] + SumFunctionOnSet(g, T)
        BY <1>2, <2>1, SumAdd
    <2>4. SumFunctionOnSet(f, T) \in Int
        BY <2>1, SumType
    <2>5. f[x] \in Int /\ g[x] = c * f[x]
        OBVIOUS
    <2>6. SumFunctionOnSet(g, T) = c * SumFunctionOnSet(f, T)
        BY <1>2
    <2>7. c * (f[x] + SumFunctionOnSet(f, T)) = c * f[x] + c * SumFunctionOnSet(f, T)
        BY <2>4, <2>5
    <2>8. SumFunctionOnSet(g, T \cup {x}) = c * SumFunctionOnSet(f, T \cup {x})
        BY <2>2, <2>3, <2>5, <2>6, <2>7
    <2>. QED BY <2>8
<1>. HIDE DEF Good
<1>3. S \in Good
    BY <1>1, <1>2, ElementByElement
<1>. QED BY <1>3 DEF Good

(* Natural terms have a natural sum, which is at least each of them.       *)
LEMMA SumOfNaturals ==
    ASSUME NEW f, NEW S, IsFiniteSet(S), \A x \in S : f[x] \in Nat
    PROVE  /\ SumFunctionOnSet(f, S) \in Nat
           /\ \A x \in S : f[x] <= SumFunctionOnSet(f, S)
<1>. DEFINE Good == {T \in SUBSET S : SumFunctionOnSet(f, T) \in Nat}
<1>1. {} \in Good
    BY SumEmpty
<1>2. ASSUME NEW T \in SUBSET S, NEW x \in S, x \notin T, T \in Good
      PROVE  T \cup {x} \in Good
    <2>1. IsFiniteSet(T) /\ \A y \in T \cup {x} : f[y] \in Int
        BY FS_Subset
    <2>2. SumFunctionOnSet(f, T \cup {x}) = f[x] + SumFunctionOnSet(f, T)
        BY <1>2, <2>1, SumAdd
    <2>. QED BY <1>2, <2>2
<1>. HIDE DEF Good
<1>3. \A T \in SUBSET S : T \in Good
    <2>1. ASSUME NEW T \in SUBSET S
          PROVE  T \in Good
        <3>1. IsFiniteSet(T)
            BY FS_Subset
        <3>2. \A U \in SUBSET T, x \in T : x \notin U /\ U \in Good => U \cup {x} \in Good
            BY <1>2
        <3>. QED BY <1>1, <3>1, <3>2, ElementByElement
    <2>. QED BY <2>1
<1>4. \A T \in SUBSET S : SumFunctionOnSet(f, T) \in Nat
    BY <1>3 DEF Good
<1>5. ASSUME NEW x \in S
      PROVE  f[x] <= SumFunctionOnSet(f, S)
    <2>1. SumFunctionOnSet(f, S) = f[x] + SumFunctionOnSet(f, S \ {x})
        BY SumRemove
    <2>2. SumFunctionOnSet(f, S \ {x}) \in Nat /\ f[x] \in Nat
        BY <1>4
    <2>. QED BY <2>1, <2>2
<1>. QED BY <1>4, <1>5

(* Terms that are found, each in a place of its own, among the natural     *)
(* terms of another sum: it is at least as large, and as large if it has   *)
(* no others.                                                              *)
LEMMA SumInjected ==
    ASSUME NEW f, NEW g, NEW S, NEW T, IsFiniteSet(T), NEW b \in Injection(S, T),
           \A y \in T : f[y] \in Nat,
           \A x \in S : g[x] \in Nat /\ g[x] <= f[b[x]]
    PROVE  SumFunctionOnSet(g, S) <= SumFunctionOnSet(f, T)
<1>. DEFINE Image(U) == {b[x] : x \in U}
            Good == {U \in SUBSET S :
                        \E W \in SUBSET T :
                            /\ W = Image(U)
                            /\ SumFunctionOnSet(g, U) <= SumFunctionOnSet(f, W)}
<1>1. {} \in Good
    <2>1. Image({}) = {}
        OBVIOUS
    <2>2. SumFunctionOnSet(g, {}) <= SumFunctionOnSet(f, {})
        BY SumEmpty
    <2>3. {} \in SUBSET S /\ {} \in SUBSET T
        OBVIOUS
    <2>. QED BY <2>1, <2>2, <2>3
<1>2. IsFiniteSet(S) /\ b \in [S -> T] /\ \A x, y \in S : b[x] = b[y] => x = y
    BY FS_Injection DEF Injection, IsInjective
<1>3. ASSUME NEW U \in SUBSET S, NEW x \in S, x \notin U, U \in Good
      PROVE  U \cup {x} \in Good
    <2>1. PICK W \in SUBSET T : W = Image(U) /\ SumFunctionOnSet(g, U) <= SumFunctionOnSet(f, W)
        BY <1>3
    <2>2. b[x] \notin W /\ b[x] \in T
        BY <1>2, <1>3, <2>1
    <2>3. W \cup {b[x]} = Image(U \cup {x})
        BY <2>1
    <2>4. IsFiniteSet(U) /\ IsFiniteSet(W)
        BY <1>2, FS_Subset
    <2>5. SumFunctionOnSet(g, U \cup {x}) = g[x] + SumFunctionOnSet(g, U)
        BY <1>3, <2>4, SumAdd
    <2>6. SumFunctionOnSet(f, W \cup {b[x]}) = f[b[x]] + SumFunctionOnSet(f, W)
        BY <2>2, <2>4, SumAdd
    <2>7. SumFunctionOnSet(g, U) \in Int /\ SumFunctionOnSet(f, W) \in Int
        BY <2>4, SumType
    <2>8. g[x] \in Int /\ f[b[x]] \in Int /\ g[x] <= f[b[x]]
        BY <2>2
    <2>9. SumFunctionOnSet(g, U \cup {x}) <= SumFunctionOnSet(f, W \cup {b[x]})
        BY <2>1, <2>5, <2>6, <2>7, <2>8
    <2>10. W \cup {b[x]} \in SUBSET T /\ U \cup {x} \in SUBSET S
        BY <2>2
    <2>. QED BY <2>3, <2>9, <2>10
<1>4. S \in Good
    <2>. HIDE DEF Good
    <2>. QED BY <1>1, <1>2, <1>3, ElementByElement
<1>5. PICK W \in SUBSET T : SumFunctionOnSet(g, S) <= SumFunctionOnSet(f, W)
    BY <1>4
<1>6. SumFunctionOnSet(f, W) <= SumFunctionOnSet(f, T)
    <2>. DEFINE Rest == {V \in SUBSET (T \ W) :
                            SumFunctionOnSet(f, W) <= SumFunctionOnSet(f, W \cup V)}
    <2>1. {} \in Rest
        <3>1. IsFiniteSet(W)
            BY FS_Subset
        <3>2. SumFunctionOnSet(f, W) \in Int /\ W \cup {} = W
            BY <3>1, SumType
        <3>. QED BY <3>2
    <2>2. ASSUME NEW V \in SUBSET (T \ W), NEW y \in T \ W, y \notin V, V \in Rest
          PROVE  V \cup {y} \in Rest
        <3>1. IsFiniteSet(W \cup V) /\ IsFiniteSet(W) /\ y \notin W \cup V
            BY <2>2, FS_Subset
        <3>2. SumFunctionOnSet(f, (W \cup V) \cup {y}) = f[y] + SumFunctionOnSet(f, W \cup V)
            BY <3>1, SumAdd
        <3>3. (W \cup V) \cup {y} = W \cup (V \cup {y}) /\ f[y] \in Nat
            OBVIOUS
        <3>4. SumFunctionOnSet(f, W \cup V) \in Int /\ SumFunctionOnSet(f, W) \in Int
            BY <3>1, SumType
        <3>5. SumFunctionOnSet(f, W) <= SumFunctionOnSet(f, W \cup V)
            BY <2>2
        <3>6. SumFunctionOnSet(f, W) <= SumFunctionOnSet(f, W \cup (V \cup {y}))
            BY <3>2, <3>3, <3>4, <3>5
        <3>. QED BY <3>6
    <2>3. IsFiniteSet(T \ W) /\ W \cup (T \ W) = T
        BY FS_Difference
    <2>4. T \ W \in Rest
        <3>. HIDE DEF Rest
        <3>. QED BY <2>1, <2>2, <2>3, ElementByElement
    <2>. QED BY <2>3, <2>4
<1>7. /\ SumFunctionOnSet(g, S) \in Int
      /\ SumFunctionOnSet(f, W) \in Int
      /\ SumFunctionOnSet(f, T) \in Int
    BY <1>2, SumType, FS_Subset
<1>. QED BY <1>5, <1>6, <1>7

(* A sum along a bijection is the same sum.                                *)
LEMMA SumReindexed ==
    ASSUME NEW f, NEW g, NEW S, NEW T, IsFiniteSet(T), NEW b \in Bijection(S, T),
           \A y \in T : f[y] \in Nat,
           \A x \in S : g[x] = f[b[x]]
    PROVE  SumFunctionOnSet(g, S) = SumFunctionOnSet(f, T)
<1>1. /\ b \in [S -> T]
      /\ \A x, y \in S : b[x] = b[y] => x = y
      /\ \A y \in T : \E x \in S : b[x] = y
      /\ b \in Injection(S, T)
    BY DEF Bijection, Injection, Surjection, IsInjective
<1>2. IsFiniteSet(S)
    BY <1>1, FS_Injection
<1>3. SumFunctionOnSet(g, S) <= SumFunctionOnSet(f, T)
    <2>1. \A x \in S : g[x] \in Nat /\ g[x] <= f[b[x]]
        BY <1>1
    <2>. QED BY <1>1, <2>1, SumInjected
<1>4. SumFunctionOnSet(f, T) <= SumFunctionOnSet(g, S)
    <2>. DEFINE back == [y \in T |-> CHOOSE x \in S : b[x] = y]
    <2>1. \A y \in T : back[y] \in S /\ b[back[y]] = y
        BY <1>1
    <2>2. back \in Injection(T, S)
        BY <2>1 DEF Injection, IsInjective
    <2>3. \A y \in T : f[y] \in Nat /\ f[y] <= g[back[y]]
        BY <2>1
    <2>4. \A x \in S : g[x] \in Nat
        BY <1>1
    <2>. HIDE DEF back
    <2>. QED BY <1>2, <2>2, <2>3, <2>4, SumInjected
<1>5. SumFunctionOnSet(g, S) \in Int /\ SumFunctionOnSet(f, T) \in Int
    BY <1>1, <1>2, SumType
<1>. QED BY <1>3, <1>4, <1>5
=============================================================================
