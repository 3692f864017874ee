------------------------------ MODULE SetSums ------------------------------
(***************************************************************************)
(* What the sum of a finite set of numbers is, and how one element changes *)
(* it: SumSet is a recursive function that takes the elements in an order  *)
(* CHOOSE fixes, so that the sum does not depend on the order is a fact.   *)
(***************************************************************************)
EXTENDS Naturals, FiniteSetsExt, FiniteSetTheorems, WellFoundedInduction, TLAPS

\* Induction over the subsets of a finite set, as a smallest counterexample.
LEMMA SmallestSubset ==
  ASSUME NEW S, IsFiniteSet(S), NEW Bad \in SUBSET (SUBSET S), Bad # {}
  PROVE  \E T \in Bad : \A U \in Bad : U \subseteq T => U = T
<1> DEFINE R == StrictSubsetOrdering(S)
<1>1. IsWellFoundedOn(R, SUBSET S)
  BY FS_StrictSubsetOrderingWellFounded, FS_FiniteSubsetsOfFinite
<1>2. PICK T \in Bad : \A U \in Bad : ~(<<U, T>> \in R)
  BY <1>1, WFMin
<1>3. ASSUME NEW U \in Bad, U \subseteq T, U # T PROVE FALSE
  BY <1>2, <1>3 DEF StrictSubsetOrdering
<1> QED BY <1>3

\* The recursive function SumSet is defined by, over the subsets of S.
First(s) == CHOOSE x \in s : TRUE
IsSum(g, S) ==
    g = [s \in SUBSET S |-> IF s = {} THEN 0 ELSE First(s) + g[s \ {First(s)}]]
SumFcn(S) == CHOOSE g : IsSum(g, S)

LEMMA SumSetIsSumFcn == ASSUME NEW S PROVE SumSet(S) = SumFcn(S)[S]
BY DEF SumSet, FoldSet, MapThenFoldSet, SumFcn, IsSum, First

LEMMA FirstIn == ASSUME NEW s, s # {} PROVE First(s) \in s
BY DEF First

\* Such functions agree wherever both are defined.
LEMMA SumsAgree ==
  ASSUME NEW S, IsFiniteSet(S), NEW T \in SUBSET S, NEW g, NEW h, IsSum(g, S), IsSum(h, T)
  PROVE  \A s \in SUBSET T : g[s] = h[s]
<1> DEFINE Bad == {s \in SUBSET T : g[s] # h[s]}
<1> SUFFICES ASSUME Bad # {} PROVE FALSE
  OBVIOUS
<1>1. IsFiniteSet(T)
  BY FS_Subset
<1>2. PICK s \in Bad : \A u \in Bad : u \subseteq s => u = s
  <2>1. Bad \in SUBSET (SUBSET T)
    OBVIOUS
  <2> HIDE DEF Bad
  <2> QED BY <1>1, <2>1, SmallestSubset
<1>3. g[{}] = 0 /\ h[{}] = 0
  BY DEF IsSum
<1>4. s # {}
  BY <1>2, <1>3
<1> DEFINE u == s \ {First(s)}
<1>5. u \in SUBSET T /\ u # s /\ u \subseteq s
  BY <1>4, FirstIn
<1>6. g[u] = h[u]
  BY <1>2, <1>5
<1>7. g[s] = First(s) + g[u] /\ h[s] = First(s) + h[u]
  BY <1>4 DEF IsSum
<1> QED BY <1>6, <1>7

\* And there is one, over every finite set: on a subset U it is what the function
\* of U itself is there.
LEMMA SumGlued ==
  ASSUME NEW T, T # {}, IsFiniteSet(T), \A U \in SUBSET T : U # T => IsSum(SumFcn(U), U), NEW h,
         h = [U \in SUBSET T |-> IF U = {} THEN 0
                ELSE First(U) + SumFcn(U \ {First(U)})[U \ {First(U)}]]
  PROVE  IsSum(h, T)
<1>1. ASSUME NEW U \in SUBSET T, U # T PROVE h[U] = SumFcn(U)[U]
  <2>1. IsSum(SumFcn(U), U)
    BY <1>1
  <2>2. CASE U = {}
    BY <2>1, <2>2 DEF IsSum
  <2>3. CASE U # {}
    <3> DEFINE V == U \ {First(U)}
    <3>1. V \in SUBSET U /\ V \in SUBSET T /\ V # T /\ IsFiniteSet(U)
      BY <1>1, FS_Subset
    <3>2. IsSum(SumFcn(V), V)
      BY <3>1
    <3>3. SumFcn(U)[V] = SumFcn(V)[V]
      <4> HIDE DEF V
      <4>1. V \in SUBSET V
        OBVIOUS
      <4> QED BY <2>1, <3>1, <3>2, <4>1, SumsAgree
    <3>4. SumFcn(U)[U] = First(U) + SumFcn(U)[V]
      BY <2>1, <2>3 DEF IsSum
    <3>5. h[U] = First(U) + SumFcn(V)[V]
      BY <2>3
    <3> QED BY <3>3, <3>4, <3>5
  <2> QED BY <2>2, <2>3
<1>2. ASSUME NEW U \in SUBSET T, U # {}
      PROVE  SumFcn(U \ {First(U)})[U \ {First(U)}] = h[U \ {First(U)}]
  <2>1. U \ {First(U)} \in SUBSET T /\ U \ {First(U)} # T
    BY <1>2, FirstIn
  <2> QED BY <1>1, <2>1
<1>3. h = [U \in SUBSET T |-> IF U = {} THEN 0 ELSE First(U) + h[U \ {First(U)}]]
  BY <1>2
<1> QED BY <1>3 DEF IsSum

LEMMA SumExists == ASSUME NEW S, IsFiniteSet(S) PROVE \E g : IsSum(g, S)
<1> DEFINE Bad == {T \in SUBSET S : ~\E g : IsSum(g, T)}
<1> SUFFICES ASSUME Bad # {} PROVE FALSE
  OBVIOUS
<1>1. PICK T \in Bad : \A U \in Bad : U \subseteq T => U = T
  <2>1. Bad \in SUBSET (SUBSET S)
    OBVIOUS
  <2> HIDE DEF Bad
  <2> QED BY <2>1, SmallestSubset
<1>2. IsFiniteSet(T) /\ ~\E g : IsSum(g, T)
  BY FS_Subset
<1>3. \A U \in SUBSET T : U # T => IsSum(SumFcn(U), U)
  BY <1>1 DEF SumFcn
<1>4. T # {}
  <2>1. IsSum([s \in SUBSET {} |-> 0], {})
    BY DEF IsSum
  <2> QED BY <1>2, <2>1
<1> QED BY <1>2, <1>3, <1>4, SumGlued

\* SumSet by its recursive equation.
LEMMA SumStep ==
  ASSUME NEW S, IsFiniteSet(S), S # {}
  PROVE  SumSet(S) = First(S) + SumSet(S \ {First(S)})
<1> DEFINE T == S \ {First(S)}
<1>1. IsFiniteSet(T) /\ T \in SUBSET S
  BY FS_Subset
<1>2. IsSum(SumFcn(S), S) /\ IsSum(SumFcn(T), T)
  BY <1>1, SumExists DEF SumFcn
<1>3. SumFcn(S)[T] = SumFcn(T)[T]
  BY <1>1, <1>2, SumsAgree
<1>4. SumFcn(S)[S] = First(S) + SumFcn(S)[T]
  BY <1>2 DEF IsSum
<1> QED BY <1>3, <1>4, SumSetIsSumFcn

LEMMA SumEmpty == SumSet({}) = 0
<1>1. IsSum(SumFcn({}), {})
  BY SumExists, FS_EmptySet DEF SumFcn
<1>2. SumFcn({})[{}] = 0
  BY <1>1 DEF IsSum
<1> QED BY <1>2, SumSetIsSumFcn

\* The sum of natural numbers is one.
LEMMA SumType == ASSUME NEW S, IsFiniteSet(S), \A y \in S : y \in Nat PROVE SumSet(S) \in Nat
<1> DEFINE Bad == {T \in SUBSET S : SumSet(T) \notin Nat}
<1> SUFFICES ASSUME Bad # {} PROVE FALSE
  OBVIOUS
<1>1. PICK T \in Bad : \A U \in Bad : U \subseteq T => U = T
  <2>1. Bad \in SUBSET (SUBSET S)
    OBVIOUS
  <2> HIDE DEF Bad
  <2> QED BY <2>1, SmallestSubset
<1>2. T # {} /\ IsFiniteSet(T)
  <2>1. T \in SUBSET S /\ SumSet(T) \notin Nat
    BY <1>1
  <2>2. T # {}
    BY <2>1, SumEmpty
  <2>3. IsFiniteSet(T)
    BY <2>1, FS_Subset
  <2> QED BY <2>2, <2>3
<1>3. First(T) \in T
  BY <1>2, FirstIn
<1>4. SumSet(T \ {First(T)}) \in Nat
  BY <1>1, <1>3
<1>5. SumSet(T) = First(T) + SumSet(T \ {First(T)})
  BY <1>2, SumStep
<1>6. First(T) \in Nat
  BY <1>3
<1> QED BY <1>4, <1>5, <1>6

\* Whichever element is taken first, the sum is the same.
LEMMA SumRemove ==
  ASSUME NEW S, IsFiniteSet(S), \A y \in S : y \in Nat, NEW x \in S
  PROVE  SumSet(S) = x + SumSet(S \ {x})
<1> DEFINE Bad == {T \in SUBSET S : \E e \in T : SumSet(T) # e + SumSet(T \ {e})}
<1> SUFFICES ASSUME Bad # {} PROVE FALSE
  OBVIOUS
<1>1. PICK T \in Bad : \A U \in Bad : U \subseteq T => U = T
  <2>1. Bad \in SUBSET (SUBSET S)
    OBVIOUS
  <2> HIDE DEF Bad
  <2> QED BY <2>1, SmallestSubset
<1>2. PICK e \in T : SumSet(T) # e + SumSet(T \ {e})
  BY <1>1
<1>3. T # {} /\ IsFiniteSet(T) /\ T \in SUBSET Nat
  BY <1>1, <1>2, FS_Subset
<1> DEFINE f == First(T)
           U == T \ {f}
           V == T \ {e}
           W == U \ {e}
<1>4. f \in T
  BY <1>3, FirstIn
<1>5. SumSet(T) = f + SumSet(U)
  BY <1>3, SumStep
<1>6. f # e
  BY <1>2, <1>5
<1>7. SumSet(U) = e + SumSet(W)
  <2>1. U \notin Bad /\ e \in U /\ U \in SUBSET S
    BY <1>1, <1>4, <1>6
  <2> QED BY <2>1
<1>8. SumSet(V) = f + SumSet(V \ {f})
  <2>1. V \notin Bad /\ f \in V /\ V \in SUBSET S
    BY <1>1, <1>2, <1>4, <1>6
  <2> QED BY <2>1
<1>9. V \ {f} = W
  OBVIOUS
<1>10. SumSet(W) \in Nat /\ f \in Nat /\ e \in Nat
  BY <1>2, <1>3, <1>4, FS_Subset, SumType
<1>11. SumSet(V) = f + SumSet(W)
  BY <1>8, <1>9
<1> HIDE DEF f, U, V, W
<1>12. f + (e + SumSet(W)) = e + (f + SumSet(W))
  BY <1>10
<1>13. SumSet(T) # e + SumSet(V)
  BY <1>2 DEF V
<1> QED BY <1>5, <1>7, <1>11, <1>12, <1>13

\* Two ledgers with the same count and the same sum, one of which has all but one
\* entry of the other, are the same.
LEMMA TotalsTell ==
  ASSUME NEW S, IsFiniteSet(S), \A y \in S : y \in Nat,
         NEW T, IsFiniteSet(T), \A y \in T : y \in Nat,
         NEW e \in S, S \ {e} \subseteq T,
         Cardinality(T) = Cardinality(S), SumSet(T) = SumSet(S)
  PROVE  S = T
<1> DEFINE R == S \ {e}
<1>1. IsFiniteSet(R) /\ Cardinality(R) = Cardinality(S) - 1
  BY FS_RemoveElement
<1>2. Cardinality(S) \in Nat
  BY FS_CardinalityType
<1>3. R \cap T = R /\ T \cap R = R
  OBVIOUS
<1>4. IsFiniteSet(T \ R) /\ Cardinality(T \ R) = Cardinality(T) - Cardinality(R)
  <2> HIDE DEF R
  <2>1. IsFiniteSet(T \ R) /\ Cardinality(T \ R) = Cardinality(T) - Cardinality(T \cap R)
    BY FS_Difference
  <2> QED BY <1>3, <2>1
<1>5. PICK f : T \ R = {f}
  <2>1. Cardinality(T \ R) = 1
    BY <1>1, <1>2, <1>4
  <2> QED BY <1>4, <2>1, FS_Singleton
<1>6. f \in T /\ T \ {f} = R
  BY <1>3, <1>5
<1>7. SumSet(S) = e + SumSet(R)
  BY SumRemove
<1>8. SumSet(T) = f + SumSet(R)
  BY <1>6, SumRemove
<1>9. SumSet(R) \in Nat /\ e \in Nat /\ f \in Nat
  <2>1. \A y \in R : y \in Nat
    OBVIOUS
  <2> QED BY <1>1, <1>6, <2>1, SumType
<1>10. e = f
  BY <1>7, <1>8, <1>9
<1> QED BY <1>6, <1>10
=============================================================================
