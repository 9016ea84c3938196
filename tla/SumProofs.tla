------------------------------ MODULE SumProofs ------------------------------
(***************************************************************************)
(* Lemmas about the sums the models take, of ledger rows, inputs and        *)
(* outputs: SumFunctionOnSet(f, S) adds up f[x] over a finite set S.  Every *)
(* induction here is over sets: a set of naturals, or of subsets, that is   *)
(* closed under the step is everything.                                     *)
(***************************************************************************)
EXTENDS Integers, FiniteSetsExt, FiniteSetTheorems, TLAPS

-----------------------------------------------------------------------------
(* Induction. *)

LEMMA LeastNatural ==
  ASSUME NEW T \in SUBSET Nat, T # {}
  PROVE  \E m \in T : \A k \in T : m <= k
<1> DEFINE R == OpToRel(<, Nat)
<1>1. IsWellFoundedOn(R, Nat)
  BY NatLessThanWellFounded
<1>2. \A i, j \in Nat : i < j => <<i, j>> \in R
  BY DEF OpToRel
<1> HIDE DEF R
<1>3. PICK m \in T : \A k \in T : ~(<<k, m>> \in R)
  BY <1>1, WFMin
<1>4. ASSUME NEW k \in T
      PROVE  m <= k
  <2>1. m \in Nat /\ k \in Nat /\ ~(k < m)
    BY <1>2, <1>3
  <2> QED
    BY <2>1
<1> QED
  BY <1>3, <1>4

LEMMA MinIn ==
  ASSUME NEW I \in SUBSET Nat, I # {}
  PROVE  Min(I) \in I
BY LeastNatural DEF Min

LEMMA NaturalsFromZero ==
  ASSUME NEW P \in SUBSET Nat, 0 \in P, \A n \in P : n + 1 \in P
  PROVE  P = Nat
<1> SUFFICES ASSUME Nat \ P # {} PROVE FALSE
  OBVIOUS
<1>1. PICK m \in Nat \ P : \A k \in Nat \ P : m <= k
  BY LeastNatural
<1>2. m # 0 /\ m - 1 \in Nat /\ m - 1 \in P
  BY <1>1
<1>3. (m - 1) + 1 \in P
  BY <1>2
<1> QED
  BY <1>1, <1>3

\* A family of subsets is all of them if it has each one whose elements may be
\* taken away one at a time without leaving it.
LEMMA SubsetsOneByOne ==
  ASSUME NEW S, IsFiniteSet(S), NEW Q \in SUBSET (SUBSET S),
         \A T \in SUBSET S : (\A x \in T : T \ {x} \in Q) => T \in Q
  PROVE  Q = SUBSET S
<1> DEFINE P == {n \in Nat : \A T \in SUBSET S : Cardinality(T) = n => T \in Q}
<1>1. \A T \in SUBSET S : IsFiniteSet(T) /\ Cardinality(T) \in Nat
  BY FS_Subset, FS_CardinalityType
<1>2. 0 \in P
  <2>1. \A T \in SUBSET S : Cardinality(T) = 0 => T = {}
    BY <1>1, FS_EmptySet
  <2> QED
    BY <2>1
<1>3. ASSUME NEW n \in P
      PROVE  n + 1 \in P
  <2> SUFFICES ASSUME NEW T \in SUBSET S, Cardinality(T) = n + 1
               PROVE  T \in Q
    OBVIOUS
  <2>1. ASSUME NEW x \in T
        PROVE  T \ {x} \in Q
    <3>1. Cardinality(T \ {x}) = Cardinality(T) - 1
      BY <1>1, FS_RemoveElement
    <3> QED
      BY <3>1
  <2> QED
    BY <2>1
<1>4. P = Nat
  <2> HIDE DEF P
  <2>1. P \in SUBSET Nat
    BY DEF P
  <2> QED
    BY <1>2, <1>3, <2>1, NaturalsFromZero
<1> QED
  BY <1>1, <1>4

-----------------------------------------------------------------------------
(* What a sum is. *)

\* g[T] is the sum over T for each T \subseteq S: whichever element is taken
\* away, its value goes.
AddsUp(g, f, S) ==
  /\ g[{}] = 0 /\ \A T \in SUBSET S : g[T] \in Int
  /\ \A T \in SUBSET S : \A x \in T : g[T] = f[x] + g[T \ {x}]

\* The fold of Folds.tla, which takes away an element of its choice.
Chosen(T) == CHOOSE x \in T : TRUE
FoldOver(f, g, Z) ==
  [T \in Z |-> IF T = {} THEN 0 ELSE f[Chosen(T)] + g[T \ {Chosen(T)}]]

LEMMA ChosenIn == ASSUME NEW T, T # {} PROVE Chosen(T) \in T
BY DEF Chosen

LEMMA FoldAddsUp ==
  ASSUME NEW S, IsFiniteSet(S), NEW f, \A x \in S : f[x] \in Int,
         NEW g, g = FoldOver(f, g, SUBSET S)
  PROVE  AddsUp(g, f, S)
<1> DEFINE c(T) == Chosen(T)
<1>1. \A T \in SUBSET S : T # {} => c(T) \in T
  BY ChosenIn
<1>2. g[{}] = 0 /\ \A T \in SUBSET S : T # {} => g[T] = f[c(T)] + g[T \ {c(T)}]
  BY DEF FoldOver
<1> HIDE DEF c
<1>3. {T \in SUBSET S : g[T] \in Int} = SUBSET S
  <2> DEFINE Q == {T \in SUBSET S : g[T] \in Int}
  <2>1. ASSUME NEW T \in SUBSET S, \A x \in T : T \ {x} \in Q
        PROVE  T \in Q
    <3>1. CASE T = {}
      BY <1>2, <3>1
    <3>2. CASE T # {}
      <4>1. c(T) \in T /\ g[T] = f[c(T)] + g[T \ {c(T)}]
        BY <1>1, <1>2, <3>2
      <4>2. f[c(T)] \in Int /\ g[T \ {c(T)}] \in Int
        BY <2>1, <4>1
      <4> QED
        BY <4>1, <4>2
    <3> QED
      BY <3>1, <3>2
  <2>2. Q \in SUBSET (SUBSET S)
    OBVIOUS
  <2> HIDE DEF Q
  <2>3. Q = SUBSET S
    BY <2>1, <2>2, SubsetsOneByOne
  <2> QED
    BY <2>3 DEF Q
<1>4. {T \in SUBSET S : \A x \in T : g[T] = f[x] + g[T \ {x}]} = SUBSET S
  <2> DEFINE Q == {T \in SUBSET S : \A x \in T : g[T] = f[x] + g[T \ {x}]}
  <2>1. ASSUME NEW T \in SUBSET S, \A x \in T : T \ {x} \in Q
        PROVE  T \in Q
    <3> SUFFICES ASSUME NEW x \in T
                 PROVE  g[T] = f[x] + g[T \ {x}]
      OBVIOUS
    <3>1. c(T) \in T /\ g[T] = f[c(T)] + g[T \ {c(T)}]
      BY <1>1, <1>2
    <3>2. CASE x = c(T)
      BY <3>1, <3>2
    <3>3. CASE x # c(T)
      <4>1. g[T \ {c(T)}] = f[x] + g[(T \ {c(T)}) \ {x}]
        BY <2>1, <3>1, <3>3
      <4>2. g[T \ {x}] = f[c(T)] + g[(T \ {x}) \ {c(T)}]
        BY <2>1, <3>1, <3>3
      <4>3. (T \ {c(T)}) \ {x} = (T \ {x}) \ {c(T)}
        OBVIOUS
      <4>4. /\ f[x] \in Int /\ f[c(T)] \in Int
            /\ g[(T \ {x}) \ {c(T)}] \in Int
        BY <1>3, <3>1
      <4>5. /\ g[T] = f[c(T)] + (f[x] + g[(T \ {x}) \ {c(T)}])
            /\ f[x] + g[T \ {x}] = f[x] + (f[c(T)] + g[(T \ {x}) \ {c(T)}])
        BY <3>1, <4>1, <4>2, <4>3
      <4> HIDE DEF Q
      <4> QED
        BY <4>4, <4>5
    <3> QED
      BY <3>2, <3>3
  <2>2. Q \in SUBSET (SUBSET S)
    OBVIOUS
  <2> HIDE DEF Q
  <2>3. Q = SUBSET S
    BY <2>1, <2>2, SubsetsOneByOne
  <2> QED
    BY <2>3 DEF Q
<1> QED
  BY <1>2, <1>3, <1>4 DEF AddsUp

\* Such a fold exists: one over the subsets of at most n elements extends to
\* those of n + 1.
LEMMA FoldExists ==
  ASSUME NEW S, IsFiniteSet(S), NEW f
  PROVE  \E g : g = FoldOver(f, g, SUBSET S)
<1> DEFINE Small(n) == {T \in SUBSET S : Cardinality(T) <= n}
           P == {n \in Nat : \E g : g = FoldOver(f, g, Small(n))}
<1>1. ASSUME NEW T \in SUBSET S
      PROVE  /\ Cardinality(T) \in Nat
             /\ Cardinality(T) <= Cardinality(S)
             /\ Cardinality(T) = 0 <=> T = {}
             /\ T # {} => Cardinality(T \ {Chosen(T)}) = Cardinality(T) - 1
  <2>1. IsFiniteSet(T) /\ Cardinality(T) <= Cardinality(S)
    BY FS_Subset
  <2>2. T # {} => Cardinality(T \ {Chosen(T)}) = Cardinality(T) - 1
    BY <2>1, ChosenIn, FS_RemoveElement
  <2> QED
    BY <2>1, <2>2, FS_CardinalityType, FS_EmptySet
<1>2. 0 \in P
  <2>1. ASSUME NEW T \in Small(0)
        PROVE  T = {}
    <3>1. T \in SUBSET S /\ Cardinality(T) <= 0
      OBVIOUS
    <3>2. Cardinality(T) \in Nat
      BY <1>1, <3>1
    <3> HIDE DEF Small
    <3>3. Cardinality(T) = 0
      BY <3>1, <3>2
    <3> QED
      BY <1>1, <3>1, <3>3
  <2>2. FoldOver(f, [T \in Small(0) |-> 0], Small(0)) = [T \in Small(0) |-> 0]
    <3> HIDE DEF Small
    <3> QED
      BY <2>1 DEF FoldOver
  <2> QED
    BY <2>2
<1>3. ASSUME NEW n \in P
      PROVE  n + 1 \in P
  <2>1. n \in Nat /\ n + 1 \in Nat
    OBVIOUS
  <2>2. PICK g : g = FoldOver(f, g, Small(n))
    OBVIOUS
  <2> DEFINE h == FoldOver(f, g, Small(n + 1))
  <2>3. ASSUME NEW T \in Small(n)
        PROVE  T \in Small(n + 1)
    <3>1. T \in SUBSET S /\ Cardinality(T) <= n
      OBVIOUS
    <3>2. Cardinality(T) \in Nat
      BY <1>1, <3>1
    <3>3. Cardinality(T) <= n + 1
      BY <2>1, <3>1, <3>2
    <3> QED
      BY <3>1, <3>3
  <2>4. ASSUME NEW T \in Small(n + 1), T # {}
        PROVE  T \ {Chosen(T)} \in Small(n)
    <3>1. T \in SUBSET S /\ Cardinality(T) <= n + 1 /\ Cardinality(T) \in Nat
      BY <1>1
    <3>2. Cardinality(T \ {Chosen(T)}) = Cardinality(T) - 1
      BY <1>1, <2>4
    <3> QED
      BY <2>1, <3>1, <3>2
  <2> HIDE DEF Small
  <2>5. ASSUME NEW T \in Small(n)
        PROVE  h[T] = g[T]
    BY <2>2, <2>3 DEF FoldOver
  <2> HIDE DEF h
  <2>6. h = FoldOver(f, h, Small(n + 1))
    <3>1. ASSUME NEW T \in Small(n + 1)
          PROVE  (IF T = {} THEN 0 ELSE f[Chosen(T)] + g[T \ {Chosen(T)}])
                   = IF T = {} THEN 0 ELSE f[Chosen(T)] + h[T \ {Chosen(T)}]
      BY <2>4, <2>5
    <3>2. FoldOver(f, g, Small(n + 1)) = FoldOver(f, h, Small(n + 1))
      BY <3>1 DEF FoldOver
    <3> QED
      BY <3>2 DEF h
  <2>7. \E k : k = FoldOver(f, k, Small(n + 1))
    BY <2>6
  <2> QED
    BY <2>1, <2>7
<1>4. P = Nat
  <2>1. P \in SUBSET Nat
    OBVIOUS
  <2> HIDE DEF P
  <2> QED
    BY <1>2, <1>3, <2>1, NaturalsFromZero
<1>5. \E g : g = FoldOver(f, g, Small(Cardinality(S)))
  <2>1. Cardinality(S) \in Nat
    BY FS_CardinalityType
  <2> QED
    BY <1>4, <2>1
<1>6. Small(Cardinality(S)) = SUBSET S
  BY <1>1
<1> QED
  BY <1>5, <1>6

\* Two ways to add up the same values agree.
LEMMA AddsUpOnce ==
  ASSUME NEW S, IsFiniteSet(S),
         NEW f, NEW g, NEW e, NEW h, AddsUp(g, f, S), AddsUp(h, e, S),
         \A x \in S : f[x] = e[x]
  PROVE  \A T \in SUBSET S : g[T] = h[T]
<1> DEFINE Q == {T \in SUBSET S : g[T] = h[T]}
<1>1. ASSUME NEW T \in SUBSET S, \A x \in T : T \ {x} \in Q
      PROVE  T \in Q
  <2>1. CASE T = {}
    BY <2>1 DEF AddsUp
  <2>2. CASE T # {}
    <3>1. PICK x \in T : TRUE
      BY <2>2
    <3>2. g[T] = f[x] + g[T \ {x}] /\ h[T] = e[x] + h[T \ {x}]
      BY <3>1 DEF AddsUp
    <3>3. g[T \ {x}] = h[T \ {x}] /\ f[x] = e[x]
      BY <1>1, <3>1
    <3> QED
      BY <3>2, <3>3
  <2> QED
    BY <2>1, <2>2
<1>2. Q \in SUBSET (SUBSET S)
  OBVIOUS
<1> HIDE DEF Q
<1>3. Q = SUBSET S
  BY <1>1, <1>2, SubsetsOneByOne
<1> QED
  BY <1>3 DEF Q

\* SumFunctionOnSet is the sum: over S and over each of its subsets.
LEMMA SumsAddUp ==
  ASSUME NEW S, IsFiniteSet(S), NEW f, \A x \in S : f[x] \in Int
  PROVE  \E g : /\ AddsUp(g, f, S)
                /\ \A T \in SUBSET S : g[T] = SumFunctionOnSet(f, T)
<1> DEFINE fold(U) == CHOOSE g : g = FoldOver(f, g, SUBSET U)
<1>1. ASSUME NEW U \in SUBSET S
      PROVE  AddsUp(fold(U), f, U) /\ SumFunctionOnSet(f, U) = fold(U)[U]
  <2>1. IsFiniteSet(U) /\ \A x \in U : f[x] \in Int
    BY FS_Subset
  <2>2. \E g : g = FoldOver(f, g, SUBSET U)
    BY <2>1, FoldExists
  <2>3. fold(U) = FoldOver(f, fold(U), SUBSET U)
    BY <2>2
  <2>4. AddsUp(fold(U), f, U)
    <3> HIDE DEF fold
    <3> QED
      BY <2>1, <2>3, FoldAddsUp
  <2>5. SumFunctionOnSet(f, U) = fold(U)[U]
    BY DEF SumFunctionOnSet, FoldFunctionOnSet, MapThenFoldSet, FoldOver, Chosen
  <2> QED
    BY <2>4, <2>5
<1> HIDE DEF fold
<1>2. AddsUp(fold(S), f, S)
  BY <1>1
<1>3. ASSUME NEW T \in SUBSET S
      PROVE  fold(S)[T] = SumFunctionOnSet(f, T)
  <2>1. AddsUp(fold(T), f, T) /\ IsFiniteSet(T)
    BY <1>1, FS_Subset
  <2>2. AddsUp(fold(S), f, T)
    BY <1>2 DEF AddsUp
  <2>3. \A V \in SUBSET T : fold(S)[V] = fold(T)[V]
    BY <2>1, <2>2, AddsUpOnce
  <2>4. fold(S)[T] = fold(T)[T]
    BY <2>3
  <2> QED
    BY <1>1, <2>4
<1> QED
  BY <1>2, <1>3

-----------------------------------------------------------------------------
(* The laws of sums. *)

LEMMA SumTypes ==
  ASSUME NEW S, IsFiniteSet(S), NEW f, \A x \in S : f[x] \in Int
  PROVE  /\ SumFunctionOnSet(f, S) \in Int
         /\ SumFunctionOnSet(f, {}) = 0
<1>1. PICK g : /\ AddsUp(g, f, S)
               /\ \A T \in SUBSET S : g[T] = SumFunctionOnSet(f, T)
  BY SumsAddUp
<1> QED
  BY <1>1 DEF AddsUp

LEMMA SumTakesAway ==
  ASSUME NEW S, IsFiniteSet(S), NEW f, \A x \in S : f[x] \in Int, NEW x \in S
  PROVE  SumFunctionOnSet(f, S) = f[x] + SumFunctionOnSet(f, S \ {x})
<1>1. PICK g : /\ AddsUp(g, f, S)
               /\ \A T \in SUBSET S : g[T] = SumFunctionOnSet(f, T)
  BY SumsAddUp
<1> QED
  BY <1>1 DEF AddsUp

LEMMA SumAdds ==
  ASSUME NEW S, IsFiniteSet(S), NEW f, \A y \in S : f[y] \in Int,
         NEW x, x \notin S, f[x] \in Int
  PROVE  SumFunctionOnSet(f, S \cup {x}) = f[x] + SumFunctionOnSet(f, S)
<1>1. IsFiniteSet(S \cup {x}) /\ \A y \in S \cup {x} : f[y] \in Int
  BY FS_AddElement
<1>2. SumFunctionOnSet(f, S \cup {x})
        = f[x] + SumFunctionOnSet(f, (S \cup {x}) \ {x})
  BY <1>1, SumTakesAway
<1>3. (S \cup {x}) \ {x} = S
  OBVIOUS
<1> QED
  BY <1>2, <1>3

LEMMA SumsOfEqualsAreEqual ==
  ASSUME NEW S, IsFiniteSet(S), NEW f, NEW e,
         \A x \in S : f[x] \in Int /\ e[x] = f[x]
  PROVE  SumFunctionOnSet(f, S) = SumFunctionOnSet(e, S)
<1>1. PICK g : /\ AddsUp(g, f, S)
               /\ \A T \in SUBSET S : g[T] = SumFunctionOnSet(f, T)
  BY SumsAddUp
<1>2. PICK h : /\ AddsUp(h, e, S)
               /\ \A T \in SUBSET S : h[T] = SumFunctionOnSet(e, T)
  BY SumsAddUp
<1>3. \A T \in SUBSET S : g[T] = h[T]
  BY <1>1, <1>2, AddsUpOnce
<1> QED
  BY <1>1, <1>2, <1>3

\* A sum of naturals is one, and grows with its set.
LEMMA SumGrows ==
  ASSUME NEW S, IsFiniteSet(S), NEW f, \A x \in S : f[x] \in Nat,
         NEW T \in SUBSET S
  PROVE  /\ SumFunctionOnSet(f, S) \in Nat
         /\ SumFunctionOnSet(f, T) \in Nat
         /\ SumFunctionOnSet(f, T) <= SumFunctionOnSet(f, S)
<1>1. PICK g : /\ AddsUp(g, f, S)
               /\ \A U \in SUBSET S : g[U] = SumFunctionOnSet(f, U)
  BY SumsAddUp
<1> DEFINE Q == {U \in SUBSET S : \A V \in SUBSET U : 0 <= g[V] /\ g[V] <= g[U]}
<1>2. ASSUME NEW U \in SUBSET S, \A x \in U : U \ {x} \in Q
      PROVE  U \in Q
  <2> SUFFICES ASSUME NEW V \in SUBSET U
               PROVE  0 <= g[V] /\ g[V] <= g[U]
    OBVIOUS
  <2>1. CASE V = U
    <3>1. CASE U = {}
      BY <1>1, <2>1, <3>1 DEF AddsUp
    <3>2. CASE U # {}
      <4>1. PICK x \in U : TRUE
        BY <3>2
      <4>2. g[U] = f[x] + g[U \ {x}] /\ g[U \ {x}] \in Int /\ f[x] \in Nat
        BY <1>1, <4>1 DEF AddsUp
      <4>3. 0 <= g[U \ {x}]
        BY <1>2, <4>1
      <4> QED
        BY <2>1, <4>2, <4>3
    <3> QED
      BY <3>1, <3>2
  <2>2. CASE V # U
    <3>1. PICK x \in U : x \notin V
      BY <2>2
    <3>2. g[U] = f[x] + g[U \ {x}] /\ g[U \ {x}] \in Int /\ f[x] \in Nat
      BY <1>1, <3>1 DEF AddsUp
    <3>3. 0 <= g[V] /\ g[V] <= g[U \ {x}] /\ g[V] \in Int
      BY <1>1, <1>2, <3>1 DEF AddsUp
    <3> QED
      BY <3>2, <3>3
  <2> QED
    BY <2>1, <2>2
<1>3. Q \in SUBSET (SUBSET S)
  OBVIOUS
<1> HIDE DEF Q
<1>4. Q = SUBSET S
  BY <1>2, <1>3, SubsetsOneByOne
<1>5. /\ 0 <= g[S] /\ 0 <= g[T] /\ g[T] <= g[S]
      /\ g[S] \in Int /\ g[T] \in Int
  BY <1>1, <1>4 DEF Q, AddsUp
<1> QED
  BY <1>1, <1>5

\* A sum splits between a part of the set and the rest.
LEMMA SumOfParts ==
  ASSUME NEW S, IsFiniteSet(S), NEW f, \A x \in S : f[x] \in Int,
         NEW T \in SUBSET S
  PROVE  SumFunctionOnSet(f, S)
           = SumFunctionOnSet(f, T) + SumFunctionOnSet(f, S \ T)
<1>1. PICK g : /\ AddsUp(g, f, S)
               /\ \A U \in SUBSET S : g[U] = SumFunctionOnSet(f, U)
  BY SumsAddUp
<1> DEFINE Q == {U \in SUBSET S : g[U] = g[U \cap T] + g[U \ T]}
<1>2. ASSUME NEW U \in SUBSET S, \A x \in U : U \ {x} \in Q
      PROVE  U \in Q
  <2>1. CASE U = {}
    <3>1. U \cap T = {} /\ U \ T = {} /\ g[{}] = 0
      BY <1>1, <2>1 DEF AddsUp
    <3> QED
      BY <2>1, <3>1
  <2>2. CASE U # {}
    <3>1. PICK x \in U : TRUE
      BY <2>2
    <3> DEFINE V == U \ {x}
    <3>2. g[U] = f[x] + g[V] /\ g[V] = g[V \cap T] + g[V \ T]
      BY <1>1, <1>2, <3>1 DEF AddsUp
    <3>3. f[x] \in Int /\ g[V \cap T] \in Int /\ g[V \ T] \in Int
      BY <1>1, <3>1 DEF AddsUp
    <3>4. CASE x \in T
      <4>1. (U \cap T) \ {x} = V \cap T /\ U \ T = V \ T /\ x \in U \cap T
        BY <3>1, <3>4
      <4>2. g[U \cap T] = f[x] + g[V \cap T]
        BY <1>1, <4>1 DEF AddsUp
      <4>3. g[U \ T] = g[V \ T]
        BY <4>1
      <4> HIDE DEF V
      <4>4. g[U] = g[U \cap T] + g[U \ T]
        BY <3>2, <3>3, <4>2, <4>3
      <4> QED
        BY <4>4
    <3>5. CASE x \notin T
      <4>1. U \cap T = V \cap T /\ (U \ T) \ {x} = V \ T /\ x \in U \ T
        BY <3>1, <3>5
      <4>2. g[U \ T] = f[x] + g[V \ T]
        BY <1>1, <4>1 DEF AddsUp
      <4>3. g[U \cap T] = g[V \cap T]
        BY <4>1
      <4> HIDE DEF V
      <4>4. g[U] = g[U \cap T] + g[U \ T]
        BY <3>2, <3>3, <4>2, <4>3
      <4> QED
        BY <4>4
    <3> QED
      BY <3>4, <3>5
  <2> QED
    BY <2>1, <2>2
<1>3. Q \in SUBSET (SUBSET S)
  OBVIOUS
<1> HIDE DEF Q
<1>4. Q = SUBSET S
  BY <1>2, <1>3, SubsetsOneByOne
<1>5. g[S] = g[T] + g[S \ T]
  <2>1. S \in Q /\ S \cap T = T
    BY <1>4
  <2> QED
    BY <2>1 DEF Q
<1> QED
  BY <1>1, <1>5

LEMMA ImageIsFinite ==
  ASSUME NEW S, IsFiniteSet(S), NEW h
  PROVE  IsFiniteSet({h[x] : x \in S})
<1> DEFINE T == {h[x] : x \in S}
           f == [x \in S |-> h[x]]
<1>1. f \in Surjection(S, T)
  BY DEF Surjection
<1> HIDE DEF f
<1> QED
  BY <1>1, FS_Surjection

\* A sum may be taken over other indices, one for one.
LEMMA SumOfImage ==
  ASSUME NEW S, IsFiniteSet(S), NEW f, \A x \in S : f[x] \in Int,
         NEW h, \A x, y \in S : h[x] = h[y] => x = y,
         NEW e, \A x \in S : e[h[x]] = f[x]
  PROVE  SumFunctionOnSet(e, {h[x] : x \in S}) = SumFunctionOnSet(f, S)
<1> DEFINE Image(U) == {h[x] : x \in U}
           Q == {U \in SUBSET S :
                   SumFunctionOnSet(e, Image(U)) = SumFunctionOnSet(f, U)}
<1>1. ASSUME NEW U \in SUBSET S, \A x \in U : U \ {x} \in Q
      PROVE  U \in Q
  <2>1. CASE U = {}
    <3>1. Image({}) = {}
      OBVIOUS
    <3>2. SumFunctionOnSet(e, {}) = 0 /\ SumFunctionOnSet(f, {}) = 0
      BY SumTypes, FS_EmptySet
    <3> QED
      BY <2>1, <3>1, <3>2
  <2>2. CASE U # {}
    <3>1. PICK x \in U : TRUE
      BY <2>2
    <3> DEFINE V == U \ {x}
    <3>2. SumFunctionOnSet(e, Image(V)) = SumFunctionOnSet(f, V)
      BY <1>1, <3>1
    <3>3. IsFiniteSet(U) /\ IsFiniteSet(V)
      BY FS_Subset
    <3>4. SumFunctionOnSet(f, U) = f[x] + SumFunctionOnSet(f, V)
      BY <3>1, <3>3, SumTakesAway
    <3>5. /\ Image(U) = Image(V) \cup {h[x]} /\ h[x] \notin Image(V)
          /\ \A y \in Image(V) : e[y] \in Int
          /\ e[h[x]] \in Int /\ e[h[x]] = f[x]
      <4>1. U = V \cup {x} /\ x \notin V /\ V \subseteq S /\ x \in S
        BY <3>1
      <4> HIDE DEF V
      <4>2. Image(V \cup {x}) = Image(V) \cup {h[x]}
        OBVIOUS
      <4>3. h[x] \notin Image(V)
        BY <4>1
      <4>4. \A y \in Image(V) : e[y] \in Int
        BY <4>1
      <4> QED
        BY <4>1, <4>2, <4>3, <4>4
    <3>6. IsFiniteSet(Image(V))
      BY <3>3, ImageIsFinite
    <3> HIDE DEF Image
    <3>7. SumFunctionOnSet(e, Image(V) \cup {h[x]})
            = e[h[x]] + SumFunctionOnSet(e, Image(V))
      BY <3>5, <3>6, SumAdds
    <3> QED
      BY <3>2, <3>4, <3>5, <3>7
  <2> QED
    BY <2>1, <2>2
<1>2. Q \in SUBSET (SUBSET S)
  OBVIOUS
<1> HIDE DEF Q
<1>3. Q = SUBSET S
  BY <1>1, <1>2, SubsetsOneByOne
<1>4. S \in Q
  BY <1>3
<1> QED
  BY <1>4 DEF Q

=============================================================================
