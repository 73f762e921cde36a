----------------------------- MODULE SumLemmas -----------------------------
(***************************************************************************)
(* Facts about SumFunctionOnSet, the sum of a function over a finite set.  *)
(* Induction is over a set here, not over a predicate: the set of the      *)
(* subsets that have the property, of which a smallest one that is missing *)
(* cannot exist.                                                           *)
(***************************************************************************)
EXTENDS Integers, FiniteSets, Functions, FiniteSetTheorems, WellFoundedInduction, TLAPS

(* A set of natural numbers that is not empty has a least element.         *)
LEMMA LeastNat ==
    ASSUME NEW N \in SUBSET Nat, N # {}
    PROVE  \E m \in N : \A n \in N : m <= n
<1>1. IsWellFoundedOn(OpToRel(<, Nat), Nat)
  BY NatLessThanWellFounded
<1>2. PICK m \in N : \A n \in N : <<n, m>> \notin OpToRel(<, Nat)
  BY <1>1, WFMin
<1>3. \A n \in N : ~(n < m)
  BY <1>2 DEF OpToRel
<1> QED
  BY <1>3

(* Induction over the subsets of a finite set.                             *)
LEMMA SubsetInduction ==
    ASSUME NEW S, IsFiniteSet(S), NEW Good,
           \A T \in SUBSET S : (\A R \in SUBSET T : R # T => R \in Good) => T \in Good
    PROVE  \A T \in SUBSET S : T \in Good
<1> DEFINE bad == {T \in SUBSET S : T \notin Good}
<1> SUFFICES ASSUME bad # {} PROVE FALSE
  OBVIOUS
<1>1. \A T \in SUBSET S : IsFiniteSet(T) /\ Cardinality(T) \in Nat
  BY FS_Subset, FS_CardinalityType
<1> DEFINE sizes == {Cardinality(T) : T \in bad}
<1>2. sizes \in SUBSET Nat /\ sizes # {}
  BY <1>1
<1>3. PICK m \in sizes : \A n \in sizes : m <= n
  <2> HIDE DEF sizes
  <2> QED BY <1>2, LeastNat
<1>4. PICK T \in bad : Cardinality(T) = m
  BY <1>3
<1>5. ASSUME NEW R \in SUBSET T, R # T
      PROVE  R \in Good
  <2>1. IsFiniteSet(T) /\ R \in SUBSET S
    BY <1>1, <1>4
  <2>2. Cardinality(R) <= Cardinality(T) /\ Cardinality(R) # Cardinality(T)
    BY <2>1, <1>5, FS_Subset
  <2>3. Cardinality(R) \in Nat /\ Cardinality(T) \in Nat
    BY <1>1, <2>1, <1>4
  <2>4. ~(m <= Cardinality(R))
    BY <2>2, <2>3, <1>4
  <2>5. R \notin bad
    BY <2>4, <1>3
  <2> QED BY <2>1, <2>5
<1> QED
  BY <1>4, <1>5
-----------------------------------------------------------------------------
(* What the definition of the sum says of the function it chooses.         *)
Adds(F, S, g) ==
    g = [s \in SUBSET S |-> IF s = {} THEN 0
                            ELSE F[CHOOSE y \in s : TRUE] + g[s \ {CHOOSE y \in s : TRUE}]]

LEMMA SumIsChosen ==
    ASSUME NEW F, NEW S
    PROVE  SumFunctionOnSet(F, S) = (CHOOSE g : Adds(F, S, g))[S]
BY DEF SumFunctionOnSet, FoldFunctionOnSet, MapThenFoldSet, Adds

Chosen(s) == CHOOSE y \in s : TRUE

LEMMA AnyIn ==
    ASSUME NEW s, s # {}
    PROVE  Chosen(s) \in s /\ s \ {Chosen(s)} \in SUBSET s /\ s \ {Chosen(s)} # s
BY DEF Chosen

LEMMA AddsAt ==
    ASSUME NEW F, NEW S, NEW g, Adds(F, S, g), NEW s \in SUBSET S
    PROVE  g[s] = IF s = {} THEN 0 ELSE F[Chosen(s)] + g[s \ {Chosen(s)}]
BY DEF Adds, Chosen

LEMMA AddsAgree ==
    ASSUME NEW F, NEW S, NEW T, NEW g, NEW h, Adds(F, S, g), Adds(F, T, h), IsFiniteSet(T)
    PROVE  \A R \in SUBSET T : R \in SUBSET S => g[R] = h[R]
<1> DEFINE Good == {R \in SUBSET T : R \in SUBSET S => g[R] = h[R]}
<1>1. ASSUME NEW R \in SUBSET T, \A Q \in SUBSET R : Q # R => Q \in Good
      PROVE  R \in Good
  <2> SUFFICES ASSUME R \in SUBSET S PROVE g[R] = h[R]
    OBVIOUS
  <2>1. g[R] = IF R = {} THEN 0 ELSE F[Chosen(R)] + g[R \ {Chosen(R)}]
    BY AddsAt
  <2>2. h[R] = IF R = {} THEN 0 ELSE F[Chosen(R)] + h[R \ {Chosen(R)}]
    BY AddsAt
  <2>3. R # {} => g[R \ {Chosen(R)}] = h[R \ {Chosen(R)}]
    BY <1>1, AnyIn
  <2> QED BY <2>1, <2>2, <2>3
<1>2. \A R \in SUBSET T : R \in Good
  <2> HIDE DEF Good
  <2> QED BY <1>1, SubsetInduction
<1> QED
  BY <1>2

LEMMA AddsExists ==
    ASSUME NEW F, NEW S, IsFiniteSet(S)
    PROVE  \A T \in SUBSET S : \E g : Adds(F, T, g)
<1> DEFINE Good == {T \in SUBSET S : \E g : Adds(F, T, g)}
           Sum(s) == (CHOOSE h : Adds(F, s, h))[s]
<1>1. ASSUME NEW T \in SUBSET S, \A R \in SUBSET T : R # T => R \in Good
      PROVE  T \in Good
  <2> DEFINE g == [s \in SUBSET T |->
                     IF s = T THEN IF T = {} THEN 0 ELSE F[Chosen(T)] + Sum(T \ {Chosen(T)})
                     ELSE Sum(s)]
  <2>1. ASSUME NEW s \in SUBSET T
        PROVE  g[s] = IF s = {} THEN 0 ELSE F[Chosen(s)] + g[s \ {Chosen(s)}]
    <3>1. s # {} => /\ s \ {Chosen(s)} \in SUBSET T /\ s \ {Chosen(s)} # T
                    /\ s \ {Chosen(s)} \in SUBSET s
      BY AnyIn
    <3>2. CASE s = T
      <4>1. s # {} => g[s \ {Chosen(s)}] = Sum(s \ {Chosen(s)})
        BY <3>1
      <4> QED BY <3>2, <4>1
    <3>3. CASE s # T
      <4> DEFINE h == CHOOSE k : Adds(F, s, k)
      <4>1. Adds(F, s, h)
        <5>1. \E k : Adds(F, s, k)
          BY <1>1, <3>3
        <5> QED BY <5>1
      <4>2. g[s] = h[s]
        BY <3>3
      <4>3. h[s] = IF s = {} THEN 0 ELSE F[Chosen(s)] + h[s \ {Chosen(s)}]
        <5> HIDE DEF h
        <5> QED BY <4>1, AddsAt
      <4>4. ASSUME s # {}
            PROVE  h[s \ {Chosen(s)}] = g[s \ {Chosen(s)}]
        <5> DEFINE r == s \ {Chosen(s)}
                   k == CHOOSE m : Adds(F, r, m)
        <5>1. r \in SUBSET T /\ r # T /\ r \in SUBSET s
          BY <4>4, <3>1
        <5>2. g[r] = k[r]
          BY <5>1
        <5>3. Adds(F, r, k)
          <6> HIDE DEF r
          <6>1. \E m : Adds(F, r, m)
            BY <1>1, <5>1
          <6> QED BY <6>1
        <5>4. IsFiniteSet(r)
          <6>1. r \in SUBSET S
            BY <5>1
          <6> HIDE DEF r
          <6> QED BY <6>1, FS_Subset
        <5>5. h[r] = k[r]
          <6> HIDE DEF h, r, k
          <6>1. r \in SUBSET r
            OBVIOUS
          <6> QED BY <4>1, <5>1, <5>3, <5>4, <6>1, AddsAgree
        <5> QED BY <5>2, <5>5
      <4> HIDE DEF h, g, Sum
      <4> QED BY <4>2, <4>3, <4>4
    <3> QED BY <3>2, <3>3
  <2>2. Adds(F, T, g)
    <3>1. g = [s \in SUBSET T |-> IF s = {} THEN 0 ELSE F[Chosen(s)] + g[s \ {Chosen(s)}]]
      <4>1. g = [s \in SUBSET T |-> g[s]]
        OBVIOUS
      <4> HIDE DEF g
      <4> QED BY <2>1, <4>1
    <3> HIDE DEF g
    <3> QED BY <3>1 DEF Adds, Chosen
  <2> HIDE DEF g
  <2> QED BY <2>2
<1>2. \A T \in SUBSET S : T \in Good
  <2> HIDE DEF Good
  <2> QED BY <1>1, SubsetInduction
<1> QED
  BY <1>2

LEMMA SumUnfolds ==
    ASSUME NEW F, NEW S, IsFiniteSet(S)
    PROVE  SumFunctionOnSet(F, S) =
              IF S = {} THEN 0 ELSE F[Chosen(S)] + SumFunctionOnSet(F, S \ {Chosen(S)})
<1> DEFINE g(T) == CHOOSE h : Adds(F, T, h)
           R == S \ {Chosen(S)}
<1>1. \A T \in SUBSET S : Adds(F, T, g(T)) /\ SumFunctionOnSet(F, T) = g(T)[T]
  <2> TAKE T \in SUBSET S
  <2>1. \E h : Adds(F, T, h)
    BY AddsExists
  <2> QED BY <2>1, SumIsChosen
<1>2. g(S)[S] = IF S = {} THEN 0 ELSE F[Chosen(S)] + g(S)[R]
  <2>1. PICK h : h = g(S) /\ Adds(F, S, h)
    BY <1>1
  <2>2. \A s \in SUBSET S : h[s] = IF s = {} THEN 0 ELSE F[Chosen(s)] + h[s \ {Chosen(s)}]
    BY <2>1, AddsAt
  <2> HIDE DEF g
  <2> QED BY <2>1, <2>2
<1>3. g(S)[R] = g(R)[R]
  <2>1. R \in SUBSET S /\ IsFiniteSet(R) /\ R \in SUBSET R
    BY FS_Subset
  <2>2. Adds(F, S, g(S)) /\ Adds(F, R, g(R))
    BY <1>1, <2>1
  <2> HIDE DEF g, R
  <2> QED BY <2>1, <2>2, AddsAgree
<1>4. SumFunctionOnSet(F, S) = g(S)[S] /\ SumFunctionOnSet(F, R) = g(R)[R]
  BY <1>1
<1> HIDE DEF g
<1> QED BY <1>2, <1>3, <1>4
-----------------------------------------------------------------------------
LEMMA SumEmpty ==
    ASSUME NEW F
    PROVE  SumFunctionOnSet(F, {}) = 0
BY SumUnfolds, FS_EmptySet

LEMMA SumInt ==
    ASSUME NEW F, NEW S, IsFiniteSet(S), \A y \in S : F[y] \in Int
    PROVE  SumFunctionOnSet(F, S) \in Int
<1> DEFINE Good == {T \in SUBSET S : SumFunctionOnSet(F, T) \in Int}
<1>1. ASSUME NEW T \in SUBSET S, \A R \in SUBSET T : R # T => R \in Good
      PROVE  T \in Good
  <2>1. IsFiniteSet(T)
    BY FS_Subset
  <2>2. SumFunctionOnSet(F, T) =
           IF T = {} THEN 0 ELSE F[Chosen(T)] + SumFunctionOnSet(F, T \ {Chosen(T)})
    BY <2>1, SumUnfolds
  <2>3. T # {} => Chosen(T) \in S /\ SumFunctionOnSet(F, T \ {Chosen(T)}) \in Int
    BY <1>1, AnyIn
  <2>4. SumFunctionOnSet(F, T) \in Int
    BY <2>2, <2>3
  <2> QED BY <2>4
<1>2. \A T \in SUBSET S : T \in Good
  <2> HIDE DEF Good
  <2> QED BY <1>1, SubsetInduction
<1> QED
  BY <1>2

LEMMA SumNat ==
    ASSUME NEW F, NEW S, IsFiniteSet(S), \A y \in S : F[y] \in Nat
    PROVE  SumFunctionOnSet(F, S) \in Nat
<1> DEFINE Good == {T \in SUBSET S : SumFunctionOnSet(F, T) \in Nat}
<1>1. ASSUME NEW T \in SUBSET S, \A R \in SUBSET T : R # T => R \in Good
      PROVE  T \in Good
  <2>1. IsFiniteSet(T)
    BY FS_Subset
  <2>2. SumFunctionOnSet(F, T) =
           IF T = {} THEN 0 ELSE F[Chosen(T)] + SumFunctionOnSet(F, T \ {Chosen(T)})
    BY <2>1, SumUnfolds
  <2>3. T # {} => Chosen(T) \in S /\ SumFunctionOnSet(F, T \ {Chosen(T)}) \in Nat
    BY <1>1, AnyIn
  <2>4. SumFunctionOnSet(F, T) \in Nat
    BY <2>2, <2>3
  <2> QED BY <2>4
<1>2. \A T \in SUBSET S : T \in Good
  <2> HIDE DEF Good
  <2> QED BY <1>1, SubsetInduction
<1> QED
  BY <1>2

(* Any element can be taken out first.                                     *)
LEMMA SumTakeOut ==
    ASSUME NEW F, NEW S, IsFiniteSet(S), \A y \in S : F[y] \in Int
    PROVE  \A e \in S : SumFunctionOnSet(F, S) = F[e] + SumFunctionOnSet(F, S \ {e})
<1> DEFINE Sum(T) == SumFunctionOnSet(F, T)
           Good == {T \in SUBSET S : \A e \in T : Sum(T) = F[e] + Sum(T \ {e})}
<1>1. ASSUME NEW T \in SUBSET S, \A R \in SUBSET T : R # T => R \in Good
      PROVE  T \in Good
  <2> SUFFICES ASSUME NEW e \in T PROVE Sum(T) = F[e] + Sum(T \ {e})
    OBVIOUS
  <2> DEFINE a == Chosen(T)
  <2>1. \A R \in SUBSET T : IsFiniteSet(R) /\ Sum(R) \in Int
    <3> TAKE R \in SUBSET T
    <3>1. R \in SUBSET S
      OBVIOUS
    <3>2. IsFiniteSet(R)
      BY <3>1, FS_Subset
    <3> QED BY <3>1, <3>2, SumInt
  <2>2. a \in T /\ T \in SUBSET T
    BY AnyIn
  <2>3. Sum(T) = F[a] + Sum(T \ {a})
    BY <2>1, <2>2, SumUnfolds
  <2>4. CASE a = e
    BY <2>3, <2>4
  <2>5. CASE a # e
    <3>1. Sum(T \ {a}) = F[e] + Sum((T \ {a}) \ {e})
      <4>1. T \ {a} \in Good /\ e \in T \ {a}
        BY <1>1, <2>2, <2>5
      <4> QED BY <4>1
    <3>2. Sum(T \ {e}) = F[a] + Sum((T \ {e}) \ {a})
      <4>1. T \ {e} \in Good /\ a \in T \ {e}
        BY <1>1, <2>2, <2>5
      <4> QED BY <4>1
    <3>3. Sum((T \ {e}) \ {a}) = Sum((T \ {a}) \ {e})
      <4>1. (T \ {e}) \ {a} = (T \ {a}) \ {e}
        OBVIOUS
      <4> QED BY <4>1
    <3>4. F[a] \in Int /\ F[e] \in Int /\ Sum((T \ {a}) \ {e}) \in Int
      <4>1. (T \ {a}) \ {e} \in SUBSET T
        OBVIOUS
      <4> QED BY <2>1, <2>2, <4>1
    <3> HIDE DEF Sum, a
    <3> QED BY <2>3, <3>1, <3>2, <3>3, <3>4
  <2> QED BY <2>4, <2>5
<1>2. \A T \in SUBSET S : T \in Good
  <2> HIDE DEF Good
  <2> QED BY <1>1, SubsetInduction
<1> QED
  BY <1>2

LEMMA SumAddElement ==
    ASSUME NEW F, NEW S, IsFiniteSet(S), NEW e, e \notin S, \A y \in S \cup {e} : F[y] \in Int
    PROVE  SumFunctionOnSet(F, S \cup {e}) = F[e] + SumFunctionOnSet(F, S)
<1>1. IsFiniteSet(S \cup {e}) /\ (S \cup {e}) \ {e} = S /\ e \in S \cup {e}
  BY FS_AddElement
<1> QED
  BY <1>1, SumTakeOut

(* The sum depends on the function's values only.                          *)
LEMMA SumSame ==
    ASSUME NEW F, NEW G, NEW S, IsFiniteSet(S), \A y \in S : F[y] = G[y]
    PROVE  SumFunctionOnSet(F, S) = SumFunctionOnSet(G, S)
<1> DEFINE Good == {T \in SUBSET S : SumFunctionOnSet(F, T) = SumFunctionOnSet(G, T)}
<1>1. ASSUME NEW T \in SUBSET S, \A R \in SUBSET T : R # T => R \in Good
      PROVE  T \in Good
  <2>1. IsFiniteSet(T)
    BY FS_Subset
  <2>2. SumFunctionOnSet(F, T) =
           IF T = {} THEN 0 ELSE F[Chosen(T)] + SumFunctionOnSet(F, T \ {Chosen(T)})
    BY <2>1, SumUnfolds
  <2>3. SumFunctionOnSet(G, T) =
           IF T = {} THEN 0 ELSE G[Chosen(T)] + SumFunctionOnSet(G, T \ {Chosen(T)})
    BY <2>1, SumUnfolds
  <2>4. T # {} => /\ F[Chosen(T)] = G[Chosen(T)]
                  /\ SumFunctionOnSet(F, T \ {Chosen(T)}) = SumFunctionOnSet(G, T \ {Chosen(T)})
    BY <1>1, AnyIn
  <2>5. SumFunctionOnSet(F, T) = SumFunctionOnSet(G, T)
    BY <2>2, <2>3, <2>4
  <2> QED BY <2>5
<1>2. \A T \in SUBSET S : T \in Good
  <2> HIDE DEF Good
  <2> QED BY <1>1, SubsetInduction
<1> QED
  BY <1>2

(* Changing the function at one place of the set.                          *)
LEMMA SumChange ==
    ASSUME NEW F, NEW G, NEW S, IsFiniteSet(S), NEW e \in S,
           \A y \in S : F[y] \in Int /\ G[y] \in Int,
           \A y \in S \ {e} : F[y] = G[y]
    PROVE  SumFunctionOnSet(G, S) = SumFunctionOnSet(F, S) + (G[e] - F[e])
<1>1. IsFiniteSet(S \ {e}) /\ \A y \in S \ {e} : F[y] \in Int
  BY FS_RemoveElement
<1>2. SumFunctionOnSet(F, S \ {e}) = SumFunctionOnSet(G, S \ {e})
  BY <1>1, SumSame
<1>3. SumFunctionOnSet(F, S \ {e}) \in Int
  BY <1>1, SumInt
<1>4. SumFunctionOnSet(F, S) = F[e] + SumFunctionOnSet(F, S \ {e})
  BY SumTakeOut
<1>5. SumFunctionOnSet(G, S) = G[e] + SumFunctionOnSet(G, S \ {e})
  BY SumTakeOut
<1> QED
  BY <1>2, <1>3, <1>4, <1>5

LEMMA SumZero ==
    ASSUME NEW F, NEW S, IsFiniteSet(S), \A y \in S : F[y] = 0
    PROVE  SumFunctionOnSet(F, S) = 0
<1> DEFINE Good == {T \in SUBSET S : SumFunctionOnSet(F, T) = 0}
<1>1. ASSUME NEW T \in SUBSET S, \A R \in SUBSET T : R # T => R \in Good
      PROVE  T \in Good
  <2>1. IsFiniteSet(T)
    BY FS_Subset
  <2>2. SumFunctionOnSet(F, T) =
           IF T = {} THEN 0 ELSE F[Chosen(T)] + SumFunctionOnSet(F, T \ {Chosen(T)})
    BY <2>1, SumUnfolds
  <2>3. T # {} => F[Chosen(T)] = 0 /\ SumFunctionOnSet(F, T \ {Chosen(T)}) = 0
    BY <1>1, AnyIn
  <2>4. SumFunctionOnSet(F, T) = 0
    BY <2>2, <2>3
  <2> QED BY <2>4
<1>2. \A T \in SUBSET S : T \in Good
  <2> HIDE DEF Good
  <2> QED BY <1>1, SubsetInduction
<1> QED
  BY <1>2

(* One value that is not zero.                                             *)
LEMMA SumOne ==
    ASSUME NEW F, NEW S, IsFiniteSet(S), NEW e \in S, F[e] \in Int,
           \A y \in S \ {e} : F[y] = 0
    PROVE  SumFunctionOnSet(F, S) = F[e]
<1>1. \A y \in S : F[y] \in Int
  OBVIOUS
<1>2. SumFunctionOnSet(F, S) = F[e] + SumFunctionOnSet(F, S \ {e})
  BY <1>1, SumTakeOut
<1>3. SumFunctionOnSet(F, S \ {e}) = 0
  BY FS_RemoveElement, SumZero
<1> QED
  BY <1>2, <1>3

(* Sums of a sum, of a difference and of disjoint sets.                    *)
LEMMA SumPlus ==
    ASSUME NEW F, NEW G, NEW H, NEW S, IsFiniteSet(S),
           \A y \in S : F[y] \in Int /\ G[y] \in Int /\ H[y] = F[y] + G[y]
    PROVE  SumFunctionOnSet(H, S) = SumFunctionOnSet(F, S) + SumFunctionOnSet(G, S)
<1> DEFINE Good == {T \in SUBSET S : SumFunctionOnSet(H, T) =
                        SumFunctionOnSet(F, T) + SumFunctionOnSet(G, T)}
<1>1. ASSUME NEW T \in SUBSET S, \A R \in SUBSET T : R # T => R \in Good
      PROVE  T \in Good
  <2> DEFINE R == T \ {Chosen(T)}
  <2>1. IsFiniteSet(T) /\ IsFiniteSet(R)
    BY FS_Subset
  <2>2. /\ SumFunctionOnSet(F, T) = IF T = {} THEN 0 ELSE F[Chosen(T)] + SumFunctionOnSet(F, R)
        /\ SumFunctionOnSet(G, T) = IF T = {} THEN 0 ELSE G[Chosen(T)] + SumFunctionOnSet(G, R)
        /\ SumFunctionOnSet(H, T) = IF T = {} THEN 0 ELSE H[Chosen(T)] + SumFunctionOnSet(H, R)
    BY <2>1, SumUnfolds
  <2>3. SumFunctionOnSet(F, R) \in Int /\ SumFunctionOnSet(G, R) \in Int
    BY <2>1, SumInt
  <2>4. T # {} => /\ Chosen(T) \in S
                  /\ SumFunctionOnSet(H, R) = SumFunctionOnSet(F, R) + SumFunctionOnSet(G, R)
    BY <1>1, AnyIn
  <2>5. T # {} => H[Chosen(T)] = F[Chosen(T)] + G[Chosen(T)] /\ F[Chosen(T)] \in Int /\ G[Chosen(T)] \in Int
    BY <2>4
  <2>6. SumFunctionOnSet(H, T) = SumFunctionOnSet(F, T) + SumFunctionOnSet(G, T)
    <3> HIDE DEF R
    <3> QED BY <2>2, <2>3, <2>4, <2>5
  <2> QED BY <2>6
<1>2. \A T \in SUBSET S : T \in Good
  <2> HIDE DEF Good
  <2> QED BY <1>1, SubsetInduction
<1> QED
  BY <1>2

LEMMA SumUnion ==
    ASSUME NEW F, NEW S, NEW U, IsFiniteSet(S), IsFiniteSet(U), S \cap U = {},
           \A y \in S \cup U : F[y] \in Int
    PROVE  SumFunctionOnSet(F, S \cup U) = SumFunctionOnSet(F, S) + SumFunctionOnSet(F, U)
<1> DEFINE Good == {T \in SUBSET S : SumFunctionOnSet(F, T \cup U) =
                        SumFunctionOnSet(F, T) + SumFunctionOnSet(F, U)}
<1>1. ASSUME NEW T \in SUBSET S, \A R \in SUBSET T : R # T => R \in Good
      PROVE  T \in Good
  <2>1. /\ IsFiniteSet(T) /\ SumFunctionOnSet(F, U) \in Int
        /\ \A R \in SUBSET S : IsFiniteSet(R) /\ SumFunctionOnSet(F, R) \in Int
    <3>1. \A R \in SUBSET S : IsFiniteSet(R)
      BY FS_Subset
    <3> QED BY <3>1, SumInt
  <2>2. CASE T = {}
    <3>1. T \cup U = U
      BY <2>2
    <3> QED BY <2>1, <2>2, <3>1, SumEmpty
  <2>3. CASE T # {}
    <3> DEFINE a == Chosen(T)
               R == T \ {a}
    <3>1. a \in T /\ a \notin R \cup U /\ R \in SUBSET T /\ R # T
      BY <2>3, AnyIn
    <3>2. T = R \cup {a} /\ T \cup U = (R \cup U) \cup {a}
      BY <3>1
    <3>3. IsFiniteSet(R \cup U) /\ IsFiniteSet(R)
      BY <2>1, <3>1, FS_Union
    <3>4. SumFunctionOnSet(F, T \cup U) = F[a] + SumFunctionOnSet(F, R \cup U)
      <4>1. \A y \in (R \cup U) \cup {a} : F[y] \in Int
        BY <3>1
      <4> HIDE DEF a, R
      <4> QED BY <3>1, <3>2, <3>3, <4>1, SumAddElement
    <3>5. SumFunctionOnSet(F, T) = F[a] + SumFunctionOnSet(F, R)
      <4>1. \A y \in R \cup {a} : F[y] \in Int
        BY <3>1
      <4> HIDE DEF a, R
      <4> QED BY <3>1, <3>2, <3>3, <4>1, SumAddElement
    <3>6. SumFunctionOnSet(F, R \cup U) = SumFunctionOnSet(F, R) + SumFunctionOnSet(F, U)
      BY <1>1, <3>1
    <3>7. F[a] \in Int /\ SumFunctionOnSet(F, R) \in Int
      BY <2>1, <3>1
    <3>8. SumFunctionOnSet(F, T \cup U) = SumFunctionOnSet(F, T) + SumFunctionOnSet(F, U)
      <4> HIDE DEF a, R
      <4> QED BY <2>1, <3>4, <3>5, <3>6, <3>7
    <3> QED BY <3>8
  <2> QED BY <2>2, <2>3
<1>2. \A T \in SUBSET S : T \in Good
  <2> HIDE DEF Good
  <2> QED BY <1>1, SubsetInduction
<1> QED
  BY <1>2
-----------------------------------------------------------------------------
(* Residues: m divides the difference.                                     *)
LEMMA DivMod ==
    ASSUME NEW m \in Nat \ {0}, NEW a \in Int
    PROVE  a % m \in 0..(m - 1) /\ \E q \in Int : a = q * m + (a % m)
<1> DEFINE q == a \div m
           r == a % m
<1>1. r \in 0..(m - 1) /\ q \in Int
  OBVIOUS
<1>2. a = m * q + r
  OBVIOUS
<1> HIDE DEF q, r
<1>3. a = q * m + r
  BY <1>1, <1>2
<1> QED
  BY <1>1, <1>3 DEF r

LEMMA SameResidue ==
    ASSUME NEW m \in Nat \ {0}, NEW a \in Int, NEW b \in Int
    PROVE  a % m = b % m <=> \E k \in Int : a = b + k * m
<1>1. PICK p \in Int : a = p * m + (a % m)
  BY DivMod
<1>2. PICK q \in Int : b = q * m + (b % m)
  BY DivMod
<1>3. PICK r \in 0..(m - 1) : r = a % m
  BY DivMod
<1>4. PICK s \in 0..(m - 1) : s = b % m
  BY DivMod
<1>5. a = p * m + r /\ b = q * m + s
  BY <1>1, <1>2, <1>3, <1>4
<1>6. CASE r = s
  <2>1. p - q \in Int /\ (p - q) * m = p * m - q * m
    OBVIOUS
  <2>2. p * m \in Int /\ q * m \in Int
    OBVIOUS
  <2>3. a = b + (p - q) * m
    BY <1>5, <1>6, <2>1, <2>2
  <2> QED BY <1>3, <1>4, <1>6, <2>1, <2>3
<1>7. ASSUME r # s, NEW k \in Int, a = b + k * m
      PROVE  FALSE
  <2>1. PICK n \in Int : n = p - q - k
    OBVIOUS
  <2>2. n * m = p * m - q * m - k * m
    BY <2>1
  <2>3. p * m \in Int /\ q * m \in Int /\ k * m \in Int /\ n * m \in Int
    OBVIOUS
  <2>4. n * m = s - r
    BY <1>5, <1>7, <2>2, <2>3
  <2>5. n >= 1 => n * m >= m
    OBVIOUS
  <2>6. n <= -1 => n * m <= -m
    OBVIOUS
  <2>7. n = 0 => n * m = 0
    OBVIOUS
  <2> QED BY <1>7, <2>1, <2>3, <2>4, <2>5, <2>6, <2>7
<1> QED
  BY <1>3, <1>4, <1>6, <1>7

LEMMA ResidueSmall ==
    ASSUME NEW m \in Nat \ {0}, NEW r \in 0..(m - 1)
    PROVE  r % m = r
OBVIOUS

Congruent(a, b, m) == a % m = b % m

LEMMA CongruentBy ==
    ASSUME NEW m \in Nat \ {0}, NEW a \in Int, NEW b \in Int, NEW k \in Int, a = b + k * m
    PROVE  Congruent(a, b, m)
BY SameResidue DEF Congruent

LEMMA CongruentPlus ==
    ASSUME NEW m \in Nat \ {0}, NEW a \in Int, NEW b \in Int, NEW c \in Int, NEW d \in Int,
           Congruent(a, b, m), Congruent(c, d, m)
    PROVE  Congruent(a + c, b + d, m) /\ Congruent(a - c, b - d, m)
<1>1. PICK k \in Int : a = b + k * m
  BY SameResidue DEF Congruent
<1>2. PICK n \in Int : c = d + n * m
  BY SameResidue DEF Congruent
<1>3. k * m \in Int /\ n * m \in Int
  OBVIOUS
<1>4. /\ k + n \in Int /\ (k + n) * m = k * m + n * m
      /\ k - n \in Int /\ (k - n) * m = k * m - n * m
  OBVIOUS
<1>5. a + c \in Int /\ b + d \in Int /\ a - c \in Int /\ b - d \in Int
  OBVIOUS
<1>6. a + c = (b + d) + (k + n) * m /\ a - c = (b - d) + (k - n) * m
  BY <1>1, <1>2, <1>3, <1>4
<1>7. Congruent(a + c, b + d, m)
  BY <1>4, <1>5, <1>6, CongruentBy
<1>8. Congruent(a - c, b - d, m)
  BY <1>4, <1>5, <1>6, CongruentBy
<1> QED
  BY <1>7, <1>8

LEMMA CongruentMod ==
    ASSUME NEW m \in Nat \ {0}, NEW a \in Int
    PROVE  a % m \in Int /\ Congruent(a % m, a, m) /\ Congruent(a, a % m, m)
<1>1. a % m \in 0..(m - 1)
  BY DivMod
<1>2. (a % m) % m = a % m
  BY <1>1, ResidueSmall
<1> QED
  BY <1>1, <1>2 DEF Congruent

(* Adding values modulo m.                                                 *)
LEMMA SumResidue ==
    ASSUME NEW F, NEW G, NEW m \in Nat \ {0}, NEW S, IsFiniteSet(S),
           \A y \in S : F[y] \in Int /\ G[y] \in Int /\ Congruent(F[y], G[y], m)
    PROVE  Congruent(SumFunctionOnSet(F, S), SumFunctionOnSet(G, S), m)
<1> DEFINE Good == {T \in SUBSET S : Congruent(SumFunctionOnSet(F, T), SumFunctionOnSet(G, T), m)}
<1>1. ASSUME NEW T \in SUBSET S, \A R \in SUBSET T : R # T => R \in Good
      PROVE  T \in Good
  <2> DEFINE R == T \ {Chosen(T)}
  <2>1. IsFiniteSet(T) /\ IsFiniteSet(R)
    BY FS_Subset
  <2>2. /\ SumFunctionOnSet(F, T) = IF T = {} THEN 0 ELSE F[Chosen(T)] + SumFunctionOnSet(F, R)
        /\ SumFunctionOnSet(G, T) = IF T = {} THEN 0 ELSE G[Chosen(T)] + SumFunctionOnSet(G, R)
    BY <2>1, SumUnfolds
  <2>3. SumFunctionOnSet(F, R) \in Int /\ SumFunctionOnSet(G, R) \in Int
    BY <2>1, SumInt
  <2>4. ASSUME T # {}
        PROVE  Congruent(F[Chosen(T)] + SumFunctionOnSet(F, R), G[Chosen(T)] + SumFunctionOnSet(G, R), m)
    <3>1. Chosen(T) \in S /\ R \in SUBSET T /\ R # T
      BY <2>4, AnyIn
    <3>2. Congruent(SumFunctionOnSet(F, R), SumFunctionOnSet(G, R), m)
      BY <1>1, <3>1
    <3>3. F[Chosen(T)] \in Int /\ G[Chosen(T)] \in Int /\ Congruent(F[Chosen(T)], G[Chosen(T)], m)
      BY <3>1
    <3> HIDE DEF R
    <3> QED BY <2>3, <3>2, <3>3, CongruentPlus
  <2>5. Congruent(SumFunctionOnSet(F, T), SumFunctionOnSet(G, T), m)
    <3>1. CASE T = {}
      BY <2>2, <3>1 DEF Congruent
    <3>2. CASE T # {}
      BY <2>2, <2>4, <3>2
    <3> QED BY <3>1, <3>2
  <2> QED BY <2>5
<1>2. \A T \in SUBSET S : T \in Good
  <2> HIDE DEF Good
  <2> QED BY <1>1, SubsetInduction
<1> QED
  BY <1>2

(* Natural numbers: a part of the sum, and smaller values.                 *)
LEMMA SumPart ==
    ASSUME NEW F, NEW S, IsFiniteSet(S), \A y \in S : F[y] \in Nat, NEW T \in SUBSET S
    PROVE  /\ SumFunctionOnSet(F, T) \in Nat
           /\ SumFunctionOnSet(F, T) <= SumFunctionOnSet(F, S)
<1>1. IsFiniteSet(T) /\ IsFiniteSet(S \ T) /\ T \cup (S \ T) = S /\ T \cap (S \ T) = {}
  BY FS_Subset
<1>2. SumFunctionOnSet(F, T \cup (S \ T)) = SumFunctionOnSet(F, T) + SumFunctionOnSet(F, S \ T)
  <2>1. \A y \in T \cup (S \ T) : F[y] \in Int
    OBVIOUS
  <2> QED BY <1>1, <2>1, SumUnion
<1>3. SumFunctionOnSet(F, T) \in Nat /\ SumFunctionOnSet(F, S \ T) \in Nat
  BY <1>1, SumNat
<1>4. SumFunctionOnSet(F, T \cup (S \ T)) = SumFunctionOnSet(F, S)
  BY <1>1
<1> QED
  BY <1>2, <1>3, <1>4

LEMMA SumBelow ==
    ASSUME NEW F, NEW G, NEW S, IsFiniteSet(S),
           \A y \in S : F[y] \in Int /\ G[y] \in Int /\ F[y] <= G[y]
    PROVE  SumFunctionOnSet(F, S) <= SumFunctionOnSet(G, S)
<1> DEFINE H == [y \in S |-> G[y] - F[y]]
<1>1. \A y \in S : H[y] \in Nat /\ F[y] \in Int /\ H[y] \in Int /\ G[y] = F[y] + H[y]
  OBVIOUS
<1> HIDE DEF H
<1>2. SumFunctionOnSet(G, S) = SumFunctionOnSet(F, S) + SumFunctionOnSet(H, S)
  BY <1>1, SumPlus
<1>3. SumFunctionOnSet(H, S) \in Nat /\ SumFunctionOnSet(F, S) \in Int
  BY <1>1, SumNat, SumInt
<1> QED
  BY <1>2, <1>3

(* The sum of ones is the number of elements.                              *)
LEMMA SumOnes ==
    ASSUME NEW F, NEW S, IsFiniteSet(S), \A y \in S : F[y] = 1
    PROVE  SumFunctionOnSet(F, S) = Cardinality(S)
<1> DEFINE Good == {T \in SUBSET S : SumFunctionOnSet(F, T) = Cardinality(T)}
<1>1. ASSUME NEW T \in SUBSET S, \A R \in SUBSET T : R # T => R \in Good
      PROVE  T \in Good
  <2>1. IsFiniteSet(T)
    BY FS_Subset
  <2>2. SumFunctionOnSet(F, T) =
           IF T = {} THEN 0 ELSE F[Chosen(T)] + SumFunctionOnSet(F, T \ {Chosen(T)})
    BY <2>1, SumUnfolds
  <2>3. CASE T = {}
    BY <2>2, <2>3, FS_EmptySet
  <2>4. CASE T # {}
    <3>1. Chosen(T) \in T /\ T \ {Chosen(T)} \in SUBSET T /\ T \ {Chosen(T)} # T
      BY <2>4, AnyIn
    <3>2. SumFunctionOnSet(F, T \ {Chosen(T)}) = Cardinality(T \ {Chosen(T)})
      BY <1>1, <3>1
    <3>3. Cardinality(T \ {Chosen(T)}) = Cardinality(T) - 1 /\ Cardinality(T) \in Nat
      BY <2>1, <3>1, FS_RemoveElement, FS_CardinalityType
    <3>4. F[Chosen(T)] = 1
      BY <3>1
    <3> QED
      BY <2>2, <2>4, <3>2, <3>3, <3>4
  <2> QED
    BY <2>3, <2>4
<1>2. \A T \in SUBSET S : T \in Good
  <2> HIDE DEF Good
  <2> QED
    BY <1>1, SubsetInduction
<1> QED
  BY <1>2

LEMMA DisjointCardinality ==
    ASSUME NEW A, NEW B, IsFiniteSet(A), IsFiniteSet(B), A \cap B = {}
    PROVE  Cardinality(A \cup B) = Cardinality(A) + Cardinality(B)
<1>1. Cardinality(A \cup B) = Cardinality(A) + Cardinality(B) - Cardinality(A \cap B)
  BY FS_Union
<1>2. Cardinality(A \cap B) = 0
  BY FS_EmptySet
<1>3. Cardinality(A) \in Nat /\ Cardinality(B) \in Nat
  BY FS_CardinalityType
<1> QED
  BY <1>1, <1>2, <1>3
=============================================================================
