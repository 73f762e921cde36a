-------------------------- MODULE LossTests_proofs --------------------------
(***************************************************************************)
(* What the decoders of the loss tests find, for every trace and all hash  *)
(* functions, and that all four sketches implement Peeling.                *)
(*                                                                         *)
(* The invariant of the radars says what their cells hold of the items     *)
(* that are left; that of the Fermat sketch only what its result may name, *)
(* since the history variable misled compares the rest.                    *)
(***************************************************************************)
EXTENDS LossTests, SumLemmas

(* What the XOR arrays hold: cells holds the items of L, which hash to the *)
(* cells P says, with n packets each.                                      *)
At(P, L, p) == {i \in L : p \in P[i]}

Holding(cells, P, L, n) ==
    \A p \in Cell :
        /\ cells[p].xor = At(P, L, p)
        /\ cells[p].count = Cardinality(At(P, L, p))
        /\ cells[p].packets = SumFunctionOnSet(n, At(P, L, p))

LEMMA AtFinite ==
    ASSUME NEW P, NEW L, IsFiniteSet(L), NEW p
    PROVE  IsFiniteSet(At(P, L, p)) /\ Cardinality(At(P, L, p)) \in Nat
<1>1. At(P, L, p) \in SUBSET L
  BY DEF At
<1>2. IsFiniteSet(At(P, L, p))
  BY <1>1, FS_Subset
<1> QED
  BY <1>2, FS_CardinalityType

LEMMA HoldingNothing ==
    ASSUME NEW P, NEW n
    PROVE  Holding(EmptyArray, P, {}, n)
<1>1. ASSUME NEW p \in Cell
      PROVE  /\ EmptyArray[p].xor = At(P, {}, p)
             /\ EmptyArray[p].count = Cardinality(At(P, {}, p))
             /\ EmptyArray[p].packets = SumFunctionOnSet(n, At(P, {}, p))
  <2>1. At(P, {}, p) = {}
    BY DEF At
  <2>2. EmptyArray[p] = [xor |-> {}, count |-> 0, packets |-> 0]
    BY DEF EmptyArray
  <2> QED
    BY <2>1, <2>2, FS_EmptySet, SumEmpty
<1> QED
  BY <1>1 DEF Holding

(* An item that is put in is held then.                                    *)
LEMMA HoldingMore ==
    ASSUME NEW a, NEW P, NEW L, IsFiniteSet(L), NEW n, NEW e, e \notin L,
           \A i \in L \cup {e} : n[i] \in Int,
           Holding(a, P, L, n),
           NEW b, b = Toggle(a, P[e], e, 1, n[e]), NEW M, M = L \cup {e}
    PROVE  Holding(b, P, M, n)
<1>1. ASSUME NEW p \in Cell
      PROVE  /\ b[p].xor = At(P, M, p)
             /\ b[p].count = Cardinality(At(P, M, p))
             /\ b[p].packets = SumFunctionOnSet(n, At(P, M, p))
  <2>1. /\ a[p].xor = At(P, L, p) /\ a[p].count = Cardinality(At(P, L, p))
        /\ a[p].packets = SumFunctionOnSet(n, At(P, L, p))
    BY DEF Holding
  <2>2. CASE p \notin P[e]
    <3>1. b[p] = a[p]
      BY <2>2 DEF Toggle
    <3>2. At(P, M, p) = At(P, L, p)
      BY <2>2 DEF At
    <3> QED
      BY <2>1, <3>1, <3>2
  <2>3. CASE p \in P[e]
    <3>1. b[p] = [xor |-> SymDiff(a[p].xor, {e}), count |-> a[p].count + 1,
                  packets |-> a[p].packets + 1 * n[e]]
      BY <2>3 DEF Toggle
    <3>2. At(P, M, p) = At(P, L, p) \cup {e} /\ e \notin At(P, L, p)
      BY <2>3 DEF At
    <3>3. SymDiff(At(P, L, p), {e}) = At(P, M, p)
      BY <3>2 DEF SymDiff
    <3>4. IsFiniteSet(At(P, L, p))
      BY AtFinite
    <3>5. Cardinality(At(P, M, p)) = Cardinality(At(P, L, p)) + 1
      BY <3>2, <3>4, FS_AddElement
    <3>6. \A i \in At(P, L, p) \cup {e} : n[i] \in Int
      BY DEF At
    <3>7. SumFunctionOnSet(n, At(P, M, p)) = n[e] + SumFunctionOnSet(n, At(P, L, p))
      BY <3>2, <3>4, <3>6, SumAddElement
    <3>8. SumFunctionOnSet(n, At(P, L, p)) \in Int /\ n[e] \in Int
      BY <3>4, <3>6, SumInt
    <3> QED
      BY <2>1, <3>1, <3>3, <3>5, <3>7, <3>8
  <2> QED
    BY <2>2, <2>3
<1> QED
  BY <1>1 DEF Holding

(* One that is taken out is no more.                                       *)
LEMMA HoldingLess ==
    ASSUME NEW a, NEW P, NEW L, IsFiniteSet(L), NEW n, NEW e \in L,
           \A i \in L : n[i] \in Int,
           Holding(a, P, L, n)
    PROVE  Holding(Toggle(a, P[e], e, -1, n[e]), P, L \ {e}, n)
<1> DEFINE b == Toggle(a, P[e], e, -1, n[e])
           M == L \ {e}
<1>1. ASSUME NEW p \in Cell
      PROVE  /\ b[p].xor = At(P, M, p)
             /\ b[p].count = Cardinality(At(P, M, p))
             /\ b[p].packets = SumFunctionOnSet(n, At(P, M, p))
  <2>1. /\ a[p].xor = At(P, L, p) /\ a[p].count = Cardinality(At(P, L, p))
        /\ a[p].packets = SumFunctionOnSet(n, At(P, L, p))
    BY DEF Holding
  <2>2. CASE p \notin P[e]
    <3>1. b[p] = a[p]
      BY <2>2 DEF Toggle
    <3>2. At(P, M, p) = At(P, L, p)
      BY <2>2 DEF At
    <3> QED
      BY <2>1, <3>1, <3>2
  <2>3. CASE p \in P[e]
    <3>1. b[p] = [xor |-> SymDiff(a[p].xor, {e}), count |-> a[p].count + -1,
                  packets |-> a[p].packets + -1 * n[e]]
      BY <2>3 DEF Toggle
    <3>2. At(P, M, p) = At(P, L, p) \ {e} /\ e \in At(P, L, p)
      BY <2>3 DEF At
    <3>3. SymDiff(At(P, L, p), {e}) = At(P, M, p)
      BY <3>2 DEF SymDiff
    <3>4. IsFiniteSet(At(P, L, p)) /\ Cardinality(At(P, L, p)) \in Nat
      BY AtFinite
    <3>5. Cardinality(At(P, M, p)) = Cardinality(At(P, L, p)) - 1
      BY <3>2, <3>4, FS_RemoveElement
    <3>6. \A i \in At(P, L, p) : n[i] \in Int
      BY DEF At
    <3>7. SumFunctionOnSet(n, At(P, L, p)) = n[e] + SumFunctionOnSet(n, At(P, M, p))
      <4>1. \A i \in At(P, L, p) :
               SumFunctionOnSet(n, At(P, L, p)) = n[i] + SumFunctionOnSet(n, At(P, L, p) \ {i})
        BY <3>4, <3>6, SumTakeOut
      <4> QED
        BY <3>2, <4>1
    <3>8. SumFunctionOnSet(n, At(P, M, p)) \in Int /\ n[e] \in Int
      <4>1. IsFiniteSet(M)
        BY FS_RemoveElement
      <4>2. IsFiniteSet(At(P, M, p)) /\ \A i \in At(P, M, p) : n[i] \in Int
        BY <4>1, AtFinite DEF At
      <4> QED
        BY <3>2, <3>6, <4>2, SumInt
    <3>9. PICK s, t : /\ s = SumFunctionOnSet(n, At(P, L, p))
                      /\ t = SumFunctionOnSet(n, At(P, M, p))
      OBVIOUS
    <3>10. b[p].packets = t
      <4>1. s + -1 * n[e] = t
        BY <3>7, <3>8, <3>9
      <4> QED
        BY <2>1, <3>1, <3>9, <4>1
    <3> QED
      BY <2>1, <3>1, <3>3, <3>4, <3>5, <3>9, <3>10
  <2> QED
    BY <2>2, <2>3
<1> QED
  BY <1>1 DEF Holding

(* The packets of a flow, each of which is new.                            *)
LEMMA HoldingRange ==
    ASSUME NEW a, NEW P, NEW L, IsFiniteSet(L), NEW n, NEW h, NEW id, NEW m \in Nat,
           \A e \in {id} \X (0..(m - 1)) :
              e \notin L /\ P[e] = Positions(h, e) /\ n[e] = 1,
           \A i \in L : n[i] \in Int,
           Holding(a, P, L, n),
           NEW b, b = InsertRange(a, h, id, m), NEW M, M = L \cup ({id} \X (0..(m - 1)))
    PROVE  Holding(b, P, M, n)
<1> DEFINE R == {id} \X (0..(m - 1))
           new(p) == {e \in R : p \in Positions(h, e)}
<1>1. IsFiniteSet(R)
  <2>1. IsFiniteSet({id})
    BY FS_Singleton
  <2>2. IsFiniteSet(0..(m - 1))
    BY FS_Interval
  <2> QED
    BY <2>1, <2>2, FS_Product
<1>2. ASSUME NEW p \in Cell
      PROVE  /\ b[p].xor = At(P, M, p)
             /\ b[p].count = Cardinality(At(P, M, p))
             /\ b[p].packets = SumFunctionOnSet(n, At(P, M, p))
  <2>1. /\ a[p].xor = At(P, L, p) /\ a[p].count = Cardinality(At(P, L, p))
        /\ a[p].packets = SumFunctionOnSet(n, At(P, L, p))
    BY DEF Holding
  <2>2. b[p] = [xor |-> SymDiff(a[p].xor, new(p)), count |-> a[p].count + Cardinality(new(p)),
                packets |-> a[p].packets + Cardinality(new(p))]
    BY DEF InsertRange
  <2>3. new(p) \in SUBSET R /\ \A e \in new(p) : n[e] = 1
    OBVIOUS
  <2>4. At(P, M, p) = At(P, L, p) \cup new(p) /\ At(P, L, p) \cap new(p) = {}
    BY DEF At
  <2>5. SymDiff(At(P, L, p), new(p)) = At(P, M, p)
    BY <2>4 DEF SymDiff
  <2>6. IsFiniteSet(At(P, L, p)) /\ Cardinality(At(P, L, p)) \in Nat
    BY AtFinite
  <2>7. IsFiniteSet(new(p)) /\ Cardinality(new(p)) \in Nat
    BY <1>1, <2>3, FS_Subset, FS_CardinalityType
  <2> HIDE DEF new, R
  <2>8. Cardinality(At(P, M, p)) = Cardinality(At(P, L, p)) + Cardinality(new(p))
    BY <2>4, <2>6, <2>7, DisjointCardinality
  <2>9. \A i \in At(P, L, p) \cup new(p) : n[i] \in Int
    BY <2>3 DEF At
  <2>10. SumFunctionOnSet(n, At(P, M, p))
            = SumFunctionOnSet(n, At(P, L, p)) + SumFunctionOnSet(n, new(p))
    BY <2>4, <2>6, <2>7, <2>9, SumUnion
  <2>11. SumFunctionOnSet(n, new(p)) = Cardinality(new(p))
    BY <2>3, <2>7, SumOnes
  <2> QED
    BY <2>1, <2>2, <2>5, <2>8, <2>10, <2>11
<1> QED
  BY <1>2 DEF Holding

(* A cell with a count of 1 holds one item, with its packets.              *)
OnlyOne(a, P, L, n, p, e) ==
    /\ At(P, L, p) = {e} /\ a[p].packets = n[e]
    /\ \A y \in a[p].xor : y = e
    /\ e \in a[p].xor

LEMMA PureHolds ==
    ASSUME NEW a, NEW P, NEW L, IsFiniteSet(L), NEW n, \A i \in L : n[i] \in Int,
           Holding(a, P, L, n), NEW p \in Cell, a[p].count = 1
    PROVE  \E e \in L : OnlyOne(a, P, L, n, p, e)
<1>1. /\ a[p].xor = At(P, L, p) /\ Cardinality(At(P, L, p)) = 1
      /\ a[p].packets = SumFunctionOnSet(n, At(P, L, p))
  BY DEF Holding
<1>2. IsFiniteSet(At(P, L, p))
  BY AtFinite
<1>3. PICK e : At(P, L, p) = {e}
  BY <1>1, <1>2, FS_Singleton
<1>4. e \in L
  BY <1>3 DEF At
<1>5. SumFunctionOnSet(n, {e}) = n[e]
  BY <1>4, FS_Singleton, SumOne
<1> QED
  BY <1>1, <1>3, <1>4, <1>5 DEF OnlyOne

LeftOf(cells, P, I) == {i \in I : \A p \in P[i] : i \in cells[p].xor}

(* Items are there that are in all their cells.                            *)
LEMMA LeftIsHeld ==
    ASSUME NEW a, NEW P, NEW n, NEW I, NEW L \in SUBSET I,
           \A i \in I : P[i] \subseteq Cell /\ P[i] # {},
           Holding(a, P, L, n)
    PROVE  LeftOf(a, P, I) = L
<1>1. \A p \in Cell : a[p].xor = At(P, L, p)
  BY DEF Holding
<1>2. ASSUME NEW i \in I
      PROVE  i \in LeftOf(a, P, I) <=> i \in L
  <2>1. PICK p \in P[i] : p \in Cell
    OBVIOUS
  <2>2. \A q \in P[i] : q \in Cell /\ (i \in a[q].xor <=> i \in L)
    BY <1>1 DEF At
  <2> QED
    BY <2>1, <2>2 DEF LeftOf
<1> QED
  BY <1>2 DEF LeftOf
-----------------------------------------------------------------------------
(* What the hash functions and the data sets of a test are.                *)
RadarPlaces(k) == [i \in AllItems(k) |-> PlacesOf(k, i)]
Packets(k) == [i \in AllItems(k) |-> IF k = 3 THEN 1 ELSE Count(k, i)]

DataOK ==
    /\ hashes.flow \in [0..(C - 1) -> [Flow -> 0..(hash_len - 1)]]
    /\ hashes.packet \in [0..(C - 1) -> [Flow \X (0..(MaxSize - 1)) -> 0..(hash_len - 1)]]
    /\ DOMAIN sent \subseteq Flow /\ \A f \in DOMAIN sent : sent[f] \in 1..MaxSize
    /\ DOMAIN data.dropped_set \subseteq Flow
    /\ \A f \in DOMAIN data.dropped_set : data.dropped_set[f] \in Nat \ {0}
    /\ \A f \in DOMAIN data.dropped_set \cap DOMAIN sent : data.dropped_set[f] <= sent[f]
    /\ Cardinality(DOMAIN sent) >= total_sam => DOMAIN data.dropped_set \subseteq DOMAIN sent

LEMMA RowStep == \A a \in Int, w \in Nat : (a + 1) * w = a * w + w
OBVIOUS

LEMMA RowMono == \A a, b \in Int, w \in Nat : a < b => (a + 1) * w <= b * w
<1> SUFFICES ASSUME NEW a \in Int, NEW b \in Int, NEW w \in Nat, a + 1 <= b
             PROVE  (a + 1) * w <= b * w
  OBVIOUS
<1> QED
  OBVIOUS

LEMMA RowType == \A a, w \in Nat : a * w \in Nat
OBVIOUS

LEMMA PositionsType ==
    ASSUME NEW D, NEW h \in [0..(C - 1) -> [D -> 0..(hash_len - 1)]], NEW i \in D
    PROVE  Positions(h, i) \subseteq Cell /\ Positions(h, i) # {}
<1>1. C \in Nat \ {0} /\ hash_len \in Nat \ {0}
  BY XorAssumption
<1>2. ASSUME NEW j \in 0..(C - 1)
      PROVE  h[j][i] + j * hash_len \in Cell
  <2>1. h[j][i] \in 0..(hash_len - 1)
    OBVIOUS
  <2>2. (j + 1) * hash_len = j * hash_len + hash_len
    BY <1>1, RowStep
  <2>3. (j + 1) * hash_len <= C * hash_len
    BY <1>1, RowMono
  <2>4. PICK u \in Nat, v \in Nat : u = j * hash_len /\ v = C * hash_len
    BY <1>1, RowType
  <2>5. PICK z, w : z = h[j][i] /\ w = hash_len
    OBVIOUS
  <2>6. u + w <= v /\ z \in Nat /\ z < w /\ w \in Nat
    BY <1>1, <2>1, <2>2, <2>3, <2>4, <2>5
  <2>7. z + u \in 0..(v - 1)
    BY <2>6
  <2> QED
    BY <2>4, <2>5, <2>7 DEF Cell
<1>3. 0 \in 0..(C - 1)
  BY <1>1
<1> QED
  BY <1>2, <1>3 DEF Positions

LEMMA ItemFacts ==
    ASSUME DataOK, NEW k \in Radar
    PROVE  /\ IsFiniteSet(AllItems(k)) /\ Items(k) \subseteq AllItems(k)
           /\ \A i \in AllItems(k) :
                 /\ RadarPlaces(k)[i] = PlacesOf(k, i)
                 /\ PlacesOf(k, i) \subseteq Cell /\ PlacesOf(k, i) # {}
           /\ \A f \in DOMAIN sent : /\ dropped[f] \in Nat /\ dropped[f] <= sent[f]
                                     /\ sent[f] \in Nat /\ sent[f] > 0
                                     /\ Count(k, f) \in Nat
           /\ \A i \in Items(k) : Packets(k)[i] \in Int
<1>1. IsFiniteSet(AllItems(k))
  <2>1. IsFiniteSet(Flow) /\ MaxSize \in Nat
    BY FullFlowAssumption
  <2>2. IsFiniteSet(0..(MaxSize - 1))
    BY <2>1, FS_Interval
  <2>3. IsFiniteSet(Flow \X (0..(MaxSize - 1)))
    BY <2>1, <2>2, FS_Product
  <2> QED
    BY <2>1, <2>3 DEF AllItems
<1>2. \A f \in DOMAIN sent : /\ dropped[f] \in Nat /\ dropped[f] <= sent[f]
                             /\ sent[f] \in Nat /\ sent[f] > 0 /\ sent[f] <= MaxSize
                             /\ Count(k, f) \in Nat
  <2> TAKE f \in DOMAIN sent
  <2>1. sent[f] \in Nat /\ sent[f] > 0 /\ sent[f] <= MaxSize /\ MaxSize \in Nat
    BY FullFlowAssumption DEF DataOK
  <2>2. dropped[f] = IF f \in DOMAIN data.dropped_set THEN data.dropped_set[f] ELSE 0
    BY DEF dropped
  <2>3. dropped[f] \in Nat /\ dropped[f] <= sent[f]
    BY <2>1, <2>2 DEF DataOK
  <2>4. Count(k, f) \in Nat
    BY <2>1, <2>3 DEF Count
  <2> QED
    BY <2>1, <2>3, <2>4
<1>3. Items(k) \subseteq AllItems(k)
  <2>1. CASE k = 3
    <3>1. ASSUME NEW f \in DOMAIN sent
          PROVE  {f} \X (0..(dropped[f] - 1)) \subseteq Flow \X (0..(MaxSize - 1))
      <4>1. f \in Flow /\ dropped[f] <= MaxSize /\ dropped[f] \in Nat
        BY <1>2, FullFlowAssumption DEF DataOK
      <4>2. 0..(dropped[f] - 1) \subseteq 0..(MaxSize - 1)
        BY <4>1, FullFlowAssumption
      <4> QED
        BY <4>1, <4>2
    <3> QED
      BY <2>1, <3>1 DEF Items, AllItems
  <2>2. CASE k # 3
    BY <2>2 DEF Items, AllItems, DataOK
  <2> QED
    BY <2>1, <2>2
<1>4. ASSUME NEW i \in AllItems(k)
      PROVE  PlacesOf(k, i) \subseteq Cell /\ PlacesOf(k, i) # {}
  <2>1. CASE k = 3
    <3>1. /\ hashes.packet \in [0..(C - 1) -> [Flow \X (0..(MaxSize - 1)) -> 0..(hash_len - 1)]]
          /\ i \in Flow \X (0..(MaxSize - 1))
      BY <2>1 DEF DataOK, AllItems
    <3>2. Positions(hashes.packet, i) \subseteq Cell /\ Positions(hashes.packet, i) # {}
      BY <3>1, PositionsType
    <3> QED
      BY <2>1, <3>2 DEF PlacesOf
  <2>2. CASE k # 3
    <3>1. /\ hashes.flow \in [0..(C - 1) -> [Flow -> 0..(hash_len - 1)]]
          /\ i \in Flow
      BY <2>2 DEF DataOK, AllItems
    <3>2. Positions(hashes.flow, i) \subseteq Cell /\ Positions(hashes.flow, i) # {}
      BY <3>1, PositionsType
    <3> QED
      BY <2>2, <3>2 DEF PlacesOf
  <2> QED
    BY <2>1, <2>2
<1>5. \A i \in Items(k) : Packets(k)[i] \in Int
  <2>1. \A i \in Items(k) : Packets(k)[i] = IF k = 3 THEN 1 ELSE Count(k, i)
    BY <1>3 DEF Packets
  <2>2. k # 3 => \A i \in Items(k) : i \in DOMAIN sent
    BY DEF Items
  <2> QED
    BY <1>2, <2>1, <2>2
<1>6. \A i \in AllItems(k) : RadarPlaces(k)[i] = PlacesOf(k, i)
  BY DEF RadarPlaces
<1> QED
  BY <1>1, <1>2, <1>3, <1>4, <1>5, <1>6

-----------------------------------------------------------------------------
(* What the four functions of CDF_flows return.                            *)
LEMMA SampledWithin ==
    ASSUME NEW S, NEW T, NEW n
    PROVE  /\ FirstOf(S, n) \subseteq S
           /\ Sampled(S, T, n) \subseteq S \cup T
BY DEF FirstOf, Sampled

LEMMA CeilWithin ==
    ASSUME NEW size \in Nat, NEW num \in 0..100
    PROVE  /\ CeilOf(size, num, 100) \in Nat /\ CeilOf(size, num, 100) <= size
           /\ FloorOf(size, num, 100) \in Nat /\ FloorOf(size, num, 100) <= size
<1>1. PICK m \in Nat : m = size * num
  BY RowType
<1>2. size * num <= size * 100
  OBVIOUS
<1>3. m <= 100 * size
  BY <1>1, <1>2
<1>4. /\ (m + 99) \div 100 \in Nat /\ (m + 99) \div 100 <= size
      /\ m \div 100 \in Nat /\ m \div 100 <= size
  BY <1>3
<1>5. CeilOf(size, num, 100) = (m + 99) \div 100
  <2>1. m + 100 - 1 = m + 99
    OBVIOUS
  <2> QED
    BY <1>1, <2>1 DEF CeilOf
<1>6. FloorOf(size, num, 100) = m \div 100
  BY <1>1 DEF FloorOf
<1> QED
  BY <1>4, <1>5, <1>6

LEMMA DroppedWithin ==
    ASSUME NEW N \in Nat, NEW trace \in [1..N -> 1..MaxSize], NEW S \in SUBSET (1..N),
           NEW num \in 0..100
    PROVE  LET D == Dropped(trace, S, num, 100)
           IN  /\ DOMAIN D \subseteq S
               /\ \A i \in DOMAIN D : D[i] \in Nat \ {0} /\ D[i] <= trace[i]
<1> DEFINE D == Dropped(trace, S, num, 100)
<1>1. DOMAIN D = {i \in S : CeilOf(trace[i], num, 100) # 0}
  BY DEF Dropped
<1>2. ASSUME NEW i \in DOMAIN D
      PROVE  i \in S /\ D[i] \in Nat \ {0} /\ D[i] <= trace[i]
  <2>1. i \in S /\ CeilOf(trace[i], num, 100) # 0
    BY <1>1, <1>2
  <2>2. D[i] = CeilOf(trace[i], num, 100)
    BY <1>1, <1>2 DEF Dropped
  <2>3. trace[i] \in 1..MaxSize /\ MaxSize \in Nat
    BY <2>1, FullFlowAssumption
  <2>4. trace[i] \in Nat
    BY <2>3
  <2>5. CeilOf(trace[i], num, 100) \in Nat /\ CeilOf(trace[i], num, 100) <= trace[i]
    BY <2>4, CeilWithin
  <2> QED
    BY <2>1, <2>2, <2>5
<1> QED
  BY <1>2

(* The traces of the flows considered.                                     *)
LEMMA TraceFacts ==
    ASSUME NEW trace \in LoadCAIDA18_32(Cardinality(Flow), 1..MaxSize)
    PROVE  /\ Cardinality(Flow) \in Nat /\ Flow = 1..Cardinality(Flow)
           /\ trace \in [1..Cardinality(Flow) -> 1..MaxSize]
           /\ DOMAIN trace = 1..Cardinality(Flow) /\ Len(trace) = Cardinality(Flow)
<1>1. IsFiniteSet(Flow) /\ Flow = 1..Cardinality(Flow) /\ Cardinality(Flow) \in Nat
  BY FullFlowAssumption, FS_CardinalityType
<1>2. trace \in [1..Cardinality(Flow) -> 1..MaxSize]
  BY DEF LoadCAIDA18_32
<1>3. Len(trace) = Cardinality(Flow)
  BY <1>1, <1>2
<1> QED
  BY <1>1, <1>2, <1>3

LEMMA ThroughIs ==
    ASSUME NEW trace, Len(trace) \in Nat, NEW n \in Nat
    PROVE  /\ Through(trace, n) \subseteq 1..Len(trace)
           /\ \E m \in Nat : Through(trace, n) = 1..m /\ m <= Len(trace)
<1>1. PICK m \in Nat : m = SmallerOf(Len(trace), IF n < 1 THEN 1 ELSE n)
  BY DEF SmallerOf
<1>2. m <= Len(trace)
  BY <1>1 DEF SmallerOf
<1> QED
  BY <1>1, <1>2 DEF Through

(* The second loop of load_data_flow does not come to a flow that was not  *)
(* sent when enough were sent.                                             *)
LEMMA EnoughSent ==
    ASSUME NEW n \in Nat, NEW w \in Nat, NEW first \in SUBSET (1..n), NEW t \in Nat, n >= t,
           first \subseteq 1..w
    PROVE  FirstOf((1..w) \ first, t - Cardinality(first)) \subseteq 1..n
<1> DEFINE S == (1..w) \ first
<1> SUFFICES ASSUME NEW i \in S, Cardinality({j \in S : j < i}) < t - Cardinality(first), i > n
             PROVE  FALSE
  BY DEF FirstOf
<1>1. IsFiniteSet(1..n) /\ Cardinality(1..n) = n
  BY FS_Interval
<1>2. IsFiniteSet(first) /\ Cardinality(first) \in Nat
  BY <1>1, FS_Subset, FS_CardinalityType
<1>3. Cardinality((1..n) \ first) = n - Cardinality(first)
  <2>1. (1..n) \cap first = first
    OBVIOUS
  <2>2. Cardinality((1..n) \ first) = Cardinality(1..n) - Cardinality((1..n) \cap first)
    BY <1>1, FS_Difference
  <2> QED
    BY <1>1, <2>1, <2>2
<1>4. (1..n) \ first \subseteq {j \in S : j < i}
  OBVIOUS
<1>5. IsFiniteSet({j \in S : j < i})
  <2>1. IsFiniteSet(1..w)
    BY FS_Interval
  <2>2. {j \in S : j < i} \in SUBSET (1..w)
    OBVIOUS
  <2> QED
    BY <2>1, <2>2, FS_Subset
<1>6. /\ Cardinality((1..n) \ first) <= Cardinality({j \in S : j < i})
      /\ Cardinality({j \in S : j < i}) \in Nat
  BY <1>4, <1>5, FS_Subset, FS_CardinalityType
<1> HIDE DEF S
<1> QED
  BY <1>2, <1>3, <1>6

SetOK(d) ==
    /\ DOMAIN d.flow_set \subseteq Flow /\ \A f \in DOMAIN d.flow_set : d.flow_set[f] \in 1..MaxSize
    /\ DOMAIN d.dropped_set \subseteq Flow
    /\ \A f \in DOMAIN d.dropped_set : d.dropped_set[f] \in Nat \ {0}
    /\ \A f \in DOMAIN d.dropped_set \cap DOMAIN d.flow_set : d.dropped_set[f] <= d.flow_set[f]
    /\ Cardinality(DOMAIN d.flow_set) >= total_sam =>
          DOMAIN d.dropped_set \subseteq DOMAIN d.flow_set

(* A part of the trace is sent, packets are dropped of flows of the trace, *)
(* of flows sent when enough were.                                         *)
LEMMA SetOKBy ==
    ASSUME NEW trace \in LoadCAIDA18_32(Cardinality(Flow), 1..MaxSize),
           NEW S \in SUBSET Flow, NEW D, DOMAIN D \subseteq Flow,
           \A f \in DOMAIN D : D[f] \in Nat \ {0} /\ D[f] <= trace[f],
           Cardinality(S) >= total_sam => DOMAIN D \subseteq S
    PROVE  SetOK([flow_set |-> Flows(trace, S), dropped_set |-> D])
<1>1. /\ Cardinality(Flow) \in Nat /\ Flow = 1..Cardinality(Flow)
      /\ trace \in [Flow -> 1..MaxSize]
  BY TraceFacts
<1>2. Flows(trace, S) = [i \in S |-> trace[i]]
  BY DEF Flows
<1>3. DOMAIN Flows(trace, S) = S /\ \A f \in S : Flows(trace, S)[f] = trace[f]
  BY <1>2
<1> QED
  BY <1>1, <1>3 DEF SetOK

LEMMA FlowSetOK ==
    ASSUME NEW trace \in LoadCAIDA18_32(Cardinality(Flow), 1..MaxSize), NEW fc \in Flow
    PROVE  SetOK(LoadDataFlow(trace, fc))
<1> DEFINE N == Cardinality(Flow)
           S == Through(trace, fc)
           first == FirstOf(BigOnes(trace, S) \cap 1..Window, total_sam)
           T == Sampled(BigOnes(trace, S) \cap 1..Window, Through(trace, Window), total_sam)
           D == Dropped(trace, T, 1, 100)
<1>1. /\ N \in Nat /\ Flow = 1..N /\ trace \in [1..N -> 1..MaxSize] /\ Len(trace) = N
  BY TraceFacts
<1>2. Window \in Nat /\ total_sam \in Nat /\ fc \in Nat
  BY <1>1, GenerateAssumption
<1>3. PICK n \in Nat : S = 1..n /\ n <= N
  BY <1>1, <1>2, ThroughIs
<1>4. PICK w \in Nat : Through(trace, Window) = 1..w /\ w <= N /\ (w = N \/ w >= Window)
  <2>1. Through(trace, Window) = 1..SmallerOf(Len(trace), IF Window < 1 THEN 1 ELSE Window)
    BY DEF Through
  <2>2. PICK w : w = SmallerOf(Len(trace), IF Window < 1 THEN 1 ELSE Window)
    OBVIOUS
  <2>3. w \in Nat /\ w <= N /\ (w = N \/ w >= Window)
    BY <1>1, <1>2, <2>2 DEF SmallerOf
  <2> QED
    BY <2>1, <2>2, <2>3
<1>5. first \subseteq S /\ first \subseteq 1..w /\ BigOnes(trace, S) \subseteq S
  <2>1. first \subseteq BigOnes(trace, S) \cap 1..Window
    BY SampledWithin
  <2>2. BigOnes(trace, S) \subseteq S
    BY DEF BigOnes
  <2>3. S \cap 1..Window \subseteq 1..w
    BY <1>1, <1>2, <1>3, <1>4
  <2> QED
    BY <2>1, <2>2, <2>3
<1>6. T = first \cup FirstOf((1..w) \ first, total_sam - Cardinality(first))
  BY <1>4 DEF Sampled
<1>7. T \in SUBSET Flow
  <2>1. FirstOf((1..w) \ first, total_sam - Cardinality(first)) \subseteq (1..w) \ first
    BY DEF FirstOf
  <2>2. S \in SUBSET (1..N) /\ 1..w \in SUBSET (1..N)
    BY <1>1, <1>3, <1>4
  <2> HIDE DEF first, S, T, N
  <2> QED
    BY <1>1, <1>5, <1>6, <2>1, <2>2
<1>8. Cardinality(S) >= total_sam => T \subseteq S
  <2>1. Cardinality(S) = n
    BY <1>3, FS_Interval
  <2>2. n >= total_sam =>
           FirstOf((1..w) \ first, total_sam - Cardinality(first)) \subseteq 1..n
    <3> HIDE DEF first
    <3> QED
      BY <1>2, <1>3, <1>4, <1>5, EnoughSent
  <2> QED
    BY <1>3, <1>5, <1>6, <2>1, <2>2
<1>9. DOMAIN D \subseteq T /\ \A f \in DOMAIN D : D[f] \in Nat \ {0} /\ D[f] <= trace[f]
  <2> HIDE DEF T
  <2> QED
    BY <1>1, <1>7, DroppedWithin
<1>10. S \in SUBSET Flow
  BY <1>1, <1>3
<1>11. LoadDataFlow(trace, fc) = [flow_set |-> Flows(trace, S), dropped_set |-> D]
  BY DEF LoadDataFlow
<1>12. DOMAIN D \subseteq Flow /\ (Cardinality(S) >= total_sam => DOMAIN D \subseteq S)
  BY <1>7, <1>8, <1>9
<1> HIDE DEF S, T, N, D
<1> QED
  BY <1>9, <1>10, <1>11, <1>12, SetOKBy

LEMMA PercSetOK ==
    ASSUME NEW trace \in LoadCAIDA18_32(Cardinality(Flow), 1..MaxSize), NEW perc \in 0..100
    PROVE  SetOK(LoadDataPerc(trace, perc))
<1> DEFINE N == Cardinality(Flow)
           S == Through(trace, total)
           T == Sampled(BigOnes(trace, S), S, total_sam)
           D == Dropped(trace, T, perc, 100)
<1>1. /\ N \in Nat /\ Flow = 1..N /\ trace \in [1..N -> 1..MaxSize] /\ Len(trace) = N
  BY TraceFacts
<1>2. S \in SUBSET Flow
  BY <1>1, ThroughIs, GenerateAssumption
<1>3. T \subseteq S
  BY SampledWithin DEF BigOnes
<1>4. T \in SUBSET Flow
  BY <1>2, <1>3
<1>5. DOMAIN D \subseteq T /\ \A f \in DOMAIN D : D[f] \in Nat \ {0} /\ D[f] <= trace[f]
  <2> HIDE DEF T
  <2> QED
    BY <1>1, <1>4, DroppedWithin
<1>6. LoadDataPerc(trace, perc) = [flow_set |-> Flows(trace, S), dropped_set |-> D]
  BY DEF LoadDataPerc
<1>7. DOMAIN D \subseteq Flow /\ DOMAIN D \subseteq S
  BY <1>3, <1>4, <1>5
<1> HIDE DEF S, T, N, D
<1> QED
  BY <1>2, <1>5, <1>6, <1>7, SetOKBy

LEMMA DropSetOK ==
    ASSUME NEW trace \in LoadCAIDA18_32(Cardinality(Flow), 1..MaxSize), NEW drop \in Flow,
           NEW s \in 0..3
    PROVE  SetOK(LoadDataDrop(trace, drop, s))
<1> DEFINE N == Cardinality(Flow)
           S == Through(trace, total)
           percent == <<1, 10, 50, 75>>[s + 1]
           first == FirstOf(BigOnes(trace, S), drop)
           T == Sampled(first, S, drop)
           loss == Dropped(trace, T, percent, 100)
           D == [i \in DOMAIN loss |-> IF s = 3 /\ i \in first
                                       THEN FloorOf(trace[i], percent, 100) ELSE loss[i]]
<1>1. /\ N \in Nat /\ Flow = 1..N /\ trace \in [1..N -> 1..MaxSize] /\ Len(trace) = N
  BY TraceFacts
<1>2. S \in SUBSET Flow
  BY <1>1, ThroughIs, GenerateAssumption
<1>3. first \subseteq BigOnes(trace, S) /\ T \subseteq S
  <2>1. first \subseteq BigOnes(trace, S)
    BY DEF FirstOf
  <2>2. BigOnes(trace, S) \subseteq S
    BY DEF BigOnes
  <2> HIDE DEF first, S
  <2>3. T \subseteq first \cup S
    BY SampledWithin
  <2> QED
    BY <2>1, <2>2, <2>3
<1>4. T \in SUBSET Flow
  BY <1>2, <1>3
<1>5. percent \in 0..100 /\ (s = 3 => percent = 75)
  OBVIOUS
<1>6. /\ DOMAIN loss \subseteq T
      /\ \A f \in DOMAIN loss : loss[f] \in Nat \ {0} /\ loss[f] <= trace[f]
  <2> HIDE DEF T, percent, first, S, D
  <2>1. percent \in 0..100
    BY <1>5
  <2> QED
    BY <1>1, <1>4, <2>1, DroppedWithin
<1>7. ASSUME NEW f \in DOMAIN D
      PROVE  D[f] \in Nat \ {0} /\ D[f] <= trace[f]
  <2>1. f \in DOMAIN loss
    BY <1>7
  <2>2. CASE s = 3 /\ f \in first
    <3>1. D[f] = (trace[f] * 75) \div 100
      BY <1>5, <2>1, <2>2 DEF FloorOf
    <3>2. trace[f] >= Big /\ Big >= 2 /\ Big \in Nat
      BY <1>3, <2>2, GenerateAssumption DEF BigOnes
    <3>3. trace[f] \in Nat
      BY <1>1, <1>4, <1>6, <2>1, FullFlowAssumption
    <3>4. PICK z \in Nat : z = trace[f] /\ z >= 2
      BY <3>2, <3>3
    <3>5. (z * 75) \div 100 \in Nat \ {0} /\ (z * 75) \div 100 <= z
      BY <3>4
    <3> QED
      BY <3>1, <3>4, <3>5
  <2>3. CASE ~(s = 3 /\ f \in first)
    <3>1. D[f] = loss[f]
      BY <2>1, <2>3
    <3> QED
      BY <1>6, <2>1, <3>1
  <2> QED
    BY <2>2, <2>3
<1>8. DOMAIN D = DOMAIN loss
  OBVIOUS
<1>9. LoadDataDrop(trace, drop, s) = [flow_set |-> Flows(trace, S), dropped_set |-> D]
  BY DEF LoadDataDrop
<1>10. DOMAIN D \subseteq Flow /\ DOMAIN D \subseteq S
  BY <1>3, <1>4, <1>6, <1>8
<1> HIDE DEF S, T, N, D, percent, first
<1> QED
  BY <1>2, <1>7, <1>9, <1>10, SetOKBy

LEMMA DataShape == Init => DataOK
<1> SUFFICES ASSUME Init PROVE DataOK
  OBVIOUS
<1>1. PICK trace \in LoadCAIDA18_32(Cardinality(Flow), 1..MaxSize) : data \in DataSets(trace)
  BY DEF Init
<1>2. SetOK(data)
  <2>1. CASE \E fc \in Flow : data = LoadDataFlow(trace, fc)
    BY <2>1, FlowSetOK
  <2>2. CASE \E perc \in {0, 50, 100} : data = LoadDataPerc(trace, perc)
    <3>1. PICK perc \in {0, 50, 100} : data = LoadDataPerc(trace, perc)
      BY <2>2
    <3>2. perc \in 0..100
      OBVIOUS
    <3> QED
      BY <3>1, <3>2, PercSetOK
  <2>3. CASE \E drop \in Flow, s \in 0..3 : data = LoadDataDrop(trace, drop, s)
    BY <2>3, DropSetOK
  <2> QED
    BY <1>1, <2>1, <2>2, <2>3 DEF DataSets
<1>3. hashes \in [flow : FlowHashes, packet : PacketHashes, filter : FilterHashes]
  BY DEF Init
<1>4. /\ hashes.flow \in [0..(C - 1) -> [Flow -> 0..(hash_len - 1)]]
      /\ hashes.packet \in [0..(C - 1) -> [Flow \X (0..(MaxSize - 1)) -> 0..(hash_len - 1)]]
  BY <1>3, FullFlowAssumption
<1> QED
  BY <1>2, <1>4 DEF DataOK, SetOK, sent

-----------------------------------------------------------------------------
(* Cells put in order are the same cells: there is an increasing sequence  *)
(* of any set of them.                                                     *)
Increasing(s, T) ==
    /\ s \in [1..Cardinality(T) -> T] /\ Range(s) = T
    /\ \A i, j \in DOMAIN s : i < j => s[i] < s[j]

LEMMA OneBefore ==
    ASSUME NEW T \in SUBSET Nat, IsFiniteSet(T), NEW m \in T, \A e \in T : m <= e,
           NEW s, Increasing(s, T \ {m})
    PROVE  \E t : Increasing(t, T)
<1> DEFINE n == Cardinality(T \ {m})
           t == [i \in 1..(n + 1) |-> IF i = 1 THEN m ELSE s[i - 1]]
<1>1. n \in Nat /\ Cardinality(T) = n + 1
  <2>1. IsFiniteSet(T \ {m}) /\ Cardinality(T \ {m}) = Cardinality(T) - 1
    BY FS_RemoveElement
  <2>2. Cardinality(T) \in Nat /\ Cardinality(T \ {m}) \in Nat
    BY <2>1, FS_CardinalityType
  <2> QED
    BY <2>1, <2>2
<1>2. /\ s \in [1..n -> T \ {m}]
      /\ \A i, j \in 1..n : i < j => s[i] < s[j]
      /\ \A e \in T \ {m} : \E i \in 1..n : s[i] = e
  <2>1. DOMAIN s = 1..n
    BY DEF Increasing
  <2> QED
    BY <2>1 DEF Increasing, Range
<1> HIDE DEF n
<1>3. ASSUME NEW i \in 1..(n + 1)
      PROVE  t[i] \in T /\ (i = 1 => t[i] = m) /\ (i # 1 => i - 1 \in 1..n /\ t[i] = s[i - 1])
  <2>1. i # 1 => i - 1 \in 1..n
    BY <1>1
  <2> QED
    BY <1>2, <2>1
<1>4. t \in [1..(n + 1) -> T] /\ DOMAIN t = 1..(n + 1)
  BY <1>3
<1>5. ASSUME NEW i \in 1..(n + 1), NEW j \in 1..(n + 1), i < j
      PROVE  t[i] < t[j]
  <2>1. j # 1
    BY <1>1, <1>5
  <2>2. j - 1 \in 1..n /\ t[j] = s[j - 1]
    BY <1>3, <2>1
  <2>3. CASE i = 1
    <3>1. s[j - 1] \in T \ {m}
      BY <1>2, <2>2
    <3>2. m <= s[j - 1] /\ m # s[j - 1] /\ m \in Nat /\ s[j - 1] \in Nat
      BY <3>1
    <3> QED
      BY <1>3, <2>2, <2>3, <3>2
  <2>4. CASE i # 1
    <3>1. i - 1 \in 1..n /\ t[i] = s[i - 1] /\ i - 1 < j - 1
      BY <1>1, <1>3, <1>5, <2>4
    <3> QED
      BY <1>2, <2>2, <3>1
  <2> QED
    BY <2>3, <2>4
<1>6. ASSUME NEW e \in T PROVE \E i \in 1..(n + 1) : t[i] = e
  <2>1. CASE e = m
    <3>1. 1 \in 1..(n + 1)
      BY <1>1
    <3> QED
      BY <1>3, <2>1, <3>1
  <2>2. CASE e # m
    <3>1. PICK i \in 1..n : s[i] = e
      BY <1>2, <2>2
    <3>2. i + 1 \in 1..(n + 1) /\ i + 1 # 1 /\ (i + 1) - 1 = i
      BY <1>1
    <3>3. t[i + 1] = s[i]
      BY <1>3, <3>2
    <3> QED
      BY <3>1, <3>2, <3>3
  <2> QED
    BY <2>1, <2>2
<1> HIDE DEF t
<1>7. Range(t) = T
  BY <1>3, <1>4, <1>6 DEF Range
<1> QED
  BY <1>1, <1>4, <1>5, <1>7 DEF Increasing

LEMMA InOrderIs ==
    ASSUME NEW S \in SUBSET Cell
    PROVE  InOrder(S) \in Seq(Cell) /\ Range(InOrder(S)) = S
<1> DEFINE Good == {T \in SUBSET S : \E s : Increasing(s, T)}
<1>1. IsFiniteSet(S) /\ S \subseteq Nat
  <2>1. C * hash_len \in Nat
    BY XorAssumption, RowType
  <2>2. IsFiniteSet(Cell)
    BY <2>1, FS_Interval DEF Cell
  <2>3. Cell \subseteq Nat
    BY <2>1 DEF Cell
  <2> QED
    BY <2>2, <2>3, FS_Subset
<1>2. ASSUME NEW T \in SUBSET S, \A R \in SUBSET T : R # T => R \in Good
      PROVE  T \in Good
  <2>1. CASE T = {}
    <3> DEFINE s == [i \in 1..0 |-> 0]
    <3>1. Cardinality(T) = 0
      BY <2>1, FS_EmptySet
    <3>2. DOMAIN s = {} /\ s \in [1..Cardinality(T) -> T]
      BY <3>1
    <3>3. Range(s) = T
      BY <2>1, <3>2 DEF Range
    <3>4. Increasing(s, T)
      BY <3>2, <3>3 DEF Increasing
    <3> QED
      BY <3>4
  <2>2. CASE T # {}
    <3>1. T \in SUBSET Nat /\ IsFiniteSet(T)
      BY <1>1, FS_Subset
    <3>2. PICK m \in T : \A e \in T : m <= e
      BY <2>2, <3>1, LeastNat
    <3>3. T \ {m} \in Good
      BY <1>2
    <3>4. \E t : Increasing(t, T)
      BY <3>1, <3>2, <3>3, OneBefore
    <3> QED
      BY <3>4
  <2> QED
    BY <2>1, <2>2
<1>3. S \in Good
  <2> HIDE DEF Good
  <2>1. \A T \in SUBSET S : T \in Good
    BY <1>1, <1>2, SubsetInduction
  <2> QED
    BY <2>1
<1>4. \E s \in [1..Cardinality(S) -> S] :
         Range(s) = S /\ \A i, j \in DOMAIN s : i < j => s[i] < s[j]
  BY <1>3 DEF Increasing
<1>5. InOrder(S) \in [1..Cardinality(S) -> S] /\ Range(InOrder(S)) = S
  BY <1>4 DEF InOrder
<1>6. Cardinality(S) \in Nat
  BY <1>1, FS_CardinalityType
<1> QED
  BY <1>5, <1>6

-----------------------------------------------------------------------------
(* Items that are alone in a cell are not in the core.                     *)
AloneIn(P, e, S) == \E b \in P[e] : \A j \in S \ {e} : b \notin P[j]
StuckIn(P, S) == \A i \in S : ~AloneIn(P, i, S)
CoreOf(P, S) == UNION {T \in SUBSET S : StuckIn(P, T)}

LEMMA AloneInPart ==
    ASSUME NEW P, NEW S, NEW T \in SUBSET S, NEW e, AloneIn(P, e, S)
    PROVE  AloneIn(P, e, T)
BY DEF AloneIn

LEMMA CoreStays ==
    ASSUME NEW P, NEW I, NEW L, CoreOf(P, I) \subseteq L, NEW e \in L, AloneIn(P, e, L)
    PROVE  CoreOf(P, I) \subseteq L \ {e}
<1> SUFFICES ASSUME NEW T \in SUBSET I, StuckIn(P, T), e \in T
             PROVE  FALSE
  BY DEF CoreOf
<1>1. T \in SUBSET L
  BY DEF CoreOf
<1>2. AloneIn(P, e, T)
  BY <1>1, AloneInPart
<1> QED
  BY <1>2 DEF StuckIn

LEMMA StuckIsCore ==
    ASSUME NEW P, NEW I, NEW L \in SUBSET I, CoreOf(P, I) \subseteq L, StuckIn(P, L)
    PROVE  L = CoreOf(P, I)
BY DEF CoreOf

(* What was put in less has a smaller core.                                *)
LEMMA CoreOfPart ==
    ASSUME NEW P, NEW I, NEW J \in SUBSET I
    PROVE  CoreOf(P, J) \subseteq CoreOf(P, I)
BY DEF CoreOf

(* Who holds a cell alone is alone.                                        *)
LEMMA AloneAt ==
    ASSUME NEW P, NEW L, NEW p, NEW e \in L, At(P, L, p) = {e}
    PROVE  AloneIn(P, e, L) /\ p \in P[e]
BY DEF At, AloneIn

LEMMA CoreIs ==
    ASSUME NEW k, \A T \in SUBSET Items(k) : T \subseteq AllItems(k)
    PROVE  Core(k) = CoreOf(RadarPlaces(k), Items(k))
BY DEF Core, Abstract!Core, Abstract!Stuck, Abstract!Alone, CoreOf, StuckIn, AloneIn, RadarPlaces
-----------------------------------------------------------------------------
(* What the decoder returns for the items of F, with n packets each.       *)
CountsOf(F) == [f \in {i[1] : i \in F} |-> Cardinality({i \in F : i[1] = f})]
ResultIs(k, F, n) == IF k = 3 THEN CountsOf(F) ELSE [f \in F |-> n[f]]

LEMMA AssignedMore ==
    ASSUME NEW k, k # 3, NEW F, NEW n, NEW e, NEW v, v = n[e], NEW G, G = F \cup {e}
    PROVE  Assign(ResultIs(k, F, n), e, v) = ResultIs(k, G, n)
BY DEF Assign, ResultIs

(* One more packet of a flow is one more in its count.                     *)
LEMMA CountedMore ==
    ASSUME NEW F, IsFiniteSet(F), NEW e, e \notin F
    PROVE  CountUp(CountsOf(F), e[1]) = CountsOf(F \cup {e})
<1> DEFINE a == CountsOf(F)
           b == CountUp(a, e[1])
           Of1(g) == {i \in F : i[1] = g}
           Of2(g) == {i \in F \cup {e} : i[1] = g}
<1>1. DOMAIN a = {i[1] : i \in F} /\ \A g \in DOMAIN a : a[g] = Cardinality(Of1(g))
  BY DEF CountsOf
<1>2. \A g : IsFiniteSet(Of1(g)) /\ Cardinality(Of1(g)) \in Nat
  <2> TAKE g
  <2>1. Of1(g) \in SUBSET F
    OBVIOUS
  <2>2. IsFiniteSet(Of1(g))
    BY <2>1, FS_Subset
  <2> QED
    BY <2>2, FS_CardinalityType
<1>3. \A g : g # e[1] => Of2(g) = Of1(g)
  OBVIOUS
<1>4. Cardinality(Of2(e[1])) = Cardinality(Of1(e[1])) + 1
  <2>1. Of2(e[1]) = Of1(e[1]) \cup {e} /\ e \notin Of1(e[1])
    OBVIOUS
  <2> HIDE DEF Of1, Of2
  <2> QED
    BY <1>2, <2>1, FS_AddElement
<1>5. b = [g \in {e[1]} \cup DOMAIN a |->
              IF g = e[1] THEN IF e[1] \in DOMAIN a THEN a[e[1]] + 1 ELSE 1 ELSE a[g]]
  BY DEF CountUp, Assign
<1>6. e[1] \notin DOMAIN a => Cardinality(Of1(e[1])) = 0
  <2> SUFFICES ASSUME e[1] \notin DOMAIN a
               PROVE  Cardinality(Of1(e[1])) = 0
    OBVIOUS
  <2>1. Of1(e[1]) = {}
    BY <1>1
  <2> QED
    BY <2>1, FS_EmptySet
<1>7. {e[1]} \cup DOMAIN a = {i[1] : i \in F \cup {e}}
  BY <1>1
<1> HIDE DEF a, Of1, Of2, b
<1>8. DOMAIN b = {i[1] : i \in F \cup {e}} /\ b = [g \in DOMAIN b |-> b[g]]
  BY <1>5, <1>7
<1>9. \A g \in DOMAIN b : b[g] = Cardinality(Of2(g))
  <2> TAKE g \in DOMAIN b
  <2>1. CASE g = e[1]
    BY <1>1, <1>4, <1>5, <1>6, <1>7, <1>8, <2>1
  <2>2. CASE g # e[1]
    <3>1. b[g] = a[g] /\ g \in DOMAIN a
      BY <1>5, <1>7, <1>8, <2>2
    <3> QED
      BY <1>1, <1>3, <2>2, <3>1
  <2> QED
    BY <2>1, <2>2
<1>10. b = [g \in {i[1] : i \in F \cup {e}} |-> Cardinality(Of2(g))]
  BY <1>8, <1>9
<1> QED
  BY <1>10 DEF a, b, CountsOf, Of2

-----------------------------------------------------------------------------
(* A decoder of radar k whose cells hold the items of L has returned the   *)
(* others, and nothing of the core; a cell it will not come to any more,   *)
(* neither in S nor queued, does not hold a single item.                   *)
Decoding(k, d, P, I, n, L, S) ==
    /\ L \subseteq I
    /\ Holding(d.cells, P, L, n)
    /\ d.result = ResultIs(k, I \ L, n)
    /\ CoreOf(P, I) \subseteq L
    /\ \A p \in Cell : d.cells[p].count = 1 => p \in S \cup Range(d.candidate)

LEMMA QueueMore ==
    ASSUME NEW q \in Seq(Cell), NEW s \in Seq(Cell)
    PROVE  q \o s \in Seq(Cell) /\ Range(q \o s) = Range(q) \cup Range(s)
<1>1. /\ q \o s \in Seq(Cell) /\ Len(q \o s) = Len(q) + Len(s)
      /\ \A i \in 1..Len(q) : (q \o s)[i] = q[i]
      /\ \A i \in 1..Len(s) : (q \o s)[Len(q) + i] = s[i]
  OBVIOUS
<1>2. ASSUME NEW i \in 1..(Len(q) + Len(s))
      PROVE  (q \o s)[i] \in Range(q) \cup Range(s)
  <2>1. CASE i <= Len(q)
    BY <1>1, <2>1 DEF Range
  <2>2. CASE i > Len(q)
    <3>1. i - Len(q) \in 1..Len(s) /\ Len(q) + (i - Len(q)) = i
      BY <2>2
    <3>2. (q \o s)[i] = s[i - Len(q)]
      BY <1>1, <3>1
    <3> QED
      BY <3>1, <3>2 DEF Range
  <2> QED
    BY <2>1, <2>2
<1>3. \A i \in 1..Len(q) : i \in 1..Len(q \o s)
  BY <1>1
<1>4. \A i \in 1..Len(s) : Len(q) + i \in 1..Len(q \o s)
  BY <1>1
<1>5. Range(q \o s) \subseteq Range(q) \cup Range(s)
  <2>1. DOMAIN (q \o s) = 1..(Len(q) + Len(s))
    BY <1>1
  <2> QED
    BY <1>2, <2>1 DEF Range
<1>6. ASSUME NEW i \in 1..Len(q) PROVE q[i] \in Range(q \o s)
  <2>1. i \in DOMAIN (q \o s) /\ (q \o s)[i] = q[i]
    BY <1>1, <1>3
  <2> QED
    BY <2>1 DEF Range
<1>7. ASSUME NEW i \in 1..Len(s) PROVE s[i] \in Range(q \o s)
  <2>1. Len(q) + i \in DOMAIN (q \o s) /\ (q \o s)[Len(q) + i] = s[i]
    BY <1>1, <1>4
  <2> QED
    BY <2>1 DEF Range
<1>8. DOMAIN q = 1..Len(q) /\ DOMAIN s = 1..Len(s)
  OBVIOUS
<1> QED
  BY <1>1, <1>5, <1>6, <1>7, <1>8 DEF Range

LEMMA QueueLess ==
    ASSUME NEW q \in Seq(Cell), q # <<>>
    PROVE  /\ Head(q) \in Cell /\ Tail(q) \in Seq(Cell)
           /\ Range(q) = {Head(q)} \cup Range(Tail(q))
<1>1. /\ Head(q) = q[1] /\ 1 \in 1..Len(q) /\ Len(Tail(q)) = Len(q) - 1
      /\ \A i \in 1..Len(Tail(q)) : Tail(q)[i] = q[i + 1]
      /\ Tail(q) \in Seq(Cell)
  OBVIOUS
<1>2. ASSUME NEW i \in 1..Len(q)
      PROVE  q[i] \in {Head(q)} \cup Range(Tail(q))
  <2>1. CASE i = 1
    BY <1>1, <2>1
  <2>2. CASE i # 1
    <3>1. i - 1 \in 1..Len(Tail(q)) /\ (i - 1) + 1 = i
      BY <1>1, <2>2
    <3>2. Tail(q)[i - 1] = q[i] /\ i - 1 \in DOMAIN Tail(q)
      BY <1>1, <3>1
    <3> QED
      BY <3>2 DEF Range
  <2> QED
    BY <2>1, <2>2
<1>3. \A i \in 1..Len(Tail(q)) : i + 1 \in 1..Len(q)
  BY <1>1
<1> QED
  BY <1>1, <1>2, <1>3 DEF Range

(* What TakeOut does with a cell that holds one item.                      *)
Took(d, next, P, L, n, p, watched, result, e) ==
    /\ e = Only(d, p) /\ d.cells[p].packets = n[e]
    /\ AloneIn(P, e, L)
    /\ Holding(next.cells, P, L \ {e}, n)
    /\ next.candidate \in Seq(Cell) /\ next.result = result
    /\ \A q \in Cell : next.cells[q].count = 1 =>
          /\ q # p
          /\ \/ d.cells[q].count = 1
             \/ q \notin watched
             \/ q \in Range(next.candidate)
    /\ Range(d.candidate) \subseteq Range(next.candidate)
    /\ next = [cells |-> next.cells, candidate |-> next.candidate, result |-> next.result]

LEMMA TakenOut ==
    ASSUME NEW d, d.candidate \in Seq(Cell), NEW P, NEW L, IsFiniteSet(L), NEW n,
           \A i \in L : n[i] \in Int /\ P[i] \subseteq Cell,
           Holding(d.cells, P, L, n), NEW p \in Cell, Pure(d, p),
           NEW h, \A i \in L : Positions(h, i) = P[i],
           NEW watched, NEW result, NEW next, next = TakeOut(d, p, h, watched, result)
    PROVE  \E e \in L : Took(d, next, P, L, n, p, watched, result, e)
<1>1. PICK e \in L : OnlyOne(d.cells, P, L, n, p, e)
  <2>1. d.cells[p].count = 1
    BY DEF Pure
  <2>2. \A i \in L : n[i] \in Int
    OBVIOUS
  <2> QED
    BY <2>1, <2>2, PureHolds
<1>2. Only(d, p) = e
  BY <1>1 DEF Only, OnlyOne
<1>3. AloneIn(P, e, L) /\ p \in P[e] /\ P[e] \subseteq Cell
  BY <1>1, AloneAt DEF OnlyOne
<1> DEFINE after == Toggle(d.cells, P[e], e, -1, n[e])
           again == {q \in P[e] \cap watched : after[q].count = 1}
<1>4. next = [cells |-> after, candidate |-> d.candidate \o InOrder(again), result |-> result]
  BY <1>1, <1>2 DEF TakeOut, OnlyOne
<1>5. Holding(after, P, L \ {e}, n)
  BY HoldingLess
<1>6. again \in SUBSET Cell
  BY <1>3
<1> HIDE DEF again, after
<1>7. InOrder(again) \in Seq(Cell) /\ Range(InOrder(again)) = again
  BY <1>6, InOrderIs
<1>8. /\ d.candidate \o InOrder(again) \in Seq(Cell)
      /\ Range(d.candidate \o InOrder(again)) = Range(d.candidate) \cup again
  BY <1>7, QueueMore
<1>9. ASSUME NEW q \in Cell, after[q].count = 1
      PROVE  q # p /\ (d.cells[q].count = 1 \/ q \notin watched \/ q \in again)
  <2>1. after[q].count = Cardinality(At(P, L \ {e}, q))
    BY <1>5 DEF Holding
  <2>2. At(P, L \ {e}, p) = {}
    BY <1>1 DEF At, OnlyOne
  <2>3. q # p
    <3>1. SUFFICES ASSUME q = p PROVE FALSE
      OBVIOUS
    <3>2. after[q].count = Cardinality({})
      BY <2>1, <2>2, <3>1
    <3> QED
      BY <1>9, <3>2, FS_EmptySet
  <2>4. CASE q \notin P[e]
    <3>1. after[q] = d.cells[q]
      BY <2>4 DEF after, Toggle
    <3> QED
      BY <1>9, <2>3, <3>1
  <2>5. CASE q \in P[e]
    BY <1>9, <2>3, <2>5 DEF again
  <2> QED
    BY <2>4, <2>5
<1>10. /\ next.cells = after /\ next.result = result
       /\ next.candidate = d.candidate \o InOrder(again)
       /\ next = [cells |-> next.cells, candidate |-> next.candidate,
                   result |-> next.result]
  BY <1>4
<1>11. \A q \in Cell : next.cells[q].count = 1 =>
          /\ q # p
          /\ \/ d.cells[q].count = 1
             \/ q \notin watched
             \/ q \in Range(next.candidate)
  BY <1>8, <1>9, <1>10
<1>12. /\ next.candidate \in Seq(Cell)
       /\ Range(d.candidate) \subseteq Range(next.candidate)
       /\ Holding(next.cells, P, L \ {e}, n)
  BY <1>5, <1>8, <1>10
<1> QED
  BY <1>1, <1>2, <1>3, <1>10, <1>11, <1>12 DEF Took, OnlyOne

(* A look at a cell takes out at most one item, which is alone there.      *)
LEMMA LookedAt ==
    ASSUME DataOK, r \in Radar, NEW d, d.candidate \in Seq(Cell),
           d = [cells |-> d.cells, candidate |-> d.candidate, result |-> d.result],
           NEW L, NEW S, NEW p \in Cell, NEW watched,
           Decoding(r, d, RadarPlaces(r), Items(r), Packets(r), L, S)
    PROVE  LET next == LookAt(p, watched, d)
           IN  /\ next.candidate \in Seq(Cell)
               /\ next = [cells |-> next.cells, candidate |-> next.candidate,
                          result |-> next.result]
               /\ \E M : /\ M = L \/ \E e \in L : M = L \ {e} /\ AloneIn(RadarPlaces(r), e, L)
                         /\ Decoding(r, next, RadarPlaces(r), Items(r), Packets(r), M,
                                     (S \cup (Cell \ watched)) \ {p})
<1> DEFINE P == RadarPlaces(r)
           I == Items(r)
           n == Packets(r)
           h == IF r = 3 THEN hashes.packet ELSE hashes.flow
           next == LookAt(p, watched, d)
<1>1. /\ IsFiniteSet(AllItems(r)) /\ I \subseteq AllItems(r)
      /\ \A i \in AllItems(r) : P[i] = PlacesOf(r, i) /\ PlacesOf(r, i) \subseteq Cell
      /\ \A i \in I : n[i] \in Int
      /\ \A f \in DOMAIN sent : Count(r, f) \in Nat
  BY ItemFacts
<1>2. L \subseteq I /\ IsFiniteSet(I) /\ IsFiniteSet(L)
  <2>1. L \subseteq I
    BY DEF Decoding
  <2> QED
    BY <1>1, <2>1, FS_Subset
<1>3. \A i \in L : n[i] \in Int /\ P[i] \subseteq Cell /\ Positions(h, i) = P[i]
  BY <1>1, <1>2 DEF PlacesOf
<1>4. CASE ~Pure(d, p)
  <2>1. next = d
    BY <1>4 DEF LookAt
  <2>2. Decoding(r, d, P, I, n, L, (S \cup (Cell \ watched)) \ {p})
    BY <1>4 DEF Decoding, Pure
  <2> HIDE DEF P, I, n, next
  <2> QED
    BY <2>1, <2>2 DEF P, I, n, next
<1>5. CASE Pure(d, p)
  <2> DEFINE result == IF r = 3 THEN CountUp(d.result, Only(d, p)[1])
                       ELSE Assign(d.result, Only(d, p), d.cells[p].packets)
  <2>1. next = TakeOut(d, p, h, watched, result)
    BY <1>5 DEF LookAt, PureFound
  <2>2. Holding(d.cells, P, L, n)
    BY DEF Decoding
  <2> HIDE DEF P, I, n, next, h, result
  <2>3. PICK e \in L : Took(d, next, P, L, n, p, watched, result, e)
    BY <1>2, <1>3, <1>5, <2>1, <2>2, TakenOut
  <2>4. next.result = ResultIs(r, I \ (L \ {e}), n)
    <3>1. /\ I \ (L \ {e}) = (I \ L) \cup {e} /\ e \notin I \ L
          /\ d.result = ResultIs(r, I \ L, n)
      BY <1>2 DEF Decoding, I, n
    <3>2. CASE r = 3
      <4>1. IsFiniteSet(I \ L)
        BY <1>2, FS_Subset
      <4>2. CountUp(CountsOf(I \ L), e[1]) = CountsOf((I \ L) \cup {e})
        BY <3>1, <4>1, CountedMore
      <4> QED
        BY <2>3, <3>1, <3>2, <4>2 DEF result, ResultIs, Took
    <3>3. CASE r # 3
      <4>1. PICK F, G, v : F = I \ L /\ G = F \cup {e} /\ v = n[e]
        OBVIOUS
      <4>2. Assign(ResultIs(r, F, n), e, v) = ResultIs(r, G, n)
        BY <3>3, <4>1, AssignedMore
      <4> QED
        BY <2>3, <3>1, <3>3, <4>1, <4>2 DEF result, Took
    <3> QED
      BY <3>2, <3>3
  <2>5. CoreOf(P, I) \subseteq L \ {e}
    <3>1. CoreOf(P, I) \subseteq L
      BY DEF Decoding, P, I
    <3> QED
      BY <2>3, <3>1, CoreStays DEF Took
  <2>6. \A q \in Cell : next.cells[q].count = 1 =>
           q \in ((S \cup (Cell \ watched)) \ {p}) \cup Range(next.candidate)
    <3>1. \A q \in Cell : d.cells[q].count = 1 => q \in S \cup Range(d.candidate)
      BY DEF Decoding
    <3> QED
      BY <2>3, <3>1 DEF Took
  <2>7. Decoding(r, next, P, I, n, L \ {e}, (S \cup (Cell \ watched)) \ {p})
    BY <1>2, <2>3, <2>4, <2>5, <2>6 DEF Decoding, Took
  <2> QED
    BY <2>3, <2>7 DEF P, I, n, next, Took
<1> QED
  BY <1>4, <1>5

-----------------------------------------------------------------------------
(* The invariant of a test of the radars.                                  *)
RadarHeld(k) == Holding(radar[k].cells, RadarPlaces(k), Items(k), Packets(k))

(* The cells the decoder of radar k has still to come to.                  *)
Pending(k) == IF phase = "done" \/ k < r THEN {}
              ELSE IF k = r THEN {q \in Cell : q >= at} ELSE Cell

DecoderHolds(k) ==
    \E L : Decoding(k, dec[k], RadarPlaces(k), Items(k), Packets(k), L, Pending(k))

RadarShape ==
    /\ phase \in {"insert", "scan", "done"} /\ r \in Radar /\ at \in Nat
    /\ todo \subseteq DOMAIN sent
    /\ \A k \in Radar : radar[k] = [filter |-> radar[k].filter, cells |-> radar[k].cells]
    /\ dec = [k \in Radar |-> dec[k]]
    /\ \A k \in Radar :
          /\ dec[k] = [cells |-> dec[k].cells, candidate |-> dec[k].candidate,
                       result |-> dec[k].result]
          /\ dec[k].candidate \in Seq(Cell)
    /\ verdict = [k \in Radar |-> verdict[k]]

Inserting ==
    phase = "insert" =>
        /\ r = 1 /\ at = 0
        /\ \A k \in Radar : /\ dec[k].candidate = <<>> /\ dec[k].result = <<>>
                            /\ ~Misled(k) => RadarHeld(k)

Scanning ==
    phase # "insert" => todo = {} /\ \A k \in Radar : ~Misled(k) => DecoderHolds(k)

Returned ==
    \A k \in Radar : phase = "done" \/ k < r =>
        dec[k].candidate = <<>> /\ (verdict[k] <=> Success(dec[k]))

RadarInv == DataOK /\ RadarShape /\ Inserting /\ Scanning /\ Returned

LEMMA NothingReturned ==
    ASSUME NEW k, NEW n
    PROVE  ResultIs(k, {}, n) = <<>>
BY DEF ResultIs, CountsOf

LEMMA RadarStart == Init => RadarInv
<1> SUFFICES ASSUME Init PROVE RadarInv
  OBVIOUS
<1>1. DataOK
  BY DataShape
<1>2. /\ todo = DOMAIN sent /\ mistaken = {} /\ r = 1 /\ phase = "insert" /\ at = 0
      /\ dec = [k \in Radar |->
                   [cells |-> EmptyArray, candidate |-> <<>>, result |-> <<>>]]
      /\ verdict = [k \in Radar |-> FALSE]
      /\ \E g, h : radar = <<[filter |-> g, cells |-> EmptyArray],
                             [filter |-> h, cells |-> EmptyArray],
                             [filter |-> {}, cells |-> EmptyArray]>>
  BY DEF Init, sent
<1>3. \A k \in Radar : /\ radar[k].cells = EmptyArray
                       /\ radar[k] = [filter |-> radar[k].filter, cells |-> radar[k].cells]
  <2> TAKE k \in Radar
  <2>1. PICK g, h : radar = <<[filter |-> g, cells |-> EmptyArray],
                              [filter |-> h, cells |-> EmptyArray],
                              [filter |-> {}, cells |-> EmptyArray]>>
    BY <1>2
  <2>2. k = 1 \/ k = 2 \/ k = 3
    BY DEF Radar
  <2>3. \/ radar[k] = [filter |-> g, cells |-> EmptyArray]
        \/ radar[k] = [filter |-> h, cells |-> EmptyArray]
        \/ radar[k] = [filter |-> {}, cells |-> EmptyArray]
    BY <2>1, <2>2
  <2> QED
    BY <2>3
<1>4. \A k \in Radar : /\ dec[k] = [cells |-> EmptyArray, candidate |-> <<>>, result |-> <<>>]
                       /\ dec[k].candidate \in Seq(Cell)
  <2> TAKE k \in Radar
  <2>1. dec[k] = [cells |-> EmptyArray, candidate |-> <<>>, result |-> <<>>]
    BY <1>2
  <2>2. dec[k].candidate = <<>>
    BY <2>1
  <2>3. <<>> \in Seq(Cell)
    OBVIOUS
  <2> QED
    BY <2>1, <2>2, <2>3
<1>5. RadarShape
  BY <1>2, <1>3, <1>4 DEF RadarShape, Radar
<1>6. ASSUME NEW k \in Radar PROVE RadarHeld(k)
  <2>1. Items(k) = {}
    BY <1>2 DEF Items
  <2> QED
    BY <1>3, <2>1, HoldingNothing DEF RadarHeld
<1>7. Inserting
  BY <1>2, <1>4, <1>6 DEF Inserting
<1>8. Scanning /\ Returned
  BY <1>2 DEF Scanning, Returned, Radar
<1> QED
  BY <1>1, <1>5, <1>7, <1>8 DEF RadarInv

(* A step leaves the setting alone.                                        *)
LEMMA SameSetting ==
    ASSUME UNCHANGED setting
    PROVE  /\ sent' = sent /\ dropped' = dropped
           /\ \A k \in Radar : /\ RadarPlaces(k)' = RadarPlaces(k)
                               /\ Packets(k)' = Packets(k)
                               /\ AllItems(k)' = AllItems(k)
                               /\ (todo' = todo => Items(k)' = Items(k))
                               /\ (mistaken' = mistaken => Misled(k)' = Misled(k))
           /\ DataOK => DataOK'
<1>1. data' = data /\ hashes' = hashes
  BY DEF setting
<1>2. sent' = sent /\ dropped' = dropped
  BY <1>1 DEF sent, dropped
<1>3. DataOK => DataOK'
  BY <1>1, <1>2 DEF DataOK
<1>4. ASSUME NEW k \in Radar
      PROVE  /\ RadarPlaces(k)' = RadarPlaces(k)
             /\ Packets(k)' = Packets(k)
             /\ AllItems(k)' = AllItems(k)
             /\ (todo' = todo => Items(k)' = Items(k))
             /\ (mistaken' = mistaken => Misled(k)' = Misled(k))
  <2>1. AllItems(k)' = AllItems(k)
    BY DEF AllItems
  <2>2. RadarPlaces(k)' = RadarPlaces(k)
    BY <1>1, <2>1 DEF RadarPlaces, PlacesOf
  <2>3. Packets(k)' = Packets(k)
    BY <1>2, <2>1 DEF Packets, Count
  <2>4. todo' = todo => Items(k)' = Items(k)
    BY <1>2 DEF Items, Count
  <2>5. mistaken' = mistaken => Misled(k)' = Misled(k)
    BY <1>2 DEF Misled
  <2> QED
    BY <2>1, <2>2, <2>3, <2>4, <2>5
<1> QED
  BY <1>2, <1>3, <1>4

LEMMA ItemsTyped ==
    DataOK => \A j \in Radar : /\ Items(j) \subseteq AllItems(j)
                               /\ \A i \in Items(j) : Packets(j)[i] \in Int
BY ItemFacts

(* Inserting a flow puts its packets in, unless a filter is mistaken.      *)
LEMMA InsertHeld ==
    ASSUME RadarInv, NEW f \in todo, Insert(f), NEW k \in Radar, ~Misled(k)'
    PROVE  RadarHeld(k)' /\ ~Misled(k)
<1>1. /\ phase = "insert" /\ todo' = todo \ {f} /\ UNCHANGED setting
      /\ radar' = [j \in Radar |->
            IF j = 3
            THEN [radar[3] EXCEPT !.cells = InsertRange(@, hashes.packet, f, dropped[f])]
            ELSE InsertFlow(radar[j], Positions(hashes.flow, f), f, hashes.filter[f], Count(j, f))]
  BY DEF Insert
<1>2. /\ sent' = sent /\ RadarPlaces(k)' = RadarPlaces(k) /\ Packets(k)' = Packets(k)
      /\ dropped' = dropped
  BY <1>1, SameSetting
<1>3. f \in DOMAIN sent /\ DataOK
  BY DEF RadarInv, RadarShape
<1>4. ~Misled(k)
  <2>1. mistaken \subseteq mistaken'
    BY DEF Insert
  <2> QED
    BY <1>2, <2>1 DEF Misled
<1>5. RadarHeld(k)
  BY <1>1, <1>4 DEF RadarInv, Inserting
<1>6. /\ IsFiniteSet(AllItems(k)) /\ Items(k) \subseteq AllItems(k)
      /\ \A i \in AllItems(k) : RadarPlaces(k)[i] = PlacesOf(k, i)
      /\ \A g \in DOMAIN sent : dropped[g] \in Nat /\ Count(k, g) \in Nat /\ dropped[g] <= sent[g]
      /\ \A i \in Items(k) : Packets(k)[i] \in Int
  BY <1>3, ItemFacts
<1>7. IsFiniteSet(Items(k))
  BY <1>6, FS_Subset
<1>8. Items(k)' \subseteq AllItems(k) /\ \A i \in Items(k)' : Packets(k)[i] \in Int
  <2>1. DataOK'
    BY <1>1, <1>3, SameSetting
  <2>3. (\A j \in Radar : /\ Items(j) \subseteq AllItems(j)
                          /\ \A i \in Items(j) : Packets(j)[i] \in Int)'
    BY <2>1, ItemsTyped, PTL
  <2>4. AllItems(k)' = AllItems(k)
    BY <1>1, SameSetting
  <2> QED
    BY <1>2, <2>3, <2>4
<1>9. CASE k = 3
  <2>1. Items(3)' = Items(3) \cup ({f} \X (0..(dropped[f] - 1)))
    <3>1. DOMAIN sent \ todo' = (DOMAIN sent \ todo) \cup {f}
      BY <1>1, <1>3
    <3> QED
      BY <1>2, <3>1 DEF Items
  <2>2. radar'[3].cells = InsertRange(radar[3].cells, hashes.packet, f, dropped[f])
    BY <1>1 DEF RadarInv, RadarShape, Radar
  <2>3. \A e \in {f} \X (0..(dropped[f] - 1)) :
           /\ e \notin Items(3)
           /\ RadarPlaces(3)[e] = Positions(hashes.packet, e)
           /\ Packets(3)[e] = 1
    <3> TAKE e \in {f} \X (0..(dropped[f] - 1))
    <3>1. e[1] = f /\ f \in todo
      OBVIOUS
    <3>2. e \notin Items(3)
      BY <3>1 DEF Items
    <3>3. e \in AllItems(3)
      BY <1>8, <1>9, <2>1
    <3>4. Packets(3)[e] = 1
      BY <3>3 DEF Packets
    <3>5. RadarPlaces(3)[e] = Positions(hashes.packet, e)
      BY <1>6, <1>9, <3>3 DEF PlacesOf
    <3> QED
      BY <3>2, <3>4, <3>5
  <2>4. Holding(radar[3].cells, RadarPlaces(3), Items(3), Packets(3))
    BY <1>5, <1>9 DEF RadarHeld
  <2>5. PICK a, b, L, M, P, n, h, m :
          /\ a = radar[3].cells /\ b = radar'[3].cells /\ L = Items(3) /\ M = Items(3)'
          /\ P = RadarPlaces(3) /\ n = Packets(3) /\ h = hashes.packet /\ m = dropped[f]
    OBVIOUS
  <2>6. /\ m \in Nat /\ IsFiniteSet(L) /\ Holding(a, P, L, n)
        /\ \A i \in L : n[i] \in Int
        /\ \A e \in {f} \X (0..(m - 1)) : e \notin L /\ P[e] = Positions(h, e) /\ n[e] = 1
        /\ b = InsertRange(a, h, f, m) /\ M = L \cup ({f} \X (0..(m - 1)))
    BY <1>3, <1>6, <1>7, <1>9, <2>1, <2>2, <2>3, <2>4, <2>5
  <2>7. Holding(b, P, M, n)
    BY <2>6, HoldingRange
  <2>8. Holding(radar'[3].cells, RadarPlaces(3)', Items(3)', Packets(3)')
    BY <1>2, <1>9, <2>5, <2>7
  <2>9. RadarHeld(k)'
    BY <1>9, <2>8 DEF RadarHeld
  <2> QED
    BY <1>4, <2>9
<1>10. CASE k # 3
  <2>1. Items(k)' = IF Count(k, f) > 0 THEN Items(k) \cup {f} ELSE Items(k)
    <3>1. DOMAIN sent \ todo' = (DOMAIN sent \ todo) \cup {f}
      BY <1>1, <1>3
    <3>2. Count(k, f)' = Count(k, f) /\ \A g \in DOMAIN sent : Count(k, g)' = Count(k, g)
      BY <1>2 DEF Count
    <3> QED
      BY <1>2, <1>10, <3>1, <3>2 DEF Items
  <2>2. radar'[k] = InsertFlow(radar[k], Positions(hashes.flow, f), f, hashes.filter[f],
                               Count(k, f))
    BY <1>1, <1>10
  <2>3. Holding(radar[k].cells, RadarPlaces(k), Items(k), Packets(k))
    BY <1>5 DEF RadarHeld
  <2>4. CASE Count(k, f) = 0
    <3>1. radar'[k] = radar[k] /\ Items(k)' = Items(k)
      BY <2>1, <2>2, <2>4 DEF InsertFlow
    <3>2. Holding(radar'[k].cells, RadarPlaces(k)', Items(k)', Packets(k)')
      BY <1>2, <2>3, <3>1
    <3> QED
      BY <1>4, <3>2 DEF RadarHeld
  <2>5. CASE Count(k, f) # 0
    <3>1. Count(k, f) > 0
      BY <1>3, <1>6, <2>5
    <3>2. ~Query(radar[k].filter, hashes.filter[f])
      <4>1. SUFFICES ASSUME Query(radar[k].filter, hashes.filter[f]) PROVE FALSE
        OBVIOUS
      <4>2. <<k, f>> \in mistaken'
        BY <1>10, <3>1, <4>1 DEF Insert, Radar
      <4> QED
        BY <1>2, <1>3, <4>2 DEF Misled
    <3>3. radar'[k].cells = Toggle(radar[k].cells, Positions(hashes.flow, f), f, 1, Count(k, f))
      BY <2>2, <2>5, <3>2 DEF InsertFlow
    <3>4. f \in AllItems(k) /\ f \notin Items(k) /\ Items(k)' = Items(k) \cup {f}
      BY <1>8, <1>10, <2>1, <3>1 DEF Items
    <3>5. RadarPlaces(k)[f] = Positions(hashes.flow, f) /\ Packets(k)[f] = Count(k, f)
      BY <1>6, <1>10, <3>4 DEF PlacesOf, Packets
    <3>6. PICK a, b, L, M, P, n :
            /\ a = radar[k].cells /\ b = radar'[k].cells /\ L = Items(k) /\ M = Items(k)'
            /\ P = RadarPlaces(k) /\ n = Packets(k)
      OBVIOUS
    <3>7. /\ IsFiniteSet(L) /\ Holding(a, P, L, n) /\ f \notin L
          /\ \A i \in L \cup {f} : n[i] \in Int
          /\ b = Toggle(a, P[f], f, 1, n[f]) /\ M = L \cup {f}
      BY <1>7, <1>8, <2>3, <3>3, <3>4, <3>5, <3>6
    <3>8. Holding(b, P, M, n)
      BY <3>7, HoldingMore
    <3>9. Holding(radar'[k].cells, RadarPlaces(k)', Items(k)', Packets(k)')
      BY <1>2, <3>6, <3>8
    <3> QED
      BY <1>4, <3>9 DEF RadarHeld
  <2> QED
    BY <2>4, <2>5
<1> QED
  BY <1>9, <1>10

LEMMA CellIs ==
    /\ Cell \subseteq Nat /\ IsFiniteSet(Cell)
    /\ \A a \in Nat : a \notin Cell => {q \in Cell : q >= a} = {}
    /\ {q \in Cell : q >= 0} = Cell
<1>1. PICK v \in Nat : v = C * hash_len
  BY XorAssumption, RowType
<1>2. Cell = 0..(v - 1)
  BY <1>1 DEF Cell
<1>3. IsFiniteSet(0..(v - 1))
  BY FS_Interval
<1> QED
  BY <1>2, <1>3

LEMMA LookedEnough ==
    ASSUME NEW k, NEW d, NEW P, NEW I, NEW n, NEW L, NEW S, NEW T, S \subseteq T,
           Decoding(k, d, P, I, n, L, S)
    PROVE  Decoding(k, d, P, I, n, L, T)
BY DEF Decoding

LEMMA InsertStep == ASSUME RadarInv, NEW f \in todo, Insert(f) PROVE RadarInv'
<1>1. /\ phase = "insert" /\ todo' = todo \ {f} /\ UNCHANGED setting
      /\ UNCHANGED <<r, phase, at, dec, verdict>>
      /\ radar' = [j \in Radar |->
            IF j = 3
            THEN [radar[3] EXCEPT !.cells = InsertRange(@, hashes.packet, f, dropped[f])]
            ELSE InsertFlow(radar[j], Positions(hashes.flow, f), f, hashes.filter[f], Count(j, f))]
  BY DEF Insert
<1>2. DataOK' /\ sent' = sent
  BY <1>1, SameSetting DEF RadarInv
<1>3. \A k \in Radar : radar'[k] = [filter |-> radar'[k].filter, cells |-> radar'[k].cells]
  <2> TAKE k \in Radar
  <2>1. radar[k] = [filter |-> radar[k].filter, cells |-> radar[k].cells]
    BY DEF RadarInv, RadarShape
  <2>2. CASE k = 3
    <3>1. radar'[k] = [radar[k] EXCEPT !.cells = InsertRange(@, hashes.packet, f, dropped[f])]
      BY <1>1, <2>2
    <3> QED
      BY <2>1, <3>1
  <2>3. CASE k # 3
    <3>1. radar'[k] = InsertFlow(radar[k], Positions(hashes.flow, f), f, hashes.filter[f],
                                 Count(k, f))
      BY <1>1, <2>3
    <3>2. \/ radar'[k] = radar[k]
          \/ \E a : radar'[k] = [radar[k] EXCEPT !.cells = a]
          \/ \E a, b : radar'[k] = [filter |-> a, cells |-> b]
      BY <3>1, Zenon DEF InsertFlow
    <3> QED
      BY <2>1, <3>2
  <2> QED
    BY <2>2, <2>3
<1>4. RadarShape'
  BY <1>1, <1>2, <1>3 DEF RadarInv, RadarShape
<1>5. Inserting'
  BY <1>1, InsertHeld DEF Inserting, RadarInv
<1>6. Scanning' /\ Returned'
  BY <1>1 DEF Scanning, Returned, RadarInv, Success
<1> QED
  BY <1>2, <1>4, <1>5, <1>6 DEF RadarInv

LEMMA BeginStep == ASSUME RadarInv, BeginDecode PROVE RadarInv'
<1>1. /\ phase = "insert" /\ todo = {} /\ phase' = "scan" /\ UNCHANGED setting
      /\ dec' = [k \in Radar |-> [dec[k] EXCEPT !.cells = radar[k].cells]]
      /\ UNCHANGED <<todo, radar, mistaken, r, at, verdict>>
  BY DEF BeginDecode
<1>2. DataOK' /\ sent' = sent
  BY <1>1, SameSetting DEF RadarInv
<1>3. \A k \in Radar : /\ dec'[k] = [cells |-> dec'[k].cells, candidate |-> dec'[k].candidate,
                                     result |-> dec'[k].result]
                       /\ dec'[k].cells = radar[k].cells
                       /\ dec'[k].candidate = <<>> /\ dec'[k].result = <<>>
  <2> TAKE k \in Radar
  <2>1. /\ dec[k] = [cells |-> dec[k].cells, candidate |-> dec[k].candidate,
                     result |-> dec[k].result]
        /\ dec[k].candidate = <<>> /\ dec[k].result = <<>>
    BY <1>1 DEF RadarInv, RadarShape, Inserting
  <2>2. dec'[k] = [dec[k] EXCEPT !.cells = radar[k].cells]
    BY <1>1
  <2> QED
    BY <2>1, <2>2
<1>4. <<>> \in Seq(Cell)
  OBVIOUS
<1>5. RadarShape'
  BY <1>1, <1>2, <1>3, <1>4 DEF RadarInv, RadarShape
<1>6. r = 1 /\ at = 0
  BY <1>1 DEF RadarInv, Inserting
<1>7. ASSUME NEW k \in Radar, ~Misled(k)'
      PROVE  DecoderHolds(k)'
  <2>1. RadarHeld(k)
    BY <1>1, <1>7, SameSetting DEF RadarInv, Inserting
  <2>2. Pending(k)' = Cell
    BY <1>1, <1>6, CellIs DEF Pending, Radar
  <2>3. PICK d, P, I, n : /\ d = dec'[k] /\ P = RadarPlaces(k) /\ I = Items(k) /\ n = Packets(k)
    OBVIOUS
  <2>4. Holding(d.cells, P, I, n) /\ d.result = <<>>
    BY <1>3, <2>1, <2>3 DEF RadarHeld
  <2>5. I \ I = {}
    OBVIOUS
  <2>6. d.result = ResultIs(k, I \ I, n)
    BY <2>4, <2>5, NothingReturned
  <2>7. Decoding(k, d, P, I, n, I, Cell)
    BY <2>4, <2>6 DEF Decoding, CoreOf
  <2>8. Decoding(k, dec'[k], RadarPlaces(k)', Items(k)', Packets(k)', I, Pending(k)')
    BY <1>1, <2>2, <2>3, <2>7, SameSetting
  <2> QED
    BY <2>8 DEF DecoderHolds
<1>8. Scanning'
  BY <1>1, <1>7 DEF Scanning
<1>9. Inserting' /\ Returned'
  BY <1>1, <1>6 DEF Inserting, Returned, Radar
<1> QED
  BY <1>2, <1>5, <1>8, <1>9 DEF RadarInv

(* Whatever it finds, a look leaves a decoder that looks at cells.         *)
LEMMA LookedShape ==
    ASSUME NEW d, d.candidate \in Seq(Cell), NEW p, NEW watched \in SUBSET Cell,
           d = [cells |-> d.cells, candidate |-> d.candidate, result |-> d.result],
           NEW next, next = LookAt(p, watched, d)
    PROVE  /\ next.candidate \in Seq(Cell)
           /\ next = [cells |-> next.cells, candidate |-> next.candidate,
                      result |-> next.result]
<1>1. CASE ~Pure(d, p)
  <2>1. next = d
    BY <1>1 DEF LookAt
  <2> QED
    BY <2>1
<1>2. CASE Pure(d, p)
  <2>1. PICK h, result : next = TakeOut(d, p, h, watched, result)
    <3>1. \/ next = TakeOut(d, p, hashes.packet, watched, CountUp(d.result, Only(d, p)[1]))
          \/ next = TakeOut(d, p, hashes.flow, watched,
                            Assign(d.result, Only(d, p), d.cells[p].packets))
      BY <1>2, Zenon DEF LookAt, PureFound
    <3> QED
      BY <3>1
  <2>2. PICK after, P :
          next = [cells |-> after,
                  candidate |-> d.candidate \o InOrder({q \in P \cap watched : after[q].count = 1}),
                  result |-> result]
    BY <2>1, Zenon DEF TakeOut
  <2>3. PICK again : again = {q \in P \cap watched : after[q].count = 1}
    OBVIOUS
  <2>4. again \in SUBSET Cell
    BY <2>3
  <2>5. InOrder(again) \in Seq(Cell)
    BY <2>4, InOrderIs
  <2>6. d.candidate \o InOrder(again) \in Seq(Cell)
    BY <2>5
  <2>7. next = [cells |-> after, candidate |-> d.candidate \o InOrder(again), result |-> result]
    BY <2>2, <2>3
  <2>8. next.candidate = d.candidate \o InOrder(again)
    BY <2>7
  <2> QED
    BY <2>6, <2>7, <2>8
<1> QED
  BY <1>1, <1>2

(* A look of the decoder at work keeps the invariant, and takes out at     *)
(* most one item, which is alone.                                          *)
LEMMA LookStep ==
    ASSUME RadarInv, phase = "scan",
           UNCHANGED <<setting, todo, radar, mistaken, r, phase, verdict>>,
           NEW d, d.candidate \in Seq(Cell), NEW p \in Cell, NEW watched \in SUBSET Cell,
           d = [cells |-> d.cells, candidate |-> d.candidate, result |-> d.result],
           dec' = [dec EXCEPT ![r] = LookAt(p, watched, d)],
           at' \in Nat, NEW S,
           \A q \in Cell : q # p /\ (q \in S \/ q \notin watched) => q \in Pending(r)',
           \A L : Decoding(r, dec[r], RadarPlaces(r), Items(r), Packets(r), L, Pending(r)) =>
                  Decoding(r, d, RadarPlaces(r), Items(r), Packets(r), L, S)
    PROVE  /\ RadarInv'
           /\ \A L : ~Misled(r) /\ Decoding(r, dec[r], RadarPlaces(r), Items(r), Packets(r), L,
                                           Pending(r)) =>
                 \E M : /\ M = L \/ \E e \in L : M = L \ {e} /\ AloneIn(RadarPlaces(r), e, L)
                        /\ Decoding(r, dec'[r], RadarPlaces(r), Items(r), Packets(r), M,
                                    Pending(r)')
           /\ \A k \in Radar \ {r} : dec'[k] = dec[k]
<1> DEFINE next == LookAt(p, watched, d)
<1>1. /\ DataOK /\ DataOK' /\ sent' = sent /\ r \in Radar
      /\ \A k \in Radar : /\ RadarPlaces(k)' = RadarPlaces(k) /\ Packets(k)' = Packets(k)
                          /\ Items(k)' = Items(k) /\ Misled(k)' = Misled(k)
  BY SameSetting DEF RadarInv, RadarShape
<1>2. dec = [k \in Radar |-> dec[k]]
  BY DEF RadarInv, RadarShape
<1>3. /\ dec'[r] = next /\ \A k \in Radar \ {r} : dec'[k] = dec[k]
      /\ dec' = [k \in Radar |-> dec'[k]]
  BY <1>1, <1>2
<1>4. /\ next.candidate \in Seq(Cell)
      /\ next = [cells |-> next.cells, candidate |-> next.candidate, result |-> next.result]
  BY LookedShape
<1>5. ASSUME NEW L, Decoding(r, dec[r], RadarPlaces(r), Items(r), Packets(r), L, Pending(r))
      PROVE  \E M : /\ M = L \/ \E e \in L : M = L \ {e} /\ AloneIn(RadarPlaces(r), e, L)
                    /\ Decoding(r, next, RadarPlaces(r), Items(r), Packets(r), M, Pending(r)')
  <2>1. Decoding(r, d, RadarPlaces(r), Items(r), Packets(r), L, S)
    BY <1>5
  <2> DEFINE T == ((S \cap Cell) \cup (Cell \ watched)) \ {p}
  <2>2. \E M : /\ M = L \/ \E e \in L : M = L \ {e} /\ AloneIn(RadarPlaces(r), e, L)
               /\ Decoding(r, next, RadarPlaces(r), Items(r), Packets(r), M, T)
    <3>1. PICK S2 : S2 = S \cap Cell
      OBVIOUS
    <3>2. Decoding(r, d, RadarPlaces(r), Items(r), Packets(r), L, S2)
      BY <2>1, <3>1 DEF Decoding
    <3> QED
      BY <1>1, <3>1, <3>2, LookedAt
  <2> HIDE DEF next
  <2>3. T \subseteq Pending(r)'
    OBVIOUS
  <2> HIDE DEF T
  <2> QED
    BY <2>2, <2>3, LookedEnough
<1> HIDE DEF next
<1>6. RadarShape'
  BY <1>1, <1>3, <1>4 DEF RadarInv, RadarShape
<1>7. ASSUME NEW k \in Radar, ~Misled(k)'
      PROVE  DecoderHolds(k)'
  <2>1. PICK L : Decoding(k, dec[k], RadarPlaces(k), Items(k), Packets(k), L, Pending(k))
    BY <1>1, <1>7 DEF RadarInv, Scanning, DecoderHolds
  <2>2. \E M : Decoding(k, dec'[k], RadarPlaces(k), Items(k), Packets(k), M, Pending(k)')
    <3>1. CASE k = r
      BY <1>3, <1>5, <2>1, <3>1
    <3>2. CASE k # r
      <4>1. Pending(k)' = Pending(k)
        BY <3>2 DEF Pending
      <4> QED
        BY <1>3, <2>1, <3>2, <4>1
    <3> QED
      BY <3>1, <3>2
  <2> QED
    BY <1>1, <2>2 DEF DecoderHolds
<1>8. Inserting' /\ Scanning'
  BY <1>7 DEF Inserting, Scanning, RadarInv
<1>9. Returned'
  <2>1. \A k \in Radar : k < r => k # r
    BY <1>1 DEF Radar
  <2> QED
    BY <1>3, <2>1 DEF Returned, RadarInv, Success
<1> QED
  BY <1>1, <1>3, <1>5, <1>6, <1>8, <1>9 DEF RadarInv

LEMMA ScanStep ==
    ASSUME RadarInv, ScanCell
    PROVE  /\ RadarInv'
           /\ \A L : ~Misled(r) /\ Decoding(r, dec[r], RadarPlaces(r), Items(r), Packets(r), L,
                                           Pending(r)) =>
                 \E M : /\ M = L \/ \E e \in L : M = L \ {e} /\ AloneIn(RadarPlaces(r), e, L)
                        /\ Decoding(r, dec'[r], RadarPlaces(r), Items(r), Packets(r), M,
                                    Pending(r)')
           /\ \A k \in Radar \ {r} : dec'[k] = dec[k]
<1>1. /\ phase = "scan" /\ at \in Cell /\ at' = at + 1
      /\ dec' = [dec EXCEPT ![r] = LookAt(at, 0..(at - 1), @)]
      /\ UNCHANGED <<setting, todo, radar, mistaken, r, phase, verdict>>
  BY DEF ScanCell
<1>2. /\ r \in Radar /\ dec = [k \in Radar |-> dec[k]] /\ dec[r].candidate \in Seq(Cell)
      /\ dec[r] = [cells |-> dec[r].cells, candidate |-> dec[r].candidate,
                   result |-> dec[r].result]
  BY DEF RadarInv, RadarShape
<1>3. at \in Nat /\ at' \in Nat /\ 0..(at - 1) \in SUBSET Cell
  <2>1. PICK v \in Nat : v = C * hash_len
    BY XorAssumption, RowType
  <2> QED
    BY <1>1, <2>1 DEF Cell
<1>4. dec' = [dec EXCEPT ![r] = LookAt(at, 0..(at - 1), dec[r])]
  BY <1>1, <1>2
<1>5. \A q \in Cell : q # at /\ (q \in Pending(r) \/ q \notin 0..(at - 1)) => q \in Pending(r)'
  <2>1. /\ Pending(r) = {q \in Cell : q >= at}
        /\ Pending(r)' = {q \in Cell : q >= at + 1}
    BY <1>1, <1>2 DEF Pending, Radar
  <2>2. ASSUME NEW q \in Cell, q \in Pending(r) \/ q \notin 0..(at - 1), q # at
        PROVE  q >= at + 1
    <3>1. q \in Nat
      BY CellIs
    <3>2. q >= at
      BY <1>3, <2>1, <2>2, <3>1
    <3> QED
      BY <1>3, <2>2, <3>1, <3>2
  <2> QED
    BY <2>1, <2>2
<1>6. PICK d, S, p, watched :
        d = dec[r] /\ S = Pending(r) /\ p = at /\ watched = 0..(at - 1)
  OBVIOUS
<1>7. /\ p \in Cell /\ watched \in SUBSET Cell
      /\ \A q \in Cell : q # p /\ (q \in S \/ q \notin watched) => q \in Pending(r)'
      /\ dec' = [dec EXCEPT ![r] = LookAt(p, watched, d)]
      /\ d = [cells |-> d.cells, candidate |-> d.candidate, result |-> d.result]
      /\ d.candidate \in Seq(Cell)
  BY <1>1, <1>2, <1>3, <1>4, <1>5, <1>6
<1>8. \A L : Decoding(r, dec[r], RadarPlaces(r), Items(r), Packets(r), L, Pending(r)) =>
             Decoding(r, d, RadarPlaces(r), Items(r), Packets(r), L, S)
  BY <1>6
<1> QED
  BY <1>1, <1>3, <1>7, <1>8, LookStep

LEMMA DrainStep ==
    ASSUME RadarInv, DrainCandidate
    PROVE  /\ RadarInv'
           /\ \A L : ~Misled(r) /\ Decoding(r, dec[r], RadarPlaces(r), Items(r), Packets(r), L,
                                           Pending(r)) =>
                 \E M : /\ M = L \/ \E e \in L : M = L \ {e} /\ AloneIn(RadarPlaces(r), e, L)
                        /\ Decoding(r, dec'[r], RadarPlaces(r), Items(r), Packets(r), M,
                                    Pending(r)')
           /\ \A k \in Radar \ {r} : dec'[k] = dec[k]
<1> DEFINE d == [dec[r] EXCEPT !.candidate = Tail(@)]
           p == Head(dec[r].candidate)
<1>1. /\ phase = "scan" /\ at \notin Cell /\ dec[r].candidate # <<>> /\ at' = at
      /\ dec' = [dec EXCEPT ![r] =
            LookAt(Head(dec[r].candidate), Cell, [dec[r] EXCEPT !.candidate = Tail(@)])]
      /\ UNCHANGED <<setting, todo, radar, mistaken, r, phase, verdict>>
  BY DEF DrainCandidate
<1>2. /\ r \in Radar /\ dec = [k \in Radar |-> dec[k]] /\ dec[r].candidate \in Seq(Cell)
      /\ dec[r] = [cells |-> dec[r].cells, candidate |-> dec[r].candidate,
                   result |-> dec[r].result]
      /\ at \in Nat
  BY DEF RadarInv, RadarShape
<1>3. /\ p \in Cell /\ Tail(dec[r].candidate) \in Seq(Cell)
      /\ Range(dec[r].candidate) = {p} \cup Range(Tail(dec[r].candidate))
  BY <1>1, <1>2, QueueLess
<1>4. dec' = [dec EXCEPT ![r] = LookAt(p, Cell, d)]
  BY <1>1
<1>5. /\ d.cells = dec[r].cells /\ d.candidate = Tail(dec[r].candidate)
      /\ d.result = dec[r].result
      /\ d = [cells |-> d.cells, candidate |-> d.candidate, result |-> d.result]
  <2>1. PICK e : e = dec[r]
    OBVIOUS
  <2>2. e = [cells |-> e.cells, candidate |-> e.candidate, result |-> e.result]
    BY <1>2, <2>1
  <2>3. PICK q : q = Tail(e.candidate)
    OBVIOUS
  <2>4. d = [e EXCEPT !.candidate = q]
    BY <2>1, <2>3
  <2>5. d = [cells |-> e.cells, candidate |-> q, result |-> e.result]
    BY <2>2, <2>4
  <2> QED
    BY <2>1, <2>3, <2>5
<1>6. Pending(r) = {}
  BY <1>1, <1>2, CellIs DEF Pending, Radar
<1> HIDE DEF d, p
<1>7. \A L : Decoding(r, dec[r], RadarPlaces(r), Items(r), Packets(r), L, Pending(r)) =>
             Decoding(r, d, RadarPlaces(r), Items(r), Packets(r), L, {p})
  <2> TAKE L
  <2> SUFFICES ASSUME Decoding(r, dec[r], RadarPlaces(r), Items(r), Packets(r), L, Pending(r))
               PROVE  Decoding(r, d, RadarPlaces(r), Items(r), Packets(r), L, {p})
    OBVIOUS
  <2>1. \A q \in Cell : d.cells[q].count = 1 => q \in {p} \cup Range(d.candidate)
    BY <1>3, <1>5, <1>6 DEF Decoding
  <2> QED
    BY <1>5, <2>1 DEF Decoding
<1>8. \A q \in Cell : q # p /\ (q \in {p} \/ q \notin Cell) => q \in Pending(r)'
  OBVIOUS
<1>9. d.candidate \in Seq(Cell) /\ Cell \in SUBSET Cell /\ at' \in Nat
  BY <1>1, <1>2, <1>3, <1>5
<1> QED
  BY <1>1, <1>3, <1>4, <1>5, <1>7, <1>8, <1>9, LookStep

LEMMA ReturnStep == ASSUME RadarInv, Return PROVE RadarInv'
<1>1. /\ phase = "scan" /\ at \notin Cell /\ dec[r].candidate = <<>>
      /\ verdict' = [verdict EXCEPT ![r] = Success(dec[r])]
      /\ \/ r = 3 /\ phase' = "done" /\ r' = r /\ at' = at
         \/ r # 3 /\ r' = r + 1 /\ at' = 0 /\ phase' = phase
      /\ UNCHANGED <<setting, todo, radar, mistaken, dec>>
  BY DEF Return
<1>2. DataOK' /\ sent' = sent
  BY <1>1, SameSetting DEF RadarInv
<1>3. r \in Radar /\ at \in Nat /\ verdict = [k \in Radar |-> verdict[k]]
  BY DEF RadarInv, RadarShape
<1>4. RadarShape'
  <2>1. r' \in Radar /\ at' \in Nat /\ phase' \in {"insert", "scan", "done"}
    BY <1>1, <1>3 DEF Radar
  <2>2. verdict' = [k \in Radar |-> verdict'[k]]
    BY <1>1, <1>3
  <2>3. RadarShape
    BY DEF RadarInv
  <2> QED
    BY <1>1, <1>2, <2>1, <2>2, <2>3 DEF RadarShape
<1>5. \A k \in Radar : Pending(k) \subseteq Pending(k)'
  <2>1. {q \in Cell : q >= at} = {} /\ {q \in Cell : q >= 0} = Cell
    BY <1>1, <1>3, CellIs
  <2> QED
    BY <1>1, <1>3, <2>1 DEF Pending, Radar
<1>6. ASSUME NEW k \in Radar, ~Misled(k)'
      PROVE  DecoderHolds(k)'
  <2>1. PICK L : Decoding(k, dec[k], RadarPlaces(k), Items(k), Packets(k), L, Pending(k))
    BY <1>1, <1>6, SameSetting DEF RadarInv, Scanning, DecoderHolds
  <2>2. PICK d, P, I, n, S, T : /\ d = dec[k] /\ P = RadarPlaces(k) /\ I = Items(k)
                                /\ n = Packets(k) /\ S = Pending(k) /\ T = Pending(k)'
    OBVIOUS
  <2>3. S \subseteq T /\ Decoding(k, d, P, I, n, L, S)
    BY <1>5, <2>1, <2>2
  <2>4. Decoding(k, d, P, I, n, L, T)
    BY <2>3, LookedEnough
  <2>5. Decoding(k, dec[k]', RadarPlaces(k)', Items(k)', Packets(k)', L, Pending(k)')
    BY <1>1, <2>2, <2>4, SameSetting
  <2> QED
    BY <2>5 DEF DecoderHolds
<1>7. Scanning' /\ Inserting'
  BY <1>1, <1>6 DEF Inserting, Scanning, RadarInv
<1>8. Returned'
  <2> SUFFICES ASSUME NEW k \in Radar, phase' = "done" \/ k < r'
               PROVE  dec'[k].candidate = <<>> /\ (verdict'[k] <=> Success(dec'[k]))
    BY DEF Returned, Success
  <2>1. CASE k = r
    <3>1. verdict'[k] = Success(dec[r])
      BY <1>1, <1>3, <2>1
    <3> QED
      BY <1>1, <2>1, <3>1
  <2>2. CASE k # r
    <3>1. k < r
      BY <1>1, <1>3, <2>2 DEF Radar
    <3>2. verdict'[k] = verdict[k]
      BY <1>1, <1>3, <2>2
    <3> QED
      BY <1>1, <3>1, <3>2 DEF RadarInv, Returned
  <2> QED
    BY <2>1, <2>2
<1> QED
  BY <1>2, <1>4, <1>7, <1>8 DEF RadarInv

LEMMA RadarStays == ASSUME RadarInv, UNCHANGED vars PROVE RadarInv'
<1>1. UNCHANGED <<data, hashes, todo, radar, mistaken, r, phase, at, dec, verdict>>
  BY DEF vars, setting
<1>2. /\ DataOK' /\ sent' = sent
      /\ \A k \in Radar : /\ RadarPlaces(k)' = RadarPlaces(k) /\ Packets(k)' = Packets(k)
                          /\ Items(k)' = Items(k) /\ Misled(k)' = Misled(k)
  BY <1>1, SameSetting DEF RadarInv, setting
<1>3. RadarShape' /\ Returned'
  BY <1>1, <1>2 DEF RadarInv, RadarShape, Returned, Success
<1>4. \A k \in Radar : RadarHeld(k)' = RadarHeld(k) /\ DecoderHolds(k)' = DecoderHolds(k)
  <2> TAKE k \in Radar
  <2>1. Pending(k)' = Pending(k)
    BY <1>1 DEF Pending
  <2> QED
    BY <1>1, <1>2, <2>1 DEF RadarHeld, DecoderHolds
<1>5. Inserting' /\ Scanning'
  BY <1>1, <1>2, <1>4 DEF RadarInv, Inserting, Scanning
<1> QED
  BY <1>2, <1>3, <1>5 DEF RadarInv

LEMMA RadarStep == RadarInv /\ [Next]_vars => RadarInv'
<1> SUFFICES ASSUME RadarInv, [Next]_vars PROVE RadarInv'
  OBVIOUS
<1>1. CASE \E f \in todo : Insert(f)
  BY <1>1, InsertStep
<1>2. CASE BeginDecode
  BY <1>2, BeginStep
<1>3. CASE ScanCell
  BY <1>3, ScanStep
<1>4. CASE DrainCandidate
  BY <1>4, DrainStep
<1>5. CASE Return
  BY <1>5, ReturnStep
<1>6. CASE UNCHANGED vars
  BY <1>6, RadarStays
<1> QED
  BY <1>1, <1>2, <1>3, <1>4, <1>5, <1>6 DEF Next, Decode
-----------------------------------------------------------------------------
(* A decoder that stopped has left the core of the items.                  *)
LEMMA StoppedAtCore ==
    ASSUME RadarInv, NEW k \in Radar, phase = "done", ~Misled(k)
    PROVE  LET K == CoreOf(RadarPlaces(k), Items(k))
           IN  /\ dec[k].result = ResultIs(k, Items(k) \ K, Packets(k))
               /\ verdict[k] <=> K = {}
<1> DEFINE P == RadarPlaces(k)
           K == CoreOf(P, Items(k))
<1>1. PICK L : Decoding(k, dec[k], P, Items(k), Packets(k), L, {})
  BY DEF RadarInv, Scanning, DecoderHolds, Pending
<1>2. /\ IsFiniteSet(AllItems(k)) /\ Items(k) \subseteq AllItems(k)
      /\ \A i \in AllItems(k) : P[i] \subseteq Cell /\ P[i] # {}
  BY ItemFacts DEF RadarInv
<1>3. /\ L \subseteq Items(k) /\ K \subseteq L
      /\ Holding(dec[k].cells, P, L, Packets(k))
      /\ dec[k].result = ResultIs(k, Items(k) \ L, Packets(k))
      /\ \A p \in Cell : dec[k].cells[p].count = 1 => p \in {} \cup Range(dec[k].candidate)
  BY <1>1 DEF Decoding
<1>4. dec[k].candidate = <<>> /\ (verdict[k] <=> Success(dec[k]))
  BY DEF RadarInv, Returned
<1>5. \A p \in Cell : dec[k].cells[p].count # 1
  BY <1>3, <1>4 DEF Range
<1>6. IsFiniteSet(L)
  BY <1>2, <1>3, FS_Subset
<1> HIDE DEF P
<1>7. StuckIn(P, L)
  <2> SUFFICES ASSUME NEW e \in L, NEW b \in P[e], \A j \in L \ {e} : b \notin P[j]
               PROVE  FALSE
    BY DEF StuckIn, AloneIn
  <2>1. b \in Cell
    BY <1>2, <1>3
  <2>2. At(P, L, b) = {e}
    BY DEF At
  <2>3. dec[k].cells[b].count = 1
    BY <1>3, <2>1, <2>2, FS_Singleton DEF Holding
  <2> QED
    BY <1>5, <2>1, <2>3
<1>8. L = K
  BY <1>3, <1>7, StuckIsCore
<1>9. Success(dec[k]) <=> L = {}
  <2>1. ASSUME L = {}, NEW p \in Cell PROVE dec[k].cells[p].count = 0
    <3>1. At(P, L, p) = {}
      BY <2>1 DEF At
    <3> QED
      BY <1>3, <3>1, FS_EmptySet DEF Holding
  <2>2. ASSUME NEW e \in L PROVE \E p \in Cell : dec[k].cells[p].count # 0
    <3>1. PICK p \in P[e] : p \in Cell
      BY <1>2, <1>3
    <3>2. e \in At(P, L, p)
      BY DEF At
    <3>3. IsFiniteSet(At(P, L, p))
      BY <1>6, AtFinite
    <3>4. Cardinality(At(P, L, p)) # 0
      BY <3>2, <3>3, FS_EmptySet
    <3> QED
      BY <1>3, <3>1, <3>4 DEF Holding
  <2> QED
    BY <2>1, <2>2 DEF Success
<1> HIDE DEF K
<1> QED
  BY <1>3, <1>4, <1>8, <1>9 DEF K, P

(* FoundIsTrue follows.                                                    *)
LEMMA RadarsFind == RadarInv => FoundIsTrue
<1> SUFFICES ASSUME RadarInv, phase = "done", NEW k \in Radar, ~Misled(k)
             PROVE  /\ dec[k].result =
                         IF k = 3
                         THEN [f \in {i[1] : i \in Items(3) \ Core(3)} |->
                                  Cardinality({i \in Items(3) \ Core(3) : i[1] = f})]
                         ELSE [f \in Items(k) \ Core(k) |-> Count(k, f)]
                    /\ verdict[k] <=> Core(k) = {}
  BY DEF FoundIsTrue, Ended
<1>1. Items(k) \subseteq AllItems(k)
  BY ItemFacts DEF RadarInv
<1>2. Core(k) = CoreOf(RadarPlaces(k), Items(k))
  BY <1>1, CoreIs
<1>3. /\ dec[k].result = ResultIs(k, Items(k) \ Core(k), Packets(k))
      /\ verdict[k] <=> Core(k) = {}
  BY <1>2, StoppedAtCore
<1>4. k # 3 => \A f \in Items(k) : Packets(k)[f] = Count(k, f)
  BY <1>1 DEF Packets
<1>5. k # 3 => [f \in Items(k) \ Core(k) |-> Packets(k)[f]]
                  = [f \in Items(k) \ Core(k) |-> Count(k, f)]
  BY <1>4
<1> QED
  BY <1>3, <1>5 DEF ResultIs, CountsOf

(* A sum of the packets of one flow.                                       *)
LEMMA PacketsOfFlow ==
    ASSUME RadarInv, todo = {}, NEW f \in DOMAIN sent
    PROVE  /\ {i \in Items(3) : i[1] = f} = {f} \X (0..(dropped[f] - 1))
           /\ Cardinality({i \in Items(3) : i[1] = f}) = dropped[f]
<1>1. {i \in Items(3) : i[1] = f} = {f} \X (0..(dropped[f] - 1))
  BY DEF Items
<1>2. dropped[f] \in Nat
  BY ItemFacts DEF RadarInv, Radar
<1>3. PICK m \in Nat : m = dropped[f]
  BY <1>2
<1>4. IsFiniteSet(0..(m - 1)) /\ Cardinality(0..(m - 1)) = m
  <2>1. 0 \in Int /\ m - 1 \in Int
    OBVIOUS
  <2>2. /\ IsFiniteSet(0..(m - 1))
        /\ Cardinality(0..(m - 1)) = IF 0 > m - 1 THEN 0 ELSE (m - 1) - 0 + 1
    BY <2>1, FS_Interval
  <2> QED
    BY <2>2
<1>5. IsFiniteSet({f}) /\ Cardinality({f}) = 1
  BY FS_Singleton
<1>6. Cardinality({f} \X (0..(m - 1))) = 1 * m
  BY <1>4, <1>5, FS_Product
<1>7. {f} \X (0..(dropped[f] - 1)) = {f} \X (0..(m - 1)) /\ 1 * m = dropped[f]
  BY <1>3
<1> QED
  BY <1>1, <1>6, <1>7

(* LossesCredited follows.                                                 *)
LEMMA RadarsCredit == RadarInv => LossesCredited
<1> SUFFICES ASSUME RadarInv, phase = "done", mistaken = {}
             PROVE  /\ \A f \in DOMAIN data.dropped_set :
                          Credited(f) <=> f \in DOMAIN sent \ Core(1)
                    /\ \A f \in DOMAIN data.dropped_set \cap DOMAIN sent :
                          Core(3) = {} => CreditedByLossRadar(f)
                    /\ Cardinality(DOMAIN sent) >= total_sam =>
                          DOMAIN data.dropped_set \subseteq DOMAIN sent
  BY DEF LossesCredited, Ended
<1>1. /\ DataOK /\ todo = {} /\ 1 \in Radar /\ 2 \in Radar /\ 3 \in Radar
      /\ \A k \in Radar : ~Misled(k)
  BY DEF RadarInv, Scanning, Misled, Radar
<1>2. FoundIsTrue
  BY RadarsFind
<1>3. /\ dec[1].result = [f \in Items(1) \ Core(1) |-> Count(1, f)]
      /\ dec[2].result = [f \in Items(2) \ Core(2) |-> Count(2, f)]
      /\ dec[3].result = CountsOf(Items(3) \ Core(3))
  <2>1. ASSUME NEW k \in Radar
        PROVE  dec[k].result = IF k = 3 THEN CountsOf(Items(3) \ Core(3))
                               ELSE [f \in Items(k) \ Core(k) |-> Count(k, f)]
    BY <1>1, <1>2, Zenon DEF FoundIsTrue, Ended, CountsOf
  <2>2. 1 # 3 /\ 2 # 3
    OBVIOUS
  <2> QED
    BY <1>1, <2>1, <2>2, Zenon
<1>4. \A f \in DOMAIN sent : /\ dropped[f] \in Nat /\ dropped[f] <= sent[f]
                             /\ sent[f] \in Nat /\ sent[f] > 0
  BY <1>1, ItemFacts
<1>5. Items(1) = DOMAIN sent /\ Items(2) = {f \in DOMAIN sent : sent[f] - dropped[f] > 0}
  BY <1>1, <1>4 DEF Items, Count
<1>6. Core(2) \subseteq Core(1)
  <2>1. RadarPlaces(1) = RadarPlaces(2)
    BY DEF RadarPlaces, PlacesOf, AllItems
  <2>2. Core(1) = CoreOf(RadarPlaces(1), Items(1)) /\ Core(2) = CoreOf(RadarPlaces(2), Items(2))
    BY <1>1, CoreIs, ItemFacts
  <2>3. Items(2) \subseteq Items(1)
    BY <1>5
  <2> QED
    BY <2>1, <2>2, <2>3, CoreOfPart
<1>7. ASSUME NEW f \in DOMAIN data.dropped_set
      PROVE  Credited(f) <=> f \in DOMAIN sent \ Core(1)
  <2>1. PICK m : m = data.dropped_set[f]
    OBVIOUS
  <2>2. m \in Nat /\ m > 0
    BY <1>1, <2>1 DEF DataOK
  <2>3. f \in DOMAIN sent => dropped[f] = m
    BY <2>1 DEF dropped
  <2>4. /\ f \in DOMAIN dec[1].result <=> f \in DOMAIN sent \ Core(1)
        /\ f \in DOMAIN sent \ Core(1) => dec[1].result[f] = sent[f]
        /\ f \in DOMAIN dec[2].result <=> f \in DOMAIN sent \ Core(2) /\ sent[f] - dropped[f] > 0
        /\ f \in DOMAIN dec[2].result => dec[2].result[f] = sent[f] - dropped[f]
    BY <1>3, <1>5 DEF Count
  <2>5. Credited(f) <=> \/ f \notin DOMAIN dec[2].result /\ Of(dec[1].result, f) = m
                        \/ Of(dec[1].result, f) - Of(dec[2].result, f) = m
    BY <2>1 DEF Credited
  <2>6. CASE f \notin DOMAIN sent
    <3>1. Of(dec[1].result, f) = 0 /\ Of(dec[2].result, f) = 0
      BY <2>4, <2>6 DEF Of
    <3> QED
      BY <2>2, <2>5, <2>6, <3>1
  <2>7. CASE f \in DOMAIN sent /\ f \notin Core(1)
    <3>1. Of(dec[1].result, f) = sent[f] /\ sent[f] \in Nat /\ m <= sent[f]
      BY <1>4, <2>3, <2>4, <2>7 DEF Of
    <3>2. CASE sent[f] - m > 0
      <4>1. Of(dec[2].result, f) = sent[f] - m
        BY <1>6, <2>3, <2>4, <2>7, <3>2 DEF Of
      <4>2. sent[f] - (sent[f] - m) = m
        BY <2>2, <3>1
      <4> QED
        BY <2>5, <2>7, <3>1, <4>1, <4>2
    <3>3. CASE ~(sent[f] - m > 0)
      <4>1. f \notin DOMAIN dec[2].result /\ sent[f] = m
        BY <2>2, <2>3, <2>4, <2>7, <3>1, <3>3
      <4> QED
        BY <2>5, <2>7, <3>1, <4>1
    <3> QED
      BY <3>2, <3>3
  <2>8. CASE f \in DOMAIN sent /\ f \in Core(1)
    <3>1. Of(dec[1].result, f) = 0
      BY <2>4, <2>8 DEF Of
    <3>2. Of(dec[2].result, f) \in Nat
      BY <1>4, <2>3, <2>4, <2>8 DEF Of
    <3> QED
      BY <2>2, <2>5, <2>8, <3>1, <3>2
  <2> QED
    BY <2>6, <2>7, <2>8
<1>8. ASSUME NEW f \in DOMAIN data.dropped_set, f \in DOMAIN sent, Core(3) = {}
      PROVE  CreditedByLossRadar(f)
  <2>1. dropped[f] = data.dropped_set[f] /\ dropped[f] > 0 /\ dropped[f] \in Nat
    BY <1>1, <1>8 DEF dropped, DataOK
  <2>2. dec[3].result = CountsOf(Items(3))
    <3>1. Items(3) \ Core(3) = Items(3)
      BY <1>8
    <3> QED
      BY <1>3, <3>1
  <2>3. /\ {i \in Items(3) : i[1] = f} = {f} \X (0..(dropped[f] - 1))
        /\ Cardinality({i \in Items(3) : i[1] = f}) = dropped[f]
    BY <1>1, <1>8, PacketsOfFlow
  <2>4. f \in {i[1] : i \in Items(3)}
    <3>1. <<f, 0>> \in {f} \X (0..(dropped[f] - 1))
      BY <2>1
    <3> QED
      BY <2>3, <3>1
  <2>5. Of(dec[3].result, f) = dropped[f]
    BY <2>2, <2>3, <2>4 DEF CountsOf, Of
  <2> QED
    BY <2>1, <2>5 DEF CreditedByLossRadar
<1>9. Cardinality(DOMAIN sent) >= total_sam => DOMAIN data.dropped_set \subseteq DOMAIN sent
  BY <1>1 DEF DataOK
<1> QED
  BY <1>7, <1>8, <1>9

-----------------------------------------------------------------------------
(* The steps of Peeling, as a radar takes them.                            *)
LEMMA RadarBegins ==
    ASSUME DataOK, NEW k \in Radar, Items(k) = {}, LeftIn(k) = {}, phase = "insert", ~Misled(k)
    PROVE  Abstract(k)!Init
<1>1. \A i \in AllItems(k) : PlacesOf(k, i) \subseteq Cell
  BY ItemFacts
<1>2. [i \in AllItems(k) |-> PlacesOf(k, i)] \in [AllItems(k) -> SUBSET Cell]
  BY <1>1
<1>3. (phase # "insert") = FALSE /\ (~Misled(k)) = TRUE
  OBVIOUS
<1> QED
  BY <1>2, <1>3 DEF Abstract!Init

LEMMA RadarFills ==
    ASSUME NEW k \in Radar, ~Misled(k), ~Misled(k)', phase = "insert", phase' = "insert",
           RadarPlaces(k)' = RadarPlaces(k), NEW I \in SUBSET AllItems(k),
           Items(k)' = Items(k) \cup I, LeftIn(k)' = LeftIn(k) \cup I
    PROVE  Abstract(k)!Next
<1>1. /\ (phase' # "insert") = (phase # "insert") /\ (~Misled(k)') = (~Misled(k))
      /\ ~(phase # "insert")
  OBVIOUS
<1>2. Abstract(k)!Fill(I)
  BY <1>1 DEF Abstract!Fill, RadarPlaces
<1> QED
  BY <1>2 DEF Abstract!Next

LEMMA RadarCloses ==
    ASSUME NEW k \in Radar, ~Misled(k), ~Misled(k)', phase = "insert", phase' # "insert",
           RadarPlaces(k)' = RadarPlaces(k),
           Items(k)' = Items(k), LeftIn(k)' = LeftIn(k)
    PROVE  Abstract(k)!Next
<1>1. /\ (phase' # "insert") = TRUE /\ (~Misled(k)') = (~Misled(k))
      /\ ~(phase # "insert")
  OBVIOUS
<1>2. Abstract(k)!Close
  BY <1>1 DEF Abstract!Close, RadarPlaces
<1> QED
  BY <1>2 DEF Abstract!Next

LEMMA RadarPeels ==
    ASSUME NEW k \in Radar, ~Misled(k), ~Misled(k)', phase # "insert", phase' # "insert",
           RadarPlaces(k)' = RadarPlaces(k), NEW e \in AllItems(k),
           e \in LeftIn(k), AloneIn(RadarPlaces(k), e, LeftIn(k)),
           Items(k)' = Items(k), LeftIn(k)' = LeftIn(k) \ {e}
    PROVE  Abstract(k)!Next
<1>1. (phase' # "insert") = (phase # "insert") /\ (~Misled(k)') = (~Misled(k))
  OBVIOUS
<1>2. Abstract(k)!Alone(e, LeftIn(k))
  BY DEF Abstract!Alone, AloneIn, RadarPlaces
<1>3. Abstract(k)!Peel(e)
  BY <1>1, <1>2 DEF Abstract!Peel, RadarPlaces
<1> QED
  BY <1>3 DEF Abstract!Next

LEMMA RadarAstray ==
    ASSUME NEW k \in Radar, Misled(k)'
    PROVE  Abstract(k)!Next
<1>1. (~Misled(k)') = FALSE
  OBVIOUS
<1>2. Abstract(k)!GoAstray
  BY <1>1 DEF Abstract!GoAstray
<1> QED
  BY <1>2 DEF Abstract!Next

LEMMA RadarRests ==
    ASSUME NEW k \in Radar, RadarPlaces(k)' = RadarPlaces(k), Items(k)' = Items(k),
           LeftIn(k)' = LeftIn(k), (phase = "insert") <=> (phase' = "insert"),
           Misled(k) <=> Misled(k)'
    PROVE  UNCHANGED Abstract(k)!vars
<1>1. (phase' # "insert") = (phase # "insert") /\ (~Misled(k)') = (~Misled(k))
  OBVIOUS
<1> QED
  BY <1>1 DEF Abstract!vars, RadarPlaces

(* What is left, seen in the cells.                                        *)
LeftKnown ==
    \A k \in Radar : ~Misled(k) =>
        /\ phase = "insert" => LeftIn(k) = Items(k)
        /\ phase # "insert" =>
              \A L : Decoding(k, dec[k], RadarPlaces(k), Items(k), Packets(k), L, Pending(k))
                        => LeftIn(k) = L

LEMMA LeftInIs == RadarInv => LeftKnown
<1> SUFFICES ASSUME RadarInv, NEW k \in Radar, ~Misled(k)
             PROVE  /\ phase = "insert" => LeftIn(k) = Items(k)
                    /\ phase # "insert" =>
                          \A L : Decoding(k, dec[k], RadarPlaces(k), Items(k), Packets(k), L,
                                          Pending(k)) => LeftIn(k) = L
  BY DEF LeftKnown
<1>1. PICK P, I, n : P = RadarPlaces(k) /\ I = Items(k) /\ n = Packets(k)
  OBVIOUS
<1>2. \A i \in I : P[i] = PlacesOf(k, i) /\ P[i] \subseteq Cell /\ P[i] # {}
  BY <1>1, ItemFacts DEF RadarInv
<1>3. LeftIn(k) = LeftOf(IF phase = "insert" THEN radar[k].cells ELSE dec[k].cells, P, I)
  BY <1>1, <1>2 DEF LeftIn, LeftOf
<1>4. ASSUME NEW a, NEW L \in SUBSET I, Holding(a, P, L, n)
      PROVE  LeftOf(a, P, I) = L
  BY <1>2, <1>4, LeftIsHeld
<1>5. CASE phase = "insert"
  <2>1. Holding(radar[k].cells, P, I, n)
    BY <1>1, <1>5 DEF RadarInv, Inserting, RadarHeld
  <2> QED
    BY <1>1, <1>3, <1>4, <1>5, <2>1
<1>6. CASE phase # "insert"
  <2> SUFFICES ASSUME NEW L, Decoding(k, dec[k], P, I, n, L, Pending(k))
               PROVE  LeftIn(k) = L
    BY <1>1, <1>6
  <2>1. L \in SUBSET I /\ Holding(dec[k].cells, P, L, n)
    BY DEF Decoding
  <2> QED
    BY <1>3, <1>4, <1>6, <2>1
<1> QED
  BY <1>5, <1>6

LEMMA MisledStays ==
    ASSUME mistaken \subseteq mistaken', sent' = sent, NEW k, Misled(k)
    PROVE  Misled(k)'
BY DEF Misled

LEMMA LookPeels ==
    ASSUME RadarInv, RadarInv', phase = "scan", NEW k \in Radar, ~Misled(k)',
           UNCHANGED <<setting, todo, radar, mistaken, r, phase, verdict>>,
           \A L : ~Misled(r) /\ Decoding(r, dec[r], RadarPlaces(r), Items(r), Packets(r), L,
                                        Pending(r)) =>
              \E M : /\ M = L \/ \E e \in L : M = L \ {e} /\ AloneIn(RadarPlaces(r), e, L)
                     /\ Decoding(r, dec'[r], RadarPlaces(r), Items(r), Packets(r), M, Pending(r)'),
           \A j \in Radar \ {r} : dec'[j] = dec[j]
    PROVE  [Abstract(k)!Next]_(Abstract(k)!vars)
<1>1. /\ sent' = sent /\ r \in Radar
      /\ \A j \in Radar : /\ RadarPlaces(j)' = RadarPlaces(j) /\ Packets(j)' = Packets(j)
                          /\ Items(j)' = Items(j) /\ Misled(j)' = Misled(j)
  BY SameSetting DEF RadarInv, RadarShape
<1>2. ~Misled(k)
  BY <1>1
<1>3. PICK L : Decoding(k, dec[k], RadarPlaces(k), Items(k), Packets(k), L, Pending(k))
  BY <1>2 DEF RadarInv, Scanning, DecoderHolds
<1>4. LeftIn(k) = L
  BY <1>2, <1>3, LeftInIs DEF LeftKnown
<1>5. ASSUME NEW M,
             Decoding(k, dec'[k], RadarPlaces(k)', Items(k)', Packets(k)', M, Pending(k)')
      PROVE  LeftIn(k)' = M
  <2>1. LeftKnown'
    BY LeftInIs, PTL
  <2>2. phase' # "insert"
    OBVIOUS
  <2> QED
    BY <1>5, <2>1, <2>2 DEF LeftKnown
<1>6. CASE k # r
  <2>1. Pending(k)' = Pending(k) /\ dec'[k] = dec[k]
    BY <1>6 DEF Pending
  <2>2. LeftIn(k)' = L
    BY <1>1, <1>3, <1>5, <2>1
  <2>3. UNCHANGED Abstract(k)!vars
    BY <1>1, <1>4, <2>2, RadarRests
  <2> QED
    BY <2>3
<1>7. CASE k = r
  <2>1. PICK M : /\ M = L \/ \E e \in L : M = L \ {e} /\ AloneIn(RadarPlaces(k), e, L)
                 /\ Decoding(k, dec'[k], RadarPlaces(k), Items(k), Packets(k), M, Pending(k)')
    BY <1>2, <1>3, <1>7
  <2>2. LeftIn(k)' = M
    BY <1>1, <1>5, <2>1
  <2>3. CASE M = L
    <3>1. UNCHANGED Abstract(k)!vars
      BY <1>1, <1>4, <2>2, <2>3, RadarRests
    <3> QED
      BY <3>1
  <2>4. CASE \E e \in L : M = L \ {e} /\ AloneIn(RadarPlaces(k), e, L)
    <3>1. PICK e \in L : M = L \ {e} /\ AloneIn(RadarPlaces(k), e, L)
      BY <2>4
    <3>2. e \in AllItems(k)
      <4>1. Items(k) \subseteq AllItems(k)
        BY ItemFacts DEF RadarInv
      <4> QED
        BY <1>3, <4>1 DEF Decoding
    <3>3. e \in LeftIn(k) /\ AloneIn(RadarPlaces(k), e, LeftIn(k)) /\ LeftIn(k)' = LeftIn(k) \ {e}
      BY <1>4, <2>2, <3>1
    <3>4. phase # "insert" /\ phase' # "insert"
      OBVIOUS
    <3>5. RadarPlaces(k)' = RadarPlaces(k) /\ Items(k)' = Items(k)
      BY <1>1
    <3>6. Abstract(k)!Next
      BY <1>2, <3>2, <3>3, <3>4, <3>5, RadarPeels
    <3> QED
      BY <3>6
  <2> QED
    BY <2>1, <2>3, <2>4
<1> QED
  BY <1>6, <1>7

LEMMA RadarImplements ==
    ASSUME RadarInv, Next, NEW k \in Radar
    PROVE  [Abstract(k)!Next]_(Abstract(k)!vars)
<1>1. RadarInv'
  BY RadarStep
<1>2. CASE Misled(k)'
  BY <1>2, RadarAstray
<1>3. ASSUME ~Misled(k)', NEW f \in todo, Insert(f)
      PROVE  [Abstract(k)!Next]_(Abstract(k)!vars)
  <2>1. ~Misled(k) /\ phase = "insert" /\ phase' = "insert" /\ UNCHANGED setting
    BY <1>3, InsertHeld DEF Insert
  <2>2. RadarPlaces(k)' = RadarPlaces(k) /\ sent' = sent /\ dropped' = dropped
    BY <2>1, SameSetting
  <2>3. LeftIn(k) = Items(k)
    BY <2>1, LeftInIs DEF LeftKnown
  <2>4. LeftIn(k)' = Items(k)'
    <3>1. LeftKnown'
      BY <1>1, LeftInIs, PTL
    <3> QED
      BY <1>3, <2>1, <3>1 DEF LeftKnown
  <2>5. Items(k) \subseteq Items(k)'
    <3>1. DOMAIN sent \ todo \subseteq DOMAIN sent \ todo'
      BY <1>3 DEF Insert
    <3> QED
      BY <2>2, <3>1 DEF Items, Count
  <2>6. Items(k)' \in SUBSET AllItems(k)
    <3>1. (\A j \in Radar : /\ Items(j) \subseteq AllItems(j)
                            /\ \A i \in Items(j) : Packets(j)[i] \in Int)'
      <4>1. DataOK'
        BY <1>1 DEF RadarInv
      <4> QED
        BY <4>1, ItemsTyped, PTL
    <3>2. AllItems(k)' = AllItems(k)
      BY <2>1, SameSetting
    <3> QED
      BY <3>1, <3>2
  <2>7. PICK I : I = Items(k)'
    OBVIOUS
  <2>8. /\ I \in SUBSET AllItems(k) /\ Items(k)' = Items(k) \cup I
        /\ LeftIn(k)' = LeftIn(k) \cup I
    BY <2>3, <2>4, <2>5, <2>6, <2>7
  <2>9. Abstract(k)!Next
    BY <1>3, <2>1, <2>2, <2>8, RadarFills
  <2> QED
    BY <2>9
<1>4. ASSUME ~Misled(k)', BeginDecode
      PROVE  [Abstract(k)!Next]_(Abstract(k)!vars)
  <2>1. /\ phase = "insert" /\ phase' # "insert" /\ Misled(k)' = Misled(k)
        /\ RadarPlaces(k)' = RadarPlaces(k) /\ Items(k)' = Items(k)
        /\ dec'[k].cells = radar[k].cells /\ AllItems(k)' = AllItems(k)
        /\ UNCHANGED setting
    <3>1. dec'[k].cells = radar[k].cells
      <4>1. dec[k] = [cells |-> dec[k].cells, candidate |-> dec[k].candidate,
                      result |-> dec[k].result]
        BY DEF RadarInv, RadarShape
      <4>2. dec'[k] = [dec[k] EXCEPT !.cells = radar[k].cells]
        BY <1>4 DEF BeginDecode
      <4> QED
        BY <4>1, <4>2
    <3>2. /\ phase = "insert" /\ phase' = "scan" /\ UNCHANGED setting
          /\ todo' = todo /\ mistaken' = mistaken
      BY <1>4 DEF BeginDecode
    <3> QED
      BY <3>1, <3>2, SameSetting
  <2>2. LeftIn(k)' = LeftIn(k)
    <3>1. hashes' = hashes
      BY <2>1 DEF setting
    <3>2. \A i : PlacesOf(k, i)' = PlacesOf(k, i)
      BY <3>1 DEF PlacesOf
    <3> QED
      BY <2>1, <3>2 DEF LeftIn
  <2>3. ~Misled(k)
    BY <1>4, <2>1
  <2>4. Abstract(k)!Next
    BY <1>4, <2>1, <2>2, <2>3, RadarCloses
  <2> QED
    BY <2>4
<1>5. ASSUME ~Misled(k)', ScanCell
      PROVE  [Abstract(k)!Next]_(Abstract(k)!vars)
  <2>1. phase = "scan" /\ UNCHANGED <<setting, todo, radar, mistaken, r, phase, verdict>>
    BY <1>5 DEF ScanCell
  <2> QED
    BY <1>1, <1>5, <2>1, ScanStep, LookPeels
<1>6. ASSUME ~Misled(k)', DrainCandidate
      PROVE  [Abstract(k)!Next]_(Abstract(k)!vars)
  <2>1. phase = "scan" /\ UNCHANGED <<setting, todo, radar, mistaken, r, phase, verdict>>
    BY <1>6 DEF DrainCandidate
  <2> QED
    BY <1>1, <1>6, <2>1, DrainStep, LookPeels
<1>7. ASSUME Return
      PROVE  [Abstract(k)!Next]_(Abstract(k)!vars)
  <2>1. /\ phase = "scan" /\ phase' # "insert"
        /\ UNCHANGED <<setting, todo, radar, mistaken, dec>>
    BY <1>7 DEF Return
  <2>2. /\ RadarPlaces(k)' = RadarPlaces(k) /\ Items(k)' = Items(k) /\ Misled(k)' = Misled(k)
        /\ hashes' = hashes
    BY <2>1, SameSetting DEF setting
  <2>3. LeftIn(k)' = LeftIn(k)
    <3>1. \A i : PlacesOf(k, i)' = PlacesOf(k, i)
      BY <2>2 DEF PlacesOf
    <3> QED
      BY <2>1, <2>2, <3>1 DEF LeftIn
  <2>4. UNCHANGED Abstract(k)!vars
    BY <2>1, <2>2, <2>3, RadarRests
  <2> QED
    BY <2>4
<1> QED
  BY <1>2, <1>3, <1>4, <1>5, <1>6, <1>7 DEF Next, Decode

-----------------------------------------------------------------------------
(* The Fermat sketches.  The flows dropped, with what a counter can count: *)
DropsOK ==
    /\ hash \in Hashes
    /\ DOMAIN dropped_set \subseteq IDs
    /\ \A f \in DOMAIN dropped_set : dropped_set[f] \in 1..(CounterSize - 1)

(* What is found of a flow that was not dropped proves that verify was     *)
(* misled before; until then the result counts dropped packets only.       *)
OnlyDropped == ~misled =>
    /\ DOMAIN res \subseteq DOMAIN dropped_set
    /\ \A f \in DOMAIN res : res[f] \in Int

LevelInv ==
    /\ DropsOK /\ row \in Row
    /\ step \in {"insert", "inserted"} => DOMAIN res = {} /\ ~misled
    /\ OnlyDropped

LEMMA DropsShape == CpuInit => DropsOK
<1> SUFFICES ASSUME CpuInit PROVE DropsOK
  OBVIOUS
<1>1. PICK trace \in LoadCAIDA18_32(Len(FlowID), Sizes), n \in DOMAIN FlowID :
          traffic = LoadDataCnt(trace, n)
  BY DEF CpuInit
<1>2. trace \in [1..Len(FlowID) -> Sizes]
  BY DEF LoadCAIDA18_32
<1>3. FlowID \in Seq(IDs) /\ DOMAIN FlowID = 1..Len(FlowID)
  BY CpuFermatAssumption
<1>4. PICK first, S :
          /\ traffic = [flow_set |-> Flows(trace, S),
                        dropped_set |-> Dropped(trace, Sampled(first, Through(trace, n), n), 1, 10)]
          /\ S \subseteq DOMAIN trace
  BY <1>1 DEF LoadDataCnt
<1>5. /\ DOMAIN traffic.flow_set \subseteq 1..Len(FlowID)
      /\ \A i \in DOMAIN traffic.dropped_set :
            traffic.dropped_set[i] = CeilOf(trace[i], 1, 10) /\ CeilOf(trace[i], 1, 10) # 0
  BY <1>2, <1>4 DEF Flows, Dropped
<1>6. ASSUME NEW i \in DOMAIN traffic.dropped_set \cap DOMAIN traffic.flow_set
      PROVE  traffic.dropped_set[i] \in 1..(CounterSize - 1)
  <2>1. trace[i] \in Sizes
    BY <1>2, <1>5
  <2>2. trace[i] \in Nat /\ CeilOf(trace[i], 1, 10) < CounterSize
    BY <2>1, CpuFermatAssumption
  <2>3. CeilOf(trace[i], 1, 10) \in Nat
    BY <2>2 DEF CeilOf
  <2> QED
    BY <1>5, <2>2, <2>3, SketchAssumption
<1> DEFINE D == {FlowID[i] : i \in DOMAIN traffic.dropped_set \cap DOMAIN traffic.flow_set}
<1>7. DOMAIN dropped_set = D
  BY DEF dropped_set
<1>8. D \subseteq IDs
  BY <1>3, <1>5
<1>9. ASSUME NEW f \in D PROVE dropped_set[f] \in 1..(CounterSize - 1)
  <2>1. PICK i \in DOMAIN traffic.dropped_set \cap DOMAIN traffic.flow_set : FlowID[i] = f
    BY <1>9
  <2>2. i \in DOMAIN FlowID
    BY <1>3, <1>5
  <2>3. \A j \in DOMAIN FlowID : FlowID[j] = f => j = i
    BY <2>1, <2>2, CpuFermatAssumption DEF IsInjective
  <2>4. (CHOOSE j \in DOMAIN FlowID : FlowID[j] = f) = i
    BY <2>1, <2>2, <2>3
  <2>5. dropped_set[f] = traffic.dropped_set[CHOOSE j \in DOMAIN FlowID : FlowID[j] = f]
    BY <1>9 DEF dropped_set
  <2> QED
    BY <1>6, <2>4, <2>5
<1>10. hash \in Hashes
  BY DEF CpuInit
<1> HIDE DEF D
<1> QED
  BY <1>7, <1>8, <1>9, <1>10 DEF DropsOK

LEMMA LevelStart == CpuInit => LevelInv
<1> SUFFICES ASSUME CpuInit PROVE LevelInv
  OBVIOUS
<1>1. DropsOK
  BY DropsShape
<1>2. DOMAIN res = {}
  BY DEF CpuInit
<1>3. row \in Row
  BY SketchAssumption DEF CpuInit, Row
<1>4. ~misled
  BY DEF CpuInit
<1> QED
  BY <1>1, <1>2, <1>3, <1>4 DEF LevelInv, OnlyDropped

LEMMA SameDrops ==
    ASSUME UNCHANGED options
    PROVE  dropped_set' = dropped_set /\ (DropsOK => DropsOK') /\ hash' = hash
<1>1. hash' = hash /\ traffic' = traffic
  BY DEF options
<1>2. dropped_set' = dropped_set
  BY <1>1 DEF dropped_set
<1> QED
  BY <1>1, <1>2 DEF DropsOK

(* The signed sum of what was found and what a counter holds.              *)
LEMMA SettledBy ==
    ASSUME NEW t \in Int, NEW g \in Int
    PROVE  /\ AsInt(g + ((t - g) % CounterSize)) \in Int
           /\ (t - AsInt(g + ((t - g) % CounterSize))) % CounterSize = 0
<1>1. CounterSize \in Nat /\ CounterSize > 0
  BY SketchAssumption
<1>2. PICK m \in Nat : m = CounterSize /\ m > 0
  BY <1>1
<1>3. PICK u : u = (t - g) % m
  OBVIOUS
<1>4. u \in 0..(m - 1) /\ \E q \in Int : t - g = q * m + u
  <2>1. t - g = ((t - g) \div m) * m + u /\ (t - g) \div m \in Int /\ u \in 0..(m - 1)
    BY <1>2, <1>3
  <2> QED
    BY <2>1
<1>5. PICK v : v = (g + u) % m
  OBVIOUS
<1>6. v \in 0..(m - 1) /\ \E q \in Int : g + u = q * m + v
  BY <1>2, <1>4, <1>5
<1>7. AsInt(g + u) = v \/ AsInt(g + u) = v - m
  BY <1>2, <1>5 DEF AsInt, Signed
<1>8. PICK q1 \in Int, q2 \in Int : t - g = q1 * m + u /\ g + u = q2 * m + v
  BY <1>4, <1>6
<1>9. t - v = (q1 + q2) * m /\ t - (v - m) = (q1 + q2 + 1) * m
  <2>1. PICK a \in Int, b \in Int : a = q1 * m /\ b = q2 * m
    BY <1>2
  <2>2. (q1 + q2) * m = a + b /\ (q1 + q2 + 1) * m = a + b + m
    BY <1>2, <2>1
  <2>3. t - g = a + u /\ g + u = b + v
    BY <1>8, <2>1
  <2> QED
    BY <1>2, <1>4, <1>6, <2>2, <2>3
<1>10. \A q \in Int : (q * m) % m = 0
  BY <1>2
<1>11. q1 + q2 \in Int /\ q1 + q2 + 1 \in Int
  OBVIOUS
<1>12. (t - v) % m = 0 /\ (t - (v - m)) % m = 0
  BY <1>9, <1>10, <1>11
<1> QED
  BY <1>2, <1>3, <1>6, <1>7, <1>12

Undecoded == {f \in DOMAIN dropped_set : StillThere(f) # 0}

(* Until verify is misled a flow is found where nothing else is left.      *)
LEMMA FoundAlone ==
    ASSUME LevelInv, UNCHANGED options, NEW k \in Row, NEW c, NEW f, NEW q,
           hash[k][f] = c, x[k][c].counter # 0, FindPure(k, c, f, q), ~misled'
    PROVE  /\ f \in Undecoded /\ Undecoded' = Undecoded \ {f} /\ OnlyDropped'
           /\ \A g \in Undecoded \ {f} : hash[k][g] # c
<1>1. ~misled /\ HoldsOnly(k, c, f)
  BY DEF FindPure
<1>2. /\ DOMAIN res \subseteq DOMAIN dropped_set
      /\ \A g \in DOMAIN res : res[g] \in Int
      /\ DOMAIN dropped_set \subseteq IDs
      /\ \A g \in DOMAIN dropped_set : dropped_set[g] \in Int
  BY <1>1 DEF LevelInv, OnlyDropped, DropsOK
<1>3. dropped_set' = dropped_set
  BY SameDrops
<1>4. \A g : Truth(g) \in Int /\ FoundOf(g) \in Int
  BY <1>2 DEF Truth, FoundOf
<1>5. StillThere(f) = x[k][c].counter
  BY <1>1 DEF HoldsOnly
<1>6. f \in DOMAIN dropped_set
  <2>1. f \notin DOMAIN dropped_set => Truth(f) = 0 /\ FoundOf(f) = 0
    BY <1>2 DEF Truth, FoundOf
  <2>2. (0 - 0) % CounterSize = 0
    BY SketchAssumption
  <2> QED
    BY <1>5, <2>1, <2>2 DEF StillThere
<1>7. PICK n : n = AsInt(FoundOf(f) + x[k][c].counter)
  OBVIOUS
<1>8. n \in Int /\ (Truth(f) - n) % CounterSize = 0
  <2>1. PICK t \in Int, g \in Int : t = Truth(f) /\ g = FoundOf(f)
    BY <1>4
  <2>2. n = AsInt(g + ((t - g) % CounterSize))
    BY <1>5, <1>7, <2>1 DEF StillThere
  <2>3. /\ AsInt(g + ((t - g) % CounterSize)) \in Int
        /\ (t - AsInt(g + ((t - g) % CounterSize))) % CounterSize = 0
    BY SettledBy
  <2>4. n \in Int /\ (t - n) % CounterSize = 0
    BY <2>2, <2>3
  <2> QED
    BY <2>1, <2>4
<1>9. res' = [g \in {f} \cup DOMAIN res |-> IF g = f THEN n ELSE res[g]]
  BY <1>7 DEF FindPure, Entered
<1>10. \A g : FoundOf(g)' = IF g = f THEN n ELSE FoundOf(g)
  BY <1>9 DEF FoundOf
<1>11. \A g : Truth(g)' = Truth(g)
  BY <1>3 DEF Truth
<1>12. \A g : StillThere(g)' = IF g = f THEN 0 ELSE StillThere(g)
  BY <1>8, <1>10, <1>11 DEF StillThere
<1>13. Undecoded' = Undecoded \ {f}
  BY <1>3, <1>12 DEF Undecoded
<1>14. f \in Undecoded
  BY <1>5, <1>6 DEF Undecoded
<1>15. OnlyDropped'
  BY <1>2, <1>3, <1>6, <1>8, <1>9 DEF OnlyDropped
<1>16. \A g \in Undecoded \ {f} : hash[k][g] # c
  BY <1>1, <1>2 DEF HoldsOnly, Undecoded
<1> QED
  BY <1>13, <1>14, <1>15, <1>16

(* The steps of Peeling, as a Fermat sketch takes them.                    *)
LEMMA LevelAstray == misled' => Peel!Next
<1> SUFFICES ASSUME misled' PROVE Peel!Next
  OBVIOUS
<1>1. (~misled') = FALSE
  OBVIOUS
<1>2. Peel!GoAstray
  BY <1>1 DEF Peel!GoAstray
<1> QED
  BY <1>2 DEF Peel!Next

LEMMA LevelRests ==
    ASSUME UNCHANGED options, (step = "insert") <=> (step' = "insert"),
           step \in {"insert", "inserted"} <=> step' \in {"insert", "inserted"},
           \A f : FoundOf(f)' = FoundOf(f), misled <=> misled'
    PROVE  UNCHANGED Peel!vars
<1>1. dropped_set' = dropped_set /\ hash' = hash
  BY SameDrops
<1>2. \A f : StillThere(f)' = StillThere(f)
  BY <1>1 DEF StillThere, Truth
<1>3. /\ (step' \notin {"insert", "inserted"}) = (step \notin {"insert", "inserted"})
      /\ (~misled') = (~misled)
  OBVIOUS
<1> QED
  BY <1>1, <1>2, <1>3 DEF Peel!vars

LEMMA LevelPeels ==
    ASSUME UNCHANGED options, NEW f \in IDs, f \in Undecoded, Undecoded' = Undecoded \ {f},
           NEW k \in Row, \A g \in Undecoded \ {f} : hash[k][g] # hash[k][f],
           DropsOK, ~misled, ~misled', step \notin {"insert", "inserted"},
           step' \notin {"insert", "inserted"}
    PROVE  Peel!Next
<1>1. dropped_set' = dropped_set /\ hash' = hash
  BY SameDrops
<1>2. /\ (step' \notin {"insert", "inserted"}) = (step \notin {"insert", "inserted"})
      /\ (~misled') = (~misled) /\ step # "insert" /\ step' # "insert"
  OBVIOUS
<1>3. Undecoded \subseteq IDs
  BY DEF Undecoded, DropsOK
<1>4. Peel!Alone(f, Undecoded)
  <2> DEFINE place == [g \in IDs |-> {<<j, hash[j][g]>> : j \in Row}]
  <2>1. <<k, hash[k][f]>> \in place[f]
    OBVIOUS
  <2>2. \A g \in Undecoded \ {f} : <<k, hash[k][f]>> \notin place[g]
    BY <1>3
  <2> QED
    BY <2>1, <2>2 DEF Peel!Alone
<1>5. Peel!Peel(f)
  BY <1>1, <1>2, <1>4 DEF Peel!Peel, Undecoded
<1> QED
  BY <1>5 DEF Peel!Next

(* One look at a bucket: either a flow that is alone is taken out, or the  *)
(* sketch goes astray, or nothing changes.                                 *)
LEMMA LevelLooks ==
    ASSUME LevelInv, UNCHANGED options, NEW k \in Row, NEW c, NEW q, LookAtBucket(k, c, q),
           step \notin {"insert", "inserted"}, step' \notin {"insert", "inserted"}
    PROVE  OnlyDropped' /\ [Peel!Next]_(Peel!vars)
<1> DEFINE f == FlowOf(SoleID(x[k][c]))
<1>1. CASE misled'
  BY <1>1, LevelAstray DEF OnlyDropped
<1>2. CASE ~misled' /\ UNCHANGED <<res, misled>>
  <2>1. \A g : FoundOf(g)' = FoundOf(g)
    BY <1>2 DEF FoundOf
  <2>2. UNCHANGED Peel!vars
    BY <1>2, <2>1, LevelRests
  <2>3. dropped_set' = dropped_set
    BY SameDrops
  <2>4. OnlyDropped'
    BY <1>2, <2>3 DEF LevelInv, OnlyDropped
  <2> QED
    BY <2>2, <2>4
<1>3. CASE ~misled' /\ FindPure(k, c, f, q) /\ Plausible(k, c)
  <2>1. x[k][c].counter # 0 /\ hash[k][f] = c
    BY <1>3 DEF Plausible
  <2>2. /\ f \in Undecoded /\ Undecoded' = Undecoded \ {f} /\ OnlyDropped'
        /\ \A g \in Undecoded \ {f} : hash[k][g] # c
    <3> HIDE DEF f
    <3> QED
      BY <1>3, <2>1, FoundAlone
  <2>3. DropsOK /\ ~misled
    BY <1>3 DEF LevelInv, FindPure
  <2>4. f \in IDs
    BY <2>2, <2>3 DEF Undecoded, DropsOK
  <2>5. Peel!Next
    <3> HIDE DEF f
    <3> QED
      BY <1>3, <2>1, <2>2, <2>3, <2>4, LevelPeels
  <2> QED
    BY <2>2, <2>5
<1>4. \/ misled' \/ UNCHANGED <<res, misled>>
      \/ FindPure(k, c, f, q) /\ Plausible(k, c)
  BY DEF LookAtBucket
<1> HIDE DEF f
<1> QED
  BY <1>1, <1>2, <1>3, <1>4

LEMMA LevelFills ==
    ASSUME LevelInv, InsertFlows
    PROVE  LevelInv' /\ Peel!Next
<1>1. /\ UNCHANGED <<options, res, misled, row>> /\ step = "insert" /\ step' = "inserted"
      /\ DOMAIN res = {} /\ ~misled
  BY DEF InsertFlows, LevelInv
<1>2. dropped_set' = dropped_set /\ hash' = hash /\ DropsOK'
  BY <1>1, SameDrops DEF LevelInv
<1>3. LevelInv'
  BY <1>1, <1>2 DEF LevelInv, OnlyDropped
<1>4. ASSUME NEW f \in DOMAIN dropped_set
      PROVE  StillThere(f)' # 0
  <2>1. dropped_set[f] \in 1..(CounterSize - 1)
    BY DEF LevelInv, DropsOK
  <2>2. Truth(f)' = dropped_set[f] /\ FoundOf(f)' = 0
    BY <1>1, <1>2 DEF Truth, FoundOf
  <2>3. PICK n \in 1..(CounterSize - 1) : n = dropped_set[f]
    BY <2>1
  <2>4. (n - 0) % CounterSize = n
    BY SketchAssumption
  <2>5. StillThere(f)' = (n - 0) % CounterSize
    BY <2>2, <2>3 DEF StillThere
  <2> QED
    BY <2>4, <2>5
<1>5. {f \in DOMAIN dropped_set : StillThere(f) # 0}' = DOMAIN dropped_set
  BY <1>2, <1>4
<1>6. /\ (step' \notin {"insert", "inserted"}) = FALSE
      /\ (step \notin {"insert", "inserted"}) = FALSE
      /\ (~misled') = (~misled) /\ step' # "insert"
  BY <1>1
<1>7. DOMAIN dropped_set \in SUBSET IDs
  BY DEF LevelInv, DropsOK
<1>8. Peel!Fill(DOMAIN dropped_set)
  BY <1>1, <1>2, <1>5, <1>6 DEF Peel!Fill
<1> QED
  BY <1>3, <1>7, <1>8 DEF Peel!Next

LEMMA LevelCloses ==
    ASSUME LevelInv, BeginDecoding
    PROVE  LevelInv' /\ Peel!Next
<1>1. /\ UNCHANGED <<options, res, misled, row>> /\ step = "inserted" /\ step' = "scan"
      /\ ~misled
  BY DEF BeginDecoding, LevelInv, found
<1>2. dropped_set' = dropped_set /\ hash' = hash /\ DropsOK'
  BY <1>1, SameDrops DEF LevelInv
<1>3. LevelInv'
  BY <1>1, <1>2 DEF LevelInv, OnlyDropped
<1>4. \A f : StillThere(f)' = StillThere(f)
  BY <1>1, <1>2 DEF StillThere, Truth, FoundOf
<1>5. /\ (step' \notin {"insert", "inserted"}) = TRUE
      /\ (step \notin {"insert", "inserted"}) = FALSE
      /\ (~misled') = (~misled) /\ step # "insert" /\ step' # "insert"
  BY <1>1
<1>6. Peel!Close
  BY <1>1, <1>2, <1>4, <1>5 DEF Peel!Close
<1> QED
  BY <1>3, <1>6 DEF Peel!Next

LEMMA LevelDecodes ==
    ASSUME LevelInv, DecodeFlows
    PROVE  LevelInv' /\ [Peel!Next]_(Peel!vars)
<1>1. /\ UNCHANGED options
      /\ step \notin {"insert", "inserted"} /\ step' \notin {"insert", "inserted"}
  BY DEF DecodeFlows, FirstRound, TakeCandidate, NextCandidates, Erase
<1>2. DropsOK'
  BY <1>1, SameDrops DEF LevelInv
<1>3. row' \in Row
  <2>1. row \in Row /\ Rows \in Nat \ {0}
    BY SketchAssumption DEF LevelInv
  <2>2. row' = row \/ row' = 0 \/ (row < Rows - 1 /\ row' = row + 1)
    BY DEF DecodeFlows, FirstRound, TakeCandidate, NextCandidates, Erase
  <2> QED
    BY <2>1, <2>2 DEF Row
<1>4. OnlyDropped' /\ [Peel!Next]_(Peel!vars)
  <2>0. row \in Row
    BY DEF LevelInv
  <2>1. CASE FirstRound
    BY <1>1, <2>0, <2>1, LevelLooks DEF FirstRound
  <2>2. CASE TakeCandidate
    BY <1>1, <2>0, <2>2, LevelLooks DEF TakeCandidate
  <2>3. CASE NextCandidates
    <3>1. UNCHANGED <<res, misled>>
      BY <2>3 DEF NextCandidates, found
    <3>2. \A f : FoundOf(f)' = FoundOf(f)
      BY <3>1 DEF FoundOf
    <3>3. UNCHANGED Peel!vars
      BY <1>1, <3>1, <3>2, LevelRests
    <3>4. OnlyDropped'
      BY <1>1, <3>1, SameDrops DEF LevelInv, OnlyDropped
    <3> QED
      BY <3>3, <3>4
  <2>4. CASE Erase
    <3>1. PICK kept \in SUBSET {f \in DOMAIN res : res[f] = 0} :
              res' = Restrict(res, kept \cup {f \in DOMAIN res : res[f] # 0})
      BY <2>4 DEF Erase
    <3>2. PICK K : K = kept \cup {f \in DOMAIN res : res[f] # 0}
      OBVIOUS
    <3>3. /\ res' = [f \in K |-> res[f]] /\ K \subseteq DOMAIN res
          /\ \A f \in DOMAIN res \ K : res[f] = 0
      BY <3>1, <3>2 DEF Restrict
    <3>4. \A f : FoundOf(f)' = FoundOf(f)
      BY <3>3 DEF FoundOf
    <3>5. misled' = misled
      BY <2>4 DEF Erase
    <3>6. UNCHANGED Peel!vars
      BY <1>1, <3>4, <3>5, LevelRests
    <3>7. OnlyDropped'
      BY <1>1, <3>3, <3>5, SameDrops DEF LevelInv, OnlyDropped
    <3> QED
      BY <3>6, <3>7
  <2> QED
    BY <2>1, <2>2, <2>3, <2>4 DEF DecodeFlows
<1> QED
  BY <1>1, <1>2, <1>3, <1>4 DEF LevelInv

LEMMA LevelStep ==
    ASSUME LevelInv, [CpuNext]_cpu_vars
    PROVE  LevelInv' /\ [Peel!Next]_(Peel!vars)
<1>1. CASE InsertFlows
  BY <1>1, LevelFills
<1>2. CASE BeginDecoding
  BY <1>2, LevelCloses
<1>3. CASE DecodeFlows
  BY <1>3, LevelDecodes
<1>4. CASE UNCHANGED cpu_vars
  <2>1. UNCHANGED <<options, res, misled, row, step>>
    BY <1>4 DEF cpu_vars, found
  <2>2. \A f : FoundOf(f)' = FoundOf(f)
    BY <2>1 DEF FoundOf
  <2>3. UNCHANGED Peel!vars
    BY <2>1, <2>2, LevelRests
  <2>4. LevelInv'
    BY <2>1, SameDrops DEF LevelInv, OnlyDropped
  <2> QED
    BY <2>3, <2>4
<1> QED
  BY <1>1, <1>2, <1>3, <1>4 DEF CpuNext

LEMMA LevelBegins == CpuInit => Peel!Init
<1> SUFFICES ASSUME CpuInit PROVE Peel!Init
  OBVIOUS
<1>1. step = "insert" /\ ~misled
  BY DEF CpuInit
<1>2. \A f \in IDs, k \in Row : hash[k][f] \in Col
  BY CpuFermatAssumption DEF CpuInit
<1>3. [f \in IDs |-> {<<k, hash[k][f]>> : k \in Row}] \in [IDs -> SUBSET (Row \X Col)]
  BY <1>2
<1>4. (step \notin {"insert", "inserted"}) = FALSE /\ (~misled) = TRUE
  BY <1>1
<1> QED
  BY <1>1, <1>3, <1>4 DEF Peel!Init

-----------------------------------------------------------------------------
(* Whichever test runs.                                                    *)
TestInv ==
    /\ program \in {"full_flow_test", "full_flow_test_level"}
    /\ IF Level THEN LevelInv ELSE RadarInv

PeelingStep ==
    IF Level THEN [Peel!Next]_(Peel!vars)
    ELSE \A k \in Radar : [Abstract(k)!Next]_(Abstract(k)!vars)

LEMMA TestStart == TestInit => TestInv
<1> SUFFICES ASSUME TestInit PROVE TestInv
  OBVIOUS
<1>1. \/ program = "full_flow_test" /\ Init
      \/ program = "full_flow_test_level" /\ CpuInit
  BY DEF TestInit
<1>2. CASE program = "full_flow_test" /\ Init
  BY <1>2, RadarStart DEF TestInv, Level
<1>3. CASE program = "full_flow_test_level" /\ CpuInit
  BY <1>3, LevelStart DEF TestInv, Level
<1> QED
  BY <1>1, <1>2, <1>3

LEMMA TestStep == TestInv /\ [TestNext]_test_vars => TestInv' /\ PeelingStep
<1> SUFFICES ASSUME TestInv, [TestNext]_test_vars PROVE TestInv' /\ PeelingStep
  OBVIOUS
<1>1. CASE Level
  <2>1. program' = program /\ [CpuNext]_cpu_vars
    BY <1>1 DEF TestNext, FlowTest, LevelTest, Level, test_vars
  <2>2. LevelInv' /\ [Peel!Next]_(Peel!vars)
    BY <1>1, <2>1, LevelStep DEF TestInv
  <2> QED
    BY <1>1, <2>1, <2>2 DEF TestInv, Level, PeelingStep
<1>2. CASE ~Level
  <2>1. program' = program /\ [Next]_vars
    BY <1>2 DEF TestNext, FlowTest, LevelTest, Level, TestInv, test_vars
  <2>2. RadarInv'
    BY <1>2, <2>1, RadarStep DEF TestInv
  <2>3. ASSUME NEW k \in Radar
        PROVE  [Abstract(k)!Next]_(Abstract(k)!vars)
    <3>1. CASE Next
      BY <1>2, <3>1, RadarImplements DEF TestInv
    <3>2. CASE UNCHANGED vars
      <4>1. UNCHANGED <<data, hashes, todo, radar, mistaken, r, phase, at, dec>>
        BY <3>2 DEF vars, setting
      <4>2. /\ RadarPlaces(k)' = RadarPlaces(k) /\ Items(k)' = Items(k)
            /\ Misled(k)' = Misled(k) /\ \A i : PlacesOf(k, i)' = PlacesOf(k, i)
        BY <1>2, <4>1, SameSetting DEF TestInv, RadarInv, setting, PlacesOf
      <4>3. LeftIn(k)' = LeftIn(k)
        BY <4>1, <4>2 DEF LeftIn
      <4>4. UNCHANGED Abstract(k)!vars
        BY <4>1, <4>2, <4>3, RadarRests
      <4> QED
        BY <4>4
    <3> QED
      BY <2>1, <3>1, <3>2
  <2> QED
    BY <1>2, <2>1, <2>2, <2>3 DEF TestInv, Level, PeelingStep
<1> QED
  BY <1>1, <1>2

(* The invariant holds of both tests, in every state.                      *)
THEOREM TestInvariant == TestSpec => []TestInv
<1>1. TestInit => TestInv
  BY TestStart
<1>2. TestInv /\ [TestNext]_test_vars => TestInv'
  BY TestStep
<1> QED
  BY <1>1, <1>2, PTL DEF TestSpec

(* The decoders of the XOR sketches find all items outside the core, with  *)
(* their packets, whatever the order in which they go back to cells, and   *)
(* the comparison credits exactly the flows outside the core: for every    *)
(* trace, every number of cells, all hash functions and filters.           *)
THEOREM RadarsFindAllHolds == TestSpec => []RadarsFindAll
<1>1. TestInv => RadarsFindAll
  BY RadarsFind, RadarsCredit DEF TestInv, RadarsFindAll
<1> QED
  BY <1>1, TestInvariant, PTL

(* All four sketches fill and peel as Peeling says until something misled  *)
(* them: what is still in a sketch shrinks by one item that is alone in a  *)
(* bucket, and by nothing else.                                            *)
THEOREM PeelingImplemented == TestSpec => ImplementsPeeling
<1>1. TestInit => IF Level THEN Peel!Init ELSE \A k \in Radar : Abstract(k)!Init
  <2> SUFFICES ASSUME TestInit
               PROVE  IF Level THEN Peel!Init ELSE \A k \in Radar : Abstract(k)!Init
    OBVIOUS
  <2>1. CASE Level
    <3>1. CpuInit
      BY <2>1 DEF TestInit, Level
    <3> QED
      BY <2>1, <3>1, LevelBegins
  <2>2. CASE ~Level
    <3>1. Init
      BY <2>2 DEF TestInit, Level
    <3>2. DataOK /\ phase = "insert" /\ todo = DOMAIN sent /\ mistaken = {}
      BY <3>1, DataShape DEF Init, sent
    <3>3. ASSUME NEW k \in Radar
          PROVE  Abstract(k)!Init
      <4>1. Items(k) = {} /\ ~Misled(k)
        BY <3>2 DEF Items, Misled
      <4>2. LeftIn(k) = {}
        BY <4>1 DEF LeftIn
      <4> QED
        BY <3>2, <4>1, <4>2, RadarBegins
    <3> QED
      BY <2>2, <3>3
  <2> QED
    BY <2>1, <2>2
<1>2. TestInv /\ [TestNext]_test_vars =>
          [IF Level THEN [Peel!Next]_(Peel!vars)
           ELSE \A k \in Radar : [Abstract(k)!Next]_(Abstract(k)!vars)]_test_vars
  BY TestStep DEF PeelingStep
<1> QED
  BY <1>1, <1>2, TestInvariant, PTL DEF TestSpec, ImplementsPeeling
=============================================================================
