-------------------------- MODULE CpuSketches_proofs --------------------------
(***************************************************************************)
(* Count-Min, conservative update and the tower never answer with less     *)
(* than they counted, for every number and size of rows, every set of      *)
(* flows, every trace and all hash functions.                              *)
(*                                                                         *)
(* And the peeling that the loss sketches implement, for every set of      *)
(* items, buckets and placement: however items are put in and in whatever  *)
(* order they are taken out, what cannot be decoded is the core.           *)
(***************************************************************************)
EXTENDS CounterSketches, Peeling, WellFoundedInduction, TLAPS

CONSTANT Flow

VARIABLES
    hash,          \* the hash function of each row
    sketch,
    true_freq      \* the packets that the sketch has counted of each flow

sketchVars == <<hash, sketch, true_freq>>

(* The programs count packet by packet, in the order of the trace.         *)
Begin(empty) ==
    /\ hash \in [Row -> [Flow -> 0..(Width - 1)]]
    /\ sketch = empty
    /\ true_freq = [f \in Flow |-> 0]

(* A packet of f more.                                                     *)
OneMore(n, f) == [n EXCEPT ![f] = @ + 1]

CountedCM(f) ==
    /\ sketch' = CMInsert(sketch, hash, f)
    /\ true_freq' = OneMore(true_freq, f) /\ UNCHANGED hash

CountedCU(f) ==
    /\ sketch' = CUInsert(sketch, hash, f)
    /\ true_freq' = OneMore(true_freq, f) /\ UNCHANGED hash

(* The tower has two rows, and the Fermat sketch behind it.                *)
BeginTower ==
    /\ hash \in [0..1 -> [Flow -> 0..(Width - 1)]]
    /\ \E type \in {"CM", "CU"} : sketch = FTEmpty(type)
    /\ true_freq = [f \in Flow |-> 0]

CountedTower(f) ==
    /\ sketch' = FTInsert(sketch, hash, f)
    /\ true_freq' = OneMore(true_freq, f) /\ UNCHANGED hash

TowerSpec == BeginTower /\ [][\E f \in Flow : CountedTower(f)]_sketchVars
CMSpec == Begin(CMEmpty) /\ [][\E f \in Flow : CountedCM(f)]_sketchVars
CUSpec == Begin(CMEmpty.rows) /\ [][\E f \in Flow : CountedCU(f)]_sketchVars
-----------------------------------------------------------------------------
HashOf(h, F) == h \in [Row -> [F -> 0..(Width - 1)]]
Counts(rows) == rows \in [Row -> [0..(Width - 1) -> Nat]]

(* The inductive invariant of both: each counter of a flow, not only the   *)
(* smallest, has at least the flow's packets.                              *)
Covers(rows, h, n) == \A i \in Row, g \in DOMAIN n : n[g] <= rows[i][h[i][g]]

(* What the sketches promise: the query does not underestimate.            *)
NeverUnder(rows, h, n) == \A g \in DOMAIN n : n[g] <= Smallest(rows, h, g)
-----------------------------------------------------------------------------
(* A set of naturals has a least member, which Min picks.                  *)
LEMMA MinIsLeast ==
    ASSUME NEW S \in SUBSET Nat, S # {}
    PROVE  Min(S) \in S /\ \A y \in S : Min(S) <= y
<1>1. PICK x \in S : \A y \in S : <<y, x>> \notin OpToRel(<, Nat)
  BY NatLessThanWellFounded, WFMin
<1>2. \A y \in S : x <= y
  <2> TAKE y \in S
  <2>1. x \in Nat /\ y \in Nat
    OBVIOUS
  <2>2. ~(y < x)
    BY <1>1, <2>1 DEF OpToRel
  <2> QED
    BY <2>1, <2>2
<1> QED
  BY <1>2 DEF Min

(* The query is one of the flow's counters and none of them is smaller.    *)
LEMMA SmallestIsLeast ==
    ASSUME NEW F, NEW h, HashOf(h, F), NEW rows, Counts(rows), NEW g \in F
    PROVE  /\ \E i \in Row : Smallest(rows, h, g) = rows[i][h[i][g]]
           /\ \A i \in Row : Smallest(rows, h, g) <= rows[i][h[i][g]]
           /\ Smallest(rows, h, g) \in Nat
<1> DEFINE S == {rows[i][h[i][g]] : i \in Row}
<1>1. \A i \in Row : rows[i][h[i][g]] \in Nat
  BY DEF HashOf, Counts
<1>2. 0 \in Row
  BY CounterAssumption DEF Row
<1>3. S \in SUBSET Nat /\ S # {}
  BY <1>1, <1>2
<1>4. Min(S) \in S /\ \A y \in S : Min(S) <= y
  BY <1>3, MinIsLeast
<1> QED
  BY <1>3, <1>4 DEF Smallest

LEMMA CoversIsEnough ==
    ASSUME NEW F, NEW h, HashOf(h, F), NEW rows, Counts(rows),
           NEW n \in [F -> Nat], Covers(rows, h, n)
    PROVE  NeverUnder(rows, h, n)
<1> SUFFICES ASSUME NEW g \in F PROVE n[g] <= Smallest(rows, h, g)
  BY DEF NeverUnder
<1>1. PICK i \in Row : Smallest(rows, h, g) = rows[i][h[i][g]]
  BY SmallestIsLeast
<1> QED
  BY <1>1 DEF Covers

(* An insert that lowers no counter, and after which the counters of f     *)
(* have one packet more, keeps every flow covered.                         *)
LEMMA RaisingCovers ==
    ASSUME NEW F, NEW h, HashOf(h, F), NEW rows, Counts(rows), NEW after, Counts(after),
           NEW n \in [F -> Nat], Covers(rows, h, n), NEW f \in F,
           \A i \in Row, c \in 0..(Width - 1) : rows[i][c] <= after[i][c],
           \A i \in Row : n[f] + 1 <= after[i][h[i][f]]
    PROVE  Covers(after, h, OneMore(n, f)) /\ OneMore(n, f) \in [F -> Nat]
<1>1. OneMore(n, f) \in [F -> Nat]
  BY DEF OneMore
<1>2. ASSUME NEW i \in Row, NEW g \in F
      PROVE  OneMore(n, f)[g] <= after[i][h[i][g]]
  <2>1. h[i][g] \in 0..(Width - 1)
    BY DEF HashOf
  <2>2. rows[i][h[i][g]] \in Nat /\ after[i][h[i][g]] \in Nat /\ n[g] \in Nat
    BY <2>1 DEF Counts
  <2>3. n[g] <= rows[i][h[i][g]]
    BY DEF Covers
  <2>4. rows[i][h[i][g]] <= after[i][h[i][g]]
    BY <2>1
  <2>5. CASE g = f
    BY <2>5 DEF OneMore
  <2>6. CASE g # f
    BY <2>2, <2>3, <2>4, <2>6 DEF OneMore
  <2> QED
    BY <2>5, <2>6
<1> QED
  BY <1>1, <1>2 DEF Covers
-----------------------------------------------------------------------------
LEMMA RaiseRaises ==
    ASSUME NEW row \in [0..(Width - 1) -> Nat], NEW c \in 0..(Width - 1)
    PROVE  /\ Raise(row, c) \in [0..(Width - 1) -> Nat]
           /\ \A d \in 0..(Width - 1) : row[d] <= Raise(row, c)[d]
           /\ Raise(row, c)[c] = row[c] + 1
BY DEF Raise

LEMMA AllRowsRaised ==
    ASSUME NEW F, NEW h, HashOf(h, F), NEW rows, Counts(rows), NEW f \in F,
           NEW n \in [F -> Nat], Covers(rows, h, n),
           NEW after, after = [i \in Row |-> Raise(rows[i], h[i][f])]
    PROVE  /\ Counts(after)
           /\ Covers(after, h, OneMore(n, f))
           /\ OneMore(n, f) \in [F -> Nat]
<1>1. \A i \in Row : h[i][f] \in 0..(Width - 1) /\ rows[i] \in [0..(Width - 1) -> Nat]
  BY DEF HashOf, Counts
<1>2. \A i \in Row : after[i] = Raise(rows[i], h[i][f])
  OBVIOUS
<1>3. Counts(after)
  BY <1>1, RaiseRaises DEF Counts
<1>4. \A i \in Row, c \in 0..(Width - 1) : rows[i][c] <= after[i][c]
  BY <1>1, <1>2, RaiseRaises
<1>5. ASSUME NEW i \in Row PROVE n[f] + 1 <= after[i][h[i][f]]
  <2>1. after[i][h[i][f]] = rows[i][h[i][f]] + 1
    BY <1>1, <1>2, RaiseRaises
  <2>2. n[f] <= rows[i][h[i][f]] /\ n[f] \in Nat /\ rows[i][h[i][f]] \in Nat
    BY <1>1 DEF Covers
  <2> QED
    BY <2>1, <2>2
<1> QED
  BY <1>3, <1>4, <1>5, RaisingCovers

CMInv ==
    /\ HashOf(hash, Flow) /\ Counts(sketch.rows) /\ true_freq \in [Flow -> Nat]
    /\ Covers(sketch.rows, hash, true_freq)
    /\ \A f \in Flow : true_freq[f] > HH_THRESHOLD => f \in sketch.heavy

LEMMA CMInvInit == Begin(CMEmpty) => CMInv
<1> SUFFICES ASSUME Begin(CMEmpty) PROVE CMInv
  OBVIOUS
<1>1. sketch.rows = [i \in Row |-> Zeros] /\ HashOf(hash, Flow)
  BY DEF Begin, CMEmpty, HashOf
<1>2. true_freq = [f \in Flow |-> 0]
  BY DEF Begin
<1>3. Counts(sketch.rows)
  BY <1>1 DEF Counts, Zeros
<1>4. Covers(sketch.rows, hash, true_freq)
  BY <1>1, <1>2 DEF Covers, Zeros, HashOf
<1>5. \A f \in Flow : ~(true_freq[f] > HH_THRESHOLD)
  BY <1>2, CounterAssumption
<1> QED
  BY <1>1, <1>2, <1>3, <1>4, <1>5 DEF CMInv

LEMMA CMInvStep == CMInv /\ [\E f \in Flow : CountedCM(f)]_sketchVars => CMInv'
<1>1. ASSUME CMInv, NEW f \in Flow, CountedCM(f)
      PROVE  CMInv'
  <2> DEFINE after == [i \in Row |-> Raise(sketch.rows[i], hash[i][f])]
  <2>1. /\ sketch'.rows = after
        /\ sketch'.heavy = sketch.heavy
              \cup {g \in {f} : Smallest(after, hash, g) > HH_THRESHOLD}
    BY <1>1 DEF CountedCM, CMInsert
  <2>2. true_freq' = OneMore(true_freq, f) /\ hash' = hash
    BY <1>1 DEF CountedCM
  <2>7. /\ Counts(after) /\ Covers(after, hash, OneMore(true_freq, f))
        /\ OneMore(true_freq, f) \in [Flow -> Nat]
    BY <1>1, AllRowsRaised DEF CMInv
  <2> HIDE DEF after
  <2>8. NeverUnder(after, hash, OneMore(true_freq, f)) /\ Smallest(after, hash, f) \in Nat
    BY <1>1, <2>7, CoversIsEnough, SmallestIsLeast DEF CMInv
  <2>9. ASSUME NEW g \in Flow, OneMore(true_freq, f)[g] > HH_THRESHOLD
        PROVE  g \in sketch'.heavy
    <3>1. CASE g = f
      <4>1. OneMore(true_freq, f)[f] <= Smallest(after, hash, f)
        BY <2>7, <2>8 DEF NeverUnder
      <4>2. Smallest(after, hash, f) > HH_THRESHOLD
        BY <4>1, <2>7, <2>8, <2>9, <3>1, CounterAssumption
      <4> QED
        BY <4>2, <3>1, <2>1
    <3>2. CASE g # f
      BY <1>1, <2>1, <2>9, <3>2 DEF CMInv, OneMore
    <3> QED
      BY <3>1, <3>2
  <2> QED
    BY <1>1, <2>1, <2>2, <2>7, <2>9 DEF CMInv
<1>2. CMInv /\ UNCHANGED sketchVars => CMInv'
  BY DEF CMInv, sketchVars
<1> QED
  BY <1>1, <1>2

(* CM.h: no query is too low, and no flow above the threshold is missing   *)
(* from the heavy ones: EstimatesBounded's part for CM.                    *)
THEOREM CMNeverUnderestimates ==
    CMSpec => [](/\ NeverUnder(sketch.rows, hash, true_freq)
                 /\ \A f \in Flow : true_freq[f] > HH_THRESHOLD => f \in sketch.heavy)
<1>1. CMInv => /\ NeverUnder(sketch.rows, hash, true_freq)
               /\ \A f \in Flow : true_freq[f] > HH_THRESHOLD => f \in sketch.heavy
  BY CoversIsEnough DEF CMInv
<1> QED
  BY <1>1, CMInvInit, CMInvStep, PTL DEF CMSpec
-----------------------------------------------------------------------------
LEMMA MaxIsGreater ==
    ASSUME NEW a \in Nat, NEW b \in Nat
    PROVE  Max({a, b}) \in Nat /\ a <= Max({a, b}) /\ b <= Max({a, b})
<1>1. \E x \in {a, b} : \A y \in {a, b} : x >= y
  <2>1. CASE a >= b
    BY <2>1
  <2>2. CASE b >= a
    BY <2>2
  <2> QED
    BY <2>1, <2>2
<1> QED
  BY <1>1 DEF Max

LEMMA Overwritten ==
    ASSUME NEW row \in [0..(Width - 1) -> Nat], NEW c \in 0..(Width - 1),
           NEW v \in Nat, row[c] <= v,
           NEW after, after = [row EXCEPT ![c] = v]
    PROVE  /\ after \in [0..(Width - 1) -> Nat]
           /\ \A d \in 0..(Width - 1) : row[d] <= after[d]
           /\ after[c] = v
OBVIOUS

(* Conservative update overwrites the smaller counters with one more than  *)
(* the smallest had, and that was enough for the flow.                     *)
LEMMA SmallerRaised ==
    ASSUME NEW F, NEW h, HashOf(h, F), NEW rows, Counts(rows), NEW f \in F,
           NEW n \in [F -> Nat], Covers(rows, h, n)
    PROVE  /\ Counts(CUInsert(rows, h, f))
           /\ Covers(CUInsert(rows, h, f), h, OneMore(n, f))
           /\ OneMore(n, f) \in [F -> Nat]
<1> DEFINE temp == Smallest(rows, h, f) + 1
           after == CUInsert(rows, h, f)
<1>1. \A i \in Row : h[i][f] \in 0..(Width - 1) /\ rows[i] \in [0..(Width - 1) -> Nat]
  BY DEF HashOf, Counts
<1>2. temp \in Nat /\ n[f] + 1 <= temp
  BY SmallestIsLeast, CoversIsEnough DEF NeverUnder
<1>3. after = [i \in Row |-> [rows[i] EXCEPT ![h[i][f]] = Max({rows[i][h[i][f]], temp})]]
  BY DEF CUInsert
<1> HIDE DEF temp, after
<1>4. ASSUME NEW i \in Row
      PROVE  /\ after[i] \in [0..(Width - 1) -> Nat]
             /\ \A c \in 0..(Width - 1) : rows[i][c] <= after[i][c]
             /\ temp <= after[i][h[i][f]]
  <2> DEFINE v == Max({rows[i][h[i][f]], temp})
  <2>1. PICK before, c : before = rows[i] /\ c = h[i][f]
    OBVIOUS
  <2>2. c \in 0..(Width - 1) /\ before \in [0..(Width - 1) -> Nat]
    BY <1>1, <2>1
  <2>3. before[c] \in Nat
    BY <2>2
  <2>4. v \in Nat /\ before[c] <= v /\ temp <= v
    BY <1>2, <2>1, <2>3, MaxIsGreater
  <2>5. after[i] = [before EXCEPT ![c] = v]
    BY <1>3, <2>1
  <2> HIDE DEF v
  <2>6. /\ after[i] \in [0..(Width - 1) -> Nat]
        /\ \A d \in 0..(Width - 1) : before[d] <= after[i][d]
        /\ after[i][c] = v
    BY <2>2, <2>4, <2>5, Overwritten
  <2> QED
    BY <2>1, <2>4, <2>6
<1>5. Counts(after)
  BY <1>3, <1>4 DEF Counts
<1>6. ASSUME NEW i \in Row PROVE n[f] + 1 <= after[i][h[i][f]]
  <2>1. after[i][h[i][f]] \in Nat
    BY <1>1, <1>4
  <2> QED
    BY <1>2, <1>4, <2>1
<1>7. Covers(after, h, OneMore(n, f)) /\ OneMore(n, f) \in [F -> Nat]
  BY <1>4, <1>5, <1>6, RaisingCovers
<1> QED
  BY <1>5, <1>7 DEF after

CUInv ==
    /\ HashOf(hash, Flow) /\ Counts(sketch) /\ true_freq \in [Flow -> Nat]
    /\ Covers(sketch, hash, true_freq)

(* CU.h: although it leaves out every counter that is large enough, no     *)
(* query is too low: EstimatesBounded's part for CU.                       *)
THEOREM CUNeverUnderestimates == CUSpec => []NeverUnder(sketch, hash, true_freq)
<1>1. Begin(CMEmpty.rows) => CUInv
  <2> SUFFICES ASSUME Begin(CMEmpty.rows) PROVE CUInv
    OBVIOUS
  <2>1. sketch = [i \in Row |-> Zeros] /\ HashOf(hash, Flow) /\ true_freq = [f \in Flow |-> 0]
    BY DEF Begin, CMEmpty, HashOf
  <2>2. Counts(sketch)
    BY <2>1 DEF Counts, Zeros
  <2>3. Covers(sketch, hash, true_freq)
    BY <2>1 DEF Covers, Zeros, HashOf
  <2> QED
    BY <2>1, <2>2, <2>3 DEF CUInv
<1>2. CUInv /\ [\E f \in Flow : CountedCU(f)]_sketchVars => CUInv'
  <2>1. ASSUME CUInv, NEW f \in Flow, CountedCU(f)
        PROVE  CUInv'
    BY <2>1, SmallerRaised DEF CUInv, CountedCU
  <2>2. CUInv /\ UNCHANGED sketchVars => CUInv'
    BY DEF CUInv, sketchVars
  <2> QED
    BY <2>1, <2>2
<1>3. CUInv => NeverUnder(sketch, hash, true_freq)
  BY CoversIsEnough DEF CUInv
<1> QED
  BY <1>1, <1>2, <1>3, PTL DEF CUSpec
-----------------------------------------------------------------------------
Lines == [0..1 -> [0..(Width - 1) -> Nat]]
TowerHashes(F) == [0..1 -> [F -> 0..(Width - 1)]]

(* The tower has what it kept of a flow in both lines, and keeps no more   *)
(* than the threshold: no counter saturates below that.                    *)
TowerCovers(line, h, n) ==
    \A g \in DOMAIN n : n[g] <= ELE_THRESHOLD /\ \A k \in 0..1 : n[g] <= line[k][h[k][g]]

(* What is raised, without the tables of the two types.                    *)
LEMMA RaisedIn ==
    ASSUME NEW type \in {"CM", "CU"}, NEW v0 \in Nat, NEW v1 \in Nat,
           NEW n \in Nat, n <= v0, n <= v1, v0 < ELE_THRESHOLD \/ v1 < ELE_THRESHOLD
    PROVE  /\ 0 \in TowerRaised(type, v0, v1) \/ n + 1 <= v0
           /\ 1 \in TowerRaised(type, v0, v1) \/ n + 1 <= v1
<1>0. /\ mask1 \in Nat /\ mask2 \in Nat /\ ELE_THRESHOLD \in Nat
      /\ ELE_THRESHOLD <= mask1 /\ mask1 <= mask2
  BY CounterAssumption
<1>1. CASE type = "CM"
  <2>1. v0 # mask1 => 0 \in TowerRaised(type, v0, v1)
    BY <1>1 DEF TowerRaised
  <2>2. v1 # mask2 => 1 \in TowerRaised(type, v0, v1)
    BY <1>1 DEF TowerRaised
  <2> QED
    BY <1>0, <2>1, <2>2
<1>2. CASE type = "CU"
  <2>1. v0 # mask1 /\ v0 <= v1 => 0 \in TowerRaised(type, v0, v1)
    BY <1>2 DEF TowerRaised
  <2>2. (v0 # mask1 /\ v0 = v1) \/ ((v0 = mask1 \/ v1 < v0) /\ v1 < ELE_THRESHOLD)
          => 1 \in TowerRaised(type, v0, v1)
    BY <1>2 DEF TowerRaised
  <2> QED
    BY <1>0, <2>1, <2>2
<1> QED
  BY <1>1, <1>2

LEMMA TowerStep ==
    ASSUME NEW type \in {"CM", "CU"}, NEW F, NEW h \in TowerHashes(F), NEW line \in Lines,
           NEW f \in F, NEW n \in [F -> Nat], TowerCovers(line, h, n),
           NEW after, after = TowerInsert(line, type, h, f)
    PROVE  /\ after \in Lines
           /\ TowerCovers(after, h, IF TowerKeeps(line, h, f) THEN OneMore(n, f) ELSE n)
<1> DEFINE R == TowerRaised(type, line[0][h[0][f]], line[1][h[1][f]])
<1>1. \A k \in 0..1 : h[k][f] \in 0..(Width - 1) /\ line[k] \in [0..(Width - 1) -> Nat]
  BY DEF TowerHashes, Lines
<1>2. after = [k \in 0..1 |-> IF k \in R THEN Raise(line[k], h[k][f]) ELSE line[k]]
  BY DEF TowerInsert
<1> HIDE DEF R
<1>3. ASSUME NEW k \in 0..1
      PROVE  /\ after[k] \in [0..(Width - 1) -> Nat]
             /\ \A c \in 0..(Width - 1) : line[k][c] <= after[k][c]
             /\ k \in R => after[k][h[k][f]] = line[k][h[k][f]] + 1
  <2>1. CASE k \in R
    <3>1. after[k] = Raise(line[k], h[k][f])
      BY <1>2, <2>1
    <3>2. line[k] \in [0..(Width - 1) -> Nat] /\ h[k][f] \in 0..(Width - 1)
      BY <1>1
    <3> QED
      BY <3>1, <3>2, RaiseRaises
  <2>2. CASE k \notin R
    <3>1. after[k] = line[k]
      BY <1>2, <2>2
    <3>2. \A c \in 0..(Width - 1) : line[k][c] \in Nat
      BY <1>1
    <3> QED
      BY <1>1, <2>2, <3>1, <3>2
  <2> QED
    BY <2>1, <2>2
<1>4. after \in Lines
  BY <1>2, <1>3 DEF Lines
<1>5. ASSUME NEW g \in F
      PROVE  n[g] <= ELE_THRESHOLD /\ \A k \in 0..1 : n[g] <= after[k][h[k][g]]
  <2>1. n[g] \in Nat /\ n[g] <= ELE_THRESHOLD
    BY DEF TowerCovers
  <2>2. ASSUME NEW k \in 0..1 PROVE n[g] <= after[k][h[k][g]]
    <3>1. h[k][g] \in 0..(Width - 1)
      BY DEF TowerHashes
    <3>2. line[k][h[k][g]] \in Nat /\ after[k][h[k][g]] \in Nat
      BY <1>1, <1>3, <3>1
    <3>3. n[g] <= line[k][h[k][g]] /\ line[k][h[k][g]] <= after[k][h[k][g]]
      BY <1>3, <3>1 DEF TowerCovers
    <3> QED
      BY <2>1, <3>2, <3>3
  <2> QED
    BY <2>1, <2>2
<1>6. CASE ~TowerKeeps(line, h, f)
  BY <1>4, <1>5, <1>6 DEF TowerCovers
<1>7. CASE TowerKeeps(line, h, f)
  <2> DEFINE v0 == line[0][h[0][f]]
             v1 == line[1][h[1][f]]
  <2>0. /\ 0 \in 0..1 /\ h[0][f] \in 0..(Width - 1) /\ line[0] \in [0..(Width - 1) -> Nat]
        /\ 1 \in 0..1 /\ h[1][f] \in 0..(Width - 1) /\ line[1] \in [0..(Width - 1) -> Nat]
    BY <1>1
  <2>1. v0 \in Nat /\ v1 \in Nat /\ n[f] \in Nat /\ n[f] <= v0 /\ n[f] <= v1
    BY <2>0 DEF TowerCovers
  <2>2. v0 < ELE_THRESHOLD \/ v1 < ELE_THRESHOLD
    BY <1>7 DEF TowerKeeps
  <2>3. (0 \in R \/ n[f] + 1 <= v0) /\ (1 \in R \/ n[f] + 1 <= v1)
    BY <2>1, <2>2, RaisedIn DEF R
  <2>4. after[0][h[0][f]] \in Nat /\ after[1][h[1][f]] \in Nat
    BY <2>0, <1>3
  <2>5. v0 <= after[0][h[0][f]] /\ v1 <= after[1][h[1][f]]
    BY <2>0, <1>3
  <2>6. (0 \in R => after[0][h[0][f]] = v0 + 1) /\ (1 \in R => after[1][h[1][f]] = v1 + 1)
    BY <2>0, <1>3
  <2> HIDE DEF v0, v1
  <2>7. n[f] + 1 <= after[0][h[0][f]] /\ n[f] + 1 <= after[1][h[1][f]]
    BY <2>1, <2>3, <2>4, <2>5, <2>6
  <2>8. n[f] + 1 <= ELE_THRESHOLD
    BY <2>1, <2>2, CounterAssumption
  <2>9. ASSUME NEW g \in F
        PROVE  /\ OneMore(n, f)[g] <= ELE_THRESHOLD
               /\ \A k \in 0..1 : OneMore(n, f)[g] <= after[k][h[k][g]]
    <3>1. CASE g = f
      BY <2>7, <2>8, <3>1 DEF OneMore
    <3>2. CASE g # f
      BY <1>5, <3>2 DEF OneMore
    <3> QED
      BY <3>1, <3>2
  <2>10. DOMAIN OneMore(n, f) = F
    BY DEF OneMore
  <2> QED
    BY <1>4, <1>7, <2>9, <2>10 DEF TowerCovers
<1> QED
  BY <1>6, <1>7

(* What the tower kept of each flow; the rest is in the Fermat sketch.     *)
Ele(ele, f) == IF f \in DOMAIN ele THEN ele[f] ELSE 0
Given == UNION {[G -> Nat] : G \in SUBSET Flow}
Kept == [f \in Flow |-> true_freq[f] - Ele(sketch.ele, f)]

TowerInv ==
    /\ hash \in TowerHashes(Flow) /\ true_freq \in [Flow -> Nat]
    /\ sketch \in [type : {"CM", "CU"}, line : Lines, ele : Given, Eleresult : {<<>>}]
    /\ Kept \in [Flow -> Nat] /\ TowerCovers(sketch.line, hash, Kept)

LEMMA TowerInvInit == BeginTower => TowerInv
<1> SUFFICES ASSUME BeginTower PROVE TowerInv
  OBVIOUS
<1>1. PICK type \in {"CM", "CU"} : sketch = FTEmpty(type)
  BY DEF BeginTower
<1>2. /\ sketch = [type |-> type, line |-> TowerEmpty, ele |-> <<>>, Eleresult |-> <<>>]
      /\ sketch.ele = <<>> /\ sketch.line = TowerEmpty /\ sketch.type = type
  BY <1>1 DEF FTEmpty
<1>3. true_freq = [f \in Flow |-> 0] /\ hash \in TowerHashes(Flow)
  BY DEF BeginTower, TowerHashes
<1>4. sketch.line \in Lines
  BY <1>2 DEF TowerEmpty, Zeros, Lines
<1>5. DOMAIN sketch.ele = {} /\ sketch.ele \in Given
  <2>1. <<>> \in [{} -> Nat] /\ DOMAIN <<>> = {}
    OBVIOUS
  <2>2. {} \in SUBSET Flow
    OBVIOUS
  <2> QED
    BY <1>2, <2>1, <2>2 DEF Given
<1>6. Kept = [f \in Flow |-> 0]
  BY <1>3, <1>5 DEF Kept, Ele
<1>7. \A k \in 0..1, f \in Flow : sketch.line[k][hash[k][f]] = 0
  BY <1>2, <1>3 DEF TowerEmpty, Zeros, TowerHashes
<1>8. TowerCovers(sketch.line, hash, Kept)
  BY <1>6, <1>7, CounterAssumption DEF TowerCovers
<1> QED
  BY <1>2, <1>3, <1>4, <1>5, <1>6, <1>8 DEF TowerInv

(* The packet goes to the Fermat sketch, or the tower keeps it.            *)
LEMMA KeptOrGiven ==
    ASSUME TowerInv, NEW f \in Flow, CountedTower(f)
    PROVE  /\ sketch'.ele \in Given
           /\ Kept' = IF TowerKeeps(sketch.line, hash, f) THEN OneMore(Kept, f) ELSE Kept
<1>0. /\ sketch.ele \in Given /\ DOMAIN sketch.ele \subseteq Flow
      /\ \A g \in DOMAIN sketch.ele : sketch.ele[g] \in Nat
  BY DEF TowerInv, Given
<1>1. sketch'.ele = IF TowerKeeps(sketch.line, hash, f) THEN sketch.ele
                    ELSE Credit(sketch.ele, f)
  BY DEF CountedTower, FTInsert, EleInsert, TowerInv
<1>2. \A g \in Flow : /\ Ele(sketch.ele, g) \in Nat /\ true_freq[g] \in Nat
                      /\ true_freq'[g] = IF g = f THEN true_freq[g] + 1 ELSE true_freq[g]
  BY <1>0 DEF TowerInv, Ele, CountedTower, OneMore
<1>3. CASE TowerKeeps(sketch.line, hash, f)
  <2>1. sketch'.ele = sketch.ele
    BY <1>1, <1>3
  <2>2. ASSUME NEW g \in Flow
        PROVE  true_freq'[g] - Ele(sketch'.ele, g) = OneMore(Kept, f)[g]
    BY <1>2, <2>1 DEF Kept, OneMore
  <2>3. Kept' = [g \in Flow |-> OneMore(Kept, f)[g]]
    BY <2>2 DEF Kept
  <2>4. OneMore(Kept, f) = [g \in Flow |-> OneMore(Kept, f)[g]]
    BY DEF OneMore, Kept
  <2> QED
    BY <1>0, <1>3, <2>1, <2>3, <2>4
<1>4. CASE ~TowerKeeps(sketch.line, hash, f)
  <2>1. sketch'.ele = [g \in {f} \cup DOMAIN sketch.ele |->
                          IF g = f THEN Ele(sketch.ele, f) + 1 ELSE sketch.ele[g]]
    BY <1>1, <1>4 DEF Credit, Give, Ele
  <2>2. \A g \in Flow : Ele(sketch'.ele, g) = IF g = f THEN Ele(sketch.ele, g) + 1
                                             ELSE Ele(sketch.ele, g)
    BY <2>1 DEF Ele
  <2>3. ASSUME NEW g \in Flow
        PROVE  true_freq'[g] - Ele(sketch'.ele, g) = true_freq[g] - Ele(sketch.ele, g)
    BY <1>2, <2>2
  <2>4. Kept' = Kept
    BY <2>3 DEF Kept
  <2>5. sketch'.ele \in [{f} \cup DOMAIN sketch.ele -> Nat]
    BY <1>0, <1>2, <2>1
  <2>6. sketch'.ele \in Given
    BY <1>0, <2>5 DEF Given
  <2> QED
    BY <1>4, <2>4, <2>6
<1> QED
  BY <1>3, <1>4

LEMMA TowerInvStep == TowerInv /\ [\E f \in Flow : CountedTower(f)]_sketchVars => TowerInv'
<1>1. ASSUME TowerInv, NEW f \in Flow, CountedTower(f)
      PROVE  TowerInv'
  <2>1. /\ sketch' = [sketch EXCEPT !.line = sketch'.line, !.ele = sketch'.ele]
        /\ sketch'.line = TowerInsert(sketch.line, sketch.type, hash, f)
    BY <1>1 DEF CountedTower, FTInsert, EleInsert, TowerInv
  <2>2. sketch.type \in {"CM", "CU"} /\ sketch.line \in Lines
    BY <1>1 DEF TowerInv
  <2> DEFINE K == IF TowerKeeps(sketch.line, hash, f) THEN OneMore(Kept, f) ELSE Kept
  <2>3. sketch'.line \in Lines /\ TowerCovers(sketch'.line, hash, K)
    BY <1>1, <2>1, <2>2, TowerStep DEF TowerInv
  <2>4. hash' = hash /\ true_freq' \in [Flow -> Nat]
    BY <1>1 DEF CountedTower, OneMore, TowerInv
  <2>5. Kept' = K /\ sketch'.ele \in Given
    BY <1>1, KeptOrGiven
  <2>6. K \in [Flow -> Nat]
    BY <1>1 DEF TowerInv, OneMore
  <2> HIDE DEF K
  <2>7. TowerCovers(sketch'.line, hash', Kept')
    BY <2>3, <2>4, <2>5
  <2>8. sketch' \in [type : {"CM", "CU"}, line : Lines, ele : Given, Eleresult : {<<>>}]
    BY <1>1, <2>1, <2>3, <2>5 DEF TowerInv
  <2> QED
    BY <1>1, <2>4, <2>5, <2>6, <2>7, <2>8 DEF TowerInv
<1>2. TowerInv /\ UNCHANGED sketchVars => TowerInv'
  BY DEF TowerInv, sketchVars, Kept
<1> QED
  BY <1>1, <1>2

(* The answer of the tower, and of the tower and all of the sketch behind. *)
TowerBounded ==
    \A f \in Flow :
        /\ Kept[f] <= TowerQuery(sketch.line, hash, f)
        /\ f \in DOMAIN sketch.ele =>
              /\ true_freq[f] <= ELE_THRESHOLD + sketch.ele[f]
              /\ ELE_THRESHOLD + sketch.ele[f] <= true_freq[f] + ELE_THRESHOLD

(* Fermat_tower.h, with either insert of tower.h: the tower never answers  *)
(* with less than it kept, though its counters saturate and the sketch     *)
(* behind it takes over at some time; and the answer for a flow of which   *)
(* that sketch has all it was given is neither too low nor too high by     *)
(* more than the threshold: what FermatBounded says of these.              *)
THEOREM TowerNeverUnderestimates == TowerSpec => []TowerBounded
<1>1. ASSUME TowerInv, NEW f \in Flow
      PROVE  /\ Kept[f] <= TowerQuery(sketch.line, hash, f)
             /\ f \in DOMAIN sketch.ele =>
                   /\ true_freq[f] <= ELE_THRESHOLD + sketch.ele[f]
                   /\ ELE_THRESHOLD + sketch.ele[f] <= true_freq[f] + ELE_THRESHOLD
  <2> DEFINE v0 == sketch.line[0][hash[0][f]]
             v1 == sketch.line[1][hash[1][f]]
             S == {IF v0 = mask1 THEN 2^30 ELSE v0, v1}
  <2>1. /\ 0 \in 0..1 /\ hash[0][f] \in 0..(Width - 1)
        /\ sketch.line[0] \in [0..(Width - 1) -> Nat]
        /\ 1 \in 0..1 /\ hash[1][f] \in 0..(Width - 1)
        /\ sketch.line[1] \in [0..(Width - 1) -> Nat]
    BY <1>1 DEF TowerInv, TowerHashes, Lines
  <2>2. v0 \in Nat /\ v1 \in Nat
    BY <2>1
  <2>3. Kept[f] \in Nat /\ Kept[f] <= ELE_THRESHOLD /\ Kept[f] <= v0 /\ Kept[f] <= v1
    BY <1>1, <2>1 DEF TowerInv, TowerCovers
  <2>4. TowerQuery(sketch.line, hash, f) = Min(S)
    BY DEF TowerQuery
  <2> HIDE DEF v0, v1
  <2>5. S \in SUBSET Nat /\ S # {} /\ \A y \in S : Kept[f] <= y
    BY <2>2, <2>3, CounterAssumption
  <2>6. Kept[f] <= Min(S)
    BY <2>5, MinIsLeast
  <2>7. ASSUME f \in DOMAIN sketch.ele
        PROVE  /\ true_freq[f] <= ELE_THRESHOLD + sketch.ele[f]
               /\ ELE_THRESHOLD + sketch.ele[f] <= true_freq[f] + ELE_THRESHOLD
    <3>1. Kept[f] = true_freq[f] - sketch.ele[f]
      BY <2>7 DEF Kept, Ele
    <3>2. true_freq[f] \in Nat /\ sketch.ele[f] \in Nat /\ ELE_THRESHOLD \in Nat
      BY <1>1, <2>7, CounterAssumption DEF TowerInv, Given
    <3> QED
      BY <2>3, <3>1, <3>2
  <2> QED
    BY <2>4, <2>6, <2>7
<1>2. TowerInv => TowerBounded
  BY <1>1 DEF TowerBounded
<1> QED
  BY <1>2, TowerInvInit, TowerInvStep, PTL DEF TowerSpec
-----------------------------------------------------------------------------
(* An item of a stuck set shares each of its buckets there, so also in any *)
(* larger set.                                                             *)
LEMMA SharesInMore ==
    ASSUME NEW T, NEW S, T \subseteq S, Stuck(T), NEW i \in T
    PROVE  ~Alone(i, S)
<1>1. ASSUME NEW b \in place[i], \A j \in S \ {i} : b \notin place[j]
      PROVE  FALSE
  <2>1. \A j \in T \ {i} : b \notin place[j]
    BY <1>1
  <2> QED
    BY <2>1 DEF Stuck, Alone
<1> QED
  BY <1>1 DEF Alone

(* A step of the decoder leaves every stuck set alone.                     *)
LEMMA StuckStays ==
    ASSUME NEW T, T \subseteq left, Stuck(T), NEW i \in left, Alone(i, left)
    PROVE  i \notin T
BY SharesInMore

(* The core is stuck itself: it is the largest such set.                   *)
LEMMA CoreIsStuck ==
    ASSUME NEW S
    PROVE  Stuck(Core(S)) /\ Core(S) \subseteq S
<1>1. Core(S) \subseteq S
  BY DEF Core
<1>2. ASSUME NEW i \in Core(S)
      PROVE  ~Alone(i, Core(S))
  <2>1. PICK T \in SUBSET S : Stuck(T) /\ i \in T
    BY DEF Core
  <2>2. T \subseteq Core(S)
    BY <2>1 DEF Core
  <2> QED
    BY <2>1, <2>2, SharesInMore
<1> QED
  BY <1>1, <1>2 DEF Stuck

LEMMA CoreIsLargest ==
    ASSUME NEW S, NEW T \in SUBSET S, Stuck(T)
    PROVE  T \subseteq Core(S)
BY DEF Core
-----------------------------------------------------------------------------
(* What holds after every step: before closing everything is there.        *)
PeelInv ==
    /\ TypeOK
    /\ sound /\ ~closed => left = put
    /\ sound => Core(put) \subseteq left

LEMMA PeelInit == Init => sound /\ TypeOK /\ left = put /\ Core(put) \subseteq left
<1> SUFFICES ASSUME Init PROVE sound /\ TypeOK /\ left = put /\ Core(put) \subseteq left
  OBVIOUS
<1>1. Core(put) \subseteq put
  BY CoreIsStuck
<1> QED
  BY <1>1 DEF Init, TypeOK

(* TypeOK constrains left and put while the decoder is sound only.         *)
SoundInv == sound => PeelInv

LEMMA PeelStep == SoundInv /\ [Next]_vars => SoundInv'
<1> SUFFICES ASSUME SoundInv, [Next]_vars, sound' PROVE PeelInv'
  BY DEF SoundInv
<1>1. ASSUME NEW I \in SUBSET Item, Fill(I)
      PROVE  PeelInv'
  <2>1. PeelInv
    BY <1>1 DEF Fill, SoundInv
  <2>2. TypeOK' /\ (left = put)'
    BY <1>1, <2>1 DEF Fill, PeelInv, TypeOK
  <2>3. Core(put)' = UNION {T \in SUBSET put' : Stuck(T)}
    BY <1>1 DEF Fill, Core, Stuck, Alone
  <2> QED
    BY <2>2, <2>3 DEF PeelInv
<1>2. CASE Close
  <2>1. PeelInv
    BY <1>2 DEF Close, SoundInv
  <2>2. Core(put)' = Core(put)
    BY <1>2 DEF Close, Core, Stuck, Alone
  <2> QED
    BY <1>2, <2>1, <2>2 DEF Close, PeelInv, TypeOK
<1>3. ASSUME NEW i \in Item, Peel(i)
      PROVE  PeelInv'
  <2>1. PeelInv
    BY <1>3 DEF Peel, SoundInv
  <2>2. Core(put)' = Core(put)
    BY <1>3 DEF Peel, Core, Stuck, Alone
  <2>3. i \notin Core(put)
    <3>1. Core(put) \subseteq left /\ Stuck(Core(put))
      BY <2>1, <1>3, CoreIsStuck DEF Peel, PeelInv
    <3> QED
      BY <3>1, <1>3, StuckStays DEF Peel
  <2>4. Core(put)' \subseteq left'
    BY <1>3, <2>1, <2>2, <2>3 DEF Peel, PeelInv
  <2> QED
    BY <1>3, <2>1, <2>4 DEF Peel, PeelInv, TypeOK
<1>4. CASE GoAstray
  BY <1>4 DEF GoAstray
<1>5. CASE UNCHANGED vars
  <2>1. PeelInv
    BY <1>5 DEF vars, SoundInv
  <2>2. Core(put)' = Core(put)
    BY <1>5 DEF vars, Core, Stuck, Alone
  <2> QED
    BY <1>5, <2>1, <2>2 DEF vars, PeelInv, TypeOK
<1> QED
  BY <1>1, <1>2, <1>3, <1>4, <1>5 DEF Next

(* What a decoder cannot find does not depend on the order in which its    *)
(* queues bring up the buckets: it is the core of what was put in.         *)
THEOREM PeelingOrder == Spec => []OrderDoesNotMatter
<1>1. Init => SoundInv
  BY PeelInit DEF SoundInv, PeelInv
<1>2. SoundInv /\ [Next]_vars => SoundInv'
  BY PeelStep
<1>3. SoundInv => OrderDoesNotMatter
  <2> SUFFICES ASSUME SoundInv, closed, sound, Core(put) \subseteq left
               PROVE  Stuck(left) => left = Core(put)
    BY DEF SoundInv, PeelInv, OrderDoesNotMatter
  <2>1. left \in SUBSET put
    BY DEF SoundInv, PeelInv, TypeOK
  <2>2. Stuck(left) => left \subseteq Core(put)
    BY <2>1, CoreIsLargest
  <2> QED
    BY <2>2
<1> QED
  BY <1>1, <1>2, <1>3, PTL DEF Spec
=============================================================================
