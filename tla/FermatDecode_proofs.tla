------------------------- MODULE FermatDecode_proofs -------------------------
(***************************************************************************)
(* Proofs about FermatSketch and FermatDecode, for every geometry of the   *)
(* sketch, prime, set of flows, hash functions and traffic.                *)
(***************************************************************************)
EXTENDS FermatDecode, SumLemmas

LEMMA ModRange ==
    ASSUME NEW a \in Int, NEW b \in Nat \ {0}
    PROVE  a % b \in 0..(b - 1)
OBVIOUS

LEMMA MulStep ==
    ASSUME NEW a \in Int, NEW w \in Nat
    PROVE  /\ (a + 1) * w = a * w + w
           /\ a * w \in Int
           /\ a \in Nat => a * w \in Nat
OBVIOUS

LEMMA MulMono ==
    ASSUME NEW a \in Int, NEW b \in Int, NEW w \in Nat, a <= b
    PROVE  a * w <= b * w
OBVIOUS

(* The stateful ALU's comparison with the distance to the prime adds       *)
(* modulo the prime, and no intermediate value leaves the register.        *)
THEOREM IDAddIsModular ==
    ASSUME NEW r \in 0..(PRIME - 1), NEW id \in IDs
    PROVE  /\ IDAdd(r, id) = (r + id) % PRIME
           /\ IDAdd(r, id) \in 0..(PRIME - 1)
           /\ r < PRIME - id => r + id < CounterSize
BY SketchAssumption DEF IDAdd
-----------------------------------------------------------------------------
LEMMA BucketMod ==
    ASSUME NEW a \in Int, NEW b \in Int
    PROVE  [ID |-> a % PRIME, counter |-> b % CounterSize] \in Bucket
<1>1. a % PRIME \in 0..(PRIME - 1)
  BY SketchAssumption, ModRange
<1>2. b % CounterSize \in 0..(CounterSize - 1)
  BY SketchAssumption, ModRange
<1> QED
  BY <1>1, <1>2 DEF Bucket

LEMMA EmptySketchType == EmptySketch \in Sketch
BY SketchAssumption DEF EmptySketch, EmptyBucket, Sketch, Bucket

(* A row with one bucket replaced.                                         *)
LEMMA CountPacketType ==
    ASSUME NEW s \in Sketch, NEW h \in HashFunctions, NEW f \in IDs
    PROVE  CountPacket(s, h, f) \in Sketch
<1> SUFFICES ASSUME NEW k \in Row
             PROVE  [s[k] EXCEPT ![h[k][f]] =
                       [ID |-> IDAdd(@.ID, f), counter |-> (@.counter + 1) % CounterSize]]
                    \in [Col -> Bucket]
  BY DEF CountPacket, Sketch
<1>1. h[k][f] \in Col
  BY DEF HashFunctions
<1> DEFINE b == s[k][h[k][f]]
<1>2. b \in Bucket /\ s[k] \in [Col -> Bucket]
  BY <1>1 DEF Sketch
<1>3. IDAdd(b.ID, f) \in 0..(PRIME - 1)
  BY <1>2, IDAddIsModular DEF Bucket
<1>4. (b.counter + 1) % CounterSize \in 0..(CounterSize - 1)
  <2>1. b.counter + 1 \in Int
    BY <1>2 DEF Bucket
  <2>2. CounterSize \in Nat \ {0}
    BY SketchAssumption
  <2> HIDE DEF b
  <2> QED BY <2>1, <2>2, ModRange
<1>5. [ID |-> IDAdd(b.ID, f), counter |-> (b.counter + 1) % CounterSize] \in Bucket
  BY <1>3, <1>4 DEF Bucket
<1> QED
  BY <1>1, <1>2, <1>5

LEMMA AddFlowType ==
    ASSUME NEW s \in Sketch, NEW h \in HashFunctions, NEW f \in IDs, NEW n \in Nat
    PROVE  AddFlow(s, h, [id |-> f, counter |-> n]) \in Sketch
<1> SUFFICES ASSUME NEW k \in Row
             PROVE  [s[k] EXCEPT ![h[k][f]] =
                       [ID |-> (@.ID + ((f * n) % PRIME)) % PRIME,
                        counter |-> (@.counter + n) % CounterSize]]
                    \in [Col -> Bucket]
  BY DEF AddFlow, Sketch
<1>1. h[k][f] \in Col
  BY DEF HashFunctions
<1> DEFINE b == s[k][h[k][f]]
<1>2. b \in Bucket /\ s[k] \in [Col -> Bucket]
  BY <1>1 DEF Sketch
<1>3. f * n \in Int
  BY SketchAssumption
<1>4. (f * n) % PRIME \in Int
  BY <1>3, ModRange, SketchAssumption
<1>5. b.ID + ((f * n) % PRIME) \in Int /\ b.counter + n \in Int
  BY <1>2, <1>4, SketchAssumption DEF Bucket
<1>6. [ID |-> (b.ID + ((f * n) % PRIME)) % PRIME,
       counter |-> (b.counter + n) % CounterSize] \in Bucket
  BY <1>5, BucketMod
<1> QED
  BY <1>1, <1>2, <1>6

LEMMA MinusType ==
    ASSUME NEW a \in Bucket, NEW b \in Bucket
    PROVE  Minus(a, b) \in Bucket
<1>1. a.ID + PRIME - b.ID \in Int /\ a.counter - b.counter \in Int
  BY SketchAssumption DEF Bucket
<1> QED
  BY <1>1, BucketMod DEF Minus

LEMMA SumsType ==
    ASSUME NEW a \in Sketch, NEW b \in Sketch
    PROVE  /\ FermatAdd(a, b) \in Sketch
           /\ SketchSub(a, b) \in Sketch
<1>1. ASSUME NEW k \in Row, NEW c \in Col
      PROVE  /\ a[k][c] \in Bucket /\ b[k][c] \in Bucket
             /\ a[k][c].ID + b[k][c].ID \in Int
             /\ a[k][c].counter + b[k][c].counter \in Int
  BY SketchAssumption DEF Sketch, Bucket
<1>2. FermatAdd(a, b) \in Sketch
  BY <1>1, BucketMod DEF FermatAdd, Sketch
<1>3. SketchSub(a, b) \in Sketch
  BY <1>1, MinusType DEF SketchSub, Sketch
<1> QED
  BY <1>2, <1>3
-----------------------------------------------------------------------------
In(q, c) == \E i \in DOMAIN q : q[i] = c

LEMMA InAppend ==
    ASSUME NEW q \in Seq(Col), NEW c \in Col, NEW d, In(q, d) \/ d = c
    PROVE  In(Append(q, c), d)
<1>1. /\ DOMAIN Append(q, c) = 1..(Len(q) + 1)
      /\ \A i \in 1..Len(q) : Append(q, c)[i] = q[i]
      /\ Append(q, c)[Len(q) + 1] = c
      /\ DOMAIN q = 1..Len(q) /\ Len(q) \in Nat
  OBVIOUS
<1>2. CASE d = c
  <2>1. Len(q) + 1 \in DOMAIN Append(q, c)
    BY <1>1
  <2> QED BY <1>1, <1>2, <2>1 DEF In
<1>3. CASE In(q, d)
  <2>1. PICK i \in DOMAIN q : q[i] = d
    BY <1>3 DEF In
  <2>2. i \in DOMAIN Append(q, c)
    BY <1>1
  <2> QED BY <1>1, <2>1, <2>2 DEF In
<1> QED
  BY <1>2, <1>3

LEMMA InTail ==
    ASSUME NEW q \in Seq(Col), q # <<>>, NEW d, In(q, d), d # Head(q)
    PROVE  In(Tail(q), d)
<1>1. PICK i \in DOMAIN q : q[i] = d
  BY DEF In
<1>2. /\ Len(q) \in Nat /\ Len(q) > 0 /\ DOMAIN q = 1..Len(q)
      /\ Head(q) = q[1]
      /\ DOMAIN Tail(q) = 1..(Len(q) - 1)
      /\ \A j \in 1..(Len(q) - 1) : Tail(q)[j] = q[j + 1]
  OBVIOUS
<1>3. i # 1 /\ i - 1 \in 1..(Len(q) - 1)
  BY <1>1, <1>2
<1>4. Tail(q)[i - 1] = d
  BY <1>1, <1>2, <1>3
<1> QED
  BY <1>2, <1>3, <1>4 DEF In

(* The buckets of a row that are not empty.                                *)
NonZero(r) == {c \in Col : x[r][c].counter # 0}

LEMMA ColumnsFinite ==
    ASSUME NEW S \in SUBSET Col
    PROVE  /\ IsFiniteSet(S)
           /\ Cardinality(S) \in Nat /\ Cardinality(S) <= Width
<1>1. IsFiniteSet(Col) /\ Cardinality(Col) = Width
  BY FS_Interval, SketchAssumption DEF Col
<1>2. IsFiniteSet(S) /\ Cardinality(S) <= Cardinality(Col)
  BY <1>1, FS_Subset
<1> QED
  BY <1>1, <1>2, FS_CardinalityType
-----------------------------------------------------------------------------
(* The inductive invariant.  Shape is what the operators need to be well   *)
(* defined.                                                                *)
Shape ==
    /\ hash \in HashFunctions
    /\ heavy \in [IDs -> Nat]
    /\ ingress \in Sketch /\ egress \in Sketch /\ x \in Sketch
    /\ candidate \in [Row -> Seq(Col)]
    /\ phase \in {"count", "scan", "head", "drain", "succeed", "NULL"}
    /\ row \in Row /\ col \in Col
    /\ pause \in BOOLEAN /\ dropped \in BOOLEAN
    /\ ~Ended => res \in Seq(Flow)

(* What looking at one bucket does to its row and to the queues.           *)
LEMMA LookEffect ==
    ASSUME Shape, ~Ended, hash' = hash,
           NEW r \in Row, NEW c \in Col, NEW q \in [Row -> Seq(Col)],
           NEW first \in BOOLEAN,
           \A k \in Row : Len(q[k]) <= Capacity,
           Look(r, c, q, first)
    PROVE  /\ x' \in Sketch /\ candidate' \in [Row -> Seq(Col)]
           /\ dropped' \in BOOLEAN
           /\ res' \in Seq(Flow) /\ Len(res') \in {Len(res), Len(res) + 1}
           /\ ~Decodable(r, c)'
           /\ \A k \in Row : Len(candidate'[k]) <= Capacity
           /\ \A k \in Row : (k = r \/ (first /\ k > r)) => candidate'[k] = q[k]
           /\ \A k \in Row : \A d \in Col : In(q[k], d) => In(candidate'[k], d)
           /\ \A k \in Row : Len(candidate'[k]) + Cardinality(NonZero(r)')
                                <= Len(q[k]) + Cardinality(NonZero(r))
           /\ Cardinality(NonZero(r)') <= Cardinality(NonZero(r))
           /\ (\A k \in Row \ {r} : (first => k < r) /\ NonZero(r) # {} => Len(q[k]) < Capacity)
                => /\ dropped' = dropped
                   /\ \A k \in Row, d \in Col :
                         Decodable(k, d)' => \/ Decodable(k, d)
                                             \/ k # r /\ first /\ k > r
                                             \/ In(candidate'[k], d)
<1> DEFINE nz == NonZero(r)
<1>0. /\ IsFiniteSet(nz) /\ Cardinality(nz) \in Nat
  BY ColumnsFinite DEF NonZero
<1>1. CASE ~Decodable(r, c)
  <2>1. candidate' = q /\ x' = x /\ res' = res /\ dropped' = dropped
    BY <1>1 DEF Look, found
  <2>2. NonZero(r)' = nz
    BY <2>1 DEF NonZero
  <2>3. \A k \in Row, d \in Col : Decodable(k, d)' <=> Decodable(k, d)
    BY <2>1 DEF Decodable
  <2>4. \A k \in Row : Len(q[k]) \in Nat
    OBVIOUS
  <2> QED
    BY <1>0, <1>1, <2>1, <2>2, <2>3, <2>4 DEF Shape
<1>2. CASE Decodable(r, c)
  <2> DEFINE f == SoleID(x[r][c])
             again == Requeued(r, first)
  <2>1. f \in IDs /\ x[r][c].counter # 0
    BY <1>2 DEF Decodable, Verifies
  <2>2. \A k \in Row : hash[k][f] \in Col
    BY <2>1 DEF Shape, HashFunctions
  <2>3. /\ x' = Peeled(r, c, f)
        /\ candidate' = [k \in Row |-> IF k \in again THEN Enqueue(q[k], hash[k][f]) ELSE q[k]]
        /\ res' = Append(res, [id |-> f, counter |-> x[r][c].counter])
        /\ dropped' = (dropped \/ \E k \in again : IsFull(q[k]))
    BY <1>2 DEF Look, Verify
  <2> HIDE DEF f
  <2>4. x[r][c] \in Bucket /\ \A k \in Row : x[k] \in [Col -> Bucket]
    BY DEF Shape, Sketch
  <2>5. EmptyBucket \in Bucket /\ EmptyBucket.counter = 0
    BY SketchAssumption DEF EmptyBucket, Bucket
  <2>6. x' \in Sketch
    <3>1. ASSUME NEW k \in Row, k # r
          PROVE  [x[k] EXCEPT ![hash[k][f]] = Minus(@, x[r][c])] \in [Col -> Bucket]
      <4>1. Minus(x[k][hash[k][f]], x[r][c]) \in Bucket
        BY <2>2, <2>4, MinusType
      <4> QED BY <2>2, <2>4, <4>1
    <3>2. [x[r] EXCEPT ![c] = EmptyBucket] \in [Col -> Bucket]
      BY <2>4, <2>5
    <3> QED BY <2>3, <3>1, <3>2 DEF Peeled, Sketch
  <2>7. x'[r] = [x[r] EXCEPT ![c] = EmptyBucket]
    BY <2>3 DEF Peeled
  <2>8. ASSUME NEW k \in Row, k # r, NEW d \in Col, d # hash[k][f]
        PROVE  x'[k][d] = x[k][d]
    BY <2>2, <2>3, <2>4, <2>8 DEF Peeled
  <2>9. NonZero(r)' = nz \ {c} /\ c \in nz
    BY <2>1, <2>4, <2>5, <2>7 DEF NonZero
  <2>10. Cardinality(NonZero(r)') = Cardinality(nz) - 1
    BY <1>0, <2>9, FS_RemoveElement
  <2>11. ASSUME NEW k \in Row
         PROVE  /\ Len(q[k]) \in Nat
                /\ candidate'[k] \in Seq(Col)
                /\ Len(candidate'[k]) <= Capacity
                /\ Len(candidate'[k]) <= Len(q[k]) + 1
                /\ k \notin again => candidate'[k] = q[k]
                /\ k \in again /\ ~IsFull(q[k]) => candidate'[k] = Append(q[k], hash[k][f])
                /\ \A d \in Col : In(q[k], d) => In(candidate'[k], d)
    <3>1. Capacity \in Nat
      BY SketchAssumption DEF Capacity
    <3>2. Len(q[k]) \in Nat /\ Len(q[k]) <= Capacity
      OBVIOUS
    <3>3. CASE k \notin again \/ IsFull(q[k])
      <4>1. candidate'[k] = q[k]
        BY <2>3, <3>3 DEF Enqueue
      <4> QED BY <3>2, <3>3, <4>1
    <3>4. CASE k \in again /\ ~IsFull(q[k])
      <4>1. candidate'[k] = Append(q[k], hash[k][f])
        BY <2>3, <3>4 DEF Enqueue
      <4>2. Len(candidate'[k]) = Len(q[k]) + 1 /\ candidate'[k] \in Seq(Col)
        BY <2>2, <4>1
      <4>3. Len(q[k]) + 1 <= Capacity
        BY <3>1, <3>2, <3>4 DEF IsFull
      <4>4. \A d \in Col : In(q[k], d) => In(candidate'[k], d)
        BY <2>2, <4>1, InAppend
      <4> QED BY <3>2, <3>4, <4>1, <4>2, <4>3, <4>4
    <3> QED BY <3>3, <3>4
  <2>12. candidate' \in [Row -> Seq(Col)]
    BY <2>3, <2>11
  <2>13. res' \in Seq(Flow) /\ Len(res') = Len(res) + 1
    <3>1. [id |-> f, counter |-> x[r][c].counter] \in Flow /\ res \in Seq(Flow)
      BY <2>1, <2>4 DEF Flow, Bucket, Shape
    <3> QED BY <2>3, <3>1
  <2>14. ~Decodable(r, c)'
    BY <2>4, <2>5, <2>7 DEF Decodable
  <2>15. \A k \in Row : (k = r \/ (first /\ k > r)) => k \notin again
    BY DEF Requeued, Row
  <2>16. \A k \in Row : Len(candidate'[k]) + Cardinality(NonZero(r)')
                            <= Len(q[k]) + Cardinality(NonZero(r))
    <3> TAKE k \in Row
    <3>1. Len(candidate'[k]) <= Len(q[k]) + 1 /\ Len(q[k]) \in Nat /\ Len(candidate'[k]) \in Nat
      BY <2>11
    <3> QED BY <1>0, <2>10, <3>1
  <2>17. ASSUME \A k \in Row \ {r} : (first => k < r) /\ NonZero(r) # {} => Len(q[k]) < Capacity
         PROVE  /\ dropped' = dropped
                /\ \A k \in Row, d \in Col :
                      Decodable(k, d)' => \/ Decodable(k, d)
                                          \/ k # r /\ first /\ k > r
                                          \/ In(candidate'[k], d)
    <3>1. \A k \in again : k \in Row /\ k # r /\ ~IsFull(q[k])
      <4> TAKE k \in again
      <4>1. k \in Row /\ k # r /\ (first => k < r)
        BY DEF Requeued
      <4>2. Len(q[k]) < Capacity /\ Len(q[k]) \in Nat
        BY <2>9, <2>11, <2>17, <4>1
      <4>3. Capacity \in Nat
        BY SketchAssumption DEF Capacity
      <4> QED BY <4>1, <4>2, <4>3 DEF IsFull
    <3>2. dropped' = dropped
      BY <2>3, <3>1 DEF Shape
    <3>3. ASSUME NEW k \in Row, NEW d \in Col, Decodable(k, d)'
          PROVE  \/ Decodable(k, d)
                 \/ k # r /\ first /\ k > r
                 \/ In(candidate'[k], d)
      <4>1. CASE k = r
        <5>1. d # c
          BY <2>14, <3>3, <4>1
        <5>2. x'[k][d] = x[k][d]
          BY <2>4, <2>7, <4>1, <5>1
        <5> QED BY <3>3, <5>2 DEF Decodable
      <4>2. CASE k # r /\ d # hash[k][f]
        BY <2>8, <3>3, <4>2 DEF Decodable
      <4>3. CASE k # r /\ d = hash[k][f] /\ k \in again
        <5>1. candidate'[k] = Append(q[k], hash[k][f])
          BY <2>11, <3>1, <4>3
        <5> QED BY <2>2, <4>3, <5>1, InAppend
      <4>4. CASE k # r /\ k \notin again
        <5>1. first /\ ~(k < r)
          BY <4>4 DEF Requeued
        <5> QED BY <4>4, <5>1 DEF Row
      <4> QED BY <4>1, <4>2, <4>3, <4>4
    <3> QED BY <3>2, <3>3
  <2>18. dropped' \in BOOLEAN
    BY <2>3 DEF Shape
  <2> QED
    BY <1>0, <2>6, <2>10, <2>11, <2>12, <2>13, <2>14, <2>15, <2>16, <2>17, <2>18
<1> QED
  BY <1>1, <1>2
-----------------------------------------------------------------------------
(* The scan decodes at most one flow per bucket, the loop stops at the     *)
(* limit.                                                                  *)
Sizes ==
    /\ Len(res) \in Nat /\ Len(res) <= FlowLimit
    /\ phase = "count" => Len(res) = 0
    /\ phase = "scan" => Len(res) <= row * Width + col

(* A pass that still has its pause found every queue so far empty.         *)
Pauses ==
    /\ phase = "count" => row = 0 /\ col = 0 /\ x = EmptySketch
    /\ phase \in {"count", "scan"} => ~pause
    /\ phase = "drain" /\ pause => \A k \in Row : k < row => candidate[k] = <<>>
    /\ phase = "head" /\ pause => \A k \in Row : candidate[k] = <<>>
    /\ Ended /\ WithinLimit => \A k \in Row : candidate[k] = <<>>

Spare(r) == Width - Cardinality(NonZero(r))

(* Looking through a row fills no bucket of that row and empties one for   *)
(* each flow it decodes: while a queue waits for its turn, each other row  *)
(* adds at most Width to it.  The array holds Rows times that.             *)
QueueRoom ==
    /\ ~dropped
    /\ \A k \in Row : Len(candidate[k]) <= Capacity
    /\ phase \in {"count", "scan"} => \A k \in Row :
          /\ k < row => Len(candidate[k]) <= (row - k - 1) * Width + Spare(row)
          /\ k >= row => Len(candidate[k]) = 0
    /\ phase = "head" /\ WithinLimit => \A k \in Row :
          Len(candidate[k]) <= (Rows - 1 - k) * Width
    /\ phase = "drain" /\ WithinLimit => \A k \in Row :
          /\ k < row => Len(candidate[k]) <= (row - k - 1) * Width + Spare(row)
          /\ k = row => Len(candidate[k]) <= (Rows - 1) * Width
          /\ k > row => Len(candidate[k]) <= (Rows + row - k - 1) * Width + Spare(row)

AllPending == \A r \in Row, c \in Col : Decodable(r, c) => Pending(r, c)

IInv == Shape /\ Sizes /\ Pauses /\ QueueRoom /\ AllPending

LEMMA Bounds ==
    /\ Rows \in Nat \ {0} /\ Width \in Nat \ {0} /\ Entries \in Nat
    /\ Rows * Width \in Nat /\ Rows * Width <= FlowLimit
    /\ FlowLimit \in Nat /\ Capacity = Rows * Width
    /\ 0 \in Row /\ 0 \in Col
<1>1. Rows \in Nat \ {0} /\ Width \in Nat \ {0} /\ Entries \in Nat /\ Width <= Entries
  BY SketchAssumption, DecodeAssumption
<1>2. Rows * Width \in Nat /\ Entries * Rows \in Nat /\ Rows * Width <= Entries * Rows
  BY <1>1
<1>3. /\ Entries * Rows * Rows \in Nat
      /\ Entries * Rows <= Entries * Rows * Rows
  <2> DEFINE n == Entries * Rows
  <2>1. n \in Nat
    BY <1>2
  <2> HIDE DEF n
  <2>2. n * Rows \in Nat /\ n <= n * Rows
    BY <1>1, <2>1
  <2> QED BY <2>2 DEF n
<1> QED
  BY <1>1, <1>2, <1>3 DEF FlowLimit, Capacity, Row, Col

LEMMA SpareRange ==
    ASSUME NEW r
    PROVE  Spare(r) \in Int /\ Spare(r) >= 0 /\ Spare(r) <= Width
<1>1. Cardinality(NonZero(r)) \in Nat /\ Cardinality(NonZero(r)) <= Width
  BY ColumnsFinite DEF NonZero
<1> QED
  BY <1>1, SketchAssumption DEF Spare

LEMMA InitIInv == Init => IInv
<1> SUFFICES ASSUME Init PROVE IInv
  OBVIOUS
<1>1. hash \in HashFunctions
  BY DecodeAssumption DEF Init
<1>2. Shape
  <2>1. candidate \in [Row -> Seq(Col)] /\ res \in Seq(Flow)
    BY DEF Init
  <2>2. heavy \in [IDs -> Nat]
    BY DEF Init
  <2> QED BY <1>1, <2>1, <2>2, EmptySketchType, Bounds DEF Init, Shape
<1>3. Sizes
  BY Bounds DEF Init, Sizes
<1>4. Pauses
  BY DEF Init, Pauses, Ended
<1>5. QueueRoom
  <2>1. \A k \in Row : Len(candidate[k]) = 0 /\ ~(k < row)
    BY Bounds DEF Init, Row
  <2>2. phase = "count" /\ ~dropped /\ 0 <= Capacity
    BY Bounds DEF Init
  <2> QED BY <2>1, <2>2 DEF QueueRoom
<1>6. \A r \in Row, c \in Col : ~Decodable(r, c)
  BY DEF Init, Decodable, EmptySketch, EmptyBucket
<1> QED
  BY <1>2, <1>3, <1>4, <1>5, <1>6 DEF IInv, AllPending

(* Counting and putting back leave the decoder's state alone.              *)
LEMMA CountStep ==
    ASSUME IInv, NEW f \in IDs, Enter(f) \/ EnterHeavy(f) \/ Leave(f) \/ PutBack(f)
    PROVE  IInv'
<1> USE DEF IInv
<1>1. /\ UNCHANGED <<x, candidate, res, phase, row, col, pause, dropped, hash>>
      /\ phase = "count"
  BY DEF Enter, EnterHeavy, Leave, PutBack, Decoding
<1>2. ingress' \in Sketch
  <2>1. CASE Enter(f)
    BY <2>1, CountPacketType DEF Enter, Shape
  <2>2. CASE Leave(f)
    BY <2>2 DEF Leave, Shape
  <2>3. CASE PutBack(f)
    <3>1. heavy[f] \in Nat
      BY DEF Shape
    <3> QED BY <2>3, <3>1, AddFlowType DEF PutBack, Shape
  <2>4. CASE EnterHeavy(f)
    BY <2>4 DEF EnterHeavy, Shape
  <2> QED BY <2>1, <2>2, <2>3, <2>4
<1>3. egress' \in Sketch
  BY CountPacketType DEF Enter, EnterHeavy, Leave, PutBack, Shape
<1>4. heavy' \in [IDs -> Nat]
  BY DEF Enter, EnterHeavy, Leave, PutBack, Shape
<1>5. Shape'
  BY <1>1, <1>2, <1>3, <1>4 DEF Shape, Ended
<1>6. Sizes' /\ Pauses'
  BY <1>1 DEF Sizes, Pauses, Ended, WithinLimit
<1>7. QueueRoom'
  BY <1>1 DEF QueueRoom, Spare, NonZero, WithinLimit
<1>8. AllPending'
  BY <1>1 DEF AllPending, Decodable, Pending
<1> QED
  BY <1>5, <1>6, <1>7, <1>8

LEMMA BeginStep == IInv /\ Begin => IInv'
<1> SUFFICES ASSUME IInv, Begin PROVE IInv'
  OBVIOUS
<1> USE DEF IInv
<1>1. /\ phase = "count" /\ phase' = "scan"
      /\ UNCHANGED <<traffic, candidate, res, row, col, pause, dropped>>
      /\ row = 0 /\ col = 0
  BY DEF Begin, Pauses
<1>2. x' \in Sketch
  BY EmptySketchType, SumsType DEF Begin, Shape
<1>3. Shape'
  BY <1>1, <1>2 DEF Shape, traffic, Ended
<1>4. Sizes'
  BY <1>1, Bounds DEF Sizes
<1>5. Pauses'
  BY <1>1 DEF Pauses, Ended, WithinLimit
<1>6. QueueRoom'
  <2>1. \A k \in Row : ~(k < row) /\ Len(candidate[k]) = 0
    BY <1>1, Bounds DEF QueueRoom, Row
  <2> QED BY <1>1, <2>1 DEF QueueRoom
<1>7. AllPending'
  BY <1>1, Bounds DEF AllPending, Pending, Row, Col
<1> QED
  BY <1>3, <1>4, <1>5, <1>6, <1>7

LEMMA EnterPassStep == IInv /\ EnterPass => IInv'
<1> SUFFICES ASSUME IInv, EnterPass PROVE IInv'
  OBVIOUS
<1> USE DEF IInv
<1>1. /\ phase = "head" /\ phase' = "drain" /\ row' = 0 /\ pause' = TRUE /\ WithinLimit
      /\ UNCHANGED <<traffic, found, candidate, col>>
  BY DEF EnterPass
<1>2. Shape'
  BY <1>1, Bounds DEF Shape, traffic, found, Ended
<1>3. Sizes'
  BY <1>1 DEF Sizes, found
<1>4. Pauses'
  BY <1>1, Bounds DEF Pauses, Ended, Row
<1>5. QueueRoom'
  <2>1. Spare(row)' \in Int /\ Spare(row)' >= 0
    BY <1>1, <1>2, ColumnsFinite, Bounds DEF Spare, NonZero
  <2>2. ASSUME NEW k \in Row
        PROVE  /\ k >= row'
               /\ Len(candidate[k]) \in Nat
               /\ Len(candidate[k]) <= (Rows - 1 - k) * Width
               /\ (Rows + 0 - k - 1) * Width = (Rows - 1 - k) * Width
               /\ k = 0 => (Rows - 1 - k) * Width = (Rows - 1) * Width
    BY <1>1, Bounds DEF QueueRoom, Row, Shape
  <2>3. ~dropped' /\ \A k \in Row : Len(candidate'[k]) <= Capacity
    BY <1>1 DEF QueueRoom, found
  <2>4. ASSUME NEW k \in Row
        PROVE  /\ ~(k < row')
               /\ k = row' => Len(candidate'[k]) <= (Rows - 1) * Width
               /\ k > row' => Len(candidate'[k]) <= (Rows + row' - k - 1) * Width + Spare(row)'
    <3>1. (Rows - 1 - k) * Width \in Int
      BY Bounds DEF Row
    <3> QED BY <1>1, <2>1, <2>2, <3>1 DEF Row
  <2> QED BY <1>1, <2>3, <2>4 DEF QueueRoom
<1>6. AllPending'
  BY <1>1 DEF AllPending, Decodable, Pending, found, traffic
<1> QED
  BY <1>2, <1>3, <1>4, <1>5, <1>6

LEMMA ReturnStep == IInv /\ Return => IInv'
<1> SUFFICES ASSUME IInv, Return PROVE IInv'
  OBVIOUS
<1> USE DEF IInv
<1>1. /\ phase = "head" /\ phase' \in {"succeed", "NULL"}
      /\ pause \/ ~WithinLimit
      /\ UNCHANGED <<traffic, x, candidate, row, col, pause, dropped>>
  BY DEF Return
<1>2. res \in Seq(Flow)
  BY <1>1 DEF Shape, Ended
<1>3. Len(res') = Len(res)
  <2>1. CASE res' = res
    BY <2>1
  <2>2. CASE res' = [i \in DOMAIN res |-> MergedFlow(i)]
    <3> DEFINE merged == [i \in 1..Len(res) |-> MergedFlow(i)]
               S == {MergedFlow(i) : i \in 1..Len(res)}
    <3>1. res' = merged /\ Len(res) \in Nat
      BY <1>2, <2>2
    <3>2. \A i \in 1..Len(res) : MergedFlow(i) \in S
      OBVIOUS
    <3>3. merged \in [1..Len(res) -> S]
      BY <3>2
    <3> HIDE DEF merged, S
    <3>4. Len(merged) = Len(res)
      BY <3>1, <3>3
    <3> QED BY <3>1, <3>4
  <2> QED BY <2>1, <2>2 DEF Return
<1>4. Shape'
  BY <1>1 DEF Shape, traffic, Ended
<1>5. Sizes'
  BY <1>1, <1>3 DEF Sizes
<1>6. Pauses'
  BY <1>1, <1>3 DEF Pauses, Ended, WithinLimit
<1>7. QueueRoom'
  BY <1>1 DEF QueueRoom
<1>8. AllPending'
  BY <1>1 DEF AllPending, Decodable, Pending, traffic
<1> QED
  BY <1>4, <1>5, <1>6, <1>7, <1>8

LEMMA NextRowStep == IInv /\ NextRow => IInv'
<1> SUFFICES ASSUME IInv, NextRow PROVE IInv'
  OBVIOUS
<1> USE DEF IInv
<1>1. /\ phase = "drain" /\ phase' \in {"drain", "head"}
      /\ pause' = (pause /\ candidate[row] = <<>>)
      /\ \/ row < Rows - 1 /\ row' = row + 1 /\ phase' = "drain"
         \/ row = Rows - 1 /\ phase' = "head" /\ row' = row
      /\ UNCHANGED <<traffic, found, candidate, col>>
      /\ WithinLimit => candidate[row] = <<>>
  BY DEF NextRow, Draining
<1>2. Shape'
  BY <1>1, Bounds DEF Shape, traffic, found, Ended, Row
<1>3. Sizes'
  BY <1>1 DEF Sizes, found
<1>4. Pauses'
  <2>1. ASSUME pause'
        PROVE  pause /\ \A k \in Row : k <= row => candidate[k] = <<>>
    <3>1. pause /\ candidate[row] = <<>>
      BY <1>1, <2>1, Zenon
    <3>2. \A k \in Row : k < row => candidate[k] = <<>>
      BY <1>1, <3>1 DEF Pauses
    <3>3. \A k \in Row : k <= row => k < row \/ k = row
      BY DEF Row, Shape
    <3> QED BY <3>1, <3>2, <3>3
  <2>2. \A k \in Row : (k < row' /\ phase' = "drain") \/ phase' = "head" => k <= row
    BY <1>1, Bounds DEF Row, Shape
  <2>3. /\ phase' \in {"drain", "head"} /\ candidate' = candidate
        /\ pause' \in BOOLEAN
    BY <1>1, <1>2 DEF Shape
  <2>4. phase' = "drain" /\ pause' => \A k \in Row : k < row' => candidate'[k] = <<>>
    BY <2>1, <2>2, <2>3
  <2>5. phase' = "head" /\ pause' => \A k \in Row : candidate'[k] = <<>>
    BY <2>1, <2>2, <2>3
  <2>6. phase' # "count" /\ phase' # "scan" /\ phase' # "succeed" /\ phase' # "NULL"
    BY <2>3
  <2> QED BY <2>4, <2>5, <2>6 DEF Pauses, Ended
<1>5. QueueRoom'
  <2>1. ~dropped' /\ \A k \in Row : Len(candidate'[k]) <= Capacity
    BY <1>1 DEF QueueRoom, found
  <2>2. ASSUME WithinLimit', NEW k \in Row
        PROVE  /\ phase' = "head" => Len(candidate'[k]) <= (Rows - 1 - k) * Width
               /\ phase' = "drain" =>
                    /\ k < row' => Len(candidate'[k]) <= (row' - k - 1) * Width + Spare(row)'
                    /\ k = row' => Len(candidate'[k]) <= (Rows - 1) * Width
                    /\ k > row' => Len(candidate'[k]) <= (Rows + row' - k - 1) * Width + Spare(row)'
    <3>1. WithinLimit
      BY <1>1, <2>2 DEF WithinLimit, found
    <3>2. Spare(row) \in Int /\ 0 <= Spare(row) /\ Spare(row) <= Width
      BY SpareRange
    <3>3. Spare(row)' \in Int /\ 0 <= Spare(row)'
      BY <1>1, ColumnsFinite, Bounds DEF Spare, NonZero
    <3>4. /\ Len(candidate[k]) \in Nat
          /\ k < row => Len(candidate[k]) <= (row - k - 1) * Width + Spare(row)
          /\ k = row => Len(candidate[k]) = 0
          /\ k > row => Len(candidate[k]) <= (Rows + row - k - 1) * Width + Spare(row)
      BY <1>1, <3>1 DEF QueueRoom, Shape
    <3>5. candidate' = candidate
      BY <1>1
    <3>6. row \in Int /\ k \in Int /\ k <= Rows - 1 /\ k >= 0 /\ row <= Rows - 1
      BY Bounds DEF Shape, Row
    <3> DEFINE s == Spare(row)
               t == Spare(row)'
               n == Len(candidate[k])
               before1 == (row - k - 1) * Width
               after1 == (row - k) * Width
               before2 == (Rows + row - k - 1) * Width
               after2 == (Rows + row - k) * Width
               most == (Rows - 1) * Width
               last == (Rows - 1 - k) * Width
    <3>7. n \in Nat /\ s \in Int /\ 0 <= s /\ s <= Width /\ t \in Int /\ 0 <= t /\ Width \in Nat
      BY <3>2, <3>3, <3>4, Bounds
    <3>8. /\ after1 = before1 + Width /\ after1 \in Int /\ before1 \in Int
          /\ after2 = before2 + Width /\ after2 \in Int /\ before2 \in Int
          /\ most \in Int
          /\ k = row + 1 => after2 = most
          /\ k = row => after1 = 0
          /\ row = Rows - 1 => after1 = last
          /\ \A z : z = row + 1 => /\ (z - k - 1) * Width = after1
                                  /\ (Rows + z - k - 1) * Width = after2
      BY <3>6, Bounds
    <3>9. /\ k < row => n <= before1 + s
          /\ k > row => n <= before2 + s
          /\ k = row => n = 0
      BY <3>4
    <3> HIDE DEF n, s, t, before1, after1, before2, after2, most, last
    <3>a. /\ k <= row => n <= after1
          /\ k > row => n <= after2
      BY <3>6, <3>7, <3>8, <3>9
    <3>10. CASE row < Rows - 1 /\ row' = row + 1 /\ phase' = "drain"
      <4>1. /\ k < row + 1 => n <= after1 + t
            /\ k = row + 1 => n <= most
            /\ k > row + 1 => n <= after2 + t
        BY <3>6, <3>7, <3>8, <3>a
      <4>2. (row' - k - 1) * Width = after1 /\ (Rows + row' - k - 1) * Width = after2
        BY <3>8, <3>10
      <4>3. /\ k < row' => n <= (row' - k - 1) * Width + t
            /\ k = row' => n <= most
            /\ k > row' => n <= (Rows + row' - k - 1) * Width + t
        BY <3>10, <4>1, <4>2
      <4> QED BY <3>5, <3>10, <4>3 DEF n, t, most
    <3>11. CASE row = Rows - 1 /\ phase' = "head"
      <4>1. n <= last
        BY <3>6, <3>7, <3>8, <3>a, <3>11
      <4> QED BY <3>5, <3>11, <4>1 DEF n, last
    <3> QED BY <1>1, <3>10, <3>11
  <2> QED BY <1>1, <2>1, <2>2 DEF QueueRoom
<1>6. AllPending'
  BY <1>1 DEF AllPending, Decodable, Pending, found, traffic
<1> QED
  BY <1>2, <1>3, <1>4, <1>5, <1>6

LEMMA ScanStep == IInv /\ Scan => IInv'
<1> SUFFICES ASSUME IInv, Scan PROVE IInv'
  OBVIOUS
<1> USE DEF IInv
<1>1. /\ phase = "scan" /\ Look(row, col, candidate, TRUE)
      /\ \/ col < Width - 1 /\ col' = col + 1 /\ row' = row /\ phase' = "scan"
         \/ col = Width - 1 /\ row < Rows - 1 /\ col' = 0 /\ row' = row + 1 /\ phase' = "scan"
         \/ col = Width - 1 /\ row = Rows - 1 /\ col' = col /\ row' = row /\ phase' = "head"
      /\ UNCHANGED <<traffic, pause>>
  BY DEF Scan
<1>2. PICK r \in Row, c \in Col, q \in [Row -> Seq(Col)] : r = row /\ c = col /\ q = candidate
  BY DEF Shape
<1>3. r \in Nat /\ r <= Rows - 1 /\ c \in Nat /\ c <= Width - 1 /\ Width \in Nat /\ Rows \in Nat
  BY <1>2, Bounds DEF Row, Col
<1>4. IsFiniteSet(NonZero(r)) /\ Cardinality(NonZero(r)) \in Nat /\ Cardinality(NonZero(r)) <= Width
  BY ColumnsFinite DEF NonZero
<1>5. ASSUME NEW k \in Row
      PROVE  /\ Len(q[k]) \in Nat /\ Len(q[k]) <= Capacity
             /\ k < r => Len(q[k]) + Cardinality(NonZero(r)) <= (r - k - 1) * Width + Width
             /\ k >= r => Len(q[k]) = 0
  <2>1. /\ k < r => Len(q[k]) <= (r - k - 1) * Width + Spare(r)
        /\ k >= r => Len(q[k]) = 0
        /\ Len(q[k]) <= Capacity
    BY <1>1, <1>2 DEF QueueRoom
  <2>2. (r - k - 1) * Width \in Int
    BY <1>3 DEF Row
  <2> QED BY <1>3, <1>4, <2>1, <2>2 DEF Spare
<1>6. ASSUME NEW k \in Row, k < r
      PROVE  /\ (r - k - 1) * Width + Width = (r - k) * Width
             /\ (r - k) * Width <= Capacity
             /\ (r - k) * Width \in Int /\ (r - k - 1) * Width \in Int
  <2>1. k \in Int /\ r - k \in Int /\ r - k <= Rows
    BY <1>3 DEF Row
  <2>2. (r - k) * Width <= Rows * Width
    BY <1>3, <2>1, MulMono
  <2> QED BY <1>3, <2>1, <2>2, Bounds
<1>7. \A k \in Row \ {r} : (TRUE => k < r) /\ NonZero(r) # {} => Len(q[k]) < Capacity
  <2> SUFFICES ASSUME NEW k \in Row, k < r, NonZero(r) # {}
               PROVE  Len(q[k]) < Capacity
    OBVIOUS
  <2>1. Cardinality(NonZero(r)) >= 1
    BY <1>4, FS_EmptySet
  <2>2. Capacity \in Nat
    BY Bounds
  <2>3. Len(q[k]) + Cardinality(NonZero(r)) <= Capacity
    <3>1. (r - k) * Width \in Int
      BY <1>6
    <3> HIDE DEF NonZero
    <3> QED BY <1>4, <1>5, <1>6, <2>2
  <2> QED BY <1>4, <1>5, <2>1, <2>2, <2>3
<1>8. /\ x' \in Sketch /\ candidate' \in [Row -> Seq(Col)]
      /\ dropped' = dropped
      /\ res' \in Seq(Flow) /\ Len(res') \in {Len(res), Len(res) + 1}
      /\ ~Decodable(r, c)'
      /\ \A k \in Row : Len(candidate'[k]) <= Capacity
      /\ \A k \in Row : k >= r => candidate'[k] = q[k]
      /\ \A k \in Row : \A d \in Col : In(q[k], d) => In(candidate'[k], d)
      /\ \A k \in Row : Len(candidate'[k]) + Cardinality(NonZero(r)')
                           <= Len(q[k]) + Cardinality(NonZero(r))
      /\ \A k \in Row, d \in Col :
            Decodable(k, d)' => Decodable(k, d) \/ k > r \/ In(candidate'[k], d)
  <2>1. Shape /\ ~Ended /\ hash' = hash /\ TRUE \in BOOLEAN /\ Look(r, c, q, TRUE)
    BY <1>1, <1>2 DEF Ended, traffic
  <2>2. \A k \in Row : Len(q[k]) <= Capacity
    BY <1>5
  <2>3. \A k \in Row : k >= r => k = r \/ (TRUE /\ k > r)
    BY <1>3 DEF Row
  <2>4. PICK first \in BOOLEAN : first = TRUE
    OBVIOUS
  <2>5. Look(r, c, q, first)
    BY <2>1, <2>4
  <2>6. \A k \in Row \ {r} : (first => k < r) /\ NonZero(r) # {} => Len(q[k]) < Capacity
    BY <1>7, <2>4
  <2>7. /\ x' \in Sketch /\ candidate' \in [Row -> Seq(Col)]
        /\ res' \in Seq(Flow) /\ Len(res') \in {Len(res), Len(res) + 1}
        /\ ~Decodable(r, c)'
        /\ \A k \in Row : Len(candidate'[k]) <= Capacity
        /\ \A k \in Row : (k = r \/ (first /\ k > r)) => candidate'[k] = q[k]
        /\ \A k \in Row : \A d \in Col : In(q[k], d) => In(candidate'[k], d)
        /\ \A k \in Row : Len(candidate'[k]) + Cardinality(NonZero(r)')
                             <= Len(q[k]) + Cardinality(NonZero(r))
        /\ dropped' = dropped
        /\ \A k \in Row, d \in Col :
              Decodable(k, d)' => \/ Decodable(k, d)
                                  \/ k # r /\ first /\ k > r
                                  \/ In(candidate'[k], d)
    BY <2>1, <2>2, <2>5, <2>6, LookEffect
  <2> QED BY <2>3, <2>4, <2>7
<1>9. Shape'
  <2>1. row' \in Row /\ col' \in Col /\ phase' \in {"scan", "head"} /\ pause' \in BOOLEAN
    BY <1>1, <1>2, <1>3 DEF Row, Col, Shape
  <2> QED BY <1>1, <1>8, <2>1 DEF Shape, traffic
<1>10. Sizes'
  <2>1. Len(res') \in Nat /\ Len(res') <= r * Width + c + 1 /\ r * Width \in Int
    BY <1>1, <1>2, <1>3, <1>8 DEF Sizes
  <2>2. (r + 1) * Width = r * Width + Width /\ (r + 1) * Width <= FlowLimit
    <3>1. (r + 1) * Width <= Rows * Width
      BY <1>3, MulMono
    <3>2. (r + 1) * Width \in Int
      BY <1>3
    <3> QED BY <1>3, <3>1, <3>2, Bounds
  <2>3. Len(res') <= FlowLimit
    BY <1>3, <2>1, <2>2, Bounds
  <2>4. phase' = "scan" => Len(res') <= row' * Width + col'
    <3>1. CASE col' = c + 1 /\ row' = r
      BY <1>3, <2>1, <3>1
    <3>2. CASE c = Width - 1 /\ col' = 0 /\ row' = r + 1
      <4>1. row' * Width = (r + 1) * Width
        BY <3>2
      <4> QED BY <1>3, <2>1, <2>2, <3>2, <4>1
    <3> QED BY <1>1, <1>2, <3>1, <3>2
  <2>5. phase' # "count"
    BY <1>1
  <2> QED BY <2>1, <2>3, <2>4, <2>5 DEF Sizes
<1>11. Pauses'
  BY <1>1 DEF Pauses, Ended
<1>12. Cardinality(NonZero(r)') \in Nat /\ Cardinality(NonZero(r)') <= Width
  BY ColumnsFinite DEF NonZero
<1>13. ASSUME NEW k \in Row, k < r
       PROVE  /\ Len(candidate'[k]) \in Nat
              /\ Len(candidate'[k]) + Cardinality(NonZero(r)') <= (r - k) * Width
  <2> DEFINE n == Cardinality(NonZero(r))
             m == Cardinality(NonZero(r)')
             room == (r - k) * Width
  <2>1. /\ Len(candidate'[k]) + m <= Len(q[k]) + n
        /\ Len(candidate'[k]) \in Nat /\ Len(q[k]) \in Nat
    BY <1>5, <1>8
  <2>2. Len(q[k]) + n <= room /\ room \in Int
    BY <1>5, <1>6, <1>13
  <2>3. n \in Nat /\ m \in Nat
    BY <1>4, <1>12
  <2> HIDE DEF n, m, room
  <2> QED
    <3>1. Len(candidate'[k]) + m <= room
      BY <2>1, <2>2, <2>3
    <3> QED BY <2>1, <3>1 DEF m, room
<1>14. ASSUME NEW k \in Row, k >= r
       PROVE  Len(candidate'[k]) = 0
  BY <1>5, <1>8, <1>14
<1>15. QueueRoom'
  <2>1. ~dropped' /\ \A k \in Row : Len(candidate'[k]) <= Capacity
    BY <1>8 DEF QueueRoom
  <2>2. ASSUME NEW k \in Row
        PROVE  /\ phase' = "scan" =>
                    /\ k < row' => Len(candidate'[k]) <= (row' - k - 1) * Width + Spare(row)'
                    /\ k >= row' => Len(candidate'[k]) = 0
               /\ phase' = "head" => Len(candidate'[k]) <= (Rows - 1 - k) * Width
    <3> DEFINE m == Cardinality(NonZero(r)')
               n == Len(candidate'[k])
               before == (r - k - 1) * Width
               after == (r - k) * Width
               last == (Rows - 1 - k) * Width
               t == Spare(row)'
    <3>1. k \in Int /\ m \in Nat /\ m <= Width
      BY <1>3, <1>12 DEF Row
    <3>2. /\ after = before + Width /\ after \in Int /\ before \in Int
          /\ \A z : z = r + 1 => (z - k - 1) * Width = after
          /\ \A z : z = r => (z - k - 1) * Width = before
          /\ r = Rows - 1 => after = last
          /\ k = r => after = 0
          /\ last \in Int /\ last >= 0
      <4>1. Rows - 1 - k \in Nat
        BY <1>3 DEF Row
      <4> QED BY <1>3, <3>1, <4>1
    <3>3. /\ k < r => n + m <= after /\ n \in Nat
          /\ k >= r => n = 0
      BY <1>13, <1>14
    <3>4. t \in Int /\ t >= 0
      <4> DEFINE used == {e \in Col : x'[row'][e].counter # 0}
      <4>1. t = Width - Cardinality(used)
        BY DEF Spare, NonZero
      <4>2. Cardinality(used) \in Nat /\ Cardinality(used) <= Width
        BY ColumnsFinite
      <4> HIDE DEF used, t
      <4> QED BY <1>3, <4>1, <4>2
    <3>5. row' = r => t = Width - m
      BY DEF Spare, NonZero
    <3>6. \/ row' = r /\ phase' = "scan"
          \/ row' = r + 1 /\ phase' = "scan"
          \/ row' = r /\ r = Rows - 1 /\ phase' = "head"
      BY <1>1, <1>2
    <3> HIDE DEF m, n, before, after, last, t
    <3>7. CASE row' = r /\ phase' = "scan"
      <4>1. (row' - k - 1) * Width = before
        BY <3>2, <3>7
      <4>2. /\ k < r => n <= before + t
            /\ k >= r => n = 0
        BY <1>3, <3>1, <3>2, <3>3, <3>5, <3>7
      <4> QED BY <3>7, <4>1, <4>2 DEF n, t
    <3>8. CASE row' = r + 1 /\ phase' = "scan"
      <4>1. (row' - k - 1) * Width = after
        BY <3>2, <3>8
      <4>a. k < r => n <= after + t
        BY <3>1, <3>2, <3>3, <3>4
      <4>b. k = r => n <= after + t
        BY <3>1, <3>2, <3>3, <3>4
      <4>c. k >= r + 1 => k >= r
        BY <1>3, <3>1
      <4>d. k < r + 1 => k < r \/ k = r
        BY <1>3, <3>1
      <4>2. /\ k < r + 1 => n <= after + t
            /\ k >= r + 1 => n = 0
        BY <3>3, <4>a, <4>b, <4>c, <4>d
      <4> QED BY <3>8, <4>1, <4>2 DEF n, t
    <3>9. CASE row' = r /\ r = Rows - 1 /\ phase' = "head"
      <4>1. n <= last
        BY <1>3, <3>1, <3>2, <3>3, <3>9
      <4> QED BY <3>9, <4>1 DEF n, last
    <3> QED BY <3>6, <3>7, <3>8, <3>9
  <2>3. phase' \in {"scan", "head"}
    BY <1>1
  <2> QED BY <2>1, <2>2, <2>3 DEF QueueRoom
<1>16. AllPending'
  <2> SUFFICES ASSUME NEW k \in Row, NEW d \in Col, Decodable(k, d)'
               PROVE  Pending(k, d)'
    BY DEF AllPending
  <2>1. Pending(k, d)' <=> \/ In(candidate'[k], d)
                           \/ phase' = "scan" /\ (k > row' \/ (k = row' /\ d >= col'))
    BY DEF Pending, In
  <2>2. Decodable(k, d) => In(q[k], d) \/ k > r \/ (k = r /\ d >= c)
    BY <1>2 DEF AllPending, Pending, In
  <2>3. In(candidate'[k], d) \/ k > r \/ (k = r /\ d > c)
    <3>1. k \in Int /\ d \in Int
      BY <1>3 DEF Row, Col
    <3>2. k = r => d # c
      BY <1>8
    <3> QED BY <1>3, <1>8, <2>2, <3>1, <3>2
  <2>4. CASE In(candidate'[k], d)
    BY <2>1, <2>4
  <2>5. CASE k > r
    <3>1. k \in Int /\ k <= Rows - 1 /\ d \in Int /\ d >= 0
      BY <1>3 DEF Row, Col
    <3>2. phase' = "scan" /\ (k > row' \/ (k = row' /\ d >= col'))
      BY <1>1, <1>2, <1>3, <2>5, <3>1
    <3> QED BY <2>1, <3>2
  <2>6. CASE k = r /\ d > c
    <3>1. d \in Int /\ d <= Width - 1
      BY <1>3 DEF Col
    <3>2. phase' = "scan" /\ k = row' /\ d >= col'
      BY <1>1, <1>2, <1>3, <2>6, <3>1
    <3> QED BY <2>1, <3>2
  <2> QED BY <2>3, <2>4, <2>5, <2>6
<1> QED
  BY <1>9, <1>10, <1>11, <1>15, <1>16

LEMMA DequeueStep == IInv /\ Dequeue => IInv'
<1> SUFFICES ASSUME IInv, Dequeue PROVE IInv'
  OBVIOUS
<1> USE DEF IInv
<1>1. /\ phase = "drain" /\ candidate[row] # <<>> /\ WithinLimit
      /\ pause' = FALSE
      /\ Look(row, Head(candidate[row]), [candidate EXCEPT ![row] = Tail(@)], FALSE)
      /\ UNCHANGED <<traffic, phase, row, col>>
  BY DEF Dequeue, Draining
<1>2. PICK r \in Row, c \in Col, q \in [Row -> Seq(Col)], first \in BOOLEAN :
         /\ r = row /\ c = Head(candidate[row])
         /\ q = [candidate EXCEPT ![row] = Tail(@)] /\ first = FALSE
  <2>1. candidate[row] \in Seq(Col) /\ row \in Row
    BY DEF Shape
  <2>2. Head(candidate[row]) \in Col /\ Tail(candidate[row]) \in Seq(Col)
    BY <1>1, <2>1
  <2>3. [candidate EXCEPT ![row] = Tail(@)] \in [Row -> Seq(Col)]
    BY <2>2 DEF Shape
  <2> QED BY <2>1, <2>2, <2>3
<1>3. /\ candidate \in [Row -> Seq(Col)] /\ q[r] = Tail(candidate[r])
      /\ candidate[r] # <<>> /\ c = Head(candidate[r])
      /\ \A k \in Row : k # r => q[k] = candidate[k]
  BY <1>1, <1>2 DEF Shape
<1>4. Len(q[r]) \in Nat /\ Len(q[r]) < Len(candidate[r]) /\ Len(candidate[r]) \in Nat
  <2>1. candidate[r] \in Seq(Col)
    BY <1>3
  <2> QED BY <1>3, <2>1
<1>5. r \in Nat /\ r <= Rows - 1 /\ Width \in Nat /\ Rows \in Nat /\ Capacity \in Nat
  BY Bounds DEF Row
<1>6. /\ IsFiniteSet(NonZero(r))
      /\ Cardinality(NonZero(r)) \in Nat /\ Cardinality(NonZero(r)) <= Width
      /\ Cardinality(NonZero(r)') \in Nat /\ Cardinality(NonZero(r)') <= Width
  BY ColumnsFinite DEF NonZero
<1>7. ASSUME NEW k \in Row, k # r
      PROVE  \E m \in Row : /\ k < r => m = r - k - 1
                            /\ k > r => m = Rows + r - k - 1
                            /\ Len(q[k]) \in Nat
                            /\ Len(q[k]) + Cardinality(NonZero(r)) <= m * Width + Width
                            /\ m * Width + Width <= Capacity /\ m * Width \in Nat
  <2>1. k \in Nat /\ k <= Rows - 1
    BY Bounds DEF Row
  <2>2. PICK m \in Row : (k < r => m = r - k - 1) /\ (k > r => m = Rows + r - k - 1)
    <3>1. CASE k < r
      <4>1. r - k - 1 \in Row
        BY <1>5, <2>1, <3>1 DEF Row
      <4> QED BY <1>5, <2>1, <3>1, <4>1
    <3>2. CASE k > r
      <4>1. Rows + r - k - 1 \in Row
        BY <1>5, <2>1, <3>2 DEF Row
      <4> QED BY <1>5, <2>1, <3>2, <4>1
    <3> QED BY <1>5, <1>7, <2>1, <3>1, <3>2
  <2>3. m \in Nat /\ m + 1 <= Rows
    BY <1>5 DEF Row
  <2>4. (m + 1) * Width <= Rows * Width /\ (m + 1) * Width = m * Width + Width /\ m * Width \in Nat
    BY <1>5, <2>3, MulMono, MulStep
  <2>5. /\ k < r => Len(candidate[k]) <= (r - k - 1) * Width + Spare(r)
        /\ k > r => Len(candidate[k]) <= (Rows + r - k - 1) * Width + Spare(r)
    BY <1>1, <1>2 DEF QueueRoom
  <2>6. Len(candidate[k]) <= m * Width + Spare(r)
    <3>1. CASE k < r
      BY <2>2, <2>5, <3>1
    <3>2. CASE k > r
      BY <2>2, <2>5, <3>2
    <3> QED BY <1>5, <1>7, <2>1, <3>1, <3>2
  <2>7. Len(candidate[k]) \in Nat /\ q[k] = candidate[k]
    BY <1>3, <1>7
  <2>8. Len(q[k]) + Cardinality(NonZero(r)) <= m * Width + Width
    BY <1>5, <1>6, <2>4, <2>6, <2>7 DEF Spare
  <2> QED BY <2>2, <2>4, <2>7, <2>8, Bounds
<1>8. \A k \in Row \ {r} : (first => k < r) /\ NonZero(r) # {} => Len(q[k]) < Capacity
  <2> SUFFICES ASSUME NEW k \in Row, k # r, NonZero(r) # {}
               PROVE  Len(q[k]) < Capacity
    OBVIOUS
  <2>1. Cardinality(NonZero(r)) >= 1
    BY <1>6, FS_EmptySet
  <2>2. PICK m \in Row : /\ Len(q[k]) \in Nat
                         /\ Len(q[k]) + Cardinality(NonZero(r)) <= m * Width + Width
                         /\ m * Width + Width <= Capacity /\ m * Width \in Nat
    BY <1>7
  <2> HIDE DEF NonZero
  <2> QED BY <1>5, <1>6, <2>1, <2>2
<1>9. /\ x' \in Sketch /\ candidate' \in [Row -> Seq(Col)]
      /\ dropped' = dropped
      /\ res' \in Seq(Flow) /\ Len(res') \in {Len(res), Len(res) + 1}
      /\ ~Decodable(r, c)'
      /\ \A k \in Row : Len(candidate'[k]) <= Capacity
      /\ candidate'[r] = q[r]
      /\ \A k \in Row : \A d \in Col : In(q[k], d) => In(candidate'[k], d)
      /\ \A k \in Row : Len(candidate'[k]) + Cardinality(NonZero(r)')
                           <= Len(q[k]) + Cardinality(NonZero(r))
      /\ \A k \in Row, d \in Col :
            Decodable(k, d)' => Decodable(k, d) \/ In(candidate'[k], d)
  <2>1. Shape /\ ~Ended /\ hash' = hash /\ Look(r, c, q, first)
    BY <1>1, <1>2 DEF Ended, traffic
  <2>2. \A k \in Row : Len(q[k]) <= Capacity
    <3> TAKE k \in Row
    <3>1. Len(candidate[k]) <= Capacity
      BY DEF QueueRoom
    <3> QED BY <1>3, <1>4, <1>5, <3>1
  <2>3. /\ x' \in Sketch /\ candidate' \in [Row -> Seq(Col)]
        /\ res' \in Seq(Flow) /\ Len(res') \in {Len(res), Len(res) + 1}
        /\ ~Decodable(r, c)'
        /\ \A k \in Row : Len(candidate'[k]) <= Capacity
        /\ \A k \in Row : (k = r \/ (first /\ k > r)) => candidate'[k] = q[k]
        /\ \A k \in Row : \A d \in Col : In(q[k], d) => In(candidate'[k], d)
        /\ \A k \in Row : Len(candidate'[k]) + Cardinality(NonZero(r)')
                             <= Len(q[k]) + Cardinality(NonZero(r))
        /\ dropped' = dropped
        /\ \A k \in Row, d \in Col :
              Decodable(k, d)' => \/ Decodable(k, d)
                                  \/ k # r /\ first /\ k > r
                                  \/ In(candidate'[k], d)
    BY <1>8, <2>1, <2>2, LookEffect
  <2> QED BY <1>2, <2>3
<1>10. Shape'
  BY <1>1, <1>9 DEF Shape, traffic
<1>11. Sizes'
  BY <1>1, <1>9, Bounds DEF Sizes, WithinLimit
<1>12. Pauses'
  BY <1>1 DEF Pauses, Ended
<1>13. QueueRoom'
  <2>1. ~dropped' /\ \A k \in Row : Len(candidate'[k]) <= Capacity
    BY <1>9 DEF QueueRoom
  <2>2. ASSUME NEW k \in Row
        PROVE  /\ k < r => Len(candidate'[k]) <= (r - k - 1) * Width + Spare(r)'
               /\ k = r => Len(candidate'[k]) <= (Rows - 1) * Width
               /\ k > r => Len(candidate'[k]) <= (Rows + r - k - 1) * Width + Spare(r)'
    <3>1. CASE k = r
      <4>1. Len(candidate[r]) <= (Rows - 1) * Width
        BY <1>1, <1>2 DEF QueueRoom
      <4>2. (Rows - 1) * Width \in Int
        BY <1>5
      <4>3. Len(candidate'[k]) <= (Rows - 1) * Width
        BY <1>4, <1>9, <3>1, <4>1, <4>2
      <4> QED BY <1>5, <3>1, <4>3
    <3>2. CASE k # r
      <4> DEFINE n == Cardinality(NonZero(r))
                 m == Cardinality(NonZero(r)')
      <4>1. PICK g \in Row : /\ k < r => g = r - k - 1
                             /\ k > r => g = Rows + r - k - 1
                             /\ Len(q[k]) \in Nat
                             /\ Len(q[k]) + n <= g * Width + Width
                             /\ g * Width \in Nat
        BY <1>7, <3>2
      <4>2. Len(candidate'[k]) + m <= Len(q[k]) + n /\ Len(candidate'[k]) \in Nat
        BY <1>9
      <4>3. Spare(r)' = Width - m /\ n \in Nat /\ m \in Nat
        BY <1>6 DEF Spare
      <4> HIDE DEF n, m
      <4>4. Len(candidate'[k]) <= g * Width + Spare(r)'
        BY <1>5, <4>1, <4>2, <4>3
      <4> QED BY <3>2, <4>1, <4>4
    <3> QED BY <3>1, <3>2
  <2>3. phase' = "drain" /\ row' = r
    BY <1>1, <1>2
  <2>4. Spare(row)' = Spare(r)'
    BY <2>3 DEF Spare, NonZero
  <2> QED BY <2>1, <2>2, <2>3, <2>4 DEF QueueRoom
<1>14. AllPending'
  <2> SUFFICES ASSUME NEW k \in Row, NEW d \in Col, Decodable(k, d)'
               PROVE  Pending(k, d)'
    BY DEF AllPending
  <2>1. Decodable(k, d) => In(candidate[k], d)
    BY <1>1 DEF AllPending, Pending, In
  <2>2. In(candidate'[k], d)
    <3>1. CASE k # r
      BY <1>3, <1>9, <2>1, <3>1
    <3>2. CASE k = r
      <4>1. d # Head(candidate[r])
        BY <1>3, <1>9, <3>2
      <4>2. candidate[r] \in Seq(Col)
        BY <1>3
      <4>3. In(candidate[r], d) => In(q[r], d)
        BY <1>3, <4>1, <4>2, InTail
      <4> QED BY <1>9, <2>1, <3>2, <4>3
    <3> QED BY <3>1, <3>2
  <2> QED BY <2>2 DEF Pending, In
<1> QED
  BY <1>10, <1>11, <1>12, <1>13, <1>14

LEMMA StepIInv == IInv /\ [Next]_vars => IInv'
<1> SUFFICES ASSUME IInv, [Next]_vars PROVE IInv'
  OBVIOUS
<1>1. ASSUME NEW f \in IDs, Enter(f) \/ EnterHeavy(f) \/ Leave(f) \/ PutBack(f)
      PROVE  IInv'
  BY <1>1, CountStep
<1>2. CASE Begin
  BY <1>2, BeginStep
<1>3. CASE Scan
  BY <1>3, ScanStep
<1>4. CASE EnterPass
  BY <1>4, EnterPassStep
<1>5. CASE Dequeue
  BY <1>5, DequeueStep
<1>6. CASE NextRow
  BY <1>6, NextRowStep
<1>7. CASE Return
  BY <1>7, ReturnStep
<1>8. CASE UNCHANGED vars
  BY <1>8 DEF vars, traffic, found, IInv, Shape, Ended, Sizes, Pauses, QueueRoom,
              Spare, NonZero, WithinLimit, AllPending, Decodable, Pending
<1> QED
  BY <1>1, <1>2, <1>3, <1>4, <1>5, <1>6, <1>7, <1>8 DEF Next, Decode

THEOREM Invariant == Spec => []IInv
<1>1. Init => IInv
  BY InitIInv
<1>2. IInv /\ [Next]_vars => IInv'
  BY StepIInv
<1> QED
  BY <1>1, <1>2, PTL DEF Spec
-----------------------------------------------------------------------------
(* No decodable bucket is overlooked and no queue is ever full when        *)
(* something is put in, whatever the traffic and the hash functions are    *)
(* and whatever verify accepts.                                            *)
THEOREM NothingIsOverlooked == Spec => []NothingOverlooked
<1>1. IInv => NothingOverlooked
  BY DEF IInv, QueueRoom, AllPending, Pauses, NothingOverlooked
<1> QED
  BY <1>1, Invariant, PTL
-----------------------------------------------------------------------------
(* Flows that share a bucket under hash functions h.                       *)
Slot(h, r, c) == {f \in IDs : h[r][f] = c}

LEMMA Numbers ==
    /\ PRIME \in Nat \ {0} /\ CounterSize \in Nat \ {0}
    /\ PRIME > 1 /\ CounterSize > PRIME /\ CounterSize < 2 * PRIME
    /\ IsFiniteSet(IDs)
    /\ \A f \in IDs : f \in Int /\ f \in 1..(PRIME - 1)
    /\ \A h, r, c : IsFiniteSet(Slot(h, r, c)) /\ Slot(h, r, c) \in SUBSET IDs
<1>1. PRIME \in Nat /\ PRIME > 1 /\ IDs \in SUBSET (1..(PRIME - 1))
  BY SketchAssumption
<1>2. IsFiniteSet(IDs)
  <2>1. 1 \in Int /\ PRIME - 1 \in Int
    BY <1>1
  <2>2. IsFiniteSet(1..(PRIME - 1))
    BY <2>1, FS_Interval
  <2> QED BY <1>1, <2>2, FS_Subset
<1>3. \A h, r, c : IsFiniteSet(Slot(h, r, c)) /\ Slot(h, r, c) \in SUBSET IDs
  BY <1>2, FS_Subset DEF Slot
<1>4. \A f \in IDs : f \in Int /\ f \in 1..(PRIME - 1)
  BY <1>1
<1> QED
  BY <1>1, <1>2, <1>3, <1>4, SketchAssumption

(* Sketch s holds the traffic D: the number and the IDs of each bucket.    *)
Words(D) == [f \in IDs |-> f * D[f]]
HoldsNumber(h, s, D) ==
    \A r \in Row, c \in Col : Congruent(s[r][c].counter, SumFunctionOnSet(D, Slot(h, r, c)), CounterSize)
HoldsIDs(h, s, D) ==
    \A r \in Row, c \in Col : Congruent(s[r][c].ID, SumFunctionOnSet(Words(D), Slot(h, r, c)), PRIME)

Traffic == [IDs -> Int]

(* n more packets of flow f.                                               *)
More(D, f, n) == [D EXCEPT ![f] = D[f] + n]

(* What of it hashes to a bucket.                                          *)
Part(h, r, c, f, n) == IF h[r][f] = c THEN n ELSE 0

LEMMA WordsType ==
    ASSUME NEW D \in Traffic
    PROVE  Words(D) \in Traffic
BY Numbers DEF Words, Traffic

LEMMA SlotSum ==
    ASSUME NEW D \in Traffic, NEW h, NEW r, NEW c
    PROVE  SumFunctionOnSet(D, Slot(h, r, c)) \in Int
<1>1. IsFiniteSet(Slot(h, r, c)) /\ \A y \in Slot(h, r, c) : D[y] \in Int
  BY Numbers DEF Traffic
<1> QED
  BY <1>1, SumInt

LEMMA SlotChange ==
    ASSUME NEW D \in Traffic, NEW h, NEW r, NEW c, NEW f \in IDs, NEW n \in Int
    PROVE  SumFunctionOnSet(More(D, f, n), Slot(h, r, c)) =
             SumFunctionOnSet(D, Slot(h, r, c)) + Part(h, r, c, f, n)
<1> DEFINE E == More(D, f, n)
           S == Slot(h, r, c)
<1>1. IsFiniteSet(S) /\ S \in SUBSET IDs /\ (f \in S <=> h[r][f] = c)
  <2>1. f \in S <=> h[r][f] = c
    BY DEF Slot
  <2> QED BY <2>1, Numbers
<1>2. \A y \in S : D[y] \in Int /\ E[y] \in Int
  BY <1>1 DEF Traffic, More
<1>3. \A y \in S \ {f} : D[y] = E[y]
  BY <1>1 DEF Traffic, More
<1>4. E[f] - D[f] = n
  BY DEF Traffic, More
<1>5. SumFunctionOnSet(D, S) \in Int
  BY SlotSum
<1> HIDE DEF E, S
<1>6. CASE f \in S
  <2>1. SumFunctionOnSet(E, S) = SumFunctionOnSet(D, S) + (E[f] - D[f])
    BY <1>1, <1>2, <1>3, <1>6, SumChange
  <2> QED BY <1>1, <1>4, <1>6, <2>1 DEF E, S, Part
<1>7. CASE f \notin S
  <2>1. \A y \in S : D[y] = E[y]
    BY <1>3, <1>7
  <2>2. SumFunctionOnSet(D, S) = SumFunctionOnSet(E, S)
    BY <1>1, <2>1, SumSame
  <2> QED BY <1>1, <1>5, <1>7, <2>2 DEF E, S, Part
<1> QED
  BY <1>6, <1>7

(* n packets of flow f, in each bucket that f hashes to.                   *)
LEMMA NumberGrows ==
    ASSUME NEW h, NEW s \in Sketch, NEW t \in Sketch, NEW D \in Traffic, NEW f \in IDs, NEW n \in Int,
           HoldsNumber(h, s, D),
           \A r \in Row, c \in Col :
              Congruent(t[r][c].counter, s[r][c].counter + Part(h, r, c, f, n), CounterSize)
    PROVE  HoldsNumber(h, t, More(D, f, n))
<1> SUFFICES ASSUME NEW r \in Row, NEW c \in Col
             PROVE  Congruent(t[r][c].counter,
                              SumFunctionOnSet(More(D, f, n), Slot(h, r, c)), CounterSize)
  BY DEF HoldsNumber
<1>1. PICK a \in Int, b \in Int, m \in Nat \ {0}, d \in Int, u \in Int :
        /\ a = s[r][c].counter /\ b = SumFunctionOnSet(D, Slot(h, r, c)) /\ m = CounterSize
        /\ d = Part(h, r, c, f, n) /\ u = t[r][c].counter
  <2>1. s[r][c] \in Bucket /\ t[r][c] \in Bucket
    BY DEF Sketch
  <2>2. s[r][c].counter \in Int /\ t[r][c].counter \in Int
    BY <2>1 DEF Bucket
  <2>3. SumFunctionOnSet(D, Slot(h, r, c)) \in Int
    BY SlotSum
  <2>4. Part(h, r, c, f, n) \in Int
    BY DEF Part
  <2> QED BY <2>2, <2>3, <2>4, Numbers
<1>2. Congruent(a, b, m) /\ Congruent(u, a + d, m)
  BY <1>1 DEF HoldsNumber
<1>3. Congruent(a + d, b + d, m)
  <2>1. Congruent(d, d, m)
    BY DEF Congruent
  <2> QED BY <1>2, <2>1, CongruentPlus
<1>4. Congruent(u, b + d, m)
  BY <1>2, <1>3 DEF Congruent
<1>5. b + d = SumFunctionOnSet(More(D, f, n), Slot(h, r, c))
  <2>1. SumFunctionOnSet(More(D, f, n), Slot(h, r, c)) =
          SumFunctionOnSet(D, Slot(h, r, c)) + Part(h, r, c, f, n)
    BY SlotChange
  <2> QED BY <1>1, <2>1
<1> QED
  BY <1>1, <1>4, <1>5

LEMMA IDsGrow ==
    ASSUME NEW h, NEW s \in Sketch, NEW t \in Sketch, NEW D \in Traffic, NEW f \in IDs, NEW n \in Int,
           HoldsIDs(h, s, D),
           \A r \in Row, c \in Col :
              Congruent(t[r][c].ID, s[r][c].ID + Part(h, r, c, f, f * n), PRIME)
    PROVE  HoldsIDs(h, t, More(D, f, n))
<1> DEFINE W == Words(D)
<1>0. W \in Traffic /\ f \in Int /\ f * n \in Int /\ D[f] \in Int
  BY WordsType, Numbers DEF Traffic
<1>a. Words(More(D, f, n)) = More(W, f, f * n)
  <2>1. f * (D[f] + n) = f * D[f] + f * n
    BY <1>0
  <2> QED BY <2>1 DEF Words, Traffic, More
<1> HIDE DEF W
<1> SUFFICES ASSUME NEW r \in Row, NEW c \in Col
             PROVE  Congruent(t[r][c].ID,
                              SumFunctionOnSet(More(W, f, f * n), Slot(h, r, c)), PRIME)
  BY <1>a DEF HoldsIDs
<1>1. PICK a \in Int, b \in Int, m \in Nat \ {0}, d \in Int, u \in Int :
        /\ a = s[r][c].ID /\ b = SumFunctionOnSet(W, Slot(h, r, c)) /\ m = PRIME
        /\ d = Part(h, r, c, f, f * n) /\ u = t[r][c].ID
  <2>1. s[r][c] \in Bucket /\ t[r][c] \in Bucket
    BY DEF Sketch
  <2>2. s[r][c].ID \in Int /\ t[r][c].ID \in Int
    BY <2>1 DEF Bucket
  <2>3. SumFunctionOnSet(W, Slot(h, r, c)) \in Int
    BY <1>0, SlotSum
  <2>4. Part(h, r, c, f, f * n) \in Int
    BY <1>0 DEF Part
  <2> QED BY <2>2, <2>3, <2>4, Numbers
<1>2. Congruent(a, b, m) /\ Congruent(u, a + d, m)
  BY <1>1 DEF HoldsIDs, W
<1>3. Congruent(a + d, b + d, m)
  <2>1. Congruent(d, d, m)
    BY DEF Congruent
  <2> QED BY <1>2, <2>1, CongruentPlus
<1>4. Congruent(u, b + d, m)
  BY <1>2, <1>3 DEF Congruent
<1>5. b + d = SumFunctionOnSet(More(W, f, f * n), Slot(h, r, c))
  <2>1. SumFunctionOnSet(More(W, f, f * n), Slot(h, r, c)) =
          SumFunctionOnSet(W, Slot(h, r, c)) + Part(h, r, c, f, f * n)
    BY <1>0, SlotChange
  <2> QED BY <1>1, <2>1
<1> QED
  BY <1>1, <1>4, <1>5

(* Reducing a value, and adding m before subtracting.                      *)
LEMMA Reduced ==
    ASSUME NEW a \in Int
    PROVE  /\ Congruent(a % CounterSize, a, CounterSize) /\ Congruent(a, a, CounterSize)
           /\ Congruent(a % PRIME, a, PRIME) /\ Congruent(a, a, PRIME)
<1>1. PICK m \in Nat \ {0}, p \in Nat \ {0} : m = CounterSize /\ p = PRIME
  BY Numbers
<1>2. Congruent(a % m, a, m) /\ Congruent(a % p, a, p)
  BY CongruentMod
<1> QED
  BY <1>1, <1>2 DEF Congruent

LEMMA ReducedPlus ==
    ASSUME NEW b \in Bucket, NEW n \in Int, NEW w \in Int
    PROVE  /\ Congruent((b.counter + n) % CounterSize, b.counter + n, CounterSize)
           /\ Congruent(b.counter, b.counter + 0, CounterSize)
           /\ Congruent((b.ID + w) % PRIME, b.ID + w, PRIME)
           /\ Congruent((b.ID + (w % PRIME)) % PRIME, b.ID + w, PRIME)
           /\ Congruent(b.ID, b.ID + 0, PRIME)
<1>1. b.counter \in Int /\ b.ID \in Int
  BY DEF Bucket
<1>2. PICK a \in Int, i \in Int : a = b.counter /\ i = b.ID
  BY <1>1
<1>3. a + n \in Int /\ i + w \in Int /\ a + 0 = a /\ i + 0 = i
  OBVIOUS
<1>4. Congruent((a + n) % CounterSize, a + n, CounterSize) /\ Congruent((i + w) % PRIME, i + w, PRIME)
  BY <1>3, Reduced
<1>5. Congruent(a, a + 0, CounterSize) /\ Congruent(i, i + 0, PRIME)
  BY <1>3 DEF Congruent
<1>6. PICK m \in Nat \ {0} : m = PRIME
  BY Numbers
<1>7. PICK v \in Int : v = w % m
  BY CongruentMod
<1>8. Congruent(i + v, i + w, m)
  <2>1. Congruent(v, w, m) /\ Congruent(i, i, m)
    BY <1>6, <1>7, Reduced
  <2> QED BY <2>1, CongruentPlus
<1>9. Congruent((i + v) % m, i + v, m)
  <2>1. i + v \in Int
    OBVIOUS
  <2> QED BY <2>1, CongruentMod
<1>10. Congruent((i + v) % m, i + w, m)
  BY <1>8, <1>9 DEF Congruent
<1> QED
  BY <1>2, <1>4, <1>5, <1>6, <1>7, <1>10

LEMMA CountHolds ==
    ASSUME NEW h \in HashFunctions, NEW s \in Sketch, NEW D \in Traffic, NEW f \in IDs,
           HoldsNumber(h, s, D), HoldsIDs(h, s, D)
    PROVE  /\ HoldsNumber(h, CountPacket(s, h, f), More(D, f, 1))
           /\ HoldsIDs(h, CountPacket(s, h, f), More(D, f, 1))
<1> DEFINE t == CountPacket(s, h, f)
<1>1. t \in Sketch
  BY CountPacketType
<1>2. ASSUME NEW r \in Row, NEW c \in Col
      PROVE  /\ s[r][c] \in Bucket
             /\ h[r][f] = c => t[r][c] = [ID |-> IDAdd(s[r][c].ID, f),
                                          counter |-> (s[r][c].counter + 1) % CounterSize]
             /\ h[r][f] # c => t[r][c] = s[r][c]
  <2>1. h[r][f] \in Col /\ s[r] \in [Col -> Bucket]
    BY DEF HashFunctions, Sketch
  <2> QED BY <2>1 DEF CountPacket
<1> HIDE DEF t
<1>3. ASSUME NEW r \in Row, NEW c \in Col
      PROVE  /\ Congruent(t[r][c].counter, s[r][c].counter + Part(h, r, c, f, 1), CounterSize)
             /\ Congruent(t[r][c].ID, s[r][c].ID + Part(h, r, c, f, f * 1), PRIME)
  <2>a. f \in Int /\ f * 1 = f
    BY Numbers
  <2>b. s[r][c] \in Bucket
    BY <1>2
  <2>1. s[r][c] \in Bucket /\ s[r][c].ID \in 0..(PRIME - 1) /\ f \in Int /\ f * 1 = f /\ 1 \in Int
    BY <2>a, <2>b DEF Bucket
  <2>2. /\ Congruent((s[r][c].counter + 1) % CounterSize, s[r][c].counter + 1, CounterSize)
        /\ Congruent((s[r][c].ID + f) % PRIME, s[r][c].ID + f, PRIME)
        /\ Congruent(s[r][c].counter, s[r][c].counter + 0, CounterSize)
        /\ Congruent(s[r][c].ID, s[r][c].ID + 0, PRIME)
    BY <2>1, ReducedPlus
  <2>3. CASE h[r][f] = c
    <3>a. t[r][c] = [ID |-> IDAdd(s[r][c].ID, f), counter |-> (s[r][c].counter + 1) % CounterSize]
      BY <1>2, <2>3
    <3>b. IDAdd(s[r][c].ID, f) = (s[r][c].ID + f) % PRIME
      BY <2>1, IDAddIsModular
    <3>1. t[r][c].counter = (s[r][c].counter + 1) % CounterSize /\ t[r][c].ID = (s[r][c].ID + f) % PRIME
      BY <3>a, <3>b
    <3> QED BY <2>1, <2>2, <2>3, <3>1 DEF Part
  <2>4. CASE h[r][f] # c
    BY <1>2, <2>2, <2>4 DEF Part
  <2> QED BY <2>3, <2>4
<1>4. HoldsNumber(h, t, More(D, f, 1))
  BY <1>1, <1>3, NumberGrows
<1>5. HoldsIDs(h, t, More(D, f, 1))
  BY <1>1, <1>3, IDsGrow
<1> QED
  BY <1>4, <1>5 DEF t

LEMMA AddHolds ==
    ASSUME NEW h \in HashFunctions, NEW s \in Sketch, NEW D \in Traffic, NEW f \in IDs, NEW n \in Nat,
           HoldsNumber(h, s, D), HoldsIDs(h, s, D)
    PROVE  /\ HoldsNumber(h, AddFlow(s, h, [id |-> f, counter |-> n]), More(D, f, n))
           /\ HoldsIDs(h, AddFlow(s, h, [id |-> f, counter |-> n]), More(D, f, n))
<1> DEFINE t == AddFlow(s, h, [id |-> f, counter |-> n])
<1>1. t \in Sketch
  BY AddFlowType
<1>2. ASSUME NEW r \in Row, NEW c \in Col
      PROVE  /\ s[r][c] \in Bucket
             /\ h[r][f] = c => t[r][c] = [ID |-> (s[r][c].ID + ((f * n) % PRIME)) % PRIME,
                                          counter |-> (s[r][c].counter + n) % CounterSize]
             /\ h[r][f] # c => t[r][c] = s[r][c]
  <2>1. h[r][f] \in Col /\ s[r] \in [Col -> Bucket]
    BY DEF HashFunctions, Sketch
  <2> QED BY <2>1 DEF AddFlow
<1> HIDE DEF t
<1>3. ASSUME NEW r \in Row, NEW c \in Col
      PROVE  /\ Congruent(t[r][c].counter, s[r][c].counter + Part(h, r, c, f, n), CounterSize)
             /\ Congruent(t[r][c].ID, s[r][c].ID + Part(h, r, c, f, f * n), PRIME)
  <2>a. f * n \in Int /\ n \in Int
    BY Numbers
  <2>b. s[r][c] \in Bucket
    BY <1>2
  <2>1. s[r][c] \in Bucket /\ f * n \in Int /\ n \in Int
    BY <2>a, <2>b
  <2>2. /\ Congruent((s[r][c].counter + n) % CounterSize, s[r][c].counter + n, CounterSize)
        /\ Congruent((s[r][c].ID + ((f * n) % PRIME)) % PRIME, s[r][c].ID + f * n, PRIME)
        /\ Congruent(s[r][c].counter, s[r][c].counter + 0, CounterSize)
        /\ Congruent(s[r][c].ID, s[r][c].ID + 0, PRIME)
    BY <2>1, ReducedPlus
  <2>3. CASE h[r][f] = c
    <3>a. t[r][c] = [ID |-> (s[r][c].ID + ((f * n) % PRIME)) % PRIME,
                     counter |-> (s[r][c].counter + n) % CounterSize]
      BY <1>2, <2>3
    <3> QED BY <2>2, <2>3, <3>a DEF Part
  <2>4. CASE h[r][f] # c
    BY <1>2, <2>2, <2>4 DEF Part
  <2> QED BY <2>3, <2>4
<1>4. HoldsNumber(h, t, More(D, f, n))
  BY <1>1, <1>3, NumberGrows
<1>5. HoldsIDs(h, t, More(D, f, n))
  BY <1>1, <1>3, IDsGrow
<1> QED
  BY <1>4, <1>5 DEF t

LEMMA ReducedMinus ==
    ASSUME NEW a \in Bucket, NEW b \in Bucket
    PROVE  /\ Minus(a, b) \in Bucket
           /\ Congruent(Minus(a, b).counter, a.counter - b.counter, CounterSize)
           /\ Congruent(Minus(a, b).ID, a.ID - b.ID, PRIME)
<1>1. /\ a.counter \in Int /\ b.counter \in Int /\ a.ID \in Int /\ b.ID \in Int
      /\ a.counter - b.counter \in Int
  BY DEF Bucket
<1>2. Congruent((a.counter - b.counter) % CounterSize, a.counter - b.counter, CounterSize)
  BY <1>1, Reduced
<1>3. PICK m \in Nat \ {0}, v \in Int, w \in Int, k \in Int : m = PRIME /\ v = a.ID /\ w = b.ID /\ k = 1
  BY <1>1, Numbers
<1>4. v + m - w \in Int /\ v - w \in Int /\ v + m - w = (v - w) + k * m
  BY <1>3
<1>5. Congruent(v + m - w, v - w, m)
  BY <1>4, CongruentBy
<1>6. Congruent((v + m - w) % m, v + m - w, m)
  BY <1>4, CongruentMod
<1>7. Congruent((v + m - w) % m, v - w, m)
  BY <1>5, <1>6 DEF Congruent
<1> QED
  BY <1>2, <1>3, <1>7, MinusType DEF Minus

(* The sum of the traffic left out of that counted.                        *)
Less(A, B) == [f \in IDs |-> A[f] - B[f]]

LEMMA LessSum ==
    ASSUME NEW A \in Traffic, NEW B \in Traffic, NEW h, NEW r, NEW c
    PROVE  /\ SumFunctionOnSet(Less(A, B), Slot(h, r, c)) =
                 SumFunctionOnSet(A, Slot(h, r, c)) - SumFunctionOnSet(B, Slot(h, r, c))
           /\ SumFunctionOnSet(Words(Less(A, B)), Slot(h, r, c)) =
                 SumFunctionOnSet(Words(A), Slot(h, r, c)) - SumFunctionOnSet(Words(B), Slot(h, r, c))
<1> DEFINE S == Slot(h, r, c)
           D == Less(A, B)
           V == Words(A)
           W == Words(B)
           U == Words(D)
<1>1. IsFiniteSet(S) /\ S \in SUBSET IDs
  BY Numbers
<1>2. D \in Traffic
  BY DEF Traffic, Less
<1>3. V \in Traffic /\ W \in Traffic /\ U \in Traffic
  BY <1>2, WordsType
<1>4. /\ SumFunctionOnSet(A, S) \in Int /\ SumFunctionOnSet(B, S) \in Int /\ SumFunctionOnSet(D, S) \in Int
      /\ SumFunctionOnSet(V, S) \in Int /\ SumFunctionOnSet(W, S) \in Int /\ SumFunctionOnSet(U, S) \in Int
  BY <1>2, <1>3, SlotSum
<1>5. \A y \in S : D[y] \in Int /\ B[y] \in Int /\ A[y] = D[y] + B[y]
  BY <1>1 DEF Traffic, Less
<1>6. \A y \in S : U[y] \in Int /\ W[y] \in Int /\ V[y] = U[y] + W[y]
  <2> TAKE y \in S
  <2>1. y \in IDs /\ y \in Int /\ A[y] \in Int /\ B[y] \in Int
    BY <1>1, Numbers DEF Traffic
  <2>2. y * A[y] = y * (A[y] - B[y]) + y * B[y] /\ y * (A[y] - B[y]) \in Int /\ y * B[y] \in Int
    BY <2>1
  <2>3. V[y] = y * A[y] /\ W[y] = y * B[y] /\ U[y] = y * (A[y] - B[y])
    BY <2>1 DEF Words, Less
  <2> HIDE DEF U, V, W
  <2> QED BY <2>2, <2>3
<1> HIDE DEF S, D, U, V, W
<1>7. SumFunctionOnSet(A, S) = SumFunctionOnSet(D, S) + SumFunctionOnSet(B, S)
  BY <1>1, <1>5, SumPlus
<1>8. SumFunctionOnSet(V, S) = SumFunctionOnSet(U, S) + SumFunctionOnSet(W, S)
  BY <1>1, <1>6, SumPlus
<1>9. /\ SumFunctionOnSet(D, S) = SumFunctionOnSet(A, S) - SumFunctionOnSet(B, S)
      /\ SumFunctionOnSet(U, S) = SumFunctionOnSet(V, S) - SumFunctionOnSet(W, S)
  BY <1>4, <1>7, <1>8
<1> QED
  BY <1>9 DEF S, D, U, V, W

LEMMA EmptyHolds ==
    ASSUME NEW h, NEW D \in Traffic, \A f \in IDs : D[f] = 0
    PROVE  HoldsNumber(h, EmptySketch, D) /\ HoldsIDs(h, EmptySketch, D)
<1> SUFFICES ASSUME NEW r \in Row, NEW c \in Col
             PROVE  /\ Congruent(EmptySketch[r][c].counter, SumFunctionOnSet(D, Slot(h, r, c)), CounterSize)
                    /\ Congruent(EmptySketch[r][c].ID, SumFunctionOnSet(Words(D), Slot(h, r, c)), PRIME)
  BY DEF HoldsNumber, HoldsIDs
<1>1. EmptySketch[r][c].counter = 0 /\ EmptySketch[r][c].ID = 0
  BY DEF EmptySketch, EmptyBucket
<1>2. IsFiniteSet(Slot(h, r, c)) /\ \A y \in Slot(h, r, c) : D[y] = 0 /\ Words(D)[y] = 0
  BY Numbers DEF Words
<1>3. SumFunctionOnSet(D, Slot(h, r, c)) = 0 /\ SumFunctionOnSet(Words(D), Slot(h, r, c)) = 0
  BY <1>2, SumZero
<1> QED
  BY <1>1, <1>3 DEF Congruent

LEMMA SubHolds ==
    ASSUME NEW h, NEW a \in Sketch, NEW b \in Sketch, NEW A \in Traffic, NEW B \in Traffic,
           HoldsNumber(h, a, A), HoldsIDs(h, a, A), HoldsNumber(h, b, B), HoldsIDs(h, b, B)
    PROVE  LET d == SketchSub(FermatAdd(EmptySketch, a), FermatAdd(EmptySketch, b))
           IN  HoldsNumber(h, d, Less(A, B)) /\ HoldsIDs(h, d, Less(A, B))
<1> DEFINE d == SketchSub(FermatAdd(EmptySketch, a), FermatAdd(EmptySketch, b))
<1> SUFFICES ASSUME NEW r \in Row, NEW c \in Col
             PROVE  /\ Congruent(d[r][c].counter, SumFunctionOnSet(Less(A, B), Slot(h, r, c)), CounterSize)
                    /\ Congruent(d[r][c].ID, SumFunctionOnSet(Words(Less(A, B)), Slot(h, r, c)), PRIME)
  BY DEF HoldsNumber, HoldsIDs
<1>1. PICK v \in Bucket, w \in Bucket : v = a[r][c] /\ w = b[r][c]
  BY DEF Sketch
<1>2. /\ v.ID \in 0..(PRIME - 1) /\ v.counter \in 0..(CounterSize - 1)
      /\ w.ID \in 0..(PRIME - 1) /\ w.counter \in 0..(CounterSize - 1)
  BY DEF Bucket
<1>3. /\ 0 + v.ID = v.ID /\ 0 + w.ID = w.ID /\ 0 + v.counter = v.counter /\ 0 + w.counter = w.counter
      /\ v.ID % PRIME = v.ID /\ w.ID % PRIME = w.ID
      /\ v.counter % CounterSize = v.counter /\ w.counter % CounterSize = w.counter
  <2>1. PRIME \in Nat \ {0} /\ CounterSize \in Nat \ {0}
    BY Numbers
  <2> QED BY <1>2, <2>1, ResidueSmall
<1>4. EmptySketch[r][c] = [ID |-> 0, counter |-> 0]
  BY DEF EmptySketch, EmptyBucket
<1>5. /\ FermatAdd(EmptySketch, a)[r][c] = [ID |-> v.ID, counter |-> v.counter]
      /\ FermatAdd(EmptySketch, b)[r][c] = [ID |-> w.ID, counter |-> w.counter]
  BY <1>1, <1>3, <1>4 DEF FermatAdd
<1>6. v = [ID |-> v.ID, counter |-> v.counter] /\ w = [ID |-> w.ID, counter |-> w.counter]
  BY DEF Bucket
<1>7. d[r][c] = Minus(v, w)
  BY <1>5, <1>6 DEF SketchSub
<1> HIDE DEF d
<1>8. /\ Congruent(d[r][c].counter, v.counter - w.counter, CounterSize)
      /\ Congruent(d[r][c].ID, v.ID - w.ID, PRIME)
  BY <1>7, ReducedMinus
<1>9. PICK sa \in Int, sb \in Int, wa \in Int, wb \in Int :
        /\ sa = SumFunctionOnSet(A, Slot(h, r, c)) /\ sb = SumFunctionOnSet(B, Slot(h, r, c))
        /\ wa = SumFunctionOnSet(Words(A), Slot(h, r, c)) /\ wb = SumFunctionOnSet(Words(B), Slot(h, r, c))
  BY SlotSum, WordsType
<1>10. /\ Congruent(v.counter, sa, CounterSize) /\ Congruent(w.counter, sb, CounterSize)
       /\ Congruent(v.ID, wa, PRIME) /\ Congruent(w.ID, wb, PRIME)
  BY <1>1, <1>9 DEF HoldsNumber, HoldsIDs
<1>11. /\ Congruent(v.counter - w.counter, sa - sb, CounterSize)
       /\ Congruent(v.ID - w.ID, wa - wb, PRIME)
  <2>1. v.counter \in Int /\ w.counter \in Int /\ v.ID \in Int /\ w.ID \in Int
    BY <1>2
  <2> QED BY <1>10, <2>1, Numbers, CongruentPlus
<1>12. /\ SumFunctionOnSet(Less(A, B), Slot(h, r, c)) = sa - sb
       /\ SumFunctionOnSet(Words(Less(A, B)), Slot(h, r, c)) = wa - wb
  BY <1>9, LessSum
<1> QED
  BY <1>8, <1>11, <1>12 DEF Congruent

(* Taking n packets of flow f out of a bucket that holds just as many, in  *)
(* number and in IDs.                                                      *)
LEMMA PeelHolds ==
    ASSUME hash \in HashFunctions, x \in Sketch, NEW D \in Traffic,
           NEW r \in Row, NEW c \in Col, NEW f \in IDs, NEW n \in Int, hash[r][f] = c,
           Congruent(x[r][c].counter, n, CounterSize), Congruent(x[r][c].ID, f * n, PRIME)
    PROVE  /\ HoldsNumber(hash, x, D) => HoldsNumber(hash, Peeled(r, c, f), More(D, f, -n))
           /\ HoldsIDs(hash, x, D) => HoldsIDs(hash, Peeled(r, c, f), More(D, f, -n))
<1> DEFINE t == Peeled(r, c, f)
<1>0. /\ f \in Int /\ f * n \in Int /\ -n \in Int /\ f * (-n) = -(f * n)
      /\ PRIME \in Nat \ {0} /\ CounterSize \in Nat \ {0}
  BY Numbers
<1>a. x[r][c] \in Bucket
  BY DEF Sketch
<1>1. EmptyBucket \in Bucket /\ EmptyBucket.counter = 0 /\ EmptyBucket.ID = 0
  BY <1>0, Numbers DEF EmptyBucket, Bucket
<1>2. ASSUME NEW k \in Row, NEW e \in Col
      PROVE  /\ x[k][e] \in Bucket
             /\ hash[k][f] # e => t[k][e] = x[k][e]
             /\ k = r /\ hash[k][f] = e => t[k][e] = EmptyBucket
             /\ k # r /\ hash[k][f] = e => t[k][e] = Minus(x[k][e], x[r][c])
  <2>1. x[k] \in [Col -> Bucket] /\ hash[k][f] \in Col
    BY DEF Sketch, HashFunctions
  <2> QED BY <2>1 DEF Peeled
<1>3. t \in Sketch
  <2>1. ASSUME NEW k \in Row, NEW e \in Col
        PROVE  t[k][e] \in Bucket
    BY <1>1, <1>2, <1>a, MinusType
  <2>2. \A k \in Row : t[k] = [e \in Col |-> t[k][e]]
    BY DEF Peeled, Sketch
  <2>3. t = [k \in Row |-> t[k]]
    BY DEF Peeled
  <2> HIDE DEF t
  <2>4. \A k \in Row : t[k] \in [Col -> Bucket]
    BY <2>1, <2>2
  <2> QED BY <2>3, <2>4 DEF Sketch
<1> HIDE DEF t
<1>4. ASSUME NEW k \in Row, NEW e \in Col
      PROVE  /\ Congruent(t[k][e].counter, x[k][e].counter + Part(hash, k, e, f, -n), CounterSize)
             /\ Congruent(t[k][e].ID, x[k][e].ID + Part(hash, k, e, f, f * (-n)), PRIME)
  <2>0. x[k][e] \in Bucket
    BY <1>2
  <2>1. PICK a \in Int, b \in Int, u \in Int, v \in Int, w \in Int :
          /\ a = x[k][e].counter /\ b = x[k][e].ID /\ u = x[r][c].counter /\ v = x[r][c].ID
          /\ w = f * n
    <3>1. x[k][e].counter \in Int /\ x[k][e].ID \in Int
      BY <2>0 DEF Bucket
    <3>2. x[r][c].counter \in Int /\ x[r][c].ID \in Int
      BY <1>a DEF Bucket
    <3>3. f * n \in Int
      BY <1>0
    <3> QED BY <3>1, <3>2, <3>3
  <2>2. Congruent(u, n, CounterSize) /\ Congruent(v, w, PRIME)
    BY <2>1
  <2>3. /\ Congruent(a - u, a - n, CounterSize)
        /\ Congruent(b - v, b - w, PRIME)
    BY <1>0, <2>2, Reduced, CongruentPlus
  <2>4. a - n = a + (-n) /\ b - w = b + (-w) /\ f * (-n) = -w /\ a + 0 = a /\ b + 0 = b
    BY <1>0, <2>1
  <2>5. CASE hash[k][f] # e
    BY <1>2, <2>1, <2>4, <2>5 DEF Part, Congruent
  <2>6. CASE k = r /\ hash[k][f] = e
    <3>1. a = u /\ b = v /\ a - u = 0 /\ b - v = 0
      BY <2>1, <2>6
    <3>2. t[k][e].counter = 0 /\ t[k][e].ID = 0
      BY <1>1, <1>2, <2>6
    <3>3. Part(hash, k, e, f, -n) = -n /\ Part(hash, k, e, f, f * (-n)) = -w
      BY <2>4, <2>6 DEF Part
    <3>4. Congruent(0, a + (-n), CounterSize) /\ Congruent(0, b + (-w), PRIME)
      BY <2>3, <2>4, <3>1
    <3> QED BY <2>1, <3>2, <3>3, <3>4
  <2>7. CASE k # r /\ hash[k][f] = e
    <3>1. t[k][e] = Minus(x[k][e], x[r][c])
      BY <1>2, <2>7
    <3>2. Congruent(t[k][e].counter, a - u, CounterSize) /\ Congruent(t[k][e].ID, b - v, PRIME)
      BY <1>a, <2>0, <2>1, <3>1, ReducedMinus
    <3>3. Part(hash, k, e, f, -n) = -n /\ Part(hash, k, e, f, f * (-n)) = -w
      BY <2>4, <2>7 DEF Part
    <3>4. Congruent(t[k][e].counter, a + (-n), CounterSize) /\ Congruent(t[k][e].ID, b + (-w), PRIME)
      BY <2>3, <2>4, <3>2 DEF Congruent
    <3> QED BY <2>1, <3>3, <3>4
  <2> QED BY <2>5, <2>6, <2>7
<1>5. HoldsNumber(hash, x, D) => HoldsNumber(hash, t, More(D, f, -n))
  BY <1>0, <1>3, <1>4, NumberGrows
<1>6. HoldsIDs(hash, x, D) => HoldsIDs(hash, t, More(D, f, -n))
  BY <1>0, <1>3, <1>4, IDsGrow
<1> QED
  BY <1>5, <1>6 DEF t

(* The number of packets of a bucket as verify reads it.                   *)
LEMMA SignedFacts ==
    ASSUME NEW n \in 0..(CounterSize - 1)
    PROVE  /\ Signed(n) \in Int /\ Congruent(n, Signed(n), CounterSize)
           /\ Magnitude(n) \in Nat
           /\ Magnitude(n) = IF Negative(n) THEN -Signed(n) ELSE Signed(n)
           /\ n # 0 => Magnitude(n) \in 1..(PRIME - 1) /\ Signed(n) # 0
           /\ 2 * Signed(n) < CounterSize /\ -(2 * Signed(n)) <= CounterSize
<1>1. PICK m \in Nat \ {0}, p \in Nat \ {0} : m = CounterSize /\ p = PRIME /\ m > p /\ m < 2 * p
  BY Numbers
<1>2. n \in Int /\ n >= 0 /\ n < m
  BY <1>1
<1>3. Congruent(n, Signed(n), CounterSize)
  <2>1. CASE Negative(n)
    <3>1. PICK k \in Int, s \in Int : k = 1 /\ s = n - m
      BY <1>2
    <3>2. n = s + k * m
      BY <1>2, <3>1
    <3>3. Congruent(n, s, m)
      BY <1>2, <3>2, CongruentBy
    <3> QED BY <1>1, <2>1, <3>1, <3>3 DEF Signed
  <2>2. CASE ~Negative(n)
    BY <2>2 DEF Signed, Congruent
  <2> QED BY <2>1, <2>2
<1>4. CASE Negative(n)
  <2>1. 2 * n >= m /\ Signed(n) = n - m /\ Magnitude(n) = m - n
    BY <1>1, <1>4 DEF Negative, Signed, Magnitude
  <2> QED BY <1>1, <1>2, <1>3, <1>4, <2>1
<1>5. CASE ~Negative(n)
  <2>1. 2 * n < m /\ Signed(n) = n /\ Magnitude(n) = n
    BY <1>1, <1>2, <1>5 DEF Negative, Signed, Magnitude
  <2> QED BY <1>1, <1>2, <1>3, <1>5, <2>1
<1> QED
  BY <1>4, <1>5

(* The powers that PowMod goes through are natural numbers.                *)
Powers(a, e, g) == g = [i \in 0..e |-> IF i = 0 THEN 1 ELSE (a * g[i - 1]) % PRIME]

LEMMA PowersExist ==
    ASSUME NEW a
    PROVE  \A e \in Nat : \E g : Powers(a, e, g)
<1> DEFINE N == {e \in Nat : ~\E g : Powers(a, e, g)}
<1> SUFFICES ASSUME N # {} PROVE FALSE
  OBVIOUS
<1>1. PICK e \in N : \A d \in N : e <= d
  <2>1. N \in SUBSET Nat
    OBVIOUS
  <2> HIDE DEF N
  <2> QED BY <2>1, LeastNat
<1>2. CASE e = 0
  <2> DEFINE g == [i \in 0..0 |-> 1]
  <2>1. g = [i \in 0..0 |-> IF i = 0 THEN 1 ELSE (a * g[i - 1]) % PRIME]
    OBVIOUS
  <2>2. Powers(a, 0, g)
    BY <2>1 DEF Powers
  <2> QED BY <1>2, <2>2
<1>3. CASE e # 0
  <2>1. e \in Nat /\ e - 1 \in Nat /\ e - 1 \notin N
    BY <1>1, <1>3
  <2>2. PICK h : Powers(a, e - 1, h)
    BY <2>1
  <2> DEFINE g == [i \in 0..e |-> IF i = e THEN (a * h[e - 1]) % PRIME ELSE h[i]]
  <2>3. ASSUME NEW i \in 0..e
        PROVE  g[i] = IF i = 0 THEN 1 ELSE (a * g[i - 1]) % PRIME
    <3>1. CASE i = e
      <4>1. i # 0 /\ i - 1 \in 0..e /\ i - 1 # e
        BY <1>3, <2>1, <3>1
      <4> QED BY <3>1, <4>1
    <3>2. CASE i # e
      <4>1. i \in 0..(e - 1)
        BY <2>1, <3>2
      <4>2. h[i] = IF i = 0 THEN 1 ELSE (a * h[i - 1]) % PRIME
        BY <2>2, <4>1 DEF Powers
      <4>3. i # 0 => i - 1 \in 0..e /\ i - 1 # e
        BY <2>1, <3>2
      <4> QED BY <3>2, <4>2, <4>3
    <3> QED BY <3>1, <3>2
  <2>4. g = [i \in 0..e |-> g[i]]
    OBVIOUS
  <2> HIDE DEF g
  <2>5. Powers(a, e, g)
    BY <2>3, <2>4 DEF Powers
  <2> QED BY <2>5
<1> QED
  BY <1>2, <1>3

LEMMA InverseType ==
    ASSUME NEW a \in Nat
    PROVE  InverseOf(a) \in Nat
<1>1. PICK p \in Nat \ {0} : p = PRIME /\ p - 2 \in Nat
  BY Numbers
<1> DEFINE g == CHOOSE h : Powers(a, p - 2, h)
<1>2. Powers(a, p - 2, g)
  BY <1>1, PowersExist
<1>3. InverseOf(a) = g[p - 2]
  BY <1>1 DEF InverseOf, PowMod, Powers
<1> HIDE DEF g
<1> DEFINE N == {i \in 0..(p - 2) : g[i] \notin Nat}
<1>4. N = {}
  <2> SUFFICES ASSUME N # {} PROVE FALSE
    OBVIOUS
  <2>1. N \in SUBSET Nat
    OBVIOUS
  <2>2. PICK i \in N : \A j \in N : i <= j
    <3> HIDE DEF N
    <3> QED BY <2>1, LeastNat
  <2>3. g[i] = IF i = 0 THEN 1 ELSE (a * g[i - 1]) % PRIME
    BY <2>2, <1>2 DEF Powers
  <2>4. i # 0 /\ i - 1 \in 0..(p - 2) /\ i - 1 \notin N
    BY <2>2, <2>3
  <2>5. g[i - 1] \in Nat
    BY <2>4
  <2>6. PICK n \in Int : n = a * g[i - 1]
    BY <2>5
  <2>7. n % p \in 0..(p - 1)
    BY DivMod
  <2> QED BY <1>1, <2>2, <2>3, <2>4, <2>6, <2>7
<1> QED
  BY <1>1, <1>3, <1>4

LEMMA InverseCancels ==
    ASSUME NEW p \in Nat \ {0}, NEW t \in Int, NEW v \in Int, NEW m \in Int, NEW f \in Int,
           Congruent(m * v, 1, p)
    PROVE  Congruent(t * v, f, p) <=> Congruent(t, f * m, p)
<1>1. m * v \in Int /\ t * v \in Int /\ f * m \in Int
  OBVIOUS
<1>2. PICK k \in Int : m * v = 1 + k * p
  <2>1. PICK w \in Int, z \in Int : w = m * v /\ z = 1
    BY <1>1
  <2>2. Congruent(w, z, p)
    BY <2>1
  <2> QED BY <2>1, <2>2, SameResidue DEF Congruent
<1>3. PICK tk \in Int, fk \in Int : tk = t * k /\ fk = f * k
  OBVIOUS
<1>4. t * (m * v) = t + tk * p
  <2>1. t * (1 + k * p) = t + (t * k) * p
    OBVIOUS
  <2> QED BY <1>2, <1>3, <2>1
<1>5. f * (m * v) = f + fk * p
  <2>1. f * (1 + k * p) = f + (f * k) * p
    OBVIOUS
  <2> QED BY <1>2, <1>3, <2>1
<1>6. ASSUME Congruent(t * v, f, p) PROVE Congruent(t, f * m, p)
  <2>1. PICK j \in Int : t * v = f + j * p
    BY <1>1, <1>6, SameResidue DEF Congruent
  <2>2. PICK n \in Int : n = j * m
    OBVIOUS
  <2>3. (t * v) * m = f * m + n * p
    <3>1. (f + j * p) * m = f * m + (j * m) * p
      OBVIOUS
    <3> QED BY <2>1, <2>2, <3>1
  <2>4. t + tk * p = f * m + n * p
    <3>1. (t * v) * m = t * (m * v)
      OBVIOUS
    <3> QED BY <1>4, <2>3, <3>1
  <2>5. PICK d \in Int, u \in Int : d = n - tk /\ u = f * m
    OBVIOUS
  <2>6. t = u + d * p
    <3>1. d * p = n * p - tk * p /\ n * p \in Int /\ tk * p \in Int
      BY <2>5
    <3> QED BY <2>4, <2>5, <3>1
  <2>7. Congruent(t, u, p)
    BY <2>6, CongruentBy
  <2> QED BY <2>5, <2>7
<1>7. ASSUME Congruent(t, f * m, p) PROVE Congruent(t * v, f, p)
  <2>1. PICK j \in Int : t = f * m + j * p
    BY <1>1, <1>7, SameResidue DEF Congruent
  <2>2. PICK n \in Int : n = j * v
    OBVIOUS
  <2>3. t * v = f * (m * v) + n * p
    <3>1. (f * m + j * p) * v = f * (m * v) + (j * v) * p
      OBVIOUS
    <3> QED BY <2>1, <2>2, <3>1
  <2>5. PICK d \in Int, u \in Int : d = n + fk /\ u = t * v
    OBVIOUS
  <2>6. u = f + d * p
    <3>1. d * p = n * p + fk * p /\ n * p \in Int /\ fk * p \in Int
      BY <2>5
    <3> QED BY <1>5, <2>3, <2>5, <3>1
  <2>7. Congruent(u, f, p)
    BY <2>6, CongruentBy
  <2> QED BY <2>5, <2>7
<1> QED
  BY <1>6, <1>7

(* What a bucket would have to hold if it holds flow f only: the ID that   *)
(* verify computes is f, and the other way round.                          *)
LEMMA SoleIDMeaning ==
    ASSUME NEW b \in Bucket, b.counter # 0, NEW f \in 0..(PRIME - 1)
    PROVE  SoleID(b) = f <=> Congruent(b.ID, f * Signed(b.counter), PRIME)
<1> DEFINE s == IF Negative(b.counter) THEN PRIME - b.ID ELSE b.ID
           a == Magnitude(b.counter)
           n == Signed(b.counter)
<1>0. b.counter \in 0..(CounterSize - 1) /\ b.ID \in Int
  BY DEF Bucket
<1>1. /\ Signed(b.counter) \in Int /\ Magnitude(b.counter) \in 1..(PRIME - 1)
      /\ Magnitude(b.counter) = IF Negative(b.counter) THEN -Signed(b.counter) ELSE Signed(b.counter)
  BY <1>0, SignedFacts
<1>2. PICK p \in Nat \ {0}, i \in Int, m \in Nat, g \in Int, t \in Int :
        p = PRIME /\ i = b.ID /\ m = a /\ g = n /\ t = s
  BY <1>0, <1>1, Numbers
<1>3. m \in 1..(p - 1) /\ m = (IF Negative(b.counter) THEN -g ELSE g)
  BY <1>1, <1>2
<1>4. PICK v \in Nat : v = InverseOf(m)
  BY InverseType
<1>5. Congruent(m * v, 1, p)
  <2>1. (m * v) % p = 1
    BY <1>2, <1>3, <1>4, PrimeAssumption
  <2>2. p > 1 /\ 1 \in 0..(p - 1)
    BY <1>2, Numbers
  <2>3. 1 % p = 1
    BY <2>2, ResidueSmall
  <2> QED BY <2>1, <2>3 DEF Congruent
<1>6. SoleID(b) = (t * v) % p
  BY <1>2, <1>4 DEF SoleID
<1> HIDE DEF s, a, n
<1>7. f \in Int /\ f * m \in Int /\ t * v \in Int /\ f * g \in Int /\ m * v \in Int /\ f % p = f
  <2>1. f \in 0..(p - 1)
    BY <1>2
  <2>2. f % p = f
    BY <2>1, ResidueSmall
  <2> QED BY <2>1, <2>2
<1>8. Congruent(t * v, f, p) <=> Congruent(t, f * m, p)
  <2>1. p \in Nat \ {0} /\ t \in Int /\ v \in Int /\ m \in Int /\ f \in Int
    BY <1>7
  <2> QED BY <1>5, <2>1, InverseCancels, Zenon
<1>9. Congruent(t, f * m, p) <=> Congruent(i, f * g, p)
  <2>1. CASE ~Negative(b.counter)
    BY <1>2, <1>3, <2>1 DEF s
  <2>2. CASE Negative(b.counter)
    <3>1. PICK u \in Int : u = f * m
      BY <1>7
    <3>2. t = p - i /\ f * g = -u /\ g = -m
      BY <1>2, <1>3, <1>7, <2>2, <3>1 DEF s
    <3>3. Congruent(p, 0, p)
      <4>1. PICK k \in Int, z \in Int : k = 1 /\ z = 0
        OBVIOUS
      <4>2. p = z + k * p /\ p \in Int
        BY <4>1
      <4>3. Congruent(p, z, p)
        BY <4>2, CongruentBy
      <4> QED BY <4>1, <4>3
    <3>4. ASSUME Congruent(p - i, u, p) PROVE Congruent(i, -u, p)
      <4>1. Congruent(p - (p - i), 0 - u, p)
        BY <3>3, <3>4, CongruentPlus
      <4>2. p - (p - i) = i /\ 0 - u = -u
        OBVIOUS
      <4> QED BY <4>1, <4>2
    <3>5. ASSUME Congruent(i, -u, p) PROVE Congruent(p - i, u, p)
      <4>1. Congruent(p - i, 0 - (-u), p)
        BY <3>3, <3>5, CongruentPlus
      <4>2. 0 - (-u) = u
        OBVIOUS
      <4> QED BY <4>1, <4>2
    <3> QED BY <3>1, <3>2, <3>4, <3>5
  <2> QED BY <2>1, <2>2
<1>10. (t * v) % p = f <=> Congruent(t * v, f, p)
  BY <1>7 DEF Congruent
<1> QED
  BY <1>2, <1>6, <1>8, <1>9, <1>10 DEF n
-----------------------------------------------------------------------------
(* What a result says of a flow.                                           *)
Counts(s) == [i \in DOMAIN s |-> Signed(s[i].counter)]
Named(s, f) == {i \in DOMAIN s : s[i].id = f}
TakenBy(s, f) == SumFunctionOnSet(Counts(s), Named(s, f))


LEMMA EntriesType ==
    ASSUME NEW s \in Seq(Flow), NEW f
    PROVE  /\ IsFiniteSet(Named(s, f)) /\ Named(s, f) \in SUBSET (1..Len(s))
           /\ DOMAIN s = 1..Len(s) /\ Len(s) \in Nat
           /\ \A i \in DOMAIN s : s[i] \in Flow /\ s[i].id \in IDs /\ Counts(s)[i] \in Int
           /\ TakenBy(s, f) \in Int
<1>1. DOMAIN s = 1..Len(s) /\ Len(s) \in Nat /\ \A i \in DOMAIN s : s[i] \in Flow
  OBVIOUS
<1>2. IsFiniteSet(Named(s, f)) /\ Named(s, f) \in SUBSET (1..Len(s))
  <2>1. IsFiniteSet(1..Len(s))
    BY <1>1, FS_Interval
  <2>2. Named(s, f) \in SUBSET (1..Len(s))
    BY <1>1 DEF Named
  <2> QED BY <2>1, <2>2, FS_Subset
<1>3. ASSUME NEW i \in DOMAIN s
      PROVE  s[i].id \in IDs /\ Counts(s)[i] \in Int
  <2>1. s[i].id \in IDs /\ s[i].counter \in 0..(CounterSize - 1)
    BY <1>1 DEF Flow
  <2>2. Signed(s[i].counter) \in Int
    BY <2>1, SignedFacts
  <2> QED BY <2>1, <2>2 DEF Counts
<1>4. TakenBy(s, f) \in Int
  BY <1>1, <1>2, <1>3, SumInt DEF TakenBy
<1> QED
  BY <1>1, <1>2, <1>3, <1>4

LEMMA TakenEmpty ==
    ASSUME NEW s \in Seq(Flow), Len(s) = 0, NEW f
    PROVE  TakenBy(s, f) = 0
<1>1. Named(s, f) = {}
  BY DEF Named
<1> QED
  BY <1>1, SumEmpty DEF TakenBy

LEMMA TakenAppend ==
    ASSUME NEW s \in Seq(Flow), NEW e \in Flow, NEW f
    PROVE  TakenBy(Append(s, e), f) = TakenBy(s, f) + (IF e.id = f THEN Signed(e.counter) ELSE 0)
<1> DEFINE t == Append(s, e)
           F == Counts(s)
           G == Counts(t)
           n == Len(s) + 1
<1>1. t \in Seq(Flow) /\ DOMAIN t = 1..n /\ n \in DOMAIN t /\ t[n] = e /\ n \in Nat
  OBVIOUS
<1>2. DOMAIN s = 1..Len(s) /\ \A i \in DOMAIN s : t[i] = s[i] /\ i \in DOMAIN t /\ i # n
  OBVIOUS
<1>3. G[n] = Signed(e.counter) /\ \A i \in DOMAIN s : G[i] = F[i]
  BY <1>1, <1>2 DEF Counts
<1>4. Named(t, f) = IF e.id = f THEN Named(s, f) \cup {n} ELSE Named(s, f)
  BY <1>1, <1>2 DEF Named
<1>5. /\ IsFiniteSet(Named(s, f)) /\ Named(s, f) \in SUBSET DOMAIN s /\ n \notin Named(s, f)
      /\ TakenBy(s, f) \in Int
  BY <1>2, EntriesType
<1>6. \A i \in DOMAIN t : G[i] \in Int
  BY <1>1, EntriesType
<1> HIDE DEF t, F, G, n
<1>7. SumFunctionOnSet(G, Named(s, f)) = SumFunctionOnSet(F, Named(s, f))
  BY <1>3, <1>5, SumSame
<1>8. SumFunctionOnSet(F, Named(s, f)) = TakenBy(s, f) /\ TakenBy(t, f) = SumFunctionOnSet(G, Named(t, f))
  BY DEF TakenBy, F, G
<1>9. CASE e.id = f
  <2>1. Named(s, f) \cup {n} = Named(t, f)
    BY <1>4, <1>9
  <2>2. \A i \in Named(s, f) \cup {n} : G[i] \in Int
    BY <1>1, <1>2, <1>5, <1>6
  <2>3. SumFunctionOnSet(G, Named(s, f) \cup {n}) = G[n] + SumFunctionOnSet(G, Named(s, f))
    BY <1>5, <2>2, SumAddElement
  <2>4. G[n] \in Int
    BY <1>1, <1>6
  <2>5. TakenBy(t, f) = Signed(e.counter) + TakenBy(s, f)
    BY <1>3, <1>7, <1>8, <2>1, <2>3
  <2>6. PICK a \in Int, b \in Int : a = Signed(e.counter) /\ b = TakenBy(s, f)
    BY <1>3, <1>5, <2>4
  <2>7. TakenBy(t, f) = b + a
    BY <2>5, <2>6
  <2> QED BY <1>9, <2>6, <2>7 DEF t
<1>10. CASE e.id # f
  BY <1>4, <1>5, <1>7, <1>8, <1>10 DEF t
<1> QED
  BY <1>9, <1>10
-----------------------------------------------------------------------------
(* What the zone counted of a flow where packets enter.                    *)
Counted == [f \in IDs |-> entered[f] - (IF f \in put THEN 0 ELSE heavy[f])]

(* The zone and its parts hold the traffic.  The number of packets counted *)
(* is bounded, so that a count is known from its residue.                  *)
Balance ==
    /\ entered \in [IDs -> Nat] /\ left \in [IDs -> Nat]
    /\ \A f \in IDs : heavy[f] <= entered[f]
    /\ SumFunctionOnSet([f \in IDs |-> entered[f] + left[f]], IDs) <= MaxPackets
    /\ res \in Seq(Flow)
    /\ phase = "count" =>
          /\ HoldsNumber(hash, ingress, Counted) /\ HoldsIDs(hash, ingress, Counted)
          /\ HoldsNumber(hash, egress, left) /\ HoldsIDs(hash, egress, left)
    /\ phase # "count" => HoldsNumber(hash, x, Rest)
    /\ phase # "count" /\ (phase # "succeed" \/ ~misled) => HoldsIDs(hash, x, Rest)

(* Rest depends on the traffic and on the result only.                     *)
LEMMA RestIs ==
    ASSUME NEW f \in IDs
    PROVE  /\ Taken(f) = TakenBy(res, f)
           /\ Rest[f] = entered[f] - left[f] - (IF f \in put THEN 0 ELSE heavy[f]) - TakenBy(res, f)
BY DEF Rest, Net, Taken, EntriesOf, TakenBy, Counts, Named

LEMMA RestType ==
    ASSUME Shape, Balance
    PROVE  /\ Rest \in Traffic /\ Counted \in Traffic /\ left \in Traffic
           /\ \A f \in IDs : Net(f) \in Int /\ Rest[f] = Net(f) - TakenBy(res, f)
<1>1. \A f \in IDs : TakenBy(res, f) \in Int
  BY EntriesType DEF Balance
<1>2. \A f \in IDs : entered[f] \in Int /\ left[f] \in Int /\ heavy[f] \in Int
  BY DEF Balance, Shape
<1>3. \A f \in IDs : Net(f) \in Int /\ Rest[f] = Net(f) - TakenBy(res, f)
  BY <1>2, RestIs DEF Net
<1>4. \A f \in IDs : Rest[f] \in Int
  BY <1>1, <1>3
<1>5. Rest = [f \in IDs |-> Rest[f]]
  BY DEF Rest
<1>6. Counted \in Traffic /\ left \in Traffic
  BY <1>2 DEF Counted, Traffic, Balance
<1> QED
  BY <1>3, <1>4, <1>5, <1>6 DEF Traffic

LEMMA InitBalance == Init => Balance
<1> SUFFICES ASSUME Init PROVE Balance
  OBVIOUS
<1>1. entered \in [IDs -> Nat] /\ left \in [IDs -> Nat] /\ heavy \in [IDs -> Nat] /\ res \in Seq(Flow)
  BY DEF Init
<1>2. \A f \in IDs : heavy[f] <= entered[f]
  BY DEF Init
<1>3. SumFunctionOnSet([f \in IDs |-> entered[f] + left[f]], IDs) = 0
  <2>1. \A f \in IDs : [g \in IDs |-> entered[g] + left[g]][f] = 0
    BY DEF Init
  <2> QED BY <2>1, Numbers, SumZero
<1>4. Counted \in Traffic /\ left \in Traffic /\ \A f \in IDs : Counted[f] = 0 /\ left[f] = 0
  BY DEF Init, Counted, Traffic
<1>5. /\ HoldsNumber(hash, EmptySketch, Counted) /\ HoldsIDs(hash, EmptySketch, Counted)
      /\ HoldsNumber(hash, EmptySketch, left) /\ HoldsIDs(hash, EmptySketch, left)
  BY <1>4, EmptyHolds
<1>6. phase = "count" /\ ingress = EmptySketch /\ egress = EmptySketch
  BY DEF Init
<1>7. 0 <= MaxPackets
  BY DecodeAssumption
<1> QED
  BY <1>1, <1>2, <1>3, <1>5, <1>6, <1>7 DEF Balance

(* One packet more is counted.                                             *)
LEMMA OneMore ==
    ASSUME Balance, WithinBound, NEW e, NEW l, NEW f \in IDs,
           e \in [IDs -> Nat], l \in [IDs -> Nat],
           e[f] + l[f] = entered[f] + left[f] + 1,
           \A g \in IDs \ {f} : e[g] + l[g] = entered[g] + left[g]
    PROVE  SumFunctionOnSet([g \in IDs |-> e[g] + l[g]], IDs) <= MaxPackets
<1> DEFINE F == [g \in IDs |-> entered[g] + left[g]]
           G == [g \in IDs |-> e[g] + l[g]]
<1>1. \A g \in IDs : F[g] \in Int /\ G[g] \in Int
  BY DEF Balance
<1>2. G[f] = F[f] + 1 /\ \A g \in IDs \ {f} : F[g] = G[g]
  OBVIOUS
<1> HIDE DEF F, G
<1>3. SumFunctionOnSet(G, IDs) = SumFunctionOnSet(F, IDs) + (G[f] - F[f])
  BY <1>1, <1>2, Numbers, SumChange
<1>4. SumFunctionOnSet(F, IDs) < MaxPackets
  BY DEF WithinBound, F
<1>5. SumFunctionOnSet(F, IDs) \in Int
  BY <1>1, Numbers, SumInt
<1>6. PICK a \in Int, b \in Int, m \in Nat :
        a = SumFunctionOnSet(F, IDs) /\ b = F[f] /\ m = MaxPackets
  BY <1>1, <1>5, DecodeAssumption
<1>7. G[f] - F[f] = 1
  BY <1>2, <1>6
<1>8. SumFunctionOnSet(G, IDs) = a + 1 /\ a + 1 <= m
  BY <1>3, <1>4, <1>6, <1>7
<1> QED
  BY <1>6, <1>8 DEF G

LEMMA BalanceCount ==
    ASSUME IInv, Balance, NEW f \in IDs, Enter(f) \/ EnterHeavy(f) \/ Leave(f) \/ PutBack(f)
    PROVE  Balance'
<1>0. /\ Shape /\ hash \in HashFunctions /\ ingress \in Sketch /\ egress \in Sketch
      /\ heavy \in [IDs -> Nat] /\ entered \in [IDs -> Nat] /\ left \in [IDs -> Nat]
      /\ \A g \in IDs : heavy[g] <= entered[g]
      /\ Counted \in Traffic /\ left \in Traffic
  BY RestType DEF IInv, Shape, Balance
<1>1. phase = "count" /\ phase' = "count" /\ res' = res /\ hash' = hash
  BY DEF Enter, EnterHeavy, Leave, PutBack, Decoding
<1>2. /\ HoldsNumber(hash, ingress, Counted) /\ HoldsIDs(hash, ingress, Counted)
      /\ HoldsNumber(hash, egress, left) /\ HoldsIDs(hash, egress, left)
      /\ res \in Seq(Flow)
      /\ SumFunctionOnSet([g \in IDs |-> entered[g] + left[g]], IDs) <= MaxPackets
  BY <1>1 DEF Balance
<1>3. ASSUME entered' \in [IDs -> Nat], left' \in [IDs -> Nat],
             \A g \in IDs : heavy'[g] <= entered'[g],
             SumFunctionOnSet([g \in IDs |-> entered'[g] + left'[g]], IDs) <= MaxPackets,
             HoldsNumber(hash, ingress', Counted'), HoldsIDs(hash, ingress', Counted'),
             HoldsNumber(hash, egress', left'), HoldsIDs(hash, egress', left')
      PROVE  Balance'
  BY <1>1, <1>2, <1>3 DEF Balance
<1>4. CASE Enter(f)
  <2>1. /\ WithinBound /\ heavy[f] = 0 /\ entered' = [entered EXCEPT ![f] = @ + 1]
        /\ ingress' = CountPacket(ingress, hash, f)
        /\ left' = left /\ heavy' = heavy /\ egress' = egress /\ put' = put
    BY <1>4 DEF Enter
  <2>2. entered' \in [IDs -> Nat] /\ \A g \in IDs : heavy'[g] <= entered'[g]
    BY <1>0, <2>1
  <2>3. Counted' = More(Counted, f, 1)
    BY <1>0, <2>1 DEF Counted, More
  <2>4. SumFunctionOnSet([g \in IDs |-> entered'[g] + left'[g]], IDs) <= MaxPackets
    <3>1. PICK e \in [IDs -> Nat], l \in [IDs -> Nat] : e = entered' /\ l = left'
      BY <1>0, <2>1, <2>2
    <3>2. e[f] + l[f] = entered[f] + left[f] + 1 /\ \A g \in IDs \ {f} : e[g] + l[g] = entered[g] + left[g]
      BY <1>0, <2>1, <3>1
    <3>3. SumFunctionOnSet([g \in IDs |-> e[g] + l[g]], IDs) <= MaxPackets
      BY <2>1, <3>2, OneMore
    <3> QED BY <3>1, <3>3
  <2>5. HoldsNumber(hash, ingress', More(Counted, f, 1)) /\ HoldsIDs(hash, ingress', More(Counted, f, 1))
    BY <1>0, <1>2, <2>1, CountHolds
  <2> QED BY <1>0, <1>2, <1>3, <2>1, <2>2, <2>3, <2>4, <2>5
<1>5. CASE EnterHeavy(f)
  <2>1. /\ WithinBound /\ put = {} /\ entered' = [entered EXCEPT ![f] = @ + 1]
        /\ heavy' = [heavy EXCEPT ![f] = @ + 1]
        /\ left' = left /\ ingress' = ingress /\ egress' = egress /\ put' = put
    BY <1>5 DEF EnterHeavy
  <2>2. entered' \in [IDs -> Nat] /\ \A g \in IDs : heavy'[g] <= entered'[g]
    BY <1>0, <2>1
  <2>3. Counted' = Counted
    BY <1>0, <2>1 DEF Counted
  <2>4. SumFunctionOnSet([g \in IDs |-> entered'[g] + left'[g]], IDs) <= MaxPackets
    <3>1. PICK e \in [IDs -> Nat], l \in [IDs -> Nat] : e = entered' /\ l = left'
      BY <1>0, <2>1, <2>2
    <3>2. e[f] + l[f] = entered[f] + left[f] + 1 /\ \A g \in IDs \ {f} : e[g] + l[g] = entered[g] + left[g]
      BY <1>0, <2>1, <3>1
    <3>3. SumFunctionOnSet([g \in IDs |-> e[g] + l[g]], IDs) <= MaxPackets
      BY <2>1, <3>2, OneMore
    <3> QED BY <3>1, <3>3
  <2> QED BY <1>0, <1>2, <1>3, <2>1, <2>2, <2>3, <2>4
<1>6. CASE Leave(f)
  <2>1. /\ WithinBound /\ left' = [left EXCEPT ![f] = @ + 1]
        /\ egress' = CountPacket(egress, hash, f)
        /\ entered' = entered /\ heavy' = heavy /\ ingress' = ingress /\ put' = put
    BY <1>6 DEF Leave
  <2>2. left' \in [IDs -> Nat] /\ left' = More(left, f, 1)
    BY <1>0, <2>1 DEF More
  <2>3. Counted' = Counted
    BY <2>1 DEF Counted
  <2>4. SumFunctionOnSet([g \in IDs |-> entered'[g] + left'[g]], IDs) <= MaxPackets
    <3>1. PICK e \in [IDs -> Nat], l \in [IDs -> Nat] : e = entered' /\ l = left'
      BY <1>0, <2>1, <2>2
    <3>2. e[f] + l[f] = entered[f] + left[f] + 1 /\ \A g \in IDs \ {f} : e[g] + l[g] = entered[g] + left[g]
      BY <1>0, <2>1, <3>1
    <3>3. SumFunctionOnSet([g \in IDs |-> e[g] + l[g]], IDs) <= MaxPackets
      BY <2>1, <3>2, OneMore
    <3> QED BY <3>1, <3>3
  <2>5. HoldsNumber(hash, egress', More(left, f, 1)) /\ HoldsIDs(hash, egress', More(left, f, 1))
    BY <1>0, <1>2, <2>1, CountHolds
  <2> QED BY <1>0, <1>2, <1>3, <2>1, <2>2, <2>3, <2>4, <2>5
<1>7. CASE PutBack(f)
  <2>1. /\ f \notin put /\ put' = put \cup {f}
        /\ ingress' = AddFlow(ingress, hash, [id |-> f, counter |-> heavy[f]])
        /\ left' = left /\ heavy' = heavy /\ egress' = egress /\ entered' = entered
    BY <1>7 DEF PutBack
  <2>2. Counted' = More(Counted, f, heavy[f])
    BY <1>0, <2>1 DEF Counted, More
  <2>3. /\ HoldsNumber(hash, ingress', More(Counted, f, heavy[f]))
        /\ HoldsIDs(hash, ingress', More(Counted, f, heavy[f]))
    <3>1. PICK n \in Nat : n = heavy[f]
      BY <1>0
    <3> QED BY <1>0, <1>2, <2>1, <3>1, AddHolds
  <2>4. [g \in IDs |-> entered'[g] + left'[g]] = [g \in IDs |-> entered[g] + left[g]]
    BY <2>1
  <2> QED BY <1>0, <1>2, <1>3, <2>1, <2>2, <2>3, <2>4
<1> QED
  BY <1>4, <1>5, <1>6, <1>7

LEMMA BalanceBegin == IInv /\ Balance /\ Begin => Balance'
<1> SUFFICES ASSUME IInv, Balance, Begin PROVE Balance'
  OBVIOUS
<1>0. /\ Shape /\ ingress \in Sketch /\ egress \in Sketch
      /\ heavy \in [IDs -> Nat] /\ entered \in [IDs -> Nat] /\ left \in [IDs -> Nat]
      /\ Counted \in Traffic /\ left \in Traffic /\ res \in Seq(Flow)
  BY RestType DEF IInv, Shape, Balance
<1>1. /\ phase = "count" /\ phase' = "scan" /\ UNCHANGED <<traffic, res, misled>>
      /\ x' = SketchSub(FermatAdd(EmptySketch, ingress), FermatAdd(EmptySketch, egress))
  BY DEF Begin
<1>2. /\ HoldsNumber(hash, ingress, Counted) /\ HoldsIDs(hash, ingress, Counted)
      /\ HoldsNumber(hash, egress, left) /\ HoldsIDs(hash, egress, left)
  BY <1>1 DEF Balance
<1>3. HoldsNumber(hash, x', Less(Counted, left)) /\ HoldsIDs(hash, x', Less(Counted, left))
  BY <1>0, <1>1, <1>2, SubHolds
<1>4. Rest' = Less(Counted, left)
  <2>1. Len(res) = 0
    BY <1>1 DEF IInv, Sizes
  <2>2. \A f \in IDs : TakenBy(res, f) = 0
    BY <1>0, <2>1, TakenEmpty
  <2>3. \A f \in IDs : entered[f] \in Int /\ left[f] \in Int /\ heavy[f] \in Int
    BY <1>0
  <2>4. \A f \in IDs : Net(f) - Taken(f) = Counted[f] - left[f]
    BY <2>2, <2>3, RestIs DEF Counted, Net
  <2>5. Rest = Less(Counted, left)
    BY <2>4 DEF Rest, Less
  <2>6. Rest' = Rest
    BY <1>1 DEF Rest, Net, Taken, EntriesOf, traffic
  <2> QED BY <2>5, <2>6
<1>5. HoldsNumber(hash', x', Rest') /\ HoldsIDs(hash', x', Rest')
  BY <1>1, <1>3, <1>4 DEF traffic
<1> QED
  BY <1>1, <1>5 DEF Balance, traffic
-----------------------------------------------------------------------------
(* What taking a flow out of the sketch and into the result changes.       *)
LEMMA PeelEffect ==
    ASSUME Shape, Balance, phase # "count", ~Ended, UNCHANGED traffic,
           NEW r \in Row, NEW c \in Col, NEW q, NEW first, Decodable(r, c), Verify(r, c, q, first)
    PROVE  \E f \in IDs, n \in Int, e \in Flow :
              /\ f = SoleID(x[r][c]) /\ hash[r][f] = c
              /\ e = [id |-> f, counter |-> x[r][c].counter]
              /\ res' = Append(res, e) /\ res' \in Seq(Flow)
              /\ n = Signed(x[r][c].counter) /\ n # 0
              /\ Rest' = More(Rest, f, -n)
              /\ HoldsNumber(hash, x', Rest') /\ HoldsIDs(hash, x', Rest')
<1>1. PICK f \in IDs : f = SoleID(x[r][c]) /\ hash[r][f] = c
  BY DEF Decodable, Verifies
<1>2. PICK b \in Bucket : b = x[r][c] /\ b.counter # 0 /\ b.counter \in 0..(CounterSize - 1)
  <2>1. x[r][c] \in Bucket /\ x[r][c].counter # 0
    BY DEF Shape, Sketch, Decodable
  <2> QED BY <2>1 DEF Bucket
<1>3. PICK n \in Int : /\ n = Signed(b.counter) /\ n # 0
                       /\ Congruent(b.counter, n, CounterSize)
  BY <1>2, SignedFacts
<1>4. Congruent(b.ID, f * n, PRIME)
  <2>1. f \in 0..(PRIME - 1)
    BY Numbers
  <2>2. SoleID(b) = f <=> Congruent(b.ID, f * Signed(b.counter), PRIME)
    BY <1>2, <2>1, SoleIDMeaning
  <2> QED BY <1>1, <1>2, <1>3, <2>2
<1>5. PICK e \in Flow : e = [id |-> f, counter |-> b.counter]
  BY <1>2 DEF Flow
<1>6. /\ x' = Peeled(r, c, f) /\ res' = Append(res, e)
  BY <1>1, <1>2, <1>5 DEF Verify
<1>7. res \in Seq(Flow) /\ res' \in Seq(Flow)
  BY <1>6 DEF Balance
<1>8. Rest' = More(Rest, f, -n)
  <2>1. Rest \in Traffic /\ \A g \in IDs : Rest[g] = Net(g) - TakenBy(res, g) /\ Net(g) \in Int
    BY RestType
  <2>2. \A g \in IDs : TakenBy(res, g) \in Int
    BY <1>7, EntriesType
  <2>3. \A g \in IDs : Net(g)' = Net(g)
    BY DEF Net, traffic
  <2>4. Rest' = [g \in IDs |-> Net(g)' - TakenBy(res', g)]
    BY DEF Rest, Taken, EntriesOf, TakenBy, Counts, Named
  <2>5. ASSUME NEW g \in IDs
        PROVE  Net(g)' - TakenBy(res', g) = IF g = f THEN Rest[f] + (-n) ELSE Rest[g]
    <3>1. TakenBy(res', g) = TakenBy(res, g) + (IF e.id = g THEN Signed(e.counter) ELSE 0)
      BY <1>5, <1>6, <1>7, TakenAppend
    <3>2. e.id = f /\ Signed(e.counter) = n
      BY <1>3, <1>5
    <3>3. PICK a \in Int, t \in Int : a = Net(g) /\ t = TakenBy(res, g) /\ Rest[g] = a - t
      BY <2>1, <2>2
    <3>4. TakenBy(res', g) = IF g = f THEN t + n ELSE t
      BY <3>1, <3>2, <3>3
    <3> QED BY <2>3, <3>3, <3>4
  <2>6. More(Rest, f, -n) = [g \in IDs |-> IF g = f THEN Rest[f] + (-n) ELSE Rest[g]]
    BY <2>1 DEF More, Traffic
  <2> QED BY <2>4, <2>5, <2>6
<1>9. /\ hash \in HashFunctions /\ x \in Sketch /\ Rest \in Traffic
      /\ HoldsNumber(hash, x, Rest) /\ HoldsIDs(hash, x, Rest)
  BY RestType DEF Shape, Balance, Ended
<1>10. HoldsNumber(hash, x', Rest') /\ HoldsIDs(hash, x', Rest')
  BY <1>1, <1>2, <1>3, <1>4, <1>6, <1>8, <1>9, PeelHolds
<1> QED
  BY <1>1, <1>2, <1>3, <1>5, <1>6, <1>7, <1>8, <1>10

LEMMA BalanceLook ==
    ASSUME Shape, Balance, phase # "count", ~Ended, UNCHANGED traffic, phase' \notin {"count", "succeed"},
           NEW r \in Row, NEW c \in Col, NEW q, NEW first, Look(r, c, q, first)
    PROVE  Balance'
<1>1. res' \in Seq(Flow) /\ HoldsNumber(hash, x', Rest') /\ HoldsIDs(hash, x', Rest')
  <2>1. CASE Decodable(r, c)
    <3>1. Verify(r, c, q, first)
      BY <2>1 DEF Look
    <3> QED BY <2>1, <3>1, PeelEffect
  <2>2. CASE ~Decodable(r, c)
    <3>1. x' = x /\ res' = res
      BY <2>2 DEF Look, found
    <3>2. Rest' = Rest
      BY <3>1 DEF Rest, Net, Taken, EntriesOf, traffic
    <3> QED BY <3>1, <3>2 DEF Balance, Ended
  <2> QED BY <2>1, <2>2
<1>2. hash' = hash /\ UNCHANGED <<entered, left, heavy>>
  BY DEF traffic
<1> QED
  BY <1>1, <1>2 DEF Balance

(* A flow may be taken once only: the entries of a flow in a result whose  *)
(* flows are all different.                                                *)
Different(s) == \A i, j \in DOMAIN s : s[i].id = s[j].id => i = j

LEMMA TakenOnce ==
    ASSUME NEW s \in Seq(Flow), Different(s)
    PROVE  /\ \A i \in DOMAIN s : TakenBy(s, s[i].id) = Signed(s[i].counter)
           /\ \A f : (\A i \in DOMAIN s : s[i].id # f) => TakenBy(s, f) = 0
<1>1. ASSUME NEW i \in DOMAIN s
      PROVE  TakenBy(s, s[i].id) = Signed(s[i].counter)
  <2> DEFINE S == Named(s, s[i].id)
  <2>1. i \in S /\ S \ {i} = {} /\ IsFiniteSet(S) /\ Counts(s)[i] \in Int
    <3>1. i \in S /\ S \ {i} = {}
      BY DEF Named, Different
    <3> QED BY <3>1, EntriesType
  <2> HIDE DEF S
  <2>2. SumFunctionOnSet(Counts(s), S) = Counts(s)[i]
    BY <2>1, SumOne
  <2> QED BY <2>2 DEF TakenBy, Counts, S
<1>2. ASSUME NEW f, \A i \in DOMAIN s : s[i].id # f
      PROVE  TakenBy(s, f) = 0
  <2>1. Named(s, f) = {}
    BY <1>2 DEF Named
  <2> QED BY <2>1, SumEmpty DEF TakenBy
<1> QED
  BY <1>1, <1>2
-----------------------------------------------------------------------------
(* The buckets in whose flows nothing remains to be decoded.               *)
Settled == {p \in Row \X Col : \A f \in IDs : hash[p[1]][f] = p[2] => Rest[f] = 0}

(* Unless verify was misled, the result has right entries only, and each   *)
(* was alone in a bucket where nothing remains since.                      *)
Exact ==
    /\ misled \in BOOLEAN
    /\ ~misled =>
          /\ Different(res)
          /\ \A i \in DOMAIN res : /\ Signed(res[i].counter) = Net(res[i].id)
                                   /\ Net(res[i].id) # 0
                                   /\ res[i].id \notin Core
          /\ Len(res) <= Cardinality(Settled)

StuckIn(S) == \A f \in S, r \in Row : \E g \in S \ {f} : hash[r][f] = hash[r][g]

LEMMA CoreFacts ==
    /\ \A f \in Core : f \in IDs /\ Net(f) # 0
    /\ StuckIn(Core)
    /\ \A S \in SUBSET {f \in IDs : Net(f) # 0} : StuckIn(S) => S \in SUBSET Core
<1>1. Core = UNION {S \in SUBSET {f \in IDs : Net(f) # 0} : StuckIn(S)}
  BY DEF Core, StuckIn
<1>2. StuckIn(Core)
  <2> SUFFICES ASSUME NEW f \in Core, NEW r \in Row
               PROVE  \E g \in Core \ {f} : hash[r][f] = hash[r][g]
    BY DEF StuckIn
  <2>1. PICK S \in SUBSET {g \in IDs : Net(g) # 0} : StuckIn(S) /\ f \in S
    BY <1>1
  <2>2. PICK g \in S \ {f} : hash[r][f] = hash[r][g]
    BY <2>1 DEF StuckIn
  <2>3. g \in Core
    BY <1>1, <2>1
  <2> QED BY <2>2, <2>3
<1> QED
  BY <1>1, <1>2

LEMMA NetBound ==
    ASSUME Shape, Balance, NEW f \in IDs
    PROVE  Net(f) \in Int /\ Net(f) <= MaxPackets /\ -MaxPackets <= Net(f)
<1> DEFINE F == [g \in IDs |-> entered[g] + left[g]]
<1>1. \A g \in IDs : F[g] \in Nat
  BY DEF Balance
<1>2. SumFunctionOnSet(F, IDs) <= MaxPackets
  BY DEF Balance
<1>3. F[f] = entered[f] + left[f]
  OBVIOUS
<1> HIDE DEF F
<1>4. SumFunctionOnSet(F, {f}) <= SumFunctionOnSet(F, IDs)
  BY <1>1, Numbers, SumPart
<1>5. SumFunctionOnSet(F, {f}) = F[f]
  <2>0. IsFiniteSet({f})
    BY FS_Singleton
  <2>1. IsFiniteSet({f}) /\ f \in {f} /\ F[f] \in Int /\ \A g \in {f} \ {f} : F[g] = 0
    BY <1>1, <2>0
  <2> QED BY <2>1, SumOne
<1>6. SumFunctionOnSet(F, IDs) \in Int
  BY <1>1, Numbers, SumInt
<1>7. PICK s \in Int, a \in Nat, b \in Nat, c \in Nat, m \in Nat :
        /\ s = SumFunctionOnSet(F, IDs) /\ a = entered[f] /\ b = left[f] /\ c = heavy[f]
        /\ m = MaxPackets /\ c <= a
  BY <1>6, DecodeAssumption DEF Balance, Shape
<1>8. a + b <= m
  BY <1>2, <1>3, <1>4, <1>5, <1>7
<1>9. Net(f) = a - b - (IF f \in put THEN 0 ELSE c)
  BY <1>7 DEF Net
<1> QED
  BY <1>7, <1>8, <1>9

(* A count that is small enough is known from its residue.                 *)
LEMMA ResidueKnown ==
    ASSUME NEW n \in Int, n <= MaxPackets, -MaxPackets <= n, NEW c \in 0..(CounterSize - 1),
           Congruent(c, n, CounterSize)
    PROVE  Signed(c) = n /\ (c = 0 <=> n = 0)
<1>1. PICK m \in Nat \ {0}, b \in Nat : m = CounterSize /\ b = MaxPackets /\ 2 * b < m
  BY Numbers, DecodeAssumption
<1>2. PICK s \in Int : /\ s = Signed(c) /\ Congruent(c, s, m)
                       /\ 2 * s < m /\ -(2 * s) <= m
  BY <1>1, SignedFacts
<1>3. PICK k \in Int : n = s + k * m
  <2>1. n % m = s % m
    BY <1>1, <1>2 DEF Congruent
  <2> QED BY <2>1, SameResidue
<1>4. k = 0
  <2>1. ASSUME k >= 1 PROVE FALSE
    <3>1. k * m >= m
      BY <2>1
    <3> QED BY <1>1, <1>2, <1>3, <3>1
  <2>2. ASSUME k <= -1 PROVE FALSE
    <3>1. k * m <= -m
      BY <2>2
    <3> QED BY <1>1, <1>2, <1>3, <3>1
  <2> QED BY <2>1, <2>2
<1>5. s = n
  BY <1>3, <1>4
<1>6. c = 0 <=> n = 0
  <2>1. n = 0 => Congruent(c, 0, m)
    BY <1>1
  <2>2. c \in 0..(m - 1) /\ c % m = c /\ 0 % m = 0
    BY <1>1, ResidueSmall
  <2>3. c = 0 => n = 0
    BY <1>1, <1>2, <1>5 DEF Signed, Negative
  <2> QED BY <2>1, <2>2, <2>3 DEF Congruent
<1> QED
  BY <1>2, <1>5, <1>6

(* What remains of each flow while the result is right.                    *)
LEMMA RestExact ==
    ASSUME Shape, Balance, Exact, ~misled
    PROVE  /\ \A i \in DOMAIN res : Rest[res[i].id] = 0 /\ res[i].id \in IDs
           /\ \A f \in IDs : (\A i \in DOMAIN res : res[i].id # f) => Rest[f] = Net(f)
           /\ \A f \in IDs : Rest[f] \in Int /\ Rest[f] <= MaxPackets /\ -MaxPackets <= Rest[f]
<1>1. res \in Seq(Flow) /\ Different(res) /\ \A i \in DOMAIN res : Signed(res[i].counter) = Net(res[i].id)
  BY DEF Balance, Exact
<1>2. \A f \in IDs : Net(f) \in Int /\ Rest[f] = Net(f) - TakenBy(res, f)
  BY RestType
<1>3. \A i \in DOMAIN res : res[i].id \in IDs /\ TakenBy(res, res[i].id) = Net(res[i].id)
  BY <1>1, TakenOnce, EntriesType
<1>4. \A i \in DOMAIN res : Rest[res[i].id] = 0
  <2> TAKE i \in DOMAIN res
  <2>1. PICK a \in Int : a = Net(res[i].id)
    BY <1>2, <1>3
  <2> QED BY <1>2, <1>3, <2>1
<1>5. ASSUME NEW f \in IDs, \A i \in DOMAIN res : res[i].id # f
      PROVE  Rest[f] = Net(f)
  <2>1. TakenBy(res, f) = 0
    BY <1>1, <1>5, TakenOnce
  <2>2. PICK a \in Int : a = Net(f)
    BY <1>2
  <2> QED BY <1>2, <2>1, <2>2
<1>6. MaxPackets \in Nat
  BY DecodeAssumption
<1>7. ASSUME NEW f \in IDs
      PROVE  Rest[f] \in Int /\ Rest[f] <= MaxPackets /\ -MaxPackets <= Rest[f]
  <2>1. CASE \E i \in DOMAIN res : res[i].id = f
    BY <1>4, <1>6, <2>1
  <2>2. CASE \A i \in DOMAIN res : res[i].id # f
    BY <1>5, <2>2, NetBound
  <2> QED BY <2>1, <2>2
<1> QED
  BY <1>3, <1>4, <1>5, <1>7

(* The flow that verify takes, when it is right to.                        *)
LEMMA TakesAlone ==
    ASSUME Shape, Balance, Exact, ~misled,
           NEW r \in Row, NEW c \in Col, NEW f \in IDs,
           x[r][c].counter # 0, hash[r][f] = c, HoldsOnly(r, c, f)
    PROVE  /\ \A i \in DOMAIN res : res[i].id # f
           /\ Signed(x[r][c].counter) = Net(f) /\ Net(f) # 0 /\ Rest[f] = Net(f)
           /\ \A g \in IDs \ {f} : hash[r][g] = c => Rest[g] = 0
           /\ f \notin Core
<1>0. \A g \in IDs : Rest[g] \in Int /\ Rest[g] <= MaxPackets /\ -MaxPackets <= Rest[g]
  BY RestExact
<1>1. PICK n \in 0..(CounterSize - 1) : n = x[r][c].counter /\ n # 0
  <2>1. x[r][c] \in Bucket
    BY DEF Shape, Sketch
  <2> QED BY <2>1 DEF Bucket
<1>2. PICK m \in Nat \ {0} : m = CounterSize
  BY Numbers
<1>3. Congruent(n, Rest[f], CounterSize)
  <2>1. Rest[f] % m = n
    BY <1>1, <1>2 DEF HoldsOnly, Remaining
  <2>2. n % m = n
    BY <1>1, <1>2, ResidueSmall
  <2> QED BY <1>2, <2>1, <2>2 DEF Congruent
<1>4. Signed(n) = Rest[f] /\ Rest[f] # 0
  BY <1>0, <1>1, <1>3, ResidueKnown
<1>5. \A i \in DOMAIN res : res[i].id # f
  BY <1>4, RestExact
<1>6. Rest[f] = Net(f)
  BY <1>5, RestExact
<1>7. ASSUME NEW g \in IDs \ {f}, hash[r][g] = c
      PROVE  Rest[g] = 0
  <2>1. Rest[g] % m = 0 /\ 0 % m = 0
    BY <1>2, <1>7 DEF HoldsOnly, Remaining
  <2>2. PICK z \in 0..(CounterSize - 1) : z = 0
    BY <1>2
  <2>3. Congruent(z, Rest[g], CounterSize)
    BY <1>2, <2>1, <2>2 DEF Congruent
  <2> QED BY <1>0, <2>2, <2>3, ResidueKnown
<1>8. f \notin Core
  <2> SUFFICES ASSUME f \in Core PROVE FALSE
    OBVIOUS
  <2>1. PICK g \in Core \ {f} : hash[r][f] = hash[r][g]
    BY CoreFacts DEF StuckIn
  <2>2. g \in IDs /\ Net(g) # 0 /\ \A i \in DOMAIN res : res[i].id # g
    BY <2>1, CoreFacts DEF Exact
  <2>3. Rest[g] = Net(g)
    BY <2>2, RestExact
  <2> QED BY <1>7, <2>1, <2>2, <2>3
<1> QED
  BY <1>1, <1>4, <1>5, <1>6, <1>7, <1>8
-----------------------------------------------------------------------------
LEMMA SettledFinite ==
    /\ IsFiniteSet(Row \X Col) /\ Cardinality(Row \X Col) = Rows * Width
    /\ \A S \in SUBSET (Row \X Col) :
          IsFiniteSet(S) /\ Cardinality(S) \in Nat /\ Cardinality(S) <= Rows * Width
<1>1. IsFiniteSet(Row) /\ Cardinality(Row) = Rows
  BY FS_Interval, SketchAssumption DEF Row
<1>2. IsFiniteSet(Col) /\ Cardinality(Col) = Width
  BY FS_Interval, SketchAssumption DEF Col
<1>3. IsFiniteSet(Row \X Col) /\ Cardinality(Row \X Col) = Rows * Width
  BY <1>1, <1>2, FS_Product
<1> QED
  BY <1>3, FS_Subset, FS_CardinalityType

LEMMA TrafficFrame ==
    ASSUME UNCHANGED traffic
    PROVE  Core' = Core /\ \A f : Net(f)' = Net(f)
<1>1. \A f : Net(f)' = Net(f)
  BY DEF traffic, Net
<1>2. hash' = hash
  BY DEF traffic
<1> QED
  BY <1>1, <1>2 DEF Core

LEMMA ExactFrame ==
    ASSUME Exact, UNCHANGED <<traffic, res, misled>>
    PROVE  Exact'
<1>1. Core' = Core /\ \A f : Net(f)' = Net(f)
  BY TrafficFrame
<1>2. Settled' = Settled
  <2>1. Rest' = Rest
    BY DEF Rest, Net, Taken, EntriesOf, traffic
  <2> QED BY <2>1 DEF Settled, traffic
<1>3. res' = res /\ misled' = misled
  OBVIOUS
<1> QED
  BY <1>1, <1>2, <1>3 DEF Exact, Different

(* While packets are counted there is no result yet.                       *)
LEMMA ExactEmpty ==
    ASSUME misled \in BOOLEAN, res \in Seq(Flow), Len(res) = 0
    PROVE  Exact
<1>1. DOMAIN res = {}
  OBVIOUS
<1>2. Settled \in SUBSET (Row \X Col)
  BY DEF Settled
<1>3. Cardinality(Settled) \in Nat
  BY <1>2, SettledFinite
<1> QED
  BY <1>1, <1>3 DEF Exact, Different

LEMMA ExactPeel ==
    ASSUME Shape, Balance, Exact, phase # "count", ~Ended, UNCHANGED traffic, ~misled,
           NEW r \in Row, NEW c \in Col, NEW q, NEW first, Decodable(r, c), Verify(r, c, q, first),
           HoldsOnly(r, c, SoleID(x[r][c]))
    PROVE  /\ Different(res)'
           /\ \A i \in DOMAIN res' : /\ (Signed(res[i].counter) = Net(res[i].id))'
                                     /\ (Net(res[i].id) # 0)'
                                     /\ (res[i].id \notin Core)'
           /\ (Len(res) <= Cardinality(Settled))'
<1>1. PICK f \in IDs, n \in Int, e \in Flow :
              /\ f = SoleID(x[r][c]) /\ hash[r][f] = c
              /\ e = [id |-> f, counter |-> x[r][c].counter]
              /\ res' = Append(res, e) /\ res' \in Seq(Flow)
              /\ n = Signed(x[r][c].counter) /\ n # 0
              /\ Rest' = More(Rest, f, -n)
  BY PeelEffect
<1>2. /\ \A i \in DOMAIN res : res[i].id # f
      /\ n = Net(f) /\ Net(f) # 0 /\ Rest[f] = Net(f) /\ f \notin Core
  BY <1>1, TakesAlone DEF Decodable
<1>3. Core' = Core /\ \A g : Net(g)' = Net(g)
  BY TrafficFrame
<1>4. /\ res \in Seq(Flow) /\ Different(res) /\ Len(res) <= Cardinality(Settled)
      /\ \A i \in DOMAIN res : /\ Signed(res[i].counter) = Net(res[i].id)
                               /\ Net(res[i].id) # 0
                               /\ res[i].id \notin Core
  BY DEF Exact, Balance
<1>5. PICK s \in Seq(Flow), t \in Seq(Flow) : s = res /\ t = res' /\ t = Append(s, e)
  BY <1>1, <1>4
<1>6. /\ \A i \in DOMAIN t : i \in DOMAIN s \/ i = Len(s) + 1
      /\ \A i \in DOMAIN s : t[i] = s[i]
      /\ t[Len(s) + 1] = e /\ Len(t) = Len(s) + 1 /\ Len(s) \in Nat
  BY <1>5
<1>7. e.id = f /\ Signed(e.counter) = Net(f)
  BY <1>1, <1>2
<1>8. Different(t)
  <2> SUFFICES ASSUME NEW i \in DOMAIN t, NEW j \in DOMAIN t, t[i].id = t[j].id
               PROVE  i = j
    BY DEF Different
  <2>1. CASE i \in DOMAIN s /\ j \in DOMAIN s
    BY <1>4, <1>5, <1>6, <2>1 DEF Different
  <2>2. CASE i \in DOMAIN s /\ j = Len(s) + 1
    BY <1>2, <1>5, <1>6, <1>7, <2>2
  <2>3. CASE i = Len(s) + 1 /\ j \in DOMAIN s
    BY <1>2, <1>5, <1>6, <1>7, <2>3
  <2>4. CASE i = Len(s) + 1 /\ j = Len(s) + 1
    BY <2>4
  <2> QED BY <1>6, <2>1, <2>2, <2>3, <2>4
<1>9. ASSUME NEW i \in DOMAIN t
      PROVE  /\ Signed(t[i].counter) = Net(t[i].id)
             /\ Net(t[i].id) # 0
             /\ t[i].id \notin Core
  <2>1. CASE i \in DOMAIN s
    BY <1>4, <1>5, <1>6, <2>1
  <2>2. CASE i = Len(s) + 1
    BY <1>2, <1>6, <1>7, <2>2
  <2> QED BY <1>6, <2>1, <2>2
<1>10. Len(t) <= Cardinality(Settled')
  <2> DEFINE p == <<r, c>>
  <2>1. Rest \in Traffic
    BY RestType
  <2>2. Rest'[f] = 0 /\ \A g \in IDs : g # f => Rest'[g] = Rest[g]
    <3>1. Rest'[f] = Rest[f] + (-n)
      BY <1>1, <2>1 DEF More, Traffic
    <3>2. \A g \in IDs : g # f => Rest'[g] = Rest[g]
      BY <1>1, <2>1 DEF More, Traffic
    <3> QED BY <1>2, <3>1, <3>2
  <2>3. hash' = hash
    BY DEF traffic
  <2>4. Settled \in SUBSET (Row \X Col) /\ Settled' \in SUBSET (Row \X Col)
    BY DEF Settled
  <2>5. p \notin Settled
    BY <1>1, <1>2 DEF Settled
  <2>6. p \in Settled'
    <3>1. ASSUME NEW g \in IDs, hash[r][g] = c PROVE Rest'[g] = 0
      <4>1. CASE g = f
        BY <2>2, <4>1
      <4>2. CASE g # f
        <5>1. Rest[g] = 0
          BY <1>1, <3>1, <4>2, TakesAlone DEF Decodable
        <5> QED BY <2>2, <4>2, <5>1
      <4> QED BY <4>1, <4>2
    <3> QED BY <2>3, <3>1 DEF Settled
  <2>7. Settled \in SUBSET Settled'
    BY <2>2, <2>3 DEF Settled
  <2>8. IsFiniteSet(Settled) /\ IsFiniteSet(Settled') /\ Cardinality(Settled) \in Nat
    BY <2>4, SettledFinite
  <2>9. IsFiniteSet(Settled \cup {p}) /\ Cardinality(Settled \cup {p}) = Cardinality(Settled) + 1
    BY <2>5, <2>8, FS_AddElement
  <2>10. Settled \cup {p} \in SUBSET Settled'
    BY <2>6, <2>7
  <2>11. Cardinality(Settled \cup {p}) <= Cardinality(Settled')
    BY <2>8, <2>10, FS_Subset
  <2>12. Cardinality(Settled') \in Nat
    BY <2>4, SettledFinite
  <2> QED BY <1>4, <1>5, <1>6, <2>8, <2>9, <2>11, <2>12
<1>11. ASSUME NEW i \in DOMAIN res'
       PROVE  /\ Signed(res'[i].counter) = Net(res[i].id)'
              /\ Net(res[i].id)' # 0
              /\ res'[i].id \notin Core'
  <2>1. Net(res[i].id)' = Net(res'[i].id)
    BY DEF Net, traffic
  <2> QED BY <1>3, <1>5, <1>9, <2>1
<1>12. Different(res)'
  BY <1>5, <1>8 DEF Different
<1> QED
  BY <1>5, <1>10, <1>11, <1>12

LEMMA ExactLook ==
    ASSUME Shape, Balance, Exact, phase # "count", ~Ended, UNCHANGED traffic,
           NEW r \in Row, NEW c \in Col, NEW q, NEW first, Look(r, c, q, first)
    PROVE  Exact'
<1>1. CASE ~Decodable(r, c)
  <2>1. UNCHANGED found
    BY <1>1 DEF Look
  <2> QED BY <2>1, ExactFrame DEF found
<1>2. CASE Decodable(r, c)
  <2>1. Verify(r, c, q, first)
    BY <1>2 DEF Look
  <2>2. misled' = (misled \/ ~HoldsOnly(r, c, SoleID(x[r][c])))
    BY <2>1 DEF Verify
  <2>3. misled' \in BOOLEAN
    BY <2>2
  <2>4. ~misled' => ~misled /\ HoldsOnly(r, c, SoleID(x[r][c]))
    BY <2>2, Zenon
  <2>5. CASE misled'
    BY <2>3, <2>5 DEF Exact
  <2>6. CASE ~misled'
    <3>1. ~misled /\ HoldsOnly(r, c, SoleID(x[r][c]))
      BY <2>4, <2>6
    <3>2. /\ Different(res)'
          /\ \A i \in DOMAIN res' : /\ (Signed(res[i].counter) = Net(res[i].id))'
                                    /\ (Net(res[i].id) # 0)'
                                    /\ (res[i].id \notin Core)'
          /\ (Len(res) <= Cardinality(Settled))'
      BY <1>2, <2>1, <3>1, ExactPeel
    <3> QED BY <2>3, <3>2 DEF Exact
  <2> QED BY <2>5, <2>6
<1> QED
  BY <1>1, <1>2
-----------------------------------------------------------------------------
(* The result after merge_flows.                                           *)
Merged == [i \in DOMAIN res |-> MergedFlow(i)]

LEMMA SameFlowIsNamed ==
    ASSUME NEW i \in DOMAIN res, NEW f, res[i].id = f
    PROVE  SameFlow(i) = Named(res, f)
BY DEF SameFlow, Named

(* A flow has one leader at most.                                          *)
LEMMA OneLeader ==
    ASSUME res \in Seq(Flow), NEW i \in Leaders, NEW j \in Leaders, res[i].id = res[j].id
    PROVE  i = j
<1>1. i \in Int /\ j \in Int /\ i \in DOMAIN res /\ j \in DOMAIN res
  BY DEF Leaders
<1>2. i \in SameFlow(j) /\ j \in SameFlow(i)
  BY <1>1 DEF SameFlow
<1>3. ~(i < j) /\ ~(j < i)
  BY <1>2 DEF Leaders
<1> QED
  BY <1>1, <1>3

LEMMA CounterType ==
    ASSUME res \in Seq(Flow), NEW i \in DOMAIN res
    PROVE  res[i].counter \in 0..(CounterSize - 1) /\ res[i].counter \in Int
<1>1. res[i] \in Flow
  OBVIOUS
<1>2. res[i].counter \in 0..(CounterSize - 1)
  BY <1>1 DEF Flow
<1> QED
  BY <1>2

LEMMA TotalType ==
    ASSUME res \in Seq(Flow), NEW i \in DOMAIN res
    PROVE  Total(i) \in 0..(CounterSize - 1)
<1> DEFINE F == [j \in DOMAIN res |-> res[j].counter]
<1>1. \A j \in SameFlow(i) : F[j] \in Int
  BY CounterType DEF SameFlow
<1>2. IsFiniteSet(SameFlow(i))
  BY SameFlowIsNamed, EntriesType
<1> HIDE DEF F
<1>3. SumFunctionOnSet(F, SameFlow(i)) \in Int
  BY <1>1, <1>2, SumInt
<1>4. PICK m \in Nat \ {0}, a \in Int : m = CounterSize /\ a = SumFunctionOnSet(F, SameFlow(i))
  BY <1>3, Numbers
<1>5. a % m \in 0..(m - 1)
  BY DivMod
<1> QED
  BY <1>4, <1>5 DEF Total, F

LEMMA MergedType ==
    ASSUME res \in Seq(Flow)
    PROVE  /\ Merged \in Seq(Flow) /\ Len(Merged) = Len(res) /\ DOMAIN Merged = DOMAIN res
           /\ \A i \in DOMAIN res :
                 /\ Merged[i].id = res[i].id
                 /\ i \in Leaders => Merged[i].counter = Total(i)
                 /\ i \notin Leaders /\ SameFlow(i) \cap Leaders # {} => Merged[i].counter = 0
                 /\ SameFlow(i) \cap Leaders = {} => Merged[i] = res[i]
<1>1. ASSUME NEW i \in DOMAIN res
      PROVE  /\ MergedFlow(i) \in Flow
             /\ MergedFlow(i).id = res[i].id
             /\ i \in Leaders => MergedFlow(i).counter = Total(i)
             /\ i \notin Leaders /\ SameFlow(i) \cap Leaders # {} => MergedFlow(i).counter = 0
             /\ SameFlow(i) \cap Leaders = {} => MergedFlow(i) = res[i]
  <2>1. res[i] \in Flow /\ i \in SameFlow(i)
    BY DEF SameFlow
  <2>2. Total(i) \in 0..(CounterSize - 1) /\ 0 \in 0..(CounterSize - 1)
    BY TotalType, Numbers
  <2>3. CASE i \in Leaders
    <3>1. MergedFlow(i) = [res[i] EXCEPT !.counter = Total(i)]
      BY <2>3 DEF MergedFlow
    <3> QED BY <2>1, <2>2, <2>3, <3>1 DEF Flow
  <2>4. CASE i \notin Leaders /\ SameFlow(i) \cap Leaders # {}
    <3>1. MergedFlow(i) = [res[i] EXCEPT !.counter = 0]
      BY <2>4 DEF MergedFlow
    <3> QED BY <2>1, <2>2, <2>4, <3>1 DEF Flow
  <2>5. CASE SameFlow(i) \cap Leaders = {}
    <3>1. MergedFlow(i) = res[i] /\ i \notin Leaders
      BY <2>1, <2>5 DEF MergedFlow
    <3> QED BY <2>1, <2>5, <3>1
  <2> QED BY <2>3, <2>4, <2>5
<1>2. DOMAIN res = 1..Len(res) /\ Len(res) \in Nat
  OBVIOUS
<1>3. Merged \in [1..Len(res) -> Flow] /\ \A i \in DOMAIN res : Merged[i] = MergedFlow(i)
  BY <1>1, <1>2 DEF Merged
<1>4. Merged \in Seq(Flow) /\ Len(Merged) = Len(res)
  BY <1>2, <1>3
<1> QED
  BY <1>1, <1>2, <1>3, <1>4

(* Merging keeps the number of packets of each flow, modulo the size of    *)
(* the counters.                                                           *)
LEMMA MergedTaken ==
    ASSUME res \in Seq(Flow), NEW f
    PROVE  Congruent(TakenBy(Merged, f), TakenBy(res, f), CounterSize)
<1> DEFINE S == Named(res, f)
           F == Counts(res)
           G == Counts(Merged)
           U == [j \in DOMAIN res |-> res[j].counter]
<1>1. /\ Merged \in Seq(Flow) /\ DOMAIN Merged = DOMAIN res /\ Named(Merged, f) = S
      /\ IsFiniteSet(S) /\ S \in SUBSET DOMAIN res
      /\ \A i \in S : F[i] \in Int /\ G[i] \in Int /\ res[i].id = f
  <2>1. Merged \in Seq(Flow) /\ DOMAIN Merged = DOMAIN res /\ Named(Merged, f) = S
    BY MergedType DEF Named
  <2> QED BY <2>1, EntriesType DEF Named
<1>2. TakenBy(Merged, f) = SumFunctionOnSet(G, S) /\ TakenBy(res, f) = SumFunctionOnSet(F, S)
  BY <1>1 DEF TakenBy
<1>3. \A i \in S : SameFlow(i) = S
  BY <1>1, SameFlowIsNamed
<1>4. CASE S \cap Leaders = {}
  <2>1. \A i \in S : Merged[i] = res[i]
    BY <1>1, <1>3, <1>4, MergedType
  <2>2. \A i \in S : F[i] = G[i]
    BY <1>1, <2>1 DEF Counts
  <2> HIDE DEF S, F, G
  <2>3. SumFunctionOnSet(F, S) = SumFunctionOnSet(G, S)
    BY <1>1, <2>2, SumSame
  <2> QED BY <1>2, <2>3 DEF Congruent
<1>5. CASE S \cap Leaders # {}
  <2>1. PICK l \in S : l \in Leaders
    BY <1>5
  <2>2. ASSUME NEW j \in S \ {l}
        PROVE  Merged[j].counter = 0
    <3>1. j \notin Leaders
      BY <1>1, <2>1, OneLeader
    <3>2. l \in SameFlow(j) \cap Leaders
      BY <1>3, <2>1
    <3> QED BY <1>1, <3>1, <3>2, MergedType
  <2>3. \A j \in S \ {l} : G[j] = 0
    <3>1. Signed(0) = 0
      BY Numbers DEF Signed, Negative
    <3> QED BY <1>1, <2>2, <3>1 DEF Counts
  <2>4. \A j \in S : U[j] \in Int /\ Congruent(U[j], F[j], CounterSize)
    <3> TAKE j \in S
    <3>1. res[j].counter \in 0..(CounterSize - 1)
      BY <1>1, CounterType
    <3> QED BY <1>1, <3>1, SignedFacts DEF Counts
  <2>5. Total(l) = SumFunctionOnSet(U, S) % CounterSize
    BY <1>3 DEF Total
  <2>6. G[l] = Signed(Total(l)) /\ Total(l) \in 0..(CounterSize - 1)
    <3>1. l \in DOMAIN res /\ Merged[l].counter = Total(l)
      BY <1>1, <2>1, MergedType
    <3> QED BY <1>1, <3>1, TotalType DEF Counts
  <2> HIDE DEF S, F, G, U
  <2>7. SumFunctionOnSet(G, S) = G[l]
    BY <1>1, <2>1, <2>3, SumOne
  <2>8. PICK m \in Nat \ {0}, u \in Int, t \in Int, g \in Int, v \in Int :
          /\ m = CounterSize /\ u = SumFunctionOnSet(U, S) /\ t = Total(l) /\ g = G[l]
          /\ v = SumFunctionOnSet(F, S) /\ t = u % m
    <3>1. SumFunctionOnSet(U, S) \in Int /\ SumFunctionOnSet(F, S) \in Int
      BY <1>1, <2>4, SumInt
    <3>2. G[l] \in Int /\ Total(l) \in Int
      BY <1>1, <2>1, <2>6
    <3> QED BY <2>5, <3>1, <3>2, Numbers
  <2>9. Congruent(u, v, m)
    BY <1>1, <2>4, <2>8, SumResidue
  <2>10. Congruent(t, g, m)
    BY <2>6, <2>8, SignedFacts
  <2>11. Congruent(t, u, m)
    BY <2>8, CongruentMod
  <2>12. Congruent(g, v, m)
    BY <2>9, <2>10, <2>11 DEF Congruent
  <2> QED BY <1>2, <2>7, <2>8, <2>12
<1> QED
  BY <1>4, <1>5

(* A result of different flows is left as it is.                           *)
LEMMA MergedDifferent ==
    ASSUME res \in Seq(Flow), Different(res)
    PROVE  Merged = res
<1>1. ASSUME NEW i \in DOMAIN res
      PROVE  MergedFlow(i) = res[i]
  <2>1. SameFlow(i) = {i}
    BY DEF SameFlow, Different
  <2>2. CASE i \notin Leaders
    BY <2>1, <2>2 DEF MergedFlow
  <2>3. CASE i \in Leaders
    <3> DEFINE F == [j \in DOMAIN res |-> res[j].counter]
    <3>1. res[i] \in Flow /\ res[i].counter \in 0..(CounterSize - 1) /\ F[i] = res[i].counter
      BY CounterType
    <3>2. SumFunctionOnSet(F, {i}) = F[i]
      <4>1. IsFiniteSet({i})
        BY FS_Singleton
      <4>2. i \in {i} /\ F[i] \in Int /\ \A j \in {i} \ {i} : F[j] = 0
        BY <3>1
      <4> HIDE DEF F
      <4> QED BY <4>1, <4>2, SumOne
    <3>3. Total(i) = res[i].counter % CounterSize
      BY <2>1, <3>1, <3>2 DEF Total
    <3>4. Total(i) = res[i].counter
      BY <3>1, <3>3, Numbers, ResidueSmall
    <3> QED BY <2>3, <3>1, <3>4 DEF MergedFlow, Flow
  <2> QED BY <2>2, <2>3
<1>2. res = [i \in DOMAIN res |-> res[i]]
  OBVIOUS
<1> QED
  BY <1>1, <1>2 DEF Merged
-----------------------------------------------------------------------------
(* The size of a union of sets that have nothing in common.                *)
LEMMA SumCards ==
    ASSUME NEW Z, NEW F, NEW S, IsFiniteSet(S),
           \A i \in S : IsFiniteSet(Z[i]) /\ F[i] = Cardinality(Z[i]),
           \A i, j \in S : i # j => Z[i] \cap Z[j] = {}
    PROVE  Cardinality(UNION {Z[i] : i \in S}) = SumFunctionOnSet(F, S)
<1> DEFINE U(T) == UNION {Z[i] : i \in T}
           Good == {T \in SUBSET S : IsFiniteSet(U(T)) /\ Cardinality(U(T)) = SumFunctionOnSet(F, T)}
<1>1. ASSUME NEW T \in SUBSET S, \A R \in SUBSET T : R # T => R \in Good
      PROVE  T \in Good
  <2>1. CASE T = {}
    <3>1. U(T) = {}
      BY <2>1
    <3>2. IsFiniteSet(U(T)) /\ Cardinality(U(T)) = 0
      BY <3>1, FS_EmptySet
    <3> QED BY <2>1, <3>2, SumEmpty
  <2>2. CASE T # {}
    <3> DEFINE e == Chosen(T)
               R == T \ {e}
    <3>1. e \in S /\ e \in T /\ R \in SUBSET S /\ IsFiniteSet(T)
      BY <2>2, AnyIn, FS_Subset
    <3>2. IsFiniteSet(U(R)) /\ Cardinality(U(R)) = SumFunctionOnSet(F, R)
      BY <1>1, <2>2, AnyIn
    <3>3. SumFunctionOnSet(F, T) = F[e] + SumFunctionOnSet(F, R)
      BY <2>2, <3>1, SumUnfolds
    <3>4. IsFiniteSet(Z[e]) /\ F[e] = Cardinality(Z[e])
      BY <3>1
    <3>5. U(T) = U(R) \cup Z[e]
      BY <3>1
    <3>6. U(R) \cap Z[e] = {}
      BY <3>1
    <3> HIDE DEF U, R, e
    <3>7. /\ IsFiniteSet(U(R) \cup Z[e])
          /\ Cardinality(U(R) \cup Z[e]) = Cardinality(U(R)) + Cardinality(Z[e]) - Cardinality({})
      BY <3>2, <3>4, <3>6, FS_Union
    <3>8. Cardinality({}) = 0 /\ Cardinality(U(R)) \in Nat /\ Cardinality(Z[e]) \in Nat
      BY <3>2, <3>4, FS_EmptySet, FS_CardinalityType
    <3>9. Cardinality(U(T)) = SumFunctionOnSet(F, T) /\ IsFiniteSet(U(T))
      BY <3>2, <3>3, <3>4, <3>5, <3>7, <3>8
    <3> QED BY <3>9 DEF U
  <2> QED BY <2>1, <2>2
<1>2. \A T \in SUBSET S : T \in Good
  <2> HIDE DEF Good
  <2> QED BY <1>1, SubsetInduction
<1> QED
  BY <1>2

(* The entries that merging sets to zero, by leader.                       *)
Zeroed == [i \in Leaders |-> IF Total(i) = 0 THEN SameFlow(i) ELSE SameFlow(i) \ {i}]

LEMMA FakeIsRight ==
    ASSUME res \in Seq(Flow), \A i \in DOMAIN res : res[i].counter # 0
    PROVE  MergedFake = Cardinality({i \in DOMAIN Merged : Merged[i].counter = 0})
<1> DEFINE F == [i \in Leaders |-> Cardinality(SameFlow(i)) - (IF Total(i) = 0 THEN 0 ELSE 1)]
<1>1. IsFiniteSet(Leaders) /\ Leaders \in SUBSET DOMAIN res
  <2>1. IsFiniteSet(1..Len(res)) /\ DOMAIN res = 1..Len(res)
    BY FS_Interval
  <2>2. Leaders \in SUBSET DOMAIN res
    BY DEF Leaders
  <2> QED BY <2>1, <2>2, FS_Subset
<1>2. \A i \in DOMAIN res : IsFiniteSet(SameFlow(i)) /\ i \in SameFlow(i)
  <2> TAKE i \in DOMAIN res
  <2>1. SameFlow(i) = Named(res, res[i].id) /\ i \in SameFlow(i)
    BY SameFlowIsNamed DEF SameFlow
  <2> QED BY <2>1, EntriesType
<1>3. ASSUME NEW i \in Leaders
      PROVE  IsFiniteSet(Zeroed[i]) /\ F[i] = Cardinality(Zeroed[i])
  <2>1. IsFiniteSet(SameFlow(i)) /\ i \in SameFlow(i)
    BY <1>1, <1>2
  <2>2. Cardinality(SameFlow(i)) \in Nat
    BY <2>1, FS_CardinalityType
  <2>3. IsFiniteSet(SameFlow(i) \ {i}) /\ Cardinality(SameFlow(i) \ {i}) = Cardinality(SameFlow(i)) - 1
    BY <2>1, FS_RemoveElement
  <2>4. CASE Total(i) = 0
    BY <2>1, <2>2, <2>4 DEF Zeroed
  <2>5. CASE Total(i) # 0
    BY <2>3, <2>5 DEF Zeroed
  <2> QED BY <2>4, <2>5
<1>4. ASSUME NEW i \in Leaders, NEW j \in Leaders, i # j
      PROVE  Zeroed[i] \cap Zeroed[j] = {}
  <2>1. res[i].id # res[j].id
    BY <1>4, OneLeader
  <2>2. SameFlow(i) \cap SameFlow(j) = {}
    BY <2>1 DEF SameFlow
  <2> QED BY <2>2 DEF Zeroed
<1>5. {i \in DOMAIN Merged : Merged[i].counter = 0} = UNION {Zeroed[i] : i \in Leaders}
  <2>1. ASSUME NEW j \in DOMAIN res, Merged[j].counter = 0
        PROVE  \E i \in Leaders : j \in Zeroed[i]
    <3>1. SameFlow(j) \cap Leaders # {}
      <4>1. res[j].counter # 0
        OBVIOUS
      <4> QED BY <2>1, <4>1, MergedType
    <3>2. PICK i \in Leaders : i \in SameFlow(j)
      BY <3>1
    <3>3. j \in SameFlow(i)
      BY <3>2 DEF SameFlow
    <3>4. CASE j = i
      <4>1. Total(i) = 0
        BY <2>1, <3>4, MergedType
      <4> QED BY <3>3, <4>1 DEF Zeroed
    <3>5. CASE j # i
      BY <3>3, <3>5 DEF Zeroed
    <3> QED BY <3>4, <3>5
  <2>2. ASSUME NEW i \in Leaders, NEW j \in Zeroed[i]
        PROVE  j \in DOMAIN res /\ Merged[j].counter = 0
    <3>1. j \in SameFlow(i) /\ (j = i => Total(i) = 0)
      BY DEF Zeroed
    <3>2. j \in DOMAIN res /\ i \in SameFlow(j) /\ res[j].id = res[i].id
      BY <1>1, <3>1 DEF SameFlow
    <3>3. CASE j = i
      BY <3>1, <3>2, <3>3, MergedType
    <3>4. CASE j # i
      <4>1. j \notin Leaders
        BY <3>2, <3>4, OneLeader
      <4> QED BY <3>2, <4>1, MergedType
    <3> QED BY <3>3, <3>4
  <2>3. DOMAIN Merged = DOMAIN res
    BY MergedType
  <2> QED BY <2>1, <2>2, <2>3
<1>6. MergedFake = SumFunctionOnSet(F, Leaders)
  BY DEF MergedFake, SumFunction
<1> HIDE DEF F
<1>7. Cardinality(UNION {Zeroed[i] : i \in Leaders}) = SumFunctionOnSet(F, Leaders)
  BY <1>1, <1>3, <1>4, SumCards
<1> QED
  BY <1>5, <1>6, <1>7
-----------------------------------------------------------------------------
(* The verdict, and the entries counted as taken over by merging.          *)
Verdict ==
    /\ Ended => (phase = "succeed" <=> DecodeSucceed)
    /\ ~Ended => \A i \in DOMAIN res : res[i].counter # 0
    /\ phase = "succeed" => fake_num = Cardinality({i \in DOMAIN res : res[i].counter = 0})

FullInv == IInv /\ Balance /\ Exact /\ Verdict

LEMMA InitFull == Init => FullInv
<1> SUFFICES ASSUME Init PROVE FullInv
  OBVIOUS
<1>1. IInv /\ Balance
  BY InitIInv, InitBalance
<1>a. misled \in BOOLEAN
  BY Zenon DEF Init
<1>2. misled \in BOOLEAN /\ res \in Seq(Flow) /\ Len(res) = 0 /\ phase = "count"
  BY <1>a DEF Init
<1>3. Exact
  BY <1>2, ExactEmpty
<1>4. Verdict
  BY <1>2 DEF Verdict, Ended
<1> QED
  BY <1>1, <1>3, <1>4 DEF FullInv

(* Steps that leave the sketch and the result alone.                       *)
LEMMA QuietStep ==
    ASSUME Balance, Exact, Verdict, UNCHANGED <<traffic, x, res, misled, fake_num>>,
           phase \notin {"count", "succeed", "NULL"}, phase' \notin {"count", "succeed"},
           phase' = "NULL" => ~DecodeSucceed
    PROVE  Balance' /\ Exact' /\ Verdict'
<1>1. Exact'
  BY ExactFrame
<1>2. Rest' = Rest /\ UNCHANGED <<hash, entered, left, heavy, x, res>>
  BY DEF Rest, Net, Taken, EntriesOf, traffic
<1>3. Balance'
  BY <1>2 DEF Balance
<1>4. Verdict'
  <2>1. ~Ended /\ (Ended' <=> phase' = "NULL")
    BY DEF Ended
  <2>2. DecodeSucceed' = DecodeSucceed
    BY DEF DecodeSucceed
  <2>3. \A i \in DOMAIN res : res[i].counter # 0
    BY <2>1 DEF Verdict
  <2> QED BY <2>1, <2>2, <2>3 DEF Verdict
<1> QED
  BY <1>1, <1>3, <1>4

LEMMA FullCount ==
    ASSUME FullInv,
           (\E f \in IDs : Enter(f) \/ EnterHeavy(f) \/ Leave(f) \/ PutBack(f)) \/ Begin
    PROVE  Balance' /\ Exact' /\ Verdict'
<1>1. /\ phase = "count" /\ phase' \in {"count", "scan"} /\ res' = res /\ misled' = misled
  BY DEF Enter, EnterHeavy, Leave, PutBack, Begin, Decoding
<1>2. Len(res) = 0 /\ misled \in BOOLEAN /\ res \in Seq(Flow)
  BY <1>1 DEF FullInv, IInv, Sizes, Exact, Balance
<1>3. DOMAIN res = {}
  BY <1>2
<1>4. Balance'
  BY BalanceCount, BalanceBegin DEF FullInv
<1>5. Exact'
  <2>1. Settled' \in SUBSET (Row \X Col)
    BY DEF Settled
  <2>2. Cardinality(Settled') \in Nat
    BY <2>1, SettledFinite
  <2> QED BY <1>1, <1>2, <1>3, <2>2 DEF Exact, Different
<1>6. Verdict'
  BY <1>1, <1>3 DEF Verdict, Ended
<1> QED
  BY <1>4, <1>5, <1>6

LEMMA FullLook ==
    ASSUME FullInv, phase \in {"scan", "drain"}, phase' \in {"scan", "head", "drain"}, UNCHANGED traffic,
           NEW r \in Row, NEW c \in Col, NEW q, NEW first, Look(r, c, q, first)
    PROVE  Balance' /\ Exact' /\ Verdict'
<1>1. Shape /\ Balance /\ Exact /\ Verdict /\ ~Ended /\ phase # "count" /\ phase' \notin {"count", "succeed"}
  BY DEF FullInv, IInv, Ended
<1>2. Balance' /\ Exact'
  BY <1>1, BalanceLook, ExactLook
<1>3. \A i \in DOMAIN res' : res'[i].counter # 0
  <2>1. \A i \in DOMAIN res : res[i].counter # 0
    BY <1>1 DEF Verdict
  <2>2. CASE ~Decodable(r, c)
    BY <2>1, <2>2 DEF Look, found
  <2>3. CASE Decodable(r, c)
    <3>1. Verify(r, c, q, first) /\ x[r][c].counter # 0
      BY <2>3 DEF Look, Decodable
    <3>2. PICK e \in Flow : res' = Append(res, e) /\ e.counter # 0
      BY <1>1, <2>3, <3>1, PeelEffect
    <3>3. res \in Seq(Flow)
      BY <1>1 DEF Balance
    <3>4. \A i \in DOMAIN res' : (i \in DOMAIN res /\ res'[i] = res[i]) \/ res'[i] = e
      BY <3>2, <3>3
    <3> QED BY <2>1, <3>2, <3>4
  <2> QED BY <2>2, <2>3
<1>4. ~Ended' /\ phase' # "succeed"
  BY DEF Ended
<1> QED
  BY <1>2, <1>3, <1>4 DEF Verdict

LEMMA FullReturn ==
    ASSUME FullInv, Return
    PROVE  Balance' /\ Exact' /\ Verdict'
<1>1. /\ Shape /\ Balance /\ Exact /\ Verdict /\ phase = "head" /\ ~Ended
      /\ UNCHANGED <<traffic, x, misled>>
  BY DEF FullInv, IInv, Return, Ended
<1>2. CASE ~DecodeSucceed /\ phase' = "NULL" /\ UNCHANGED <<res, fake_num>>
  BY <1>1, <1>2, QuietStep DEF Ended
<1>3. CASE DecodeSucceed /\ phase' = "succeed" /\ res' = Merged /\ fake_num' = MergedFake
  <2>1. res \in Seq(Flow) /\ res' \in Seq(Flow)
    BY <1>1, <1>3, MergedType DEF Balance
  <2>2. UNCHANGED <<hash, entered, left, heavy, put>>
    BY <1>1 DEF traffic
  <2>3. Rest \in Traffic /\ \A f \in IDs : Rest[f] = Net(f) - TakenBy(res, f) /\ Net(f) \in Int
    BY <1>1, RestType
  <2>4. Rest' = [f \in IDs |-> Net(f) - TakenBy(Merged, f)]
    <3>1. \A f \in IDs : Net(f)' = Net(f)
      BY <1>1, TrafficFrame
    <3>2. Rest' = [f \in IDs |-> Net(f)' - TakenBy(res', f)]
      BY DEF Rest, Taken, EntriesOf, TakenBy, Counts, Named
    <3> QED BY <1>3, <3>1, <3>2
  <2>5. ASSUME NEW f \in IDs
        PROVE  Rest'[f] \in Int /\ Rest[f] \in Int /\ Congruent(Rest[f], Rest'[f], CounterSize)
    <3>1. PICK m \in Nat \ {0}, n \in Int, a \in Int, b \in Int :
            /\ m = CounterSize /\ n = Net(f) /\ a = TakenBy(res, f) /\ b = TakenBy(Merged, f)
      BY <1>3, <2>1, <2>3, EntriesType, Numbers
    <3>2. Congruent(a, b, m)
      BY <2>1, <3>1, MergedTaken DEF Congruent
    <3>3. Congruent(n - a, n - b, m)
      <4>1. Congruent(n, n, m)
        BY DEF Congruent
      <4> QED BY <3>2, <4>1, CongruentPlus
    <3>4. Rest[f] = n - a /\ Rest'[f] = n - b
      BY <2>3, <2>4, <3>1
    <3> QED BY <3>1, <3>3, <3>4
  <2>6. HoldsNumber(hash, x, Rest)
    BY <1>1 DEF Balance
  <2>7. HoldsNumber(hash, x, Rest')
    <3> SUFFICES ASSUME NEW r \in Row, NEW c \in Col
                 PROVE  Congruent(x[r][c].counter, SumFunctionOnSet(Rest', Slot(hash, r, c)), CounterSize)
      BY DEF HoldsNumber
    <3> DEFINE D == Rest
               E == Rest'
               S == Slot(hash, r, c)
    <3>1. PICK m \in Nat \ {0} : m = CounterSize
      BY Numbers
    <3>2. IsFiniteSet(S) /\ \A y \in S : D[y] \in Int /\ E[y] \in Int /\ Congruent(D[y], E[y], m)
      BY <2>5, <3>1, Numbers
    <3>4. Congruent(x[r][c].counter, SumFunctionOnSet(D, S), m)
      BY <2>6, <3>1 DEF HoldsNumber
    <3> HIDE DEF D, E, S
    <3>3. Congruent(SumFunctionOnSet(D, S), SumFunctionOnSet(E, S), m)
      BY <3>2, SumResidue
    <3> QED BY <3>1, <3>3, <3>4 DEF Congruent, D, E, S
  <2>8. ASSUME ~misled
        PROVE  res' = res /\ Rest' = Rest
    <3>1. res' = res
      BY <1>1, <1>3, <2>1, <2>8, MergedDifferent DEF Exact
    <3>2. Rest' = Rest
      BY <1>1, <3>1 DEF Rest, Net, Taken, EntriesOf, traffic
    <3> QED BY <3>1, <3>2
  <2>9. Balance'
    <3>1. HoldsIDs(hash, x, Rest)
      BY <1>1 DEF Balance
    <3>2. ~misled' => HoldsIDs(hash', x', Rest')
      BY <1>1, <2>2, <2>8, <3>1
    <3>3. HoldsNumber(hash', x', Rest')
      BY <1>1, <2>2, <2>7
    <3> QED BY <1>1, <1>3, <2>1, <2>2, <3>2, <3>3 DEF Balance
  <2>10. Exact'
    <3>1. CASE ~misled
      BY <1>1, <2>8, <3>1, ExactFrame
    <3>2. CASE misled
      BY <1>1, <3>2 DEF Exact
    <3> QED BY <3>1, <3>2
  <2>11. Verdict'
    <3>1. \A i \in DOMAIN res : res[i].counter # 0
      BY <1>1 DEF Verdict
    <3>2. fake_num' = Cardinality({i \in DOMAIN res' : res'[i].counter = 0})
      BY <1>3, <2>1, <3>1, FakeIsRight
    <3>3. DecodeSucceed' = DecodeSucceed /\ Ended'
      BY <1>1, <1>3 DEF DecodeSucceed, Ended
    <3> QED BY <1>3, <3>2, <3>3 DEF Verdict
  <2> QED BY <2>9, <2>10, <2>11
<1> QED
  BY <1>2, <1>3 DEF Return, Merged

LEMMA StepFull == FullInv /\ [Next]_vars => FullInv'
<1> SUFFICES ASSUME FullInv, [Next]_vars PROVE Balance' /\ Exact' /\ Verdict'
  BY StepIInv DEF FullInv
<1>1. CASE (\E f \in IDs : Enter(f) \/ EnterHeavy(f) \/ Leave(f) \/ PutBack(f)) \/ Begin
  BY <1>1, FullCount
<1>2. CASE Scan
  <2>1. row \in Row /\ col \in Col
    BY DEF FullInv, IInv, Shape
  <2>2. /\ phase = "scan" /\ phase' \in {"scan", "head"} /\ UNCHANGED traffic
        /\ Look(row, col, candidate, TRUE)
    BY <1>2 DEF Scan
  <2> QED BY <2>1, <2>2, FullLook
<1>3. CASE Dequeue
  <2>1. /\ phase = "drain" /\ phase' = "drain" /\ UNCHANGED traffic /\ candidate[row] # <<>>
        /\ Look(row, Head(candidate[row]), [candidate EXCEPT ![row] = Tail(@)], FALSE)
    BY <1>3 DEF Dequeue, Draining
  <2>2. row \in Row /\ candidate[row] \in Seq(Col)
    BY DEF FullInv, IInv, Shape
  <2>3. Head(candidate[row]) \in Col
    BY <2>1, <2>2
  <2> QED BY <2>1, <2>2, <2>3, FullLook
<1>4. CASE EnterPass \/ NextRow
  <2>1. /\ phase \in {"head", "drain"} /\ phase' \in {"head", "drain"}
        /\ UNCHANGED <<traffic, x, res, misled, fake_num>>
    BY <1>4 DEF EnterPass, NextRow, found
  <2> QED BY <2>1, QuietStep DEF FullInv
<1>5. CASE Return
  BY <1>5, FullReturn
<1>6. CASE UNCHANGED vars
  <2>1. UNCHANGED <<traffic, x, res, misled, fake_num, phase>>
    BY <1>6 DEF vars, found
  <2>2. Exact'
    BY <2>1, ExactFrame DEF FullInv
  <2>3. Rest' = Rest /\ UNCHANGED <<hash, entered, left, heavy, ingress, egress, put>>
    BY <2>1 DEF Rest, Net, Taken, EntriesOf, traffic
  <2>4. Balance'
    BY <2>1, <2>3 DEF Balance, Counted, FullInv
  <2>5. Verdict'
    BY <2>1 DEF Verdict, FullInv, Ended, DecodeSucceed
  <2> QED BY <2>2, <2>4, <2>5
<1> QED
  BY <1>1, <1>2, <1>3, <1>4, <1>5, <1>6 DEF Next, Decode

THEOREM FullInvariant == Spec => []FullInv
<1>1. Init => FullInv
  BY InitFull
<1>2. FullInv /\ [Next]_vars => FullInv'
  BY StepFull
<1> QED
  BY <1>1, <1>2, PTL DEF Spec
-----------------------------------------------------------------------------
(* In every row a bucket holds, in number and in IDs, what the decoded     *)
(* counts left of the flows that hash to it.                               *)
THEOREM ConservedHolds == Spec => []Conserved
<1>1. FullInv => Conserved
  <2> SUFFICES ASSUME FullInv, phase # "count", NEW r \in Row, NEW c \in Col
               PROVE  /\ x[r][c].counter = SumFunctionOnSet(Rest, Here(r, c)) % CounterSize
                      /\ phase # "succeed" \/ ~misled =>
                            x[r][c].ID = SumFunctionOnSet([f \in IDs |-> f * Rest[f]], Here(r, c)) % PRIME
    BY DEF Conserved
  <2>1. Here(r, c) = Slot(hash, r, c) /\ [f \in IDs |-> f * Rest[f]] = Words(Rest)
    BY DEF Here, Slot, Words
  <2>2. x[r][c] \in Bucket
    BY DEF FullInv, IInv, Shape, Sketch
  <2>3. x[r][c].counter \in 0..(CounterSize - 1) /\ x[r][c].ID \in 0..(PRIME - 1)
    BY <2>2 DEF Bucket
  <2>4. x[r][c].counter % CounterSize = x[r][c].counter /\ x[r][c].ID % PRIME = x[r][c].ID
    BY <2>3, Numbers, ResidueSmall
  <2>5. HoldsNumber(hash, x, Rest) /\ (phase # "succeed" \/ ~misled => HoldsIDs(hash, x, Rest))
    BY DEF FullInv, Balance
  <2>6. /\ Congruent(x[r][c].counter, SumFunctionOnSet(Rest, Slot(hash, r, c)), CounterSize)
        /\ phase # "succeed" \/ ~misled =>
              Congruent(x[r][c].ID, SumFunctionOnSet(Words(Rest), Slot(hash, r, c)), PRIME)
    BY <2>5 DEF HoldsNumber, HoldsIDs
  <2> QED BY <2>1, <2>4, <2>6 DEF Congruent
<1> QED
  BY <1>1, FullInvariant, PTL

(* The flows decoded, and those that remain when no bucket is decodable.   *)
FoundFlows == {res[i].id : i \in DOMAIN res}
Remainder == {f \in IDs : Net(f) # 0} \ FoundFlows

LEMMA FoundFacts ==
    ASSUME FullInv, ~misled
    PROVE  /\ \A f \in FoundFlows : f \in IDs /\ Rest[f] = 0 /\ Net(f) # 0 /\ f \notin Core
           /\ \A f \in IDs \ FoundFlows : Rest[f] = Net(f)
           /\ \A f \in IDs : Rest[f] # 0 => f \in Remainder
           /\ Core \in SUBSET Remainder
<1>1. Shape /\ Balance /\ Exact
  BY DEF FullInv, IInv
<1>2. \A f \in FoundFlows : f \in IDs /\ Rest[f] = 0 /\ Net(f) # 0 /\ f \notin Core
  BY <1>1, RestExact DEF FoundFlows, Exact
<1>3. \A f \in IDs \ FoundFlows : Rest[f] = Net(f)
  BY <1>1, RestExact DEF FoundFlows
<1>4. \A f \in IDs : Rest[f] # 0 => f \in Remainder
  BY <1>2, <1>3 DEF Remainder
<1>5. Core \in SUBSET Remainder
  BY <1>2, CoreFacts DEF Remainder
<1> QED
  BY <1>2, <1>3, <1>4, <1>5

(* A flow that is alone in a bucket makes it decodable.                    *)
LEMMA AloneIsDecodable ==
    ASSUME FullInv, ~misled, phase # "count", NEW r \in Row, NEW f \in Remainder,
           \A g \in Remainder \ {f} : hash[r][f] # hash[r][g]
    PROVE  Decodable(r, hash[r][f])
<1>1. Shape /\ Balance /\ Exact
  BY DEF FullInv, IInv
<1>2. f \in IDs /\ Rest[f] = Net(f) /\ Net(f) # 0
  BY FoundFacts DEF Remainder
<1>3. hash[r][f] \in Col
  BY <1>1, <1>2 DEF Shape, HashFunctions
<1>4. PICK c \in Col : c = hash[r][f]
  BY <1>3
<1>5. PICK n \in Int : n = Net(f) /\ n # 0 /\ n <= MaxPackets /\ -MaxPackets <= n
  BY <1>1, <1>2, NetBound
<1>6. PICK b \in Bucket : b = x[r][c]
  BY <1>1 DEF Shape, Sketch
<1>7. f \in Slot(hash, r, c) /\ \A g \in Slot(hash, r, c) \ {f} : Rest[g] = 0
  <2>1. \A g \in Slot(hash, r, c) \ {f} : g \in IDs /\ g \notin Remainder
    BY <1>4 DEF Slot
  <2> QED BY <1>2, <1>4, <2>1, FoundFacts DEF Slot
<1>8. SumFunctionOnSet(Rest, Slot(hash, r, c)) = n
  <2>1. Rest[f] \in Int
    BY <1>2, <1>5
  <2>2. SumFunctionOnSet(Rest, Slot(hash, r, c)) = Rest[f]
    BY <1>7, <2>1, Numbers, SumOne
  <2> QED BY <1>2, <1>5, <2>2
<1>9. SumFunctionOnSet(Words(Rest), Slot(hash, r, c)) = f * n
  <2> DEFINE W == Words(Rest)
             S == Slot(hash, r, c)
  <2>1. W[f] = f * n /\ W[f] \in Int
    BY <1>2, <1>5, Numbers DEF Words
  <2>2. \A g \in S \ {f} : W[g] = 0
    <3> TAKE g \in S \ {f}
    <3>1. g \in IDs /\ g \in Int /\ Rest[g] = 0
      BY <1>7, Numbers DEF Slot
    <3>2. g * 0 = 0
      BY <3>1
    <3> QED BY <3>1, <3>2 DEF Words
  <2>3. IsFiniteSet(S) /\ f \in S
    BY <1>7, Numbers
  <2> HIDE DEF W, S
  <2>4. SumFunctionOnSet(W, S) = W[f]
    BY <2>1, <2>2, <2>3, SumOne
  <2> QED BY <2>1, <2>4 DEF W, S
<1>10. ~(phase = "succeed" /\ misled) /\ HoldsNumber(hash, x, Rest) /\ HoldsIDs(hash, x, Rest)
  BY <1>1 DEF Balance
<1>11. Congruent(b.counter, n, CounterSize) /\ Congruent(b.ID, f * n, PRIME)
  BY <1>6, <1>8, <1>9, <1>10 DEF HoldsNumber, HoldsIDs
<1>12. b.counter # 0 /\ Signed(b.counter) = n
  <2>1. b.counter \in 0..(CounterSize - 1)
    BY DEF Bucket
  <2> QED BY <1>5, <1>11, <2>1, ResidueKnown
<1>13. SoleID(b) = f
  <2>1. f \in 0..(PRIME - 1)
    BY <1>2, Numbers
  <2> QED BY <1>11, <1>12, <2>1, SoleIDMeaning
<1> QED
  BY <1>2, <1>4, <1>6, <1>12, <1>13 DEF Decodable, Verifies

(* The result is short: each entry settled a bucket.                       *)
LEMMA LimitNotReached == FullInv /\ ~misled => WithinLimit
<1> SUFFICES ASSUME FullInv, ~misled PROVE WithinLimit
  OBVIOUS
<1>1. Len(res) <= Cardinality(Settled)
  BY DEF FullInv, Exact
<1>2. Cardinality(Settled) \in Nat /\ Cardinality(Settled) <= Rows * Width
  <2>1. Settled \in SUBSET (Row \X Col)
    BY DEF Settled
  <2> QED BY <2>1, SettledFinite
<1>3. Rows * Width \in Nat /\ FlowLimit \in Nat /\ Rows * Width < FlowLimit
  <2>1. PICK r \in Nat, w \in Nat, e \in Nat : r = Rows /\ w = Width /\ e = Entries /\ r > 1 /\ w > 0 /\ w <= e
    BY SketchAssumption, DecodeAssumption
  <2>2. r * w \in Nat /\ e * r \in Nat /\ r * w <= e * r /\ e * r > 0
    BY <2>1
  <2>3. PICK k \in Nat : k = e * r
    BY <2>2
  <2>4. k * r \in Nat /\ k < k * r
    BY <2>1, <2>2, <2>3
  <2> QED BY <2>1, <2>2, <2>3, <2>4 DEF FlowLimit
<1>4. Len(res) \in Nat
  BY DEF FullInv, Balance
<1> QED
  BY <1>1, <1>2, <1>3, <1>4 DEF WithinLimit

LEMMA RemainderIsCore == FullInv /\ ~misled /\ Ended => Remainder = Core
<1> SUFFICES ASSUME FullInv, ~misled, Ended PROVE Remainder = Core
  OBVIOUS
<1>1. IInv /\ phase # "count" /\ phase # "scan"
  BY DEF FullInv, Ended
<1>2. WithinLimit
  BY LimitNotReached
<1>3. \A k \in Row : candidate[k] = <<>>
  BY <1>1, <1>2 DEF IInv, Pauses
<1>4. \A r \in Row, c \in Col : ~Decodable(r, c)
  BY <1>1, <1>3 DEF IInv, AllPending, Pending
<1>5. StuckIn(Remainder)
  <2> SUFFICES ASSUME NEW f \in Remainder, NEW r \in Row, \A g \in Remainder \ {f} : hash[r][f] # hash[r][g]
               PROVE  FALSE
    BY DEF StuckIn
  <2>1. Decodable(r, hash[r][f])
    BY <1>1, AloneIsDecodable
  <2>2. hash[r][f] \in Col
    BY <1>1 DEF IInv, Shape, HashFunctions, Remainder
  <2> QED BY <1>4, <2>1, <2>2
<1>6. Remainder \in SUBSET {f \in IDs : Net(f) # 0}
  BY DEF Remainder
<1> QED
  BY <1>5, <1>6, CoreFacts, FoundFacts

(* Unless verify was misled, decode finds what peeling can find: each flow *)
(* outside the core, once, with its count, in whatever order.              *)
THEOREM PeelsToCoreHolds == Spec => []PeelsToCore
<1>1. FullInv => PeelsToCore
  <2> SUFFICES ASSUME FullInv, Ended, ~misled
               PROVE  /\ WithinLimit
                      /\ IsInjective([i \in DOMAIN res |-> res[i].id])
                      /\ {<<res[i].id, Signed(res[i].counter)>> : i \in DOMAIN res}
                            = {<<f, Net(f)>> : f \in {f \in IDs : Net(f) # 0} \ Core}
    BY DEF PeelsToCore
  <2>1. /\ Different(res)
        /\ \A i \in DOMAIN res : Signed(res[i].counter) = Net(res[i].id)
    BY DEF FullInv, Exact
  <2>2. IsInjective([i \in DOMAIN res |-> res[i].id])
    BY <2>1 DEF IsInjective, Different
  <2>3. FoundFlows = {f \in IDs : Net(f) # 0} \ Core
    <3>1. Remainder = Core
      BY RemainderIsCore
    <3>2. FoundFlows \in SUBSET {f \in IDs : Net(f) # 0}
      BY FoundFacts
    <3> QED BY <3>1, <3>2 DEF Remainder
  <2>4. {<<res[i].id, Signed(res[i].counter)>> : i \in DOMAIN res} = {<<f, Net(f)>> : f \in FoundFlows}
    BY <2>1 DEF FoundFlows
  <2> QED BY <2>2, <2>3, <2>4, LimitNotReached
<1> QED
  BY <1>1, FullInvariant, PTL
-----------------------------------------------------------------------------
LEMMA NothingLeftIsEmpty ==
    ASSUME FullInv, phase # "count", \A f \in IDs : Rest[f] = 0
    PROVE  DecodeSucceed
<1> SUFFICES ASSUME NEW r \in Row, NEW c \in Col
             PROVE  x[r][c].counter = 0
  BY DEF DecodeSucceed
<1>1. SumFunctionOnSet(Rest, Slot(hash, r, c)) = 0
  BY Numbers, SumZero
<1>2. HoldsNumber(hash, x, Rest)
  BY DEF FullInv, Balance
<1>3. Congruent(x[r][c].counter, 0, CounterSize)
  BY <1>1, <1>2 DEF HoldsNumber
<1>4. x[r][c] \in Bucket
  BY DEF FullInv, IInv, Shape, Sketch
<1>5. x[r][c].counter \in 0..(CounterSize - 1) /\ 0 \in 0..(CounterSize - 1)
  BY <1>4, Numbers DEF Bucket
<1>6. x[r][c].counter % CounterSize = x[r][c].counter /\ 0 % CounterSize = 0
  BY <1>5, Numbers, ResidueSmall
<1> QED
  BY <1>3, <1>6 DEF Congruent

(* Lost packets of a flow show in its bucket, whatever else was lost.      *)
LEMMA LossShows ==
    ASSUME FullInv, ~misled, phase # "count", \A f \in IDs : Net(f) >= 0, NEW f \in Remainder
    PROVE  ~DecodeSucceed
<1> DEFINE c == hash[0][f]
           S == Slot(hash, 0, c)
           F == [g \in IDs |-> entered[g] + left[g]]
<1>1. Shape /\ Balance /\ 0 \in Row
  BY Bounds DEF FullInv, IInv
<1>2. f \in IDs /\ Rest[f] = Net(f) /\ Net(f) # 0
  BY FoundFacts DEF Remainder
<1>3. c \in Col
  BY <1>1, <1>2 DEF Shape, HashFunctions
<1>4. IsFiniteSet(S) /\ S \in SUBSET IDs /\ f \in S /\ {f} \in SUBSET S
  <2>1. f \in S
    BY <1>2 DEF Slot
  <2> QED BY <2>1, Numbers
<1>5. ASSUME NEW g \in IDs
      PROVE  Rest[g] \in Nat /\ F[g] \in Nat /\ Rest[g] <= F[g]
  <2>1. PICK a \in Nat, b \in Nat, h \in Nat : a = entered[g] /\ b = left[g] /\ h = heavy[g]
    BY <1>1 DEF Shape, Balance
  <2>2. Net(g) = a - b - (IF g \in put THEN 0 ELSE h) /\ F[g] = a + b /\ Net(g) >= 0
    BY <2>1 DEF Net
  <2>3. Rest[g] = 0 \/ Rest[g] = Net(g)
    BY FoundFacts
  <2> QED BY <2>1, <2>2, <2>3
<1>6. SumFunctionOnSet(F, IDs) <= MaxPackets
  BY <1>1 DEF Balance
<1> HIDE DEF S, F, c
<1>7. /\ SumFunctionOnSet(Rest, {f}) <= SumFunctionOnSet(Rest, S)
      /\ SumFunctionOnSet(Rest, S) \in Nat
  <2>1. \A g \in S : Rest[g] \in Nat
    BY <1>4, <1>5
  <2> QED BY <1>4, <2>1, SumPart, SumNat
<1>8. SumFunctionOnSet(Rest, {f}) = Rest[f]
  <2>1. IsFiniteSet({f})
    BY FS_Singleton
  <2>2. f \in {f} /\ Rest[f] \in Int /\ \A g \in {f} \ {f} : Rest[g] = 0
    BY <1>2, <1>5
  <2> QED BY <2>1, <2>2, SumOne
<1>9. SumFunctionOnSet(Rest, S) <= SumFunctionOnSet(F, S)
  <2>1. \A g \in S : Rest[g] \in Int /\ F[g] \in Int /\ Rest[g] <= F[g]
    BY <1>4, <1>5
  <2> QED BY <1>4, <2>1, SumBelow
<1>10. SumFunctionOnSet(F, S) \in Nat /\ SumFunctionOnSet(F, S) <= SumFunctionOnSet(F, IDs)
  BY <1>4, <1>5, Numbers, SumPart
<1>11. SumFunctionOnSet(F, IDs) \in Nat
  BY <1>5, Numbers, SumNat
<1>12. PICK s \in Nat, m \in Nat : /\ s = SumFunctionOnSet(Rest, S) /\ m = MaxPackets
                                   /\ s <= m /\ s >= Rest[f]
  BY <1>6, <1>7, <1>8, <1>9, <1>10, <1>11, DecodeAssumption
<1>13. s # 0 /\ -m <= s
  BY <1>2, <1>5, <1>12
<1>14. HoldsNumber(hash, x, Rest)
  BY <1>1 DEF Balance
<1>15. Congruent(x[0][c].counter, s, CounterSize)
  BY <1>1, <1>3, <1>12, <1>14 DEF HoldsNumber, S
<1>16. x[0][c] \in Bucket
  BY <1>1, <1>3 DEF Shape, Sketch
<1>17. x[0][c].counter \in 0..(CounterSize - 1)
  BY <1>16 DEF Bucket
<1>18. x[0][c].counter # 0
  BY <1>12, <1>13, <1>15, <1>17, ResidueKnown
<1> QED
  BY <1>1, <1>3, <1>18 DEF DecodeSucceed

(* The verdict is right when flows only lost packets and verify was not    *)
(* misled, and fake_num is the number of entries set to zero by merging.   *)
THEOREM VerdictHolds == Spec => []VerdictIsRight
<1>1. FullInv => VerdictIsRight
  <2> SUFFICES ASSUME FullInv PROVE VerdictIsRight
    OBVIOUS
  <2>1. ASSUME Ended, ~misled, \A f \in IDs : Net(f) >= 0
        PROVE  phase = "succeed" <=> Core = {}
    <3>1. phase = "succeed" <=> DecodeSucceed
      BY <2>1 DEF FullInv, Verdict
    <3>2. phase # "count" /\ Remainder = Core
      BY <2>1, RemainderIsCore DEF Ended
    <3>3. ASSUME Core = {} PROVE DecodeSucceed
      <4>1. \A f \in IDs : Rest[f] = 0
        BY <2>1, <3>2, <3>3, FoundFacts
      <4> QED BY <3>2, <4>1, NothingLeftIsEmpty
    <3>4. ASSUME NEW f \in Core PROVE ~DecodeSucceed
      BY <2>1, <3>2, LossShows
    <3> QED BY <3>1, <3>3, <3>4
  <2>2. phase = "succeed" => fake_num = Cardinality({i \in DOMAIN res : res[i].counter = 0})
    BY DEF FullInv, Verdict
  <2> QED BY <2>1, <2>2 DEF VerdictIsRight
<1> QED
  BY <1>1, FullInvariant, PTL

(* The declared types, for every state.                                    *)
THEOREM TypesHold == Spec => []TypeOK
<1>1. FullInv => TypeOK
  BY DEF FullInv, IInv, Shape, Sizes, QueueRoom, Balance, Exact, TypeOK
<1> QED
  BY <1>1, FullInvariant, PTL
=============================================================================
