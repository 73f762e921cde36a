------------------------ MODULE SketchReadout_proofs ------------------------
(***************************************************************************)
(* For any number of chains, of packets per chain and of values per        *)
(* packet, and any number of rounds: every packet that leaves the switch   *)
(* is long enough, and once a sketch is available it is whole and its half *)
(* is clean.                                                               *)
(*                                                                         *)
(* An index has a chain, index \div ChainLen, and a place in it.  The      *)
(* inductive invariant says that the chains of a sketch stay in step while *)
(* they recirculate (InStep), so that the packet with the greatest index   *)
(* is the last to leave and to come (LastAlone), that a filter index is    *)
(* cleaned when its chain has read it (Uncleaned), that the values in a    *)
(* packet are those of the indices behind its own (Fill), and that every   *)
(* index of the half is yet to be read, in a packet, or at the controller  *)
(* (Data).                                                                 *)
(***************************************************************************)
EXTENDS SketchReadout, FiniteSetTheorems, SequenceTheorems, TLAPS

(* Division by n of any integer, as sums that the provers can add up.      *)
LEMMA DivMod ==
  ASSUME NEW n \in Nat \ {0}, NEW i \in Int
  PROVE  /\ i \div n \in Int /\ i % n \in 0..(n - 1)
         /\ i = (i \div n) * n + (i % n)
<1> DEFINE q == i \div n
           r == i % n
<1>1. r \in 0..(n - 1) /\ q \in Int
  OBVIOUS
<1>2. i = n * q + r
  OBVIOUS
<1> HIDE DEF q, r
<1>3. i = q * n + r
  BY <1>1, <1>2
<1> QED
  BY <1>1, <1>3 DEF q, r

LEMMA DivModUnique ==
  ASSUME NEW n \in Nat \ {0}, NEW i \in Int, NEW q \in Int, NEW r \in 0..(n - 1),
         i = q * n + r
  PROVE  i \div n = q /\ i % n = r
<1> DEFINE p == i \div n
           s == i % n
<1>1. p \in Int /\ s \in 0..(n - 1) /\ i = p * n + s
  BY DivMod
<1> HIDE DEF p, s
<1>2. CASE q = p
  BY <1>1, <1>2 DEF p, s
<1>3. CASE q > p
  <2>1. PICK m \in Nat : q = p + 1 + m
    <3>1. q - p - 1 \in Nat /\ q = p + 1 + (q - p - 1)
      BY <1>1, <1>3
    <3> QED
      BY <3>1
  <2>2. q * n = p * n + n + m * n /\ m * n >= 0
    BY <1>1, <2>1
  <2> QED
    BY <1>1, <2>2
<1>4. CASE q < p
  <2>1. PICK m \in Nat : p = q + 1 + m
    <3>1. p - q - 1 \in Nat /\ p = q + 1 + (p - q - 1)
      BY <1>1, <1>4
    <3> QED
      BY <3>1
  <2>2. p * n = q * n + n + m * n /\ m * n >= 0
    BY <1>1, <2>1
  <2> QED
    BY <1>1, <2>2
<1> QED
  BY <1>1, <1>2, <1>3, <1>4

(* From an index to the next.                                              *)
LEMMA NextInChain ==
  ASSUME NEW n \in Nat \ {0}, NEW i \in Int, i % n # n - 1
  PROVE  (i + 1) % n = (i % n) + 1 /\ (i + 1) \div n = i \div n
<1>1. PICK q \in Int, r \in 0..(n - 1) : q = i \div n /\ r = i % n /\ i = q * n + r
  BY DivMod
<1>2. PICK j \in Int : j = i + 1
  OBVIOUS
<1>3. PICK s \in 0..(n - 1) : s = r + 1
  BY <1>1
<1>4. j = q * n + s
  BY <1>1, <1>2, <1>3
<1>5. j % n = s /\ j \div n = q
  BY <1>4, DivModUnique
<1> QED
  BY <1>1, <1>2, <1>3, <1>5

LEMMA NextStarts ==
  ASSUME NEW n \in Nat \ {0}, NEW i \in Int, i % n = n - 1
  PROVE  (i + 1) % n = 0
<1>1. PICK q \in Int, r \in 0..(n - 1) : q = i \div n /\ r = i % n /\ i = q * n + r
  BY DivMod
<1>2. i + 1 = (q + 1) * n + 0 /\ 0 \in 0..(n - 1) /\ i + 1 \in Int /\ q + 1 \in Int
  BY <1>1
<1> QED
  BY <1>2, DivModUnique

LEMMA SameChain ==
  ASSUME NEW n \in Nat \ {0}, NEW i \in Int, NEW j \in Int, i \div n = j \div n
  PROVE  j - i = (j % n) - (i % n)
<1>1. PICK q \in Int, r \in 0..(n - 1) : q = i \div n /\ r = i % n /\ i = q * n + r
  BY DivMod
<1>2. PICK p \in Int, s \in 0..(n - 1) : p = j \div n /\ s = j % n /\ j = p * n + s
  BY DivMod
<1>3. p = q
  BY <1>1, <1>2
<1>4. j - i = s - r
  BY <1>1, <1>2, <1>3
<1> QED
  BY <1>1, <1>2, <1>4

(* An index no greater is in no later chain.                               *)
LEMMA ChainMonotone ==
  ASSUME NEW n \in Nat \ {0}, NEW i \in Int, NEW j \in Int, i <= j
  PROVE  i \div n <= j \div n
<1>1. PICK q \in Int, r \in 0..(n - 1) : q = i \div n /\ r = i % n /\ i = q * n + r
  BY DivMod
<1>2. PICK p \in Int, s \in 0..(n - 1) : p = j \div n /\ s = j % n /\ j = p * n + s
  BY DivMod
<1>3. ASSUME p < q PROVE FALSE
  <2>1. PICK m \in Nat : q = p + 1 + m
    <3>1. q - p - 1 \in Nat /\ q = p + 1 + (q - p - 1)
      BY <1>3
    <3> QED
      BY <3>1
  <2>2. q * n = p * n + n + m * n /\ m * n >= 0
    BY <2>1
  <2> QED
    BY <1>1, <1>2, <2>2
<1> QED
  BY <1>1, <1>2, <1>3
-----------------------------------------------------------------------------
(* Chain c of a sketch's packets: each reads ChainLen indices.             *)
ChainLen(k) == Pieces[k] * Carry[k]

LEMMA Lengths ==
  ASSUME NEW k \in Kinds
  PROVE  /\ Carry[k] \in Nat \ {0} /\ Pieces[k] \in Nat \ {0} /\ Chains \in Nat \ {0}
         /\ ChainLen(k) \in Nat \ {0} /\ Size(k) \in Nat \ {0} /\ Blocks(k) \in Nat \ {0}
         /\ Size(k) = Chains * ChainLen(k)
         /\ ChainLen(k) = Pieces[k] * Carry[k] /\ Size(k) = Blocks(k) * Carry[k]
         /\ Blocks(k) = Chains * Pieces[k]
<1>1. PICK C, P, N \in Nat \ {0} : C = Carry[k] /\ P = Pieces[k] /\ N = Chains
  BY ReadoutAssumption
<1>2. \A x, y \in Nat \ {0} : x * y \in Nat \ {0}
  <2>1. ASSUME NEW x \in Nat \ {0}, NEW y \in Nat \ {0} PROVE x * y \in Nat \ {0}
    <3>1. PICK z \in Nat : y = z + 1
      <4>1. y - 1 \in Nat /\ y = (y - 1) + 1
        OBVIOUS
      <4> QED
        BY <4>1
    <3>2. x * y = x * z + x /\ x * z >= 0 /\ x * z \in Int
      BY <3>1
    <3> QED
      BY <3>2
  <2> QED
    BY <2>1
<1>3. P * C \in Nat \ {0} /\ N * P \in Nat \ {0}
  BY <1>2
<1>4. (N * P) * C \in Nat \ {0}
  BY <1>2, <1>3
<1>5. (N * P) * C = N * (P * C)
  BY <1>1
<1> QED
  BY <1>1, <1>3, <1>4, <1>5 DEF ChainLen, Size, Blocks

LEMMA Bases ==
  ASSUME NEW k \in Kinds, NEW r \in Nat
  PROVE  HalfBase(k, r) \in {0, Size(k)} /\ HalfBase(k, r) \in Nat
BY Lengths DEF HalfBase

(* Block b of a half is block t of chain q.                                *)
IsBlock(C, P, b, q, t) ==
    /\ b = q * P + t /\ t = b % P
    /\ (b + 1) * C - 1 = q * (P * C) + ((t + 1) * C - 1)
    /\ (t + 1) * C - 1 >= C - 1
    /\ t = P - 1 => (t + 1) * C = P * C
    /\ t # P - 1 => (t + 1) * C <= P * C - C

LEMMA BlockInChain ==
  ASSUME NEW C \in Nat \ {0}, NEW P \in Nat \ {0}, NEW N \in Nat \ {0}, NEW b \in 0..(N * P - 1)
  PROVE  \E q \in 0..(N - 1), t \in 0..(P - 1) : IsBlock(C, P, b, q, t)
<1>1. PICK q \in Int, t \in 0..(P - 1) : t = b % P /\ b = q * P + t
  <2>1. b \in Int
    OBVIOUS
  <2> QED
    BY <2>1, DivMod
<1>2. q >= 0
  <2>1. ASSUME q < 0 PROVE FALSE
    <3>1. PICK m \in Nat : q = -1 - m
      <4>1. -1 - q \in Nat /\ q = -1 - (-1 - q)
        BY <2>1
      <4> QED
        BY <4>1
    <3>2. q * P = -P - m * P /\ m * P >= 0
      BY <3>1
    <3> QED
      BY <1>1, <3>2
  <2> QED
    BY <2>1
<1>3. q <= N - 1
  <2>1. ASSUME q > N - 1 PROVE FALSE
    <3>1. PICK m \in Nat : q = N + m
      <4>1. q - N \in Nat /\ q = N + (q - N)
        BY <2>1
      <4> QED
        BY <4>1
    <3>2. q * P = N * P + m * P /\ m * P >= 0
      BY <3>1
    <3> QED
      BY <1>1, <3>2
  <2> QED
    BY <2>1
<1>4. (b + 1) * C - 1 = q * (P * C) + ((t + 1) * C - 1)
  <2>1. (b + 1) * C = (q * P + (t + 1)) * C
    BY <1>1
  <2>2. (q * P + (t + 1)) * C = q * (P * C) + (t + 1) * C
    OBVIOUS
  <2> QED
    BY <2>1, <2>2
<1>5. (t + 1) * C = t * C + C /\ t * C >= 0
  OBVIOUS
<1>6. ASSUME t # P - 1 PROVE (t + 1) * C <= P * C - C
  <2>1. PICK m \in Nat : P = t + 2 + m
    <3>1. P - t - 2 \in Nat /\ P = t + 2 + (P - t - 2)
      BY <1>6
    <3> QED
      BY <3>1
  <2>2. P * C = t * C + 2 * C + m * C /\ m * C >= 0
    BY <2>1
  <2> QED
    BY <1>5, <2>2
<1>7. q \in 0..(N - 1)
  BY <1>2, <1>3
<1>8. t = P - 1 => (t + 1) * C = P * C
  OBVIOUS
<1>9. (t + 1) * C - 1 >= C - 1
  BY <1>5
<1>10. IsBlock(C, P, b, q, t)
  BY <1>1, <1>4, <1>6, <1>8, <1>9, Zenon DEF IsBlock
<1> QED
  BY <1>7, <1>10

(* What the tables' entries are: places in a chain and in a half.          *)
LEMMA Entries ==
  ASSUME NEW k \in Kinds, NEW b \in 0..(Blocks(k) - 1), NEW h \in {0, Size(k)},
         NEW e \in {0, 2}, e = 2 => (b % Pieces[k] # Pieces[k] - 1 /\ Carry[k] > 2),
         NEW x, x = BlockEnd(k, b) + e + h
  PROVE  /\ x \in Nat
         /\ b % Pieces[k] = Pieces[k] - 1 => x % ChainLen(k) = ChainLen(k) - 1
         /\ b % Pieces[k] # Pieces[k] - 1 => x % ChainLen(k) # ChainLen(k) - 1
         /\ x % Size(k) = BlockEnd(k, b) + e /\ BlockEnd(k, b) >= Carry[k] - 1
         /\ e = 0 => x % Carry[k] = Carry[k] - 1
<1>1. PICK C, P, N, L, S \in Nat \ {0} :
         /\ C = Carry[k] /\ P = Pieces[k] /\ N = Chains /\ L = ChainLen(k) /\ S = Size(k)
         /\ S = N * L /\ L = P * C /\ Blocks(k) = N * P /\ S = Blocks(k) * C
  BY Lengths
<1>0. b \in 0..(N * P - 1)
  BY <1>1
<1>18. PICK q \in 0..(N - 1), t \in 0..(P - 1) : IsBlock(C, P, b, q, t)
  BY <1>0, BlockInChain
<1>2. /\ b = q * P + t /\ t = b % P
      /\ (b + 1) * C - 1 = q * (P * C) + ((t + 1) * C - 1)
      /\ (t + 1) * C - 1 >= C - 1
      /\ t = P - 1 => (t + 1) * C = P * C
      /\ t # P - 1 => (t + 1) * C <= P * C - C
  BY <1>18, Zenon DEF IsBlock
<1>15. PICK z, v \in Int : z = (t + 1) * C /\ v = q * L
  OBVIOUS
<1>16. /\ BlockEnd(k, b) = v + (z - 1) /\ z >= C /\ q \in Int
       /\ t = P - 1 => z = L
       /\ t # P - 1 => z <= L - C
  <2>1. BlockEnd(k, b) = (b + 1) * C - 1
    BY <1>1 DEF BlockEnd
  <2>2. BlockEnd(k, b) = q * L + (z - 1)
    BY <1>1, <1>2, <1>15, <2>1, Zenon
  <2>3. z - 1 >= C - 1
    BY <1>2, <1>15, Zenon
  <2>4. z >= C
    BY <2>3
  <2>5. t = P - 1 => z = L
    BY <1>1, <1>2, <1>15, Zenon
  <2>6. t # P - 1 => z <= L - C
    BY <1>1, <1>2, <1>15, Zenon
  <2>7. q \in Int
    OBVIOUS
  <2> QED
    BY <1>15, <2>2, <2>4, <2>5, <2>6, <2>7, Zenon
<1>17. t = P - 1 => e = 0
  BY <1>1, <1>2
<1>3. PICK s \in Int : s = z - 1 + e
  OBVIOUS
<1>4. s \in 0..(L - 1) /\ BlockEnd(k, b) + e = v + s
  BY <1>1, <1>3, <1>16, <1>17
<1>5. v \in Nat /\ v <= S - L
  <2>1. PICK m \in Nat : N = q + 1 + m
    <3>1. N - 1 - q \in Nat /\ N = q + 1 + (N - 1 - q)
      OBVIOUS
    <3> QED
      BY <3>1
  <2>2. N * L = q * L + L + m * L /\ m * L >= 0 /\ q * L >= 0 /\ q * L \in Int /\ m * L \in Int
    BY <2>1
  <2> QED
    BY <1>1, <1>15, <2>2
<1>6. PICK y \in Int : y = BlockEnd(k, b) + e
  BY <1>4, <1>5
<1>7. y \in 0..(S - 1) /\ y >= C - 1 + e
  BY <1>1, <1>3, <1>4, <1>5, <1>6, <1>16
<1>8. x = y + h /\ x \in Nat
  <2>1. BlockEnd(k, b) \in Int
    BY <1>1 DEF BlockEnd
  <2> QED
    BY <1>1, <1>6, <1>7, <2>1
<1>19. x \in Int
  BY <1>8
<1>9. x % S = y
  <2>1. CASE h = 0
    <3>1. x = 0 * S + y
      BY <1>8, <2>1
    <3> QED
      BY <1>7, <1>8, <3>1, DivModUnique
  <2>2. CASE h = S
    <3>1. x = 1 * S + y
      BY <1>8, <2>2
    <3> QED
      BY <1>7, <1>8, <3>1, DivModUnique
  <2> QED
    BY <1>1, <2>1, <2>2
<1>10. x % L = s
  <2>1. CASE h = 0
    <3>1. x = q * L + s
      BY <1>4, <1>6, <1>8, <1>15, <2>1
    <3>2. q \in Int /\ s \in 0..(L - 1)
      BY <1>4, <1>16
    <3> QED
      BY <1>19, <3>1, <3>2, DivModUnique, Zenon
  <2>2. CASE h = S
    <3>1. PICK p \in Int : p = q + N
      OBVIOUS
    <3>2. p * L = q * L + N * L
      BY <3>1
    <3>3. x = p * L + s
      <4>1. x = v + s + S
        BY <1>4, <1>6, <1>8, <2>2
      <4> QED
        BY <1>1, <1>4, <1>15, <3>2, <4>1
    <3> QED
      BY <1>4, <1>19, <3>3, DivModUnique, Zenon
  <2> QED
    BY <1>1, <2>1, <2>2
<1>11. t = P - 1 => s = L - 1
  BY <1>3, <1>16, <1>17
<1>12. t # P - 1 => s # L - 1
  BY <1>1, <1>3, <1>4, <1>16
<1>13. ASSUME e = 0 PROVE x % C = C - 1
  <2>1. C - 1 \in 0..(C - 1)
    OBVIOUS
  <2>2. y = b * C + (C - 1)
    <3>1. y = (b + 1) * C - 1 + 0
      BY <1>1, <1>6, <1>13 DEF BlockEnd
    <3>2. (b + 1) * C = b * C + C /\ b * C \in Int
      BY <1>0
    <3> QED
      BY <3>1, <3>2
  <2>3. CASE h = 0
    BY <1>8, <2>1, <2>2, <2>3, DivModUnique
  <2>4. CASE h = S
    <3>1. PICK p \in Int : p = b + N * P
      OBVIOUS
    <3>2. p * C = b * C + (N * P) * C /\ b * C \in Int
      BY <1>0, <3>1
    <3>3. x = p * C + (C - 1)
      <4>1. x = b * C + (C - 1) + S
        BY <1>8, <2>2, <2>4
      <4>2. S = (N * P) * C
        BY <1>1
      <4> QED
        BY <3>2, <4>1, <4>2
    <3> QED
      BY <1>19, <2>1, <3>3, DivModUnique, Zenon
  <2> QED
    BY <1>1, <2>3, <2>4
<1>14. BlockEnd(k, b) >= C - 1
  BY <1>1, <1>6, <1>7 DEF BlockEnd
<1> QED
  BY <1>1, <1>2, <1>6, <1>8, <1>9, <1>10, <1>11, <1>12, <1>13, <1>14

LEMMA StopEntry ==
  ASSUME NEW k \in Kinds, NEW i \in StopAt(k)
  PROVE  \E b \in 0..(Blocks(k) - 1), h \in {0, Size(k)} :
            i = BlockEnd(k, b) + 0 + h /\ b % Pieces[k] = Pieces[k] - 1
<1>1. PICK b \in ChainEnds(k), h \in {0, Size(k)} : i = BlockEnd(k, b) + h
  BY DEF StopAt
<1>2. b \in 0..(Blocks(k) - 1) /\ b % Pieces[k] = Pieces[k] - 1
  BY DEF ChainEnds
<1>3. BlockEnd(k, b) \in Int /\ h \in Int
  BY <1>2, Lengths DEF BlockEnd
<1>4. i = BlockEnd(k, b) + 0 + h
  BY <1>1, <1>3
<1> QED
  BY <1>2, <1>4

LEMMA MirrorEntry ==
  ASSUME NEW k \in Kinds, NEW i \in MirrorAt(k)
  PROVE  \E b \in 0..(Blocks(k) - 1), h \in {0, Size(k)}, e \in {0, 2} :
            /\ i = BlockEnd(k, b) + e + h /\ b % Pieces[k] # Pieces[k] - 1
            /\ e = 2 => (k = "clean_1" /\ h = 0)
<1>1. \A b \in Inner(k) : /\ b \in 0..(Blocks(k) - 1) /\ b % Pieces[k] # Pieces[k] - 1
                          /\ BlockEnd(k, b) \in Int
  BY Lengths DEF Inner, ChainEnds, BlockEnd
<1>2. Size(k) \in Nat
  BY Lengths
<1>3. CASE \E b \in Inner(k) : i = BlockEnd(k, b) + (IF k = "clean_1" THEN 2 ELSE 0)
  <2>1. PICK b \in Inner(k) : i = BlockEnd(k, b) + (IF k = "clean_1" THEN 2 ELSE 0)
    BY <1>3
  <2>2. CASE k = "clean_1"
    <3>1. i = BlockEnd(k, b) + 2 + 0
      BY <1>1, <2>1, <2>2
    <3> QED
      BY <1>1, <2>2, <3>1
  <2>3. CASE k # "clean_1"
    <3>1. i = BlockEnd(k, b) + 0 + 0
      BY <1>1, <2>1, <2>3
    <3> QED
      BY <1>1, <3>1
  <2> QED
    BY <2>2, <2>3
<1>4. CASE \E b \in Inner(k) : i = BlockEnd(k, b) + Size(k)
  <2>1. PICK b \in Inner(k) : i = BlockEnd(k, b) + Size(k)
    BY <1>4
  <2>2. i = BlockEnd(k, b) + 0 + Size(k)
    BY <1>1, <1>2, <2>1
  <2> QED
    BY <1>1, <2>2
<1> QED
  BY <1>3, <1>4 DEF MirrorAt

(* Every packet that is output holds as many values as are written.        *)
LEMMA LongEnough ==
  ASSUME NEW k \in Kinds, NEW i \in StopAt(k) \cup MirrorAt(k)
  PROVE  i \in Nat /\ (i % Size(k)) - Carry[k] >= -1
<1>1. PICK b \in 0..(Blocks(k) - 1), h \in {0, Size(k)}, e \in {0, 2} :
            /\ i = BlockEnd(k, b) + e + h
            /\ e = 2 => (b % Pieces[k] # Pieces[k] - 1 /\ k = "clean_1")
  <2>1. CASE i \in StopAt(k)
    BY <2>1, StopEntry
  <2>2. CASE i \in MirrorAt(k)
    BY <2>2, MirrorEntry
  <2> QED
    BY <2>1, <2>2
<1>2. e = 2 => (b % Pieces[k] # Pieces[k] - 1 /\ Carry[k] > 2)
  BY <1>1, ReadoutAssumption
<1>3. i \in Nat /\ i % Size(k) = BlockEnd(k, b) + e /\ BlockEnd(k, b) >= Carry[k] - 1
  BY <1>1, <1>2, Entries
<1>4. BlockEnd(k, b) \in Int /\ Carry[k] \in Int
  BY Lengths DEF BlockEnd
<1> QED
  BY <1>3, <1>4

(* A chain's last index is a block's.                                      *)
LEMMA ChainEndsBlock ==
  ASSUME NEW k \in Kinds, NEW i \in Int, i % ChainLen(k) = ChainLen(k) - 1
  PROVE  i % Carry[k] = Carry[k] - 1
<1>1. PICK C, P, L \in Nat \ {0} : C = Carry[k] /\ P = Pieces[k] /\ L = ChainLen(k) /\ L = P * C
  BY Lengths
<1>2. PICK q \in Int, s \in 0..(L - 1) : s = i % L /\ i = q * L + s
  BY DivMod
<1>3. i = q * L + (L - 1)
  BY <1>1, <1>2
<1>4. PICK p \in Int : p = q * P + P - 1
  OBVIOUS
<1>5. p * C = q * (P * C) + P * C - C
  BY <1>4
<1>6. i = p * C + (C - 1)
  <2>1. p * C = q * L + L - C
    BY <1>1, <1>5
  <2>2. PICK v \in Int : v = q * L
    OBVIOUS
  <2> QED
    BY <1>3, <2>1, <2>2
<1>7. C - 1 \in 0..(C - 1)
  OBVIOUS
<1> QED
  BY <1>1, <1>6, <1>7, DivModUnique

LEMMA BlockOf ==
  ASSUME NEW k \in Kinds, NEW r \in Nat, NEW i \in Half(k, r), i % Carry[k] = Carry[k] - 1
  PROVE  \E b \in 0..(Blocks(k) - 1) : i = BlockEnd(k, b) + HalfBase(k, r)
<1>1. PICK C, M, S \in Nat \ {0} : C = Carry[k] /\ M = Blocks(k) /\ S = Size(k) /\ S = M * C
  BY Lengths
<1>2. PICK g \in {0, 1} : HalfBase(k, r) = g * S
  <2>1. HalfBase(k, r) \in {0, S}
    BY <1>1, Bases
  <2>2. 0 * S = 0 /\ 1 * S = S
    OBVIOUS
  <2> QED
    BY <2>1, <2>2
<1>3. PICK B \in Nat : B = HalfBase(k, r)
  BY Bases
<1>4. i \in B..(B + S - 1) /\ i \in Int
  BY <1>1, <1>3 DEF Half
<1>5. PICK j \in 0..(S - 1) : i = B + j
  <2>1. i - B \in 0..(S - 1) /\ i = B + (i - B)
    BY <1>4
  <2> QED
    BY <2>1
<1>6. PICK b \in Int, s \in 0..(C - 1) : j = b * C + s
  <2>1. j \in Int
    OBVIOUS
  <2> QED
    BY <2>1, DivMod
<1>7. PICK p \in Int : p = g * M + b
  OBVIOUS
<1>8. p * C = g * (M * C) + b * C
  BY <1>7
<1>9. i = p * C + s
  BY <1>1, <1>2, <1>3, <1>5, <1>6, <1>8
<1>10. i % C = s
  BY <1>4, <1>9, DivModUnique
<1>11. j = b * C + (C - 1)
  BY <1>1, <1>6, <1>10
<1>12. b >= 0
  <2>1. ASSUME b < 0 PROVE FALSE
    <3>1. PICK m \in Nat : b = -1 - m
      <4>1. -1 - b \in Nat /\ b = -1 - (-1 - b)
        BY <2>1
      <4> QED
        BY <4>1
    <3>2. b * C = -C - m * C /\ m * C >= 0 /\ m * C \in Int
      BY <3>1
    <3> QED
      BY <1>11, <3>2
  <2> QED
    BY <2>1
<1>13. b <= M - 1
  <2>1. ASSUME b > M - 1 PROVE FALSE
    <3>1. PICK m \in Nat : b = M + m
      <4>1. b - M \in Nat /\ b = M + (b - M)
        BY <2>1
      <4> QED
        BY <4>1
    <3>2. b * C = M * C + m * C /\ m * C >= 0 /\ m * C \in Int
      BY <3>1
    <3> QED
      BY <1>1, <1>11, <3>2
  <2> QED
    BY <2>1
<1>14. BlockEnd(k, b) = b * C + C - 1
  BY <1>1 DEF BlockEnd
<1>15. b * C \in Int
  OBVIOUS
<1>16. i = BlockEnd(k, b) + HalfBase(k, r)
  BY <1>3, <1>5, <1>11, <1>14, <1>15
<1>17. b \in 0..(Blocks(k) - 1)
  BY <1>1, <1>12, <1>13
<1> QED
  BY <1>16, <1>17

LEMMA InHalf ==
  ASSUME NEW k \in Kinds, NEW r \in Nat, NEW i \in Half(k, r)
  PROVE  /\ i \in Nat /\ i % Size(k) = i - HalfBase(k, r)
         /\ i - HalfBase(k, r) \in 0..(Size(k) - 1)
<1>1. PICK S \in Nat \ {0} : S = Size(k)
  BY Lengths
<1>2. PICK B \in {0, S} : B = HalfBase(k, r)
  BY <1>1, Bases
<1>3. i \in B..(B + S - 1)
  BY <1>1, <1>2 DEF Half
<1>4. PICK j \in 0..(S - 1) : j = i - B
  BY <1>3
<1>5. i \in Int /\ i \in Nat /\ i = B + j
  BY <1>3, <1>4
<1>6. i % S = j
  <2>1. CASE B = 0
    <3>1. i = 0 * S + j
      BY <1>5, <2>1
    <3> QED
      BY <1>5, <3>1, DivModUnique
  <2>2. CASE B = S
    <3>1. i = 1 * S + j
      BY <1>5, <2>2
    <3> QED
      BY <1>5, <3>1, DivModUnique
  <2> QED
    BY <2>1, <2>2
<1> QED
  BY <1>1, <1>2, <1>4, <1>5, <1>6

(* A packet stops at the end of its chain and nowhere else.                *)
LEMMA StopIsChainEnd ==
  ASSUME NEW k \in Kinds, NEW r \in Nat, NEW i \in Half(k, r)
  PROVE  i \in StopAt(k) <=> i % ChainLen(k) = ChainLen(k) - 1
<1>1. ASSUME i \in StopAt(k)
      PROVE  i % ChainLen(k) = ChainLen(k) - 1
  <2>1. PICK b \in 0..(Blocks(k) - 1), h \in {0, Size(k)} :
            i = BlockEnd(k, b) + 0 + h /\ b % Pieces[k] = Pieces[k] - 1
    BY <1>1, StopEntry
  <2> QED
    BY <2>1, Entries
<1>2. ASSUME i % ChainLen(k) = ChainLen(k) - 1
      PROVE  i \in StopAt(k)
  <2>1. i \in Int
    BY InHalf
  <2>2. i % Carry[k] = Carry[k] - 1
    BY <1>2, <2>1, ChainEndsBlock
  <2>3. PICK b \in 0..(Blocks(k) - 1) : i = BlockEnd(k, b) + HalfBase(k, r)
    BY <2>2, BlockOf
  <2>4. BlockEnd(k, b) \in Int /\ HalfBase(k, r) \in {0, Size(k)} /\ HalfBase(k, r) \in Int
    BY Lengths, Bases DEF BlockEnd
  <2>5. PICK h \in {0, Size(k)} : h = HalfBase(k, r)
    BY <2>4
  <2>6. i = BlockEnd(k, b) + 0 + h
    BY <2>3, <2>4, <2>5
  <2>7. b % Pieces[k] = Pieces[k] - 1
    BY <1>2, <2>6, Entries
  <2>8. b \in ChainEnds(k)
    BY <2>7 DEF ChainEnds
  <2> QED
    BY <2>3, <2>5, <2>8 DEF StopAt
<1> QED
  BY <1>1, <1>2

(* It goes on with a copy inside its chain, where the table is right at    *)
(* the ends of the other blocks.                                           *)
LEMMA MirrorInChain ==
  ASSUME NEW k \in Kinds, NEW r \in Nat, NEW i \in Half(k, r)
  PROVE  /\ i \in MirrorAt(k) => i % ChainLen(k) # ChainLen(k) - 1
         /\ (k # "clean_1" \/ r % 2 = 0) /\ i % ChainLen(k) # ChainLen(k) - 1
              => (i \in MirrorAt(k) <=> i % Carry[k] = Carry[k] - 1)
<1> DEFINE good == k # "clean_1" \/ r % 2 = 0
           end == i % ChainLen(k) = ChainLen(k) - 1
<1>1. /\ i \in Nat /\ i % Size(k) = i - HalfBase(k, r) /\ i % Size(k) \in 0..(Size(k) - 1)
      /\ Size(k) \in Nat \ {0} /\ HalfBase(k, r) \in {0, Size(k)}
  BY InHalf, Bases, Lengths
<1>2. ASSUME i \in MirrorAt(k)
      PROVE  ~end /\ (good => i % Carry[k] = Carry[k] - 1)
  <2>1. PICK b \in 0..(Blocks(k) - 1), h \in {0, Size(k)}, e \in {0, 2} :
            /\ i = BlockEnd(k, b) + e + h /\ b % Pieces[k] # Pieces[k] - 1
            /\ e = 2 => (k = "clean_1" /\ h = 0)
    BY <1>2, MirrorEntry
  <2>2. e = 2 => (b % Pieces[k] # Pieces[k] - 1 /\ Carry[k] > 2)
    BY <2>1, ReadoutAssumption
  <2>3. /\ i % ChainLen(k) # ChainLen(k) - 1 /\ i % Size(k) = BlockEnd(k, b) + e
        /\ e = 0 => i % Carry[k] = Carry[k] - 1
    BY <2>1, <2>2, Entries
  <2>4. ASSUME good, e = 2 PROVE FALSE
    <3>1. HalfBase(k, r) = Size(k)
      BY <2>1, <2>4 DEF HalfBase
    <3>2. i = (i % Size(k)) + 0
      BY <2>1, <2>3, <2>4, Lengths DEF BlockEnd
    <3> QED
      BY <1>1, <3>1, <3>2
  <2> QED
    BY <2>3, <2>4
<1>3. ASSUME good, ~end, i % Carry[k] = Carry[k] - 1
      PROVE  i \in MirrorAt(k)
  <2>1. PICK b \in 0..(Blocks(k) - 1) : i = BlockEnd(k, b) + HalfBase(k, r)
    BY <1>3, BlockOf
  <2>2. BlockEnd(k, b) \in Int
    BY Lengths DEF BlockEnd
  <2>3. PICK h \in {0, Size(k)} : h = HalfBase(k, r)
    BY <1>1
  <2>4. i = BlockEnd(k, b) + 0 + h
    BY <1>1, <2>1, <2>2, <2>3
  <2>5. b % Pieces[k] # Pieces[k] - 1
    BY <1>3, <2>4, Entries
  <2>6. b \in Inner(k)
    BY <2>5 DEF Inner, ChainEnds
  <2>7. CASE h = Size(k)
    BY <2>1, <2>3, <2>6, <2>7 DEF MirrorAt
  <2>8. CASE h = 0
    <3>1. r % 2 = 1 \/ Size(k) = 0
      BY <2>3, <2>8 DEF HalfBase
    <3>2. k # "clean_1"
      BY <1>1, <1>3, <3>1
    <3>3. i = BlockEnd(k, b) + (IF k = "clean_1" THEN 2 ELSE 0)
      BY <2>1, <2>3, <2>8, <3>2
    <3> QED
      BY <2>6, <3>3 DEF MirrorAt
  <2> QED
    BY <2>7, <2>8
<1> QED
  BY <1>2, <1>3

(* The half's bases in chains, and its size.                               *)
LEMMA HalfInChains ==
  ASSUME NEW k \in Kinds, NEW r \in Nat
  PROVE  \E g \in Nat : HalfBase(k, r) = g * ChainLen(k)
<1>1. PICK N, L, S \in Nat \ {0} : N = Chains /\ L = ChainLen(k) /\ S = Size(k) /\ S = N * L
  BY Lengths
<1>2. HalfBase(k, r) \in {0, S}
  BY <1>1, Bases
<1>3. 0 = 0 * L
  OBVIOUS
<1> QED
  BY <1>1, <1>2, <1>3

(* The greatest index of a half is the last of the last chain.             *)
LEMMA Greatest ==
  ASSUME NEW k \in Kinds, NEW r \in Nat, NEW i \in Half(k, r), i % Size(k) = Size(k) - 1
  PROVE  /\ i % ChainLen(k) = ChainLen(k) - 1
         /\ \A j \in Half(k, r) : j <= i /\ j \div ChainLen(k) <= i \div ChainLen(k)
<1>1. PICK N, L, S \in Nat \ {0} : N = Chains /\ L = ChainLen(k) /\ S = Size(k) /\ S = N * L
  BY Lengths
<1>2. PICK g \in Nat : HalfBase(k, r) = g * L
  BY <1>1, HalfInChains
<1>10. PICK B \in Nat : B = HalfBase(k, r)
  BY Bases
<1>11. \A j \in Half(k, r) : j \in Nat /\ j % S = j - B /\ j - B \in 0..(S - 1)
  BY <1>1, <1>10, InHalf
<1>3. i \in Int /\ i = HalfBase(k, r) + (S - 1)
  BY <1>1, <1>10, <1>11
<1>4. PICK p \in Int : p = g + N - 1
  OBVIOUS
<1>5. p * L = g * L + N * L - L
  BY <1>4
<1>6. i = p * L + (L - 1)
  BY <1>1, <1>2, <1>3, <1>5
<1>7. L - 1 \in 0..(L - 1)
  OBVIOUS
<1>8. i % L = L - 1
  BY <1>3, <1>6, <1>7, DivModUnique
<1>9. ASSUME NEW j \in Half(k, r) PROVE j <= i /\ j \div L <= i \div L
  <2>1. j \in Int /\ j <= i
    BY <1>3, <1>10, <1>11
  <2> QED
    BY <1>3, <2>1, ChainMonotone
<1> QED
  BY <1>1, <1>8, <1>9

LEMMA NextInHalf ==
  ASSUME NEW k \in Kinds, NEW r \in Nat, NEW i \in Half(k, r),
         i % ChainLen(k) # ChainLen(k) - 1
  PROVE  /\ i + 1 \in Half(k, r)
         /\ (i + 1) % ChainLen(k) = (i % ChainLen(k)) + 1
         /\ (i + 1) \div ChainLen(k) = i \div ChainLen(k)
<1>1. /\ i \in Int /\ i % Size(k) = i - HalfBase(k, r) /\ i - HalfBase(k, r) \in 0..(Size(k) - 1)
      /\ HalfBase(k, r) \in Nat /\ Size(k) \in Nat
  BY InHalf, Bases, Lengths
<1>2. i % Size(k) # Size(k) - 1
  BY Greatest
<1>3. i + 1 \in Half(k, r)
  BY <1>1, <1>2 DEF Half
<1> QED
  BY <1>1, <1>3, NextInChain, Lengths

(* Where the control plane's packets start.                                *)
Start(k, r, c) == HalfBase(k, r) + ((c - 1) * Size(k)) \div Chains

LEMMA StartsAtChains ==
  ASSUME NEW k \in Kinds, NEW r \in Nat, NEW c \in 1..Chains
  PROVE  /\ Start(k, r, c) \in Half(k, r) /\ Start(k, r, c) % ChainLen(k) = 0
         /\ Start(k, r, c) = HalfBase(k, r) + (c - 1) * ChainLen(k)
         /\ Start(k, r, c) \div ChainLen(k) = (HalfBase(k, r) \div ChainLen(k)) + c - 1
<1>1. PICK N, L, S \in Nat \ {0} : N = Chains /\ L = ChainLen(k) /\ S = Size(k) /\ S = N * L
  BY Lengths
<1>2. PICK g \in Nat : HalfBase(k, r) = g * L
  BY <1>1, HalfInChains
<1>3. PICK d \in 0..(N - 1) : d = c - 1
  BY <1>1
<1>4. PICK u, x \in Int : u = d * S /\ x = d * L
  OBVIOUS
<1>5. u = x * N + 0
  <2>1. d * (N * L) = (d * L) * N
    OBVIOUS
  <2> QED
    BY <1>1, <1>4, <2>1
<1>6. u \div N = x
  <2>1. 0 \in 0..(N - 1)
    OBVIOUS
  <2> QED
    BY <1>5, <2>1, DivModUnique
<1>7. Start(k, r, c) = HalfBase(k, r) + x
  BY <1>1, <1>3, <1>4, <1>6 DEF Start
<1>8. x \in Nat /\ x <= S - L
  <2>1. PICK m \in Nat : N = d + 1 + m
    <3>1. N - 1 - d \in Nat /\ N = d + 1 + (N - 1 - d)
      OBVIOUS
    <3> QED
      BY <3>1
  <2>2. N * L = d * L + L + m * L /\ m * L >= 0 /\ d * L >= 0 /\ m * L \in Int
    BY <2>1
  <2> QED
    BY <1>1, <1>4, <2>2
<1>9. PICK s \in Int : s = Start(k, r, c)
  BY <1>7, <1>8, Bases
<1>10. s \in Half(k, r)
  BY <1>1, <1>7, <1>8, <1>9, Bases DEF Half
<1>11. PICK p \in Int : p = g + d
  OBVIOUS
<1>12. s = p * L + 0
  <2>1. p * L = g * L + d * L
    BY <1>11
  <2> QED
    BY <1>2, <1>4, <1>7, <1>9, <2>1
<1>13. 0 \in 0..(L - 1)
  OBVIOUS
<1>14. s % L = 0 /\ s \div L = p
  BY <1>12, <1>13, DivModUnique
<1>15. HalfBase(k, r) \div L = g
  <2>1. g * L = g * L + 0 /\ g * L \in Int /\ g \in Int
    OBVIOUS
  <2> QED
    BY <1>2, <1>13, <2>1, DivModUnique
<1> QED
  BY <1>1, <1>3, <1>4, <1>7, <1>9, <1>10, <1>11, <1>14, <1>15

(* Each index is read by one of them.                                      *)
LEMMA StartsCover ==
  ASSUME NEW k \in Kinds, NEW r \in Nat, NEW i \in Half(k, r)
  PROVE  \E c \in 1..Chains :
            Start(k, r, c) <= i /\ i \div ChainLen(k) = Start(k, r, c) \div ChainLen(k)
<1>1. PICK N, L, S \in Nat \ {0} : N = Chains /\ L = ChainLen(k) /\ S = Size(k) /\ S = N * L
  BY Lengths
<1>2. PICK g, B \in Nat : B = HalfBase(k, r) /\ B = g * L
  BY <1>1, HalfInChains, Bases
<1>3. PICK j \in 0..(S - 1) : i = B + j /\ j \in Int
  <2>2. i \in Nat /\ i - B \in 0..(S - 1)
    BY <1>1, <1>2, InHalf
  <2>1. i \in Int /\ i - B \in 0..(S - 1) /\ i = B + (i - B)
    BY <2>2
  <2> QED
    BY <2>1
<1>4. PICK d \in Int, s \in 0..(L - 1) : j = d * L + s
  BY <1>3, DivMod
<1>5. d >= 0
  <2>1. ASSUME d < 0 PROVE FALSE
    <3>1. PICK m \in Nat : d = -1 - m
      <4>1. -1 - d \in Nat /\ d = -1 - (-1 - d)
        BY <2>1
      <4> QED
        BY <4>1
    <3>2. d * L = -L - m * L /\ m * L >= 0 /\ m * L \in Int
      BY <3>1
    <3> QED
      BY <1>4, <3>2
  <2> QED
    BY <2>1
<1>6. d <= N - 1
  <2>1. ASSUME d > N - 1 PROVE FALSE
    <3>1. PICK m \in Nat : d = N + m
      <4>1. d - N \in Nat /\ d = N + (d - N)
        BY <2>1
      <4> QED
        BY <4>1
    <3>2. d * L = N * L + m * L /\ m * L >= 0 /\ m * L \in Int
      BY <3>1
    <3> QED
      BY <1>1, <1>4, <3>2
  <2> QED
    BY <2>1
<1>7. PICK c \in 1..N : c = d + 1
  BY <1>5, <1>6
<1>8. PICK x \in Int : x = d * L
  OBVIOUS
<1>9. PICK y \in Int : y = Start(k, r, c) /\ y % L = 0 /\ y = B + x
  <2>1. (c - 1) * L = x
    <3>1. c - 1 = d
      BY <1>7
    <3> QED
      BY <1>8, <3>1
  <2>3. c \in 1..Chains
    BY <1>1
  <2>2. /\ Start(k, r, c) % ChainLen(k) = 0
        /\ Start(k, r, c) = HalfBase(k, r) + (c - 1) * ChainLen(k)
    BY <2>3, StartsAtChains
  <2>4. Start(k, r, c) % L = 0
    BY <1>1, <2>2
  <2>5. Start(k, r, c) = B + (c - 1) * L
    BY <1>1, <1>2, <2>2
  <2>6. Start(k, r, c) = B + x
    BY <2>1, <2>5
  <2> QED
    BY <2>4, <2>6
<1>10. y <= i
  BY <1>3, <1>4, <1>8, <1>9
<1>11. PICK p \in Int : p = g + d
  OBVIOUS
<1>12. p * L = g * L + d * L
  BY <1>11
<1>13. i = p * L + s /\ y = p * L + 0 /\ i \in Int
  BY <1>2, <1>3, <1>4, <1>8, <1>9, <1>12
<1>14. 0 \in 0..(L - 1)
  OBVIOUS
<1>15. i \div L = p /\ y \div L = p
  BY <1>13, <1>14, DivModUnique
<1> QED
  BY <1>1, <1>7, <1>9, <1>10, <1>15
-----------------------------------------------------------------------------
Value == Int \X Int
Packet == [kind : Kinds, index : Nat, values : Seq(Value), end : BOOLEAN]

(* The queues hold packets; only a finished fermat packet has the ether    *)
(* type FERMAT_END, and none does when it is sent.                         *)
TypeOK ==
    /\ round \in Nat
    /\ tosend \in Seq(Packet) /\ loop \in Seq(Packet) /\ wire \in Seq(Packet)
    /\ DOMAIN full = Filters
    /\ DOMAIN counter = Kinds
    /\ \A k \in Kinds : DOMAIN counter[k] = 0..(Size(k) - 1)
    /\ DOMAIN egress = 0..(EgressSize - 1)
    /\ avail \subseteq Kinds
    /\ \A a \in 1..Len(tosend) : ~tosend[a].end
    /\ \A a \in 1..Len(loop) : loop[a].end => loop[a].kind = "fermat"

(* A live packet after a pass: what leaves and what goes on.               *)
Leaves(p) == p.index \in StopAt(p.kind) \cup MirrorAt(p.kind)
Done(p) == [p EXCEPT !.values = ReadValues(p.kind, p.index) \o @, !.end = (p.kind = "fermat")]
On(p) == [p EXCEPT !.index = @ + 1,
                   !.values = IF p.index \in MirrorAt(p.kind) THEN <<>>
                              ELSE ReadValues(p.kind, p.index) \o @]

LEMMA ReadsValues ==
  ASSUME NEW k \in Kinds, NEW i \in Nat, round \in Nat
  PROVE  ReadValues(k, i) \in Seq(Value)
<1>1. Size("fermat") \in Nat /\ "fermat" \in Kinds
  BY Lengths DEF Kinds
<1>2. EgressSize \in Int
  BY <1>1 DEF EgressSize
<1>3. EgressIndex(i) \in Int
  BY <1>1, <1>2 DEF EgressIndex
<1>4. Val(round, EgressIndex(i)) \in Value /\ Val(round, i) \in Value /\ Cleaned \in Value
  BY <1>3 DEF Val, Value, Cleaned
<1> QED
  BY <1>4 DEF ReadValues

LEMMA PacketAfter ==
  ASSUME NEW p \in Packet, round \in Nat
  PROVE  /\ Done(p) \in Packet /\ Done(p).kind = p.kind /\ Done(p).index = p.index
         /\ Done(p).values = ReadValues(p.kind, p.index) \o p.values
         /\ Done(p).end = (p.kind = "fermat")
         /\ On(p) \in Packet /\ On(p).kind = p.kind /\ On(p).index = p.index + 1
         /\ On(p).values = IF p.index \in MirrorAt(p.kind) THEN <<>>
                           ELSE ReadValues(p.kind, p.index) \o p.values
         /\ On(p).end = p.end
<1>1. p.kind \in Kinds /\ p.index \in Nat /\ p.values \in Seq(Value)
  BY DEF Packet
<1>2. ReadValues(p.kind, p.index) \o p.values \in Seq(Value)
  BY <1>1, ReadsValues
<1>3. (p.kind = "fermat") \in BOOLEAN
  OBVIOUS
<1> DEFINE vals == IF p.index \in MirrorAt(p.kind) THEN <<>>
                   ELSE ReadValues(p.kind, p.index) \o p.values
<1>4. vals \in Seq(Value)
  BY <1>2
<1>5. p.index + 1 \in Nat
  BY <1>1
<1>6. /\ Done(p) \in Packet /\ Done(p).kind = p.kind /\ Done(p).index = p.index
      /\ Done(p).values = ReadValues(p.kind, p.index) \o p.values
      /\ Done(p).end = (p.kind = "fermat")
  BY <1>2, <1>3 DEF Packet, Done
<1>7. /\ On(p) \in Packet /\ On(p).kind = p.kind /\ On(p).index = p.index + 1
      /\ On(p).values = vals /\ On(p).end = p.end
  BY <1>4, <1>5 DEF Packet, On
<1> QED
  BY <1>6, <1>7

LEMMA Disjoint ==
  ASSUME NEW k \in Kinds
  PROVE  StopAt(k) \cap MirrorAt(k) = {}
<1>1. SUFFICES ASSUME NEW i \in StopAt(k), i \in MirrorAt(k) PROVE FALSE
  OBVIOUS
<1>2. PICK b \in 0..(Blocks(k) - 1), h \in {0, Size(k)} :
          i = BlockEnd(k, b) + 0 + h /\ b % Pieces[k] = Pieces[k] - 1
  BY StopEntry
<1>3. i % ChainLen(k) = ChainLen(k) - 1
  BY <1>2, Entries
<1>4. PICK c \in 0..(Blocks(k) - 1), g \in {0, Size(k)}, e \in {0, 2} :
            /\ i = BlockEnd(k, c) + e + g /\ c % Pieces[k] # Pieces[k] - 1
            /\ e = 2 => (k = "clean_1" /\ g = 0)
  BY <1>1, MirrorEntry
<1>5. e = 2 => (c % Pieces[k] # Pieces[k] - 1 /\ Carry[k] > 2)
  BY <1>4, ReadoutAssumption
<1>6. i % ChainLen(k) # ChainLen(k) - 1
  BY <1>4, <1>5, Entries
<1> QED
  BY <1>3, <1>6

(* What a pass of the first packet does to the queues, place by place.     *)
Shifted(b) == b < Len(loop) /\ loop'[b] = loop[b + 1]
Finished(p, b) == /\ b = Len(loop) /\ loop'[b] = Done(p)
                  /\ Leaves(p) /\ p.kind = "fermat"
GoesOn(p, b) == /\ b >= Len(loop) /\ b = Len(loop') /\ loop'[b] = On(p)
                /\ p.index \notin StopAt(p.kind)

Queued(p) ==
    /\ loop' \in Seq(Packet) /\ Len(loop') >= Len(loop) - 1
    /\ \A b \in 1..Len(loop') : Shifted(b) \/ Finished(p, b) \/ GoesOn(p, b)
    /\ \A b \in 2..Len(loop) : b - 1 \in 1..Len(loop') /\ loop'[b - 1] = loop[b]
    /\ p.index \notin StopAt(p.kind) =>
          Len(loop') >= Len(loop) /\ loop'[Len(loop')] = On(p)
    /\ Leaves(p) /\ p.kind = "fermat" =>
          Len(loop') >= Len(loop) /\ loop'[Len(loop)] = Done(p)

Passed(p) ==
    /\ Queued(p)
    /\ wire' = IF p.kind \in Filters /\ Leaves(p) THEN Append(wire, Done(p)) ELSE wire
    /\ full' = Cleaning(p.kind, p.index)

LEMMA QueuedOn ==
  ASSUME NEW p \in Packet, round \in Nat, loop \in Seq(Packet), loop # <<>>, p.index \notin StopAt(p.kind),
         loop' = Append(Tail(loop), On(p)), ~(Leaves(p) /\ p.kind = "fermat")
  PROVE  Queued(p)
<1>0. PICK L \in Nat : L = Len(loop) /\ L >= 1
  OBVIOUS
<1>1. On(p) \in Packet
  BY PacketAfter
<1>2. Tail(loop) \in Seq(Packet) /\ Len(Tail(loop)) = L - 1
      /\ \A b \in 1..(L - 1) : Tail(loop)[b] = loop[b + 1]
  BY <1>0
<1>3. /\ loop' \in Seq(Packet) /\ Len(loop') = L /\ loop'[L] = On(p)
      /\ \A b \in 1..(L - 1) : loop'[b] = loop[b + 1]
  BY <1>0, <1>1, <1>2
<1>4. ASSUME NEW b \in 1..Len(loop') PROVE Shifted(b) \/ GoesOn(p, b)
  <2>1. CASE b < L
    BY <1>0, <1>3, <2>1 DEF Shifted
  <2>2. CASE b = L
    BY <1>0, <1>3, <2>2 DEF GoesOn
  <2> QED
    BY <1>0, <1>3, <2>1, <2>2
<1> QED
  BY <1>0, <1>3, <1>4 DEF Queued

LEMMA QueuedDoneOn ==
  ASSUME NEW p \in Packet, round \in Nat, loop \in Seq(Packet), loop # <<>>, p.index \in MirrorAt(p.kind),
         p.kind = "fermat", loop' = Tail(loop) \o <<Done(p), On(p)>>
  PROVE  Queued(p)
<1>0. PICK L \in Nat : L = Len(loop) /\ L >= 1
  OBVIOUS
<1>1. On(p) \in Packet /\ Done(p) \in Packet
  BY PacketAfter
<1>2. Tail(loop) \in Seq(Packet) /\ Len(Tail(loop)) = L - 1
      /\ \A b \in 1..(L - 1) : Tail(loop)[b] = loop[b + 1]
  BY <1>0
<1>3. /\ loop' \in Seq(Packet) /\ Len(loop') = L + 1 /\ loop'[L] = Done(p) /\ loop'[L + 1] = On(p)
      /\ \A b \in 1..(L - 1) : loop'[b] = loop[b + 1]
  BY <1>0, <1>1, <1>2
<1>4. p.index \notin StopAt(p.kind) /\ Leaves(p)
  BY Disjoint DEF Leaves, Packet
<1>5. ASSUME NEW b \in 1..Len(loop') PROVE Shifted(b) \/ Finished(p, b) \/ GoesOn(p, b)
  <2>1. CASE b < L
    BY <1>0, <1>3, <2>1 DEF Shifted
  <2>2. CASE b = L
    BY <1>3, <1>4, <2>2 DEF Finished
  <2>3. CASE b = L + 1
    BY <1>0, <1>3, <1>4, <2>3 DEF GoesOn
  <2> QED
    BY <1>0, <1>3, <2>1, <2>2, <2>3
<1> QED
  BY <1>0, <1>3, <1>4, <1>5 DEF Queued

LEMMA QueuedDone ==
  ASSUME NEW p \in Packet, round \in Nat, loop \in Seq(Packet), loop # <<>>, p.index \in StopAt(p.kind),
         p.kind = "fermat", loop' = Append(Tail(loop), Done(p))
  PROVE  Queued(p)
<1>0. PICK L \in Nat : L = Len(loop) /\ L >= 1
  OBVIOUS
<1>1. Done(p) \in Packet
  BY PacketAfter
<1>2. Tail(loop) \in Seq(Packet) /\ Len(Tail(loop)) = L - 1
      /\ \A b \in 1..(L - 1) : Tail(loop)[b] = loop[b + 1]
  BY <1>0
<1>3. /\ loop' \in Seq(Packet) /\ Len(loop') = L /\ loop'[L] = Done(p)
      /\ \A b \in 1..(L - 1) : loop'[b] = loop[b + 1]
  BY <1>0, <1>1, <1>2
<1>4. Leaves(p)
  BY DEF Leaves
<1>5. ASSUME NEW b \in 1..Len(loop') PROVE Shifted(b) \/ Finished(p, b)
  <2>1. CASE b < L
    BY <1>0, <1>3, <2>1 DEF Shifted
  <2>2. CASE b = L
    BY <1>3, <1>4, <2>2 DEF Finished
  <2> QED
    BY <1>0, <1>3, <2>1, <2>2
<1> QED
  BY <1>0, <1>3, <1>5 DEF Queued

LEMMA QueuedOff ==
  ASSUME NEW p \in Packet, round \in Nat, loop \in Seq(Packet), loop # <<>>, p.index \in StopAt(p.kind),
         p.kind # "fermat", loop' = Tail(loop)
  PROVE  Queued(p)
<1> DEFINE L == Len(loop)
<1>1. loop' \in Seq(Packet) /\ Len(loop') = L - 1 /\ L \in Nat /\ L >= 1
      /\ \A b \in 1..(L - 1) : loop'[b] = loop[b + 1]
  OBVIOUS
<1>2. \A b \in 1..Len(loop') : Shifted(b)
  BY <1>1 DEF Shifted
<1> QED
  BY <1>1, <1>2 DEF Queued

LEMMA CopiesOf ==
  ASSUME NEW p \in Packet, ~p.end
  PROVE  LET read == [p EXCEPT !.values = ReadValues(p.kind, p.index) \o @]
             on == [p EXCEPT !.index = @ + 1]
         IN  /\ p.kind # "fermat" => read = Done(p)
             /\ p.kind = "fermat" => [read EXCEPT !.end = TRUE] = Done(p)
             /\ p.index \in MirrorAt(p.kind) => [on EXCEPT !.values = <<>>] = On(p)
             /\ p.index \in MirrorAt(p.kind) => [p EXCEPT !.index = @ + 1, !.values = <<>>] = On(p)
             /\ p.index \notin MirrorAt(p.kind) => [read EXCEPT !.index = @ + 1] = On(p)
<1>1. p.end = FALSE
  BY DEF Packet
<1> QED
  BY <1>1 DEF Packet, Done, On

LEMMA Passes ==
  ASSUME TypeOK, Recirculate
  PROVE  /\ loop # <<>> /\ Head(loop) \in Packet /\ Head(loop) = loop[1]
         /\ Head(loop).end =>
               loop' = Tail(loop) /\ wire' = Append(wire, Head(loop)) /\ full' = full
         /\ ~Head(loop).end => Passed(Head(loop))
<1>1. /\ loop # <<>> /\ loop \in Seq(Packet) /\ round \in Nat
      /\ \A a \in 1..Len(loop) : loop[a].end => loop[a].kind = "fermat"
  BY DEF TypeOK, Recirculate
<1>2. Head(loop) \in Packet /\ Head(loop) = loop[1] /\ 1 \in 1..Len(loop)
  BY <1>1
<1>3. PICK p : p = Head(loop)
  OBVIOUS
<1>4. /\ p \in Packet /\ p.kind \in Kinds /\ p.end \in BOOLEAN
      /\ p.end => p.kind = "fermat"
  BY <1>1, <1>2, <1>3 DEF Packet
<1>5. "fermat" \notin Filters /\ Kinds = Filters \cup {"fermat"}
  BY DEF Filters, Kinds
<1>6. CleanPass \/ FermatPass \/ FermatEnd
  BY DEF Recirculate
<1>7. CASE p.end
  <2>1. ~CleanPass /\ ~FermatPass
    BY <1>3, <1>4, <1>5, <1>7 DEF CleanPass, FermatPass
  <2> QED
    BY <1>1, <1>2, <1>3, <1>6, <1>7, <2>1 DEF FermatEnd
<1>8. CASE ~p.end
  <2>1. ~FermatEnd
    BY <1>3, <1>8 DEF FermatEnd
  <2>2. Leaves(p) <=> (p.index \in StopAt(p.kind) \/ p.index \in MirrorAt(p.kind))
    BY DEF Leaves
  <2>3. p.index \in StopAt(p.kind) => p.index \notin MirrorAt(p.kind)
    BY <1>4, Disjoint
  <2>4. CASE CleanPass
    <3>1. p.kind \in Filters /\ full' = Cleaning(p.kind, p.index) /\ p.kind # "fermat"
      BY <1>3, <1>5, <2>4 DEF CleanPass
    <3>2. CASE p.index \in StopAt(p.kind)
      <4>1. loop' = Tail(loop) /\ wire' = Append(wire, Done(p))
        BY <1>3, <1>4, <1>8, <2>3, <2>4, <3>1, <3>2, CopiesOf DEF CleanPass
      <4>2. Queued(p)
        BY <1>1, <1>4, <3>1, <3>2, <4>1, QueuedOff
      <4> QED
        BY <1>2, <1>1, <1>3, <1>8, <2>2, <3>1, <3>2, <4>1, <4>2 DEF Passed
    <3>3. CASE p.index \in MirrorAt(p.kind)
      <4>1. loop' = Append(Tail(loop), On(p)) /\ wire' = Append(wire, Done(p))
        BY <1>3, <1>4, <1>8, <2>3, <2>4, <3>1, <3>3, CopiesOf DEF CleanPass
      <4>2. Queued(p)
        BY <1>1, <1>4, <2>3, <3>1, <3>3, <4>1, QueuedOn
      <4> QED
        BY <1>2, <1>1, <1>3, <1>8, <2>2, <3>1, <3>3, <4>1, <4>2 DEF Passed
    <3>4. CASE ~Leaves(p)
      <4>1. loop' = Append(Tail(loop), On(p)) /\ wire' = wire
        BY <1>3, <1>4, <1>8, <2>2, <2>4, <3>1, <3>4, CopiesOf DEF CleanPass
      <4>2. Queued(p)
        BY <1>1, <1>4, <2>2, <3>1, <3>4, <4>1, QueuedOn
      <4> QED
        BY <1>2, <1>1, <1>3, <1>8, <2>2, <3>1, <3>4, <4>1, <4>2 DEF Passed
    <3> QED
      BY <2>2, <3>2, <3>3, <3>4
  <2>5. CASE FermatPass
    <3>1. p.kind \notin Filters /\ full' = full /\ wire' = wire /\ p.kind = "fermat"
      BY <1>3, <1>5, <2>5 DEF FermatPass
    <3>2. full' = Cleaning(p.kind, p.index)
      BY <3>1 DEF Cleaning
    <3>3. CASE p.index \in StopAt(p.kind)
      <4>1. loop' = Append(Tail(loop), Done(p))
        BY <1>3, <1>4, <1>8, <2>3, <2>5, <3>1, <3>3, CopiesOf DEF FermatPass
      <4>2. Queued(p)
        BY <1>1, <1>4, <3>1, <3>3, <4>1, QueuedDone
      <4> QED
        BY <1>2, <1>1, <1>3, <1>8, <3>1, <3>2, <4>2 DEF Passed
    <3>4. CASE p.index \in MirrorAt(p.kind)
      <4>1. loop' = Tail(loop) \o <<Done(p), On(p)>>
        BY <1>3, <1>4, <1>8, <2>3, <2>5, <3>1, <3>4, CopiesOf DEF FermatPass
      <4>2. Queued(p)
        BY <1>1, <1>4, <3>1, <3>4, <4>1, QueuedDoneOn
      <4> QED
        BY <1>2, <1>1, <1>3, <1>8, <3>1, <3>2, <4>2 DEF Passed
    <3>5. CASE ~Leaves(p)
      <4>1. loop' = Append(Tail(loop), On(p))
        BY <1>3, <1>4, <1>8, <2>2, <2>5, <3>1, <3>5, CopiesOf DEF FermatPass
      <4>2. Queued(p)
        BY <1>1, <1>4, <2>2, <3>5, <4>1, QueuedOn
      <4> QED
        BY <1>2, <1>1, <1>3, <1>8, <3>1, <3>2, <4>2 DEF Passed
    <3> QED
      BY <2>2, <3>3, <3>4, <3>5
  <2> QED
    BY <1>6, <2>1, <2>4, <2>5
<1> QED
  BY <1>4, <1>7, <1>8

(* The control plane's packets, chain by chain.                            *)
Sent(k, r, c) == [kind |-> k, index |-> Start(k, r, c), values |-> <<>>, end |-> FALSE]
First(k) == IF k = "clean_1" THEN 0 ELSE IF k = "clean_2" THEN Chains ELSE Chains + Chains
AllStarts(r) == Starts("clean_1", r) \o Starts("clean_2", r) \o Starts("fermat", r)

LEMMA StartsOf ==
  ASSUME NEW k \in Kinds, NEW r \in Nat
  PROVE  /\ Starts(k, r) \in Seq(Packet) /\ Len(Starts(k, r)) = Chains
         /\ \A c \in 1..Chains : Starts(k, r)[c] = Sent(k, r, c) /\ Sent(k, r, c) \in Packet
<1>1. Chains \in Nat
  BY Lengths
<1>2. \A c \in 1..Chains : Start(k, r, c) \in Nat
  BY StartsAtChains, InHalf
<1>3. \A c \in 1..Chains : Sent(k, r, c) \in Packet
  <2>1. <<>> \in Seq(Value)
    OBVIOUS
  <2> QED
    BY <1>2, <2>1 DEF Sent, Packet
<1>4. Starts(k, r) = [c \in 1..Chains |-> Sent(k, r, c)]
  BY DEF Starts, Sent, Start
<1> QED
  BY <1>1, <1>3, <1>4

LEMMA Joined ==
  ASSUME NEW S, NEW s \in Seq(S), NEW t \in Seq(S), NEW n \in Nat, NEW m \in Nat,
         n = Len(s), m = Len(t)
  PROVE  /\ s \o t \in Seq(S) /\ Len(s \o t) = n + m
         /\ \A c \in 1..n : (s \o t)[c] = s[c]
         /\ \A c \in 1..m : (s \o t)[n + c] = t[c]
<1>1. /\ s \o t \in Seq(S) /\ Len(s \o t) = n + m
      /\ \A i \in 1..(n + m) : (s \o t)[i] = IF i <= n THEN s[i] ELSE t[i - n]
  BY ConcatProperties
<1>2. ASSUME NEW c \in 1..n PROVE (s \o t)[c] = s[c]
  <2>1. c \in 1..(n + m) /\ c <= n
    OBVIOUS
  <2> QED
    BY <1>1, <2>1
<1>3. ASSUME NEW c \in 1..m PROVE (s \o t)[n + c] = t[c]
  <2>1. PICK i \in 1..(n + m) : i = n + c /\ ~(i <= n) /\ i - n = c
    OBVIOUS
  <2> QED
    BY <1>1, <2>1
<1> QED
  BY <1>1, <1>2, <1>3

LEMMA AllStartsInOrder ==
  ASSUME NEW r \in Nat
  PROVE  /\ AllStarts(r) \in Seq(Packet)
         /\ \A a \in 1..Len(AllStarts(r)) :
               \E k \in Kinds, c \in 1..Chains : AllStarts(r)[a] = Sent(k, r, c) /\ a = First(k) + c
         /\ \A k \in Kinds, c \in 1..Chains :
               First(k) + c \in 1..Len(AllStarts(r)) /\ AllStarts(r)[First(k) + c] = Sent(k, r, c)
<1> DEFINE x == Starts("clean_1", r)
           y == Starts("clean_2", r)
           z == Starts("fermat", r)
<1>1. "clean_1" \in Kinds /\ "clean_2" \in Kinds /\ "fermat" \in Kinds
      /\ Kinds = {"clean_1", "clean_2", "fermat"}
  BY DEF Kinds, Filters
<1>0. PICK N \in Nat : N = Chains /\ N > 0
  BY <1>1, Lengths
<1>2. /\ x \in Seq(Packet) /\ Len(x) = N /\ \A c \in 1..N : x[c] = Sent("clean_1", r, c)
      /\ y \in Seq(Packet) /\ Len(y) = N /\ \A c \in 1..N : y[c] = Sent("clean_2", r, c)
      /\ z \in Seq(Packet) /\ Len(z) = N /\ \A c \in 1..N : z[c] = Sent("fermat", r, c)
  BY <1>0, <1>1, StartsOf
<1>3. AllStarts(r) = (x \o y) \o z
  BY DEF AllStarts
<1> HIDE DEF x, y, z
<1>4. /\ AllStarts(r) \in Seq(Packet) /\ Len(AllStarts(r)) = N + N + N
      /\ \A c \in 1..N : AllStarts(r)[c] = x[c]
      /\ \A c \in 1..N : AllStarts(r)[N + c] = y[c]
      /\ \A c \in 1..N : AllStarts(r)[N + N + c] = z[c]
  <2>1. PICK u \in Seq(Packet) : u = x \o y
    BY <1>2, ConcatProperties
  <2>2. /\ Len(u) = N + N
        /\ \A c \in 1..N : u[c] = x[c]
        /\ \A c \in 1..N : u[N + c] = y[c]
    BY <1>0, <1>2, <2>1, Joined
  <2>7. PICK M \in Nat : M = N + N
    BY <1>0
  <2>3. PICK v \in Seq(Packet) : v = u \o z
    BY <1>2, <2>1, ConcatProperties
  <2>8. Len(u) = M
    BY <2>2, <2>7
  <2>9. /\ Len(v) = M + N
        /\ \A c \in 1..M : v[c] = u[c]
        /\ \A c \in 1..N : v[M + c] = z[c]
    <3>1. /\ u \in Seq(Packet) /\ z \in Seq(Packet) /\ N = Len(z) /\ M = Len(u)
          /\ N \in Nat /\ M \in Nat
      BY <1>0, <1>2, <2>1, <2>7, <2>8
    <3>2. /\ Len(u \o z) = M + N
          /\ \A c \in 1..M : (u \o z)[c] = u[c]
          /\ \A c \in 1..N : (u \o z)[M + c] = z[c]
      BY ONLY <3>1, Joined
    <3> QED
      BY <2>3, <3>2
  <2>4. /\ Len(v) = N + N + N
        /\ \A c \in 1..(N + N) : v[c] = u[c]
        /\ \A c \in 1..N : v[N + N + c] = z[c]
    BY <2>7, <2>9
  <2>5. v = AllStarts(r)
    BY <1>3, <2>1, <2>3
  <2>6. \A c \in 1..N : c \in 1..(N + N) /\ N + c \in 1..(N + N)
    BY <1>0
  <2> QED
    BY <2>2, <2>3, <2>4, <2>5, <2>6
<1>5. ASSUME NEW a \in 1..Len(AllStarts(r))
      PROVE  \E k \in Kinds, c \in 1..Chains : AllStarts(r)[a] = Sent(k, r, c) /\ a = First(k) + c
  <2>0. a \in 1..(N + N + N) /\ a \in Int
    BY <1>4
  <2>1. CASE a <= N
    <3>1. a \in 1..N /\ a = First("clean_1") + a
      BY <2>0, <2>1 DEF First
    <3> QED
      BY <1>0, <1>1, <1>2, <1>4, <3>1
  <2>2. CASE N < a /\ a <= N + N
    <3>1. PICK c \in 1..N : a = N + c
      <4>1. a - N \in 1..N /\ a = N + (a - N)
        BY <2>0, <2>2
      <4> QED
        BY <4>1
    <3>2. a = First("clean_2") + c
      BY <1>0, <3>1 DEF First
    <3> QED
      BY <1>0, <1>1, <1>2, <1>4, <3>1, <3>2
  <2>3. CASE N + N < a
    <3>1. PICK c \in 1..N : a = N + N + c
      <4>1. a - N - N \in 1..N /\ a = N + N + (a - N - N)
        BY <2>0, <2>3
      <4> QED
        BY <4>1
    <3>2. a = First("fermat") + c
      BY <1>0, <3>1 DEF First
    <3> QED
      BY <1>0, <1>1, <1>2, <1>4, <3>1, <3>2
  <2> QED
    BY <2>0, <2>1, <2>2, <2>3
<1>6. ASSUME NEW k \in Kinds, NEW c \in 1..Chains
      PROVE  First(k) + c \in 1..Len(AllStarts(r)) /\ AllStarts(r)[First(k) + c] = Sent(k, r, c)
  <2>1. CASE k = "clean_1"
    <3>1. First(k) + c = c
      BY <1>0, <2>1 DEF First
    <3> QED
      BY <1>0, <1>2, <1>4, <2>1, <3>1
  <2>2. CASE k = "clean_2"
    <3>1. First(k) + c = N + c
      BY <1>0, <2>2 DEF First
    <3> QED
      BY <1>0, <1>2, <1>4, <2>2, <3>1
  <2>3. CASE k = "fermat"
    <3>1. First(k) + c = N + N + c
      BY <1>0, <2>3 DEF First
    <3> QED
      BY <1>0, <1>2, <1>4, <2>3, <3>1
  <2> QED
    BY <1>1, <2>1, <2>2, <2>3
<1> QED
  BY <1>4, <1>5, <1>6

LEMMA TypeFlip == TypeOK /\ Flip => TypeOK'
<1> SUFFICES ASSUME TypeOK, Flip PROVE TypeOK'
  OBVIOUS
<1>1. PICK r \in Nat : r = round + 1
  BY DEF TypeOK
<1>2. round' = r /\ tosend' = AllStarts(r)
  BY <1>1 DEF Flip, AllStarts
<1>3. tosend' \in Seq(Packet)
  BY <1>2, AllStartsInOrder
<1>4. ASSUME NEW a \in 1..Len(tosend') PROVE ~tosend'[a].end
  <2>1. PICK k \in Kinds, c \in 1..Chains : tosend'[a] = Sent(k, r, c)
    BY <1>2, AllStartsInOrder
  <2> QED
    BY <2>1 DEF Sent
<1>5. DOMAIN full' = Filters
  BY DEF Flip
<1>6. avail' \subseteq Kinds
  BY DEF Flip
<1>7. UNCHANGED <<loop, wire, counter, egress>>
  BY DEF Flip
<1> QED
  BY <1>1, <1>2, <1>3, <1>4, <1>5, <1>6, <1>7 DEF TypeOK

LEMMA TypeInject == TypeOK /\ Inject => TypeOK'
<1> SUFFICES ASSUME TypeOK, Inject PROVE TypeOK'
  OBVIOUS
<1>1. /\ tosend \in Seq(Packet) /\ loop \in Seq(Packet) /\ tosend # <<>>
      /\ tosend' = Tail(tosend) /\ loop' = Append(loop, Head(tosend))
      /\ \A a \in 1..Len(tosend) : ~tosend[a].end
      /\ \A a \in 1..Len(loop) : loop[a].end => loop[a].kind = "fermat"
  BY DEF TypeOK, Inject
<1>2. PICK N \in Nat, L \in Nat : N = Len(tosend) /\ N >= 1 /\ L = Len(loop)
  BY <1>1
<1>3. /\ tosend' \in Seq(Packet) /\ Len(tosend') = N - 1
      /\ \A a \in 1..(N - 1) : tosend'[a] = tosend[a + 1]
      /\ Head(tosend) = tosend[1] /\ tosend[1] \in Packet
  BY <1>1, <1>2
<1>4. /\ loop' \in Seq(Packet) /\ Len(loop') = L + 1
      /\ \A a \in 1..L : loop'[a] = loop[a]
      /\ loop'[L + 1] = tosend[1]
  BY <1>1, <1>2, <1>3
<1>5. \A a \in 1..Len(tosend') : ~tosend'[a].end
  BY <1>1, <1>2, <1>3
<1>6. \A a \in 1..Len(loop') : loop'[a].end => loop'[a].kind = "fermat"
  BY <1>1, <1>2, <1>4
<1>7. UNCHANGED <<round, wire, full, counter, egress, avail>>
  BY DEF Inject, ctrlVars
<1> QED
  BY <1>3, <1>4, <1>5, <1>6, <1>7 DEF TypeOK

LEMMA TypeRecirculate == TypeOK /\ Recirculate => TypeOK'
<1> SUFFICES ASSUME TypeOK, Recirculate PROVE TypeOK'
  OBVIOUS
<1>1. PICK p : p = Head(loop)
  OBVIOUS
<1>2. /\ round \in Nat /\ tosend \in Seq(Packet) /\ loop \in Seq(Packet) /\ wire \in Seq(Packet)
      /\ DOMAIN full = Filters
      /\ \A a \in 1..Len(loop) : loop[a].end => loop[a].kind = "fermat"
  BY DEF TypeOK
<1>3. /\ loop # <<>> /\ p \in Packet /\ p = loop[1]
      /\ p.end => (loop' = Tail(loop) /\ wire' = Append(wire, p) /\ full' = full)
      /\ ~p.end => Passed(p)
  BY <1>1, Passes
<1>4. UNCHANGED <<round, tosend, counter, egress, avail>>
  BY DEF Recirculate, ctrlVars
<1>5. CASE p.end
  <2>1. loop' = Tail(loop) /\ wire' = Append(wire, p) /\ full' = full
    BY <1>3, <1>5
  <2>2. PICK L \in Nat : L = Len(loop) /\ L >= 1
    BY <1>2, <1>3
  <2>3. wire' \in Seq(Packet)
    BY <1>2, <1>3, <2>1
  <2>4. loop' \in Seq(Packet) /\ Len(loop') = L - 1 /\ \A a \in 1..(L - 1) : loop'[a] = loop[a + 1]
    BY <1>2, <1>3, <2>1, <2>2
  <2>5. \A a \in 1..Len(loop') : loop'[a].end => loop'[a].kind = "fermat"
    BY <1>2, <2>2, <2>4
  <2> QED
    BY <1>4, <2>1, <2>3, <2>4, <2>5 DEF TypeOK
<1>6. CASE ~p.end
  <2>1. Passed(p)
    BY <1>3, <1>6
  <2>2. /\ Done(p) \in Packet /\ Done(p).kind = p.kind /\ On(p) \in Packet /\ On(p).end = p.end
    BY <1>2, <1>3, PacketAfter
  <2>3. wire' \in Seq(Packet)
    BY <1>2, <2>1, <2>2 DEF Passed
  <2>4. DOMAIN full' = Filters
    BY <1>2, <2>1 DEF Passed, Cleaning
  <2>5. /\ loop' \in Seq(Packet)
        /\ \A b \in 1..Len(loop') : Shifted(b) \/ Finished(p, b) \/ GoesOn(p, b)
    BY <2>1 DEF Passed, Queued
  <2>6. ASSUME NEW b \in 1..Len(loop'), loop'[b].end PROVE loop'[b].kind = "fermat"
    <3>1. CASE Shifted(b)
      BY <1>2, <2>6, <3>1 DEF Shifted
    <3>2. CASE Finished(p, b)
      BY <2>2, <3>2 DEF Finished
    <3>3. CASE GoesOn(p, b)
      BY <1>6, <2>2, <2>6, <3>3 DEF GoesOn
    <3> QED
      BY <2>5, <3>1, <3>2, <3>3
  <2> QED
    BY <1>4, <2>3, <2>4, <2>5, <2>6 DEF TypeOK
<1> QED
  BY <1>5, <1>6

LEMMA TypeDeliver == TypeOK /\ Deliver => TypeOK'
<1> SUFFICES ASSUME TypeOK, Deliver PROVE TypeOK'
  OBVIOUS
<1>1. wire \in Seq(Packet) /\ wire # <<>> /\ wire' = Tail(wire)
  BY DEF TypeOK, Deliver
<1>2. wire' \in Seq(Packet) /\ Head(wire) \in Packet
  BY <1>1
<1>3. Head(wire).kind \in Kinds
  BY <1>2 DEF Packet
<1>4. DOMAIN counter' = Kinds /\ \A k \in Kinds : DOMAIN counter'[k] = 0..(Size(k) - 1)
  BY <1>3 DEF TypeOK, Deliver
<1>5. DOMAIN egress' = 0..(EgressSize - 1)
  BY DEF TypeOK, Deliver
<1>6. avail' \subseteq Kinds
  BY <1>3 DEF TypeOK, Deliver
<1>7. UNCHANGED <<round, tosend, loop, full>>
  BY DEF Deliver, switchVars
<1> QED
  BY <1>2, <1>4, <1>5, <1>6, <1>7 DEF TypeOK

(* The queues hold packets and the arrays have their sizes.                *)
THEOREM TypeCorrect == Spec => []TypeOK
<1>1. Init => TypeOK
  BY DEF Init, TypeOK, Kinds
<1>2. TypeOK /\ [Next]_vars => TypeOK'
  <2> SUFFICES ASSUME TypeOK, [Next]_vars PROVE TypeOK'
    OBVIOUS
  <2>1. CASE UNCHANGED vars
    BY <2>1 DEF TypeOK, vars, switchVars, ctrlVars
  <2> QED
    BY <2>1, TypeFlip, TypeInject, TypeRecirculate, TypeDeliver DEF Next
<1> QED
  BY <1>1, <1>2, PTL DEF Spec
-----------------------------------------------------------------------------
(* What has left the loop for good, and goes on in it.                     *)
OutOK ==
    /\ \A a \in 1..Len(wire) : Leaves(wire[a])
    /\ \A a \in 1..Len(loop) : loop[a].end => Leaves(loop[a])

LongInv == OutOK /\ ~underrun

LEMMA LongNext == TypeOK /\ LongInv /\ [Next]_vars => LongInv'
<1> SUFFICES ASSUME TypeOK, LongInv, [Next]_vars PROVE LongInv'
  OBVIOUS
<1>1. /\ round \in Nat /\ tosend \in Seq(Packet) /\ loop \in Seq(Packet) /\ wire \in Seq(Packet)
      /\ \A a \in 1..Len(tosend) : ~tosend[a].end
      /\ \A a \in 1..Len(wire) : Leaves(wire[a])
      /\ \A a \in 1..Len(loop) : loop[a].end => Leaves(loop[a])
      /\ ~underrun
  BY DEF TypeOK, LongInv, OutOK
<1>2. CASE UNCHANGED vars
  BY <1>1, <1>2 DEF LongInv, OutOK, vars, switchVars, ctrlVars, Leaves
<1>3. CASE Flip
  BY <1>1, <1>3 DEF LongInv, OutOK, Flip, Leaves
<1>4. CASE Inject
  <2>1. tosend # <<>> /\ loop' = Append(loop, Head(tosend)) /\ wire' = wire /\ underrun' = underrun
    BY <1>4 DEF Inject, ctrlVars
  <2>2. Head(tosend) \in Packet /\ ~Head(tosend).end
    BY <1>1, <2>1
  <2>3. \A a \in 1..Len(loop') : loop'[a].end => Leaves(loop'[a])
    BY <1>1, <2>1, <2>2
  <2> QED
    BY <1>1, <2>1, <2>3 DEF LongInv, OutOK, Leaves
<1>5. CASE Recirculate
  <2>1. PICK p : p = Head(loop)
    OBVIOUS
  <2>2. /\ loop # <<>> /\ p \in Packet /\ p = loop[1]
        /\ p.end => (loop' = Tail(loop) /\ wire' = Append(wire, p) /\ full' = full)
        /\ ~p.end => Passed(p)
    BY <1>5, <2>1, Passes
  <2>3. underrun' = underrun
    BY <1>5 DEF Recirculate, ctrlVars
  <2>4. CASE p.end
    <3>1. Leaves(p) /\ loop' = Tail(loop) /\ wire' = Append(wire, p)
      BY <1>1, <2>2, <2>4
    <3>2. \A a \in 1..Len(wire') : Leaves(wire'[a])
      BY <1>1, <2>2, <3>1
    <3>3. \A a \in 1..Len(loop') : loop'[a].end => Leaves(loop'[a])
      BY <1>1, <2>2, <3>1
    <3> QED
      BY <1>1, <2>3, <3>2, <3>3 DEF LongInv, OutOK, Leaves
  <2>5. CASE ~p.end
    <3>1. Passed(p)
      BY <2>2, <2>5
    <3>2. /\ Done(p) \in Packet /\ Done(p).kind = p.kind /\ Done(p).index = p.index
          /\ On(p).end = p.end
      BY <1>1, <2>2, PacketAfter
    <3>3. Leaves(p) => Leaves(Done(p))
      BY <3>2 DEF Leaves
    <3>4. \A a \in 1..Len(wire') : Leaves(wire'[a])
      BY <1>1, <3>1, <3>2, <3>3 DEF Passed
    <3>5. ASSUME NEW b \in 1..Len(loop'), loop'[b].end PROVE Leaves(loop'[b])
      <4>1. Shifted(b) \/ Finished(p, b) \/ GoesOn(p, b)
        BY <3>1 DEF Passed, Queued
      <4>2. CASE Shifted(b)
        BY <1>1, <3>5, <4>2 DEF Shifted
      <4>3. CASE Finished(p, b)
        BY <3>3, <4>3 DEF Finished
      <4>4. CASE GoesOn(p, b)
        BY <2>5, <3>2, <3>5, <4>4 DEF GoesOn
      <4> QED
        BY <4>1, <4>2, <4>3, <4>4
    <3> QED
      BY <1>1, <2>3, <3>4, <3>5 DEF LongInv, OutOK, Leaves
  <2> QED
    BY <2>4, <2>5
<1>6. CASE Deliver
  <2>1. PICK p : p = Head(wire)
    OBVIOUS
  <2>2. /\ wire # <<>> /\ wire' = Tail(wire) /\ loop' = loop
        /\ underrun' = (underrun \/ (p.index % Size(p.kind)) - Carry[p.kind] < -1)
    BY <1>6, <2>1 DEF Deliver, switchVars
  <2>3. p \in Packet /\ Leaves(p)
    BY <1>1, <2>1, <2>2
  <2>4. (p.index % Size(p.kind)) - Carry[p.kind] >= -1
    BY <2>3, LongEnough DEF Packet, Leaves
  <2>5. ~underrun'
    <3>1. PICK x \in Int : x = p.index % Size(p.kind)
      BY <2>3, Lengths DEF Packet
    <3>2. Carry[p.kind] \in Int
      BY <2>3, Lengths DEF Packet
    <3>3. ~((p.index % Size(p.kind)) - Carry[p.kind] < -1)
      BY <2>4, <3>1, <3>2
    <3> QED
      BY <1>1, <2>2, <3>3, Zenon
  <2>6. \A a \in 1..Len(wire') : Leaves(wire'[a])
    BY <1>1, <2>2
  <2> QED
    BY <1>1, <2>2, <2>5, <2>6 DEF LongInv, OutOK, Leaves
<1> QED
  BY <1>2, <1>3, <1>4, <1>5, <1>6 DEF Next

LEMMA LongCorrect == Spec => []LongInv
<1>1. Init => LongInv
  BY DEF Init, LongInv, OutOK
<1> QED
  BY <1>1, LongNext, TypeCorrect, PTL DEF Spec

(* No packet makes the controller write below its arrays: whichever table  *)
(* entry outputs it, it has read at least as many indices as are written   *)
(* (the assertion of main.c:559).                                          *)
THEOREM LongPackets == Spec => []NoUnderrun
<1>1. LongInv => NoUnderrun
  BY DEF LongInv, NoUnderrun
<1> QED
  BY <1>1, LongCorrect, PTL
-----------------------------------------------------------------------------
(* The chain of a packet and how far it has come in it.                    *)
Ch(p) == p.index \div ChainLen(p.kind)
Off(p) == p.index % ChainLen(p.kind)
IsLast(p) == p.index % Size(p.kind) = Size(p.kind) - 1

LEMMA ChOff ==
  ASSUME NEW p \in Packet
  PROVE  Ch(p) \in Int /\ Off(p) \in 0..(ChainLen(p.kind) - 1) /\ ChainLen(p.kind) \in Nat \ {0}
<1>1. p.index \in Int /\ ChainLen(p.kind) \in Nat \ {0}
  BY Lengths DEF Packet
<1> QED
  BY <1>1, DivMod DEF Off, Ch

(* All packets are of this round.                                          *)
InRound ==
    /\ \A a \in 1..Len(tosend) : tosend[a].index \in Half(tosend[a].kind, round) /\ Off(tosend[a]) = 0
    /\ \A a \in 1..Len(loop) : loop[a].index \in Half(loop[a].kind, round)
    /\ \A a \in 1..Len(wire) : wire[a].index \in Half(wire[a].kind, round)

NothingYet == round = 0 => tosend = <<>> /\ loop = <<>> /\ wire = <<>> /\ avail = {}

(* Of two live packets of a sketch, p before q in the loop, the one of the *)
(* earlier chain is as far as the other, and farther when it is q.         *)
Steps(p, q) ==
    p.kind = q.kind =>
        /\ Ch(p) # Ch(q)
        /\ Ch(p) < Ch(q) => Off(p) >= Off(q)
        /\ Ch(q) < Ch(p) => Off(q) > Off(p)

InStep ==
    /\ \A a, b \in 1..Len(loop) :
          a < b /\ ~loop[a].end /\ ~loop[b].end => Steps(loop[a], loop[b])
    /\ \A a, b \in 1..Len(tosend) :
          a < b /\ tosend[a].kind = tosend[b].kind => Ch(tosend[a]) < Ch(tosend[b])
    /\ \A a \in 1..Len(loop), b \in 1..Len(tosend) :
          ~loop[a].end /\ loop[a].kind = tosend[b].kind => Ch(loop[a]) < Ch(tosend[b])

(* A packet with the greatest index is the last of its sketch.             *)
LastAlone ==
    /\ \A a \in 1..Len(wire) : IsLast(wire[a]) =>
          /\ \A b \in 1..Len(wire) : a < b => wire[b].kind # wire[a].kind
          /\ \A b \in 1..Len(loop) : loop[b].kind # wire[a].kind
          /\ \A b \in 1..Len(tosend) : tosend[b].kind # wire[a].kind
    /\ \A a \in 1..Len(loop) : loop[a].end /\ IsLast(loop[a]) =>
          /\ \A b \in 1..Len(loop) :
                (a < b \/ ~loop[b].end) => loop[b].kind # loop[a].kind
          /\ \A b \in 1..Len(tosend) : tosend[b].kind # loop[a].kind

(* No packet of an available sketch is under way.                          *)
AllIn ==
    /\ \A a \in 1..Len(tosend) : tosend[a].kind \notin avail
    /\ \A a \in 1..Len(loop) : loop[a].kind \notin avail
    /\ \A a \in 1..Len(wire) : wire[a].kind \notin avail

Order == InRound /\ NothingYet /\ InStep /\ LastAlone /\ AllIn

(* The switch flips when nothing is under way.                             *)
LEMMA FlipWhenEmpty ==
  ASSUME TypeOK, Order, Flip
  PROVE  tosend = <<>> /\ loop = <<>> /\ wire = <<>>
<1>1. round = 0 \/ avail = Kinds
  BY DEF Flip
<1>2. CASE round = 0
  BY <1>2 DEF Order, NothingYet
<1>3. CASE avail = Kinds
  <2>1. tosend \in Seq(Packet) /\ loop \in Seq(Packet) /\ wire \in Seq(Packet)
    BY DEF TypeOK
  <2>2. \A p \in Packet : p.kind \in avail
    BY <1>3 DEF Packet
  <2>3. 1 \notin 1..Len(tosend) /\ 1 \notin 1..Len(loop) /\ 1 \notin 1..Len(wire)
    BY <2>1, <2>2 DEF Order, AllIn
  <2> QED
    BY <2>1, <2>3
<1> QED
  BY <1>1, <1>2, <1>3

LEMMA OrderFlip == TypeOK /\ Order /\ Flip => Order'
<1> SUFFICES ASSUME TypeOK, Order, Flip PROVE Order'
  OBVIOUS
<1>1. PICK r \in Nat : r = round + 1
  BY DEF TypeOK
<1>2. /\ round' = r /\ tosend' = AllStarts(r) /\ loop' = loop /\ wire' = wire /\ avail' = {}
      /\ loop = <<>> /\ wire = <<>> /\ r # 0
  BY <1>1, FlipWhenEmpty DEF Flip, AllStarts, TypeOK
<1>3. Len(loop') = 0 /\ Len(wire') = 0
  BY <1>2
<1>4. ASSUME NEW a \in 1..Len(tosend')
      PROVE  \E k \in Kinds, c \in 1..Chains :
                /\ tosend'[a] = Sent(k, r, c) /\ a = First(k) + c
                /\ Sent(k, r, c).index = Start(k, r, c) /\ Sent(k, r, c).kind = k
  <2>1. PICK k \in Kinds, c \in 1..Chains : tosend'[a] = Sent(k, r, c) /\ a = First(k) + c
    BY <1>2, AllStartsInOrder
  <2> QED
    BY <2>1 DEF Sent
<1>5. InRound'
  <2>1. ASSUME NEW a \in 1..Len(tosend')
        PROVE  tosend'[a].index \in Half(tosend'[a].kind, r) /\ Off(tosend'[a]) = 0
    <3>1. PICK k \in Kinds, c \in 1..Chains :
                /\ tosend'[a] = Sent(k, r, c) /\ a = First(k) + c
                /\ Sent(k, r, c).index = Start(k, r, c) /\ Sent(k, r, c).kind = k
      BY <1>4
    <3> QED
      BY <3>1, StartsAtChains DEF Off
  <2> QED
    BY <1>2, <1>3, <2>1 DEF InRound, Off
<1>6. NothingYet'
  BY <1>2 DEF NothingYet
<1>7. InStep'
  <2>1. ASSUME NEW a \in 1..Len(tosend'), NEW b \in 1..Len(tosend'), a < b,
               tosend'[a].kind = tosend'[b].kind
        PROVE  Ch(tosend'[a]) < Ch(tosend'[b])
    <3>1. PICK k \in Kinds, c \in 1..Chains :
                /\ tosend'[a] = Sent(k, r, c) /\ a = First(k) + c
                /\ Sent(k, r, c).index = Start(k, r, c) /\ Sent(k, r, c).kind = k
      BY <1>4
    <3>2. PICK j \in Kinds, d \in 1..Chains :
                /\ tosend'[b] = Sent(j, r, d) /\ b = First(j) + d
                /\ Sent(j, r, d).index = Start(j, r, d) /\ Sent(j, r, d).kind = j
      BY <1>4
    <3>3. j = k
      BY <2>1, <3>1, <3>2
    <3>4. First(k) \in Int
      BY <3>1, Lengths DEF First
    <3>5. c < d
      BY <2>1, <3>1, <3>2, <3>3, <3>4
    <3>6. PICK g \in Int : g = HalfBase(k, r) \div ChainLen(k)
      <4>1. HalfBase(k, r) \in Int /\ ChainLen(k) \in Nat \ {0}
        BY Bases, Lengths
      <4> QED
        BY <4>1, DivMod
    <3>7. Ch(tosend'[a]) = g + c - 1 /\ Ch(tosend'[b]) = g + d - 1
      BY <3>1, <3>2, <3>3, <3>6, StartsAtChains DEF Ch
    <3> QED
      BY <3>5, <3>6, <3>7
  <2> QED
    BY <1>3, <2>1 DEF InStep, Ch
<1>8. LastAlone'
  BY <1>3 DEF LastAlone
<1>9. AllIn'
  BY <1>2 DEF AllIn
<1> QED
  BY <1>5, <1>6, <1>7, <1>8, <1>9 DEF Order

LEMMA OrderInject == TypeOK /\ Order /\ Inject => Order'
<1> SUFFICES ASSUME TypeOK, Order, Inject PROVE Order'
  OBVIOUS
<1>1. /\ tosend \in Seq(Packet) /\ loop \in Seq(Packet) /\ tosend # <<>>
      /\ tosend' = Tail(tosend) /\ loop' = Append(loop, Head(tosend))
      /\ wire' = wire /\ round' = round /\ avail' = avail /\ round \in Nat
      /\ \A a \in 1..Len(tosend) : ~tosend[a].end
  BY DEF TypeOK, Inject, ctrlVars
<1>2. PICK N \in Nat, L \in Nat : N = Len(tosend) /\ N >= 1 /\ L = Len(loop)
  BY <1>1
<1>3. PICK h \in Packet : h = tosend[1]
  BY <1>1
<1>4. /\ Len(tosend') = N - 1
      /\ \A a \in 1..(N - 1) : tosend'[a] = tosend[a + 1] /\ a + 1 \in 1..N
      /\ 1 \in 1..N
  BY <1>1, <1>2
<1>5. /\ Len(loop') = L + 1
      /\ \A a \in 1..L : loop'[a] = loop[a]
      /\ loop'[L + 1] = h /\ ~h.end
  BY <1>1, <1>2, <1>3
<1>6. InRound'
  <2>1. \A a \in 1..Len(tosend') :
           tosend'[a].index \in Half(tosend'[a].kind, round) /\ Off(tosend'[a]) = 0
    BY <1>2, <1>4 DEF Order, InRound
  <2>2. ASSUME NEW a \in 1..Len(loop') PROVE loop'[a].index \in Half(loop'[a].kind, round)
    <3>1. CASE a \in 1..L
      BY <1>2, <1>5, <3>1 DEF Order, InRound
    <3>2. CASE a = L + 1
      BY <1>2, <1>3, <1>4, <1>5, <3>2 DEF Order, InRound
    <3> QED
      BY <1>2, <1>5, <3>1, <3>2
  <2>3. \A a \in 1..Len(wire') : wire'[a].index \in Half(wire'[a].kind, round)
    BY <1>1 DEF Order, InRound
  <2> QED
    BY <1>1, <2>1, <2>2, <2>3 DEF InRound, Off
<1>7. NothingYet'
  BY <1>1 DEF Order, NothingYet
<1>8. InStep'
  <2>0. /\ \A a, b \in 1..L :
              a < b /\ ~loop[a].end /\ ~loop[b].end => Steps(loop[a], loop[b])
        /\ \A a, b \in 1..N :
              a < b /\ tosend[a].kind = tosend[b].kind => Ch(tosend[a]) < Ch(tosend[b])
        /\ \A a \in 1..L, b \in 1..N :
              ~loop[a].end /\ loop[a].kind = tosend[b].kind => Ch(loop[a]) < Ch(tosend[b])
    BY <1>2 DEF Order, InStep
  <2>1. ASSUME NEW a \in 1..Len(loop'), NEW b \in 1..Len(loop'), a < b,
               ~loop'[a].end, ~loop'[b].end
        PROVE  Steps(loop'[a], loop'[b])
    <3>1. CASE b \in 1..L
      BY <1>2, <1>5, <2>0, <2>1, <3>1
    <3>2. CASE b = L + 1
      <4>1. a \in 1..L /\ loop'[a] = loop[a] /\ loop'[b] = h /\ ~loop[a].end
        BY <1>2, <1>5, <2>1, <3>2
      <4>2. PICK p \in Packet : p = loop[a]
        BY <1>1, <1>2, <4>1
      <4>3. p.kind = h.kind => Ch(p) < Ch(h)
        BY <1>2, <1>3, <1>4, <2>0, <4>1, <4>2
      <4>4. Off(h) = 0
        BY <1>2, <1>3, <1>4 DEF Order, InRound
      <4>5. Off(p) >= 0 /\ Off(p) \in Int /\ Ch(p) \in Int /\ Ch(h) \in Int
        BY <1>3, <4>2, ChOff
      <4>6. Steps(p, h)
        BY <4>3, <4>4, <4>5 DEF Steps
      <4> QED
        BY <4>1, <4>2, <4>6
    <3> QED
      BY <1>2, <1>5, <3>1, <3>2
  <2>2. ASSUME NEW a \in 1..Len(tosend'), NEW b \in 1..Len(tosend'), a < b,
               tosend'[a].kind = tosend'[b].kind
        PROVE  Ch(tosend'[a]) < Ch(tosend'[b])
    <3>1. /\ tosend'[a] = tosend[a + 1] /\ a + 1 \in 1..N
          /\ tosend'[b] = tosend[b + 1] /\ b + 1 \in 1..N /\ a + 1 < b + 1
      BY <1>2, <1>4, <2>2
    <3> QED
      BY <2>0, <2>2, <3>1
  <2>3. ASSUME NEW a \in 1..Len(loop'), NEW b \in 1..Len(tosend'),
               ~loop'[a].end, loop'[a].kind = tosend'[b].kind
        PROVE  Ch(loop'[a]) < Ch(tosend'[b])
    <3>1. tosend'[b] = tosend[b + 1] /\ b + 1 \in 1..N /\ 1 < b + 1
      BY <1>2, <1>4
    <3>2. CASE a \in 1..L
      BY <1>5, <2>0, <2>3, <3>1, <3>2
    <3>3. CASE a = L + 1
      BY <1>3, <1>4, <1>5, <2>0, <2>3, <3>1, <3>3
    <3> QED
      BY <1>2, <1>5, <3>2, <3>3
  <2> QED
    BY <2>1, <2>2, <2>3 DEF InStep, Steps, Ch, Off
<1>9. LastAlone'
  <2>0. /\ \A a \in 1..Len(wire) : IsLast(wire[a]) =>
              /\ \A b \in 1..Len(wire) : a < b => wire[b].kind # wire[a].kind
              /\ \A b \in 1..L : loop[b].kind # wire[a].kind
              /\ \A b \in 1..N : tosend[b].kind # wire[a].kind
        /\ \A a \in 1..L : loop[a].end /\ IsLast(loop[a]) =>
              /\ \A b \in 1..L : (a < b \/ ~loop[b].end) => loop[b].kind # loop[a].kind
              /\ \A b \in 1..N : tosend[b].kind # loop[a].kind
    BY <1>2 DEF Order, LastAlone
  <2>1. \A b \in 1..Len(tosend') : \E c \in 1..N : tosend'[b] = tosend[c]
    BY <1>2, <1>4
  <2>2. \A b \in 1..Len(loop') : (b \in 1..L /\ loop'[b] = loop[b]) \/ (b = L + 1 /\ loop'[b] = tosend[1])
    BY <1>2, <1>3, <1>5
  <2>3. ASSUME NEW a \in 1..Len(wire'), IsLast(wire'[a])
        PROVE  /\ \A b \in 1..Len(wire') : a < b => wire'[b].kind # wire'[a].kind
               /\ \A b \in 1..Len(loop') : loop'[b].kind # wire'[a].kind
               /\ \A b \in 1..Len(tosend') : tosend'[b].kind # wire'[a].kind
    BY <1>1, <1>4, <2>0, <2>1, <2>2, <2>3
  <2>4. ASSUME NEW a \in 1..Len(loop'), loop'[a].end, IsLast(loop'[a])
        PROVE  /\ \A b \in 1..Len(loop') :
                     (a < b \/ ~loop'[b].end) => loop'[b].kind # loop'[a].kind
               /\ \A b \in 1..Len(tosend') : tosend'[b].kind # loop'[a].kind
    <3>1. a \in 1..L /\ loop'[a] = loop[a]
      BY <1>3, <1>5, <2>2, <2>4
    <3>2. ASSUME NEW b \in 1..Len(loop'), a < b \/ ~loop'[b].end
          PROVE  loop'[b].kind # loop'[a].kind
      BY <1>4, <2>0, <2>2, <2>4, <3>1, <3>2
    <3>3. \A b \in 1..Len(tosend') : tosend'[b].kind # loop'[a].kind
      BY <2>0, <2>1, <2>4, <3>1
    <3> QED
      BY <3>2, <3>3
  <2> QED
    BY <2>3, <2>4 DEF LastAlone, IsLast
<1>10. AllIn'
  <2>1. \A a \in 1..Len(loop') : loop'[a].kind \notin avail
    BY <1>2, <1>3, <1>4, <1>5 DEF Order, AllIn
  <2>2. \A a \in 1..Len(tosend') : tosend'[a].kind \notin avail
    BY <1>2, <1>4 DEF Order, AllIn
  <2> QED
    BY <1>1, <2>1, <2>2 DEF Order, AllIn
<1> QED
  BY <1>6, <1>7, <1>8, <1>9, <1>10 DEF Order

(* Behind a live packet with the greatest index no other is.               *)
LEMMA NoneBehind ==
  ASSUME TypeOK, Order, loop # <<>>, ~loop[1].end, IsLast(loop[1])
  PROVE  /\ Off(loop[1]) = ChainLen(loop[1].kind) - 1
         /\ \A b \in 2..Len(loop) : ~loop[b].end => loop[b].kind # loop[1].kind
         /\ \A b \in 1..Len(tosend) : tosend[b].kind # loop[1].kind
<1>1. /\ tosend \in Seq(Packet) /\ loop \in Seq(Packet) /\ round \in Nat /\ 1 \in 1..Len(loop)
  BY DEF TypeOK
<1>2. PICK p \in Packet : p = loop[1]
  BY <1>1
<1>3. p.index \in Half(p.kind, round) /\ p.kind \in Kinds
  BY <1>1, <1>2 DEF Order, InRound, Packet
<1>4. Off(p) = ChainLen(p.kind) - 1
  BY <1>1, <1>2, <1>3, Greatest DEF Off, IsLast
<1>5. ASSUME NEW q \in Packet, q.kind = p.kind, q.index \in Half(q.kind, round)
      PROVE  Ch(q) <= Ch(p)
  BY <1>1, <1>2, <1>3, <1>5, Greatest DEF Ch, IsLast
<1>6. ASSUME NEW b \in 2..Len(loop), ~loop[b].end, loop[b].kind = p.kind PROVE FALSE
  <2>1. PICK q \in Packet : q = loop[b] /\ b \in 1..Len(loop)
    BY <1>1
  <2>2. Ch(q) <= Ch(p)
    BY <1>5, <1>6, <2>1 DEF Order, InRound
  <2>3. Steps(p, q)
    BY <1>1, <1>2, <1>6, <2>1 DEF Order, InStep
  <2>4. Ch(q) \in Int /\ Ch(p) \in Int
    BY <1>2, <2>1, ChOff
  <2>5. Off(q) > Off(p)
    BY <1>6, <2>1, <2>2, <2>3, <2>4 DEF Steps
  <2>6. Off(q) \in 0..(ChainLen(p.kind) - 1)
    <3>1. q.kind = p.kind
      BY <1>6, <2>1
    <3> QED
      BY <2>1, <3>1, ChOff
  <2>7. ChainLen(p.kind) \in Int
    BY <1>2, ChOff
  <2> QED
    BY <1>4, <2>5, <2>6, <2>7
<1>7. ASSUME NEW b \in 1..Len(tosend), tosend[b].kind = p.kind PROVE FALSE
  <2>1. PICK q \in Packet : q = tosend[b]
    BY <1>1
  <2>2. Ch(q) <= Ch(p)
    BY <1>5, <1>7, <2>1 DEF Order, InRound
  <2>3. Ch(p) < Ch(q)
    BY <1>1, <1>2, <1>7, <2>1 DEF Order, InStep
  <2>4. Ch(q) \in Int /\ Ch(p) \in Int
    BY <1>2, <2>1, ChOff
  <2> QED
    BY <2>2, <2>3, <2>4
<1> QED
  BY <1>2, <1>4, <1>6, <1>7

LEMMA OrderEnd ==
  ASSUME TypeOK, Order, Recirculate, loop[1].end
  PROVE  Order'
<1>1. /\ tosend \in Seq(Packet) /\ loop \in Seq(Packet) /\ wire \in Seq(Packet) /\ round \in Nat
      /\ loop # <<>> /\ loop' = Tail(loop) /\ wire' = Append(wire, loop[1])
      /\ round' = round /\ tosend' = tosend /\ avail' = avail /\ loop[1] \in Packet
  BY Passes DEF TypeOK, Recirculate, ctrlVars
<1>2. PICK L \in Nat, W \in Nat : L = Len(loop) /\ L >= 1 /\ W = Len(wire)
  BY <1>1
<1>3. /\ Len(loop') = L - 1 /\ 1 \in 1..L
      /\ \A a \in 1..(L - 1) : loop'[a] = loop[a + 1] /\ a + 1 \in 1..L /\ 1 < a + 1
  BY <1>1, <1>2
<1>4. /\ Len(wire') = W + 1 /\ wire'[W + 1] = loop[1]
      /\ \A a \in 1..W : wire'[a] = wire[a]
  BY <1>1, <1>2
<1>5. \A a \in 1..Len(wire') : (a \in 1..W /\ wire'[a] = wire[a]) \/ (a = W + 1 /\ wire'[a] = loop[1])
  BY <1>2, <1>4
<1>6. InRound'
  BY <1>1, <1>2, <1>3, <1>5 DEF Order, InRound, Off
<1>7. NothingYet'
  BY <1>1 DEF Order, NothingYet
<1>8. InStep'
  <2>1. /\ \A a, b \in 1..L :
              a < b /\ ~loop[a].end /\ ~loop[b].end => Steps(loop[a], loop[b])
        /\ \A a \in 1..L, b \in 1..Len(tosend) :
              ~loop[a].end /\ loop[a].kind = tosend[b].kind => Ch(loop[a]) < Ch(tosend[b])
    BY <1>2 DEF Order, InStep
  <2>2. ASSUME NEW a \in 1..Len(loop'), NEW b \in 1..Len(loop'), a < b,
               ~loop'[a].end, ~loop'[b].end
        PROVE  Steps(loop'[a], loop'[b])
    BY <1>2, <1>3, <2>1, <2>2
  <2>3. ASSUME NEW a \in 1..Len(loop'), NEW b \in 1..Len(tosend'),
               ~loop'[a].end, loop'[a].kind = tosend'[b].kind
        PROVE  Ch(loop'[a]) < Ch(tosend'[b])
    BY <1>1, <1>2, <1>3, <2>1, <2>3
  <2> QED
    BY <1>1, <2>2, <2>3 DEF Order, InStep, Steps, Ch, Off
<1>9. LastAlone'
  <2>0. /\ \A a \in 1..W : IsLast(wire[a]) =>
              /\ \A b \in 1..W : a < b => wire[b].kind # wire[a].kind
              /\ \A b \in 1..L : loop[b].kind # wire[a].kind
              /\ \A b \in 1..Len(tosend) : tosend[b].kind # wire[a].kind
        /\ \A a \in 1..L : loop[a].end /\ IsLast(loop[a]) =>
              /\ \A b \in 1..L : (a < b \/ ~loop[b].end) => loop[b].kind # loop[a].kind
              /\ \A b \in 1..Len(tosend) : tosend[b].kind # loop[a].kind
    BY <1>2 DEF Order, LastAlone
  <2>1. ASSUME NEW a \in 1..Len(wire'), IsLast(wire'[a])
        PROVE  /\ \A b \in 1..Len(wire') : a < b => wire'[b].kind # wire'[a].kind
               /\ \A b \in 1..Len(loop') : loop'[b].kind # wire'[a].kind
               /\ \A b \in 1..Len(tosend') : tosend'[b].kind # wire'[a].kind
    <3>1. CASE a \in 1..W /\ wire'[a] = wire[a]
      <4>1. ASSUME NEW b \in 1..Len(wire'), a < b PROVE wire'[b].kind # wire'[a].kind
        <5>1. IsLast(wire[a])
          BY <2>1, <3>1
        <5>2. CASE b \in 1..W /\ wire'[b] = wire[b]
          BY <2>0, <3>1, <4>1, <5>1, <5>2
        <5>3. CASE b = W + 1 /\ wire'[b] = loop[1]
          BY <1>3, <2>0, <3>1, <5>1, <5>3
        <5> QED
          BY <1>5, <5>2, <5>3
      <4>2. ASSUME NEW b \in 1..Len(loop') PROVE loop'[b].kind # wire'[a].kind
        BY <1>2, <1>3, <2>0, <2>1, <3>1, <4>2
      <4> QED
        BY <1>1, <2>0, <2>1, <3>1, <4>1, <4>2
    <3>2. CASE a = W + 1 /\ wire'[a] = loop[1]
      <4>1. \A b \in 1..Len(wire') : ~(a < b)
        BY <1>2, <1>4, <3>2
      <4>2. ASSUME NEW b \in 1..Len(loop') PROVE loop'[b].kind # wire'[a].kind
        BY <1>2, <1>3, <2>0, <2>1, <3>2, <4>2
      <4> QED
        BY <1>1, <1>3, <2>0, <2>1, <3>2, <4>1, <4>2
    <3> QED
      BY <1>5, <3>1, <3>2
  <2>2. ASSUME NEW a \in 1..Len(loop'), loop'[a].end, IsLast(loop'[a])
        PROVE  /\ \A b \in 1..Len(loop') :
                     (a < b \/ ~loop'[b].end) => loop'[b].kind # loop'[a].kind
               /\ \A b \in 1..Len(tosend') : tosend'[b].kind # loop'[a].kind
    <3>1. loop'[a] = loop[a + 1] /\ a + 1 \in 1..L
      BY <1>2, <1>3
    <3>2. ASSUME NEW b \in 1..Len(loop'), a < b \/ ~loop'[b].end
          PROVE  loop'[b].kind # loop'[a].kind
      <4>1. loop'[b] = loop[b + 1] /\ b + 1 \in 1..L /\ (a < b => a + 1 < b + 1)
        BY <1>2, <1>3
      <4> QED
        BY <2>0, <2>2, <3>1, <3>2, <4>1
    <3> QED
      BY <1>1, <2>0, <2>2, <3>1, <3>2
  <2> QED
    BY <2>1, <2>2 DEF LastAlone, IsLast
<1>10. AllIn'
  BY <1>1, <1>2, <1>3, <1>5 DEF Order, AllIn
<1> QED
  BY <1>6, <1>7, <1>8, <1>9, <1>10 DEF Order

(* What a pass does to the live packet p at the head, as places in queues. *)
LEMMA PassFacts ==
  ASSUME TypeOK, Recirculate, NEW p, p = loop[1], ~p.end
  PROVE  /\ p \in Packet /\ loop # <<>> /\ p.end = FALSE /\ 1 \in 1..Len(loop)
         /\ Len(loop) \in Nat /\ Len(loop') \in Nat
         /\ Done(p) \in Packet /\ Done(p).kind = p.kind /\ Done(p).index = p.index
         /\ Done(p).end <=> p.kind = "fermat"
         /\ Leaves(Done(p)) <=> Leaves(p)
         /\ On(p) \in Packet /\ On(p).kind = p.kind /\ On(p).index = p.index + 1 /\ ~On(p).end
         /\ Passed(p) /\ Queued(p)
         /\ \A b \in 1..Len(loop') : Shifted(b) \/ Finished(p, b) \/ GoesOn(p, b)
         /\ round' = round /\ tosend' = tosend /\ avail' = avail
         /\ counter' = counter /\ egress' = egress
<1>1. p = Head(loop) /\ loop # <<>> /\ p \in Packet /\ loop \in Seq(Packet)
  BY Passes DEF TypeOK
<1>2. Passed(p)
  BY <1>1, Passes
<1>3. round \in Nat /\ p.end = FALSE
  BY <1>1 DEF TypeOK, Packet
<1>4. Queued(p) /\ loop' \in Seq(Packet)
  BY <1>2 DEF Passed, Queued
<1>5. /\ Done(p) \in Packet /\ Done(p).kind = p.kind /\ Done(p).index = p.index
      /\ Done(p).end <=> p.kind = "fermat"
      /\ On(p) \in Packet /\ On(p).kind = p.kind /\ On(p).index = p.index + 1 /\ ~On(p).end
  BY <1>1, <1>3, PacketAfter
<1>6. Leaves(Done(p)) <=> Leaves(p)
  BY <1>5 DEF Leaves
<1>7. \A b \in 1..Len(loop') : Shifted(b) \/ Finished(p, b) \/ GoesOn(p, b)
  BY <1>4 DEF Queued
<1>8. UNCHANGED <<round, tosend, avail, counter, egress>>
  BY DEF Recirculate, ctrlVars
<1>9. Len(loop) \in Nat /\ Len(loop') \in Nat /\ 1 \in 1..Len(loop)
  BY <1>1, <1>4
<1> QED
  BY <1>1, <1>2, <1>3, <1>4, <1>5, <1>6, <1>7, <1>8, <1>9

LEMMA OnInChain ==
  ASSUME TypeOK, Order, Recirculate, NEW p, p = loop[1], ~p.end, p.index \notin StopAt(p.kind)
  PROVE  /\ On(p).index \in Half(p.kind, round)
         /\ Ch(On(p)) = Ch(p) /\ Off(On(p)) = Off(p) + 1
         /\ Off(p) # ChainLen(p.kind) - 1
<1>1. /\ p \in Packet /\ On(p).kind = p.kind /\ On(p).index = p.index + 1 /\ 1 \in 1..Len(loop)
  BY PassFacts
<1>2. p.index \in Half(p.kind, round) /\ p.kind \in Kinds /\ round \in Nat
  BY <1>1 DEF Order, InRound, TypeOK, Packet
<1>3. p.index % ChainLen(p.kind) # ChainLen(p.kind) - 1
  BY <1>2, StopIsChainEnd
<1>4. /\ p.index + 1 \in Half(p.kind, round)
      /\ (p.index + 1) % ChainLen(p.kind) = (p.index % ChainLen(p.kind)) + 1
      /\ (p.index + 1) \div ChainLen(p.kind) = p.index \div ChainLen(p.kind)
  BY <1>2, <1>3, NextInHalf
<1> QED
  BY <1>1, <1>3, <1>4 DEF Ch, Off

LEMMA InStepPass ==
  ASSUME TypeOK, Order, Recirculate, ~loop[1].end
  PROVE  InStep'
<1>1. PICK p : p = loop[1] /\ ~p.end
  OBVIOUS
<1>2. /\ p \in Packet /\ Done(p).kind = p.kind /\ (Done(p).end <=> p.kind = "fermat")
      /\ On(p).kind = p.kind /\ ~On(p).end
      /\ 1 \in 1..Len(loop) /\ tosend' = tosend
      /\ \A b \in 1..Len(loop') : Shifted(b) \/ Finished(p, b) \/ GoesOn(p, b)
  BY <1>1, PassFacts
<1>3. PICK L \in Nat : L = Len(loop)
  BY <1>1, PassFacts
<1>4. /\ \A a, b \in 1..L :
           a < b /\ ~loop[a].end /\ ~loop[b].end => Steps(loop[a], loop[b])
      /\ \A a \in 1..L, b \in 1..Len(tosend) :
           ~loop[a].end /\ loop[a].kind = tosend[b].kind => Ch(loop[a]) < Ch(tosend[b])
      /\ loop \in Seq(Packet)
  BY <1>3 DEF Order, InStep, TypeOK
<1>5. p.index \notin StopAt(p.kind) => Ch(On(p)) = Ch(p) /\ Off(On(p)) = Off(p) + 1
  BY <1>1, OnInChain
<1>6. ASSUME NEW b \in 1..Len(loop'), ~loop'[b].end
      PROVE  (Shifted(b) /\ b + 1 \in 2..L /\ 1 < b + 1) \/ GoesOn(p, b)
  <2>1. ~Finished(p, b)
    BY <1>2, <1>6 DEF Finished
  <2> QED
    BY <1>2, <1>3, <2>1 DEF Shifted
<1>7. ASSUME NEW a \in 1..Len(loop'), NEW b \in 1..Len(loop'), a < b,
             ~loop'[a].end, ~loop'[b].end
      PROVE  Steps(loop'[a], loop'[b])
  <2>1. Shifted(a) /\ a + 1 \in 1..L /\ 1 < a + 1
    <3>1. ~GoesOn(p, a)
      BY <1>7 DEF GoesOn
    <3> QED
      BY <1>3, <1>6, <1>7, <3>1
  <2>2. CASE Shifted(b) /\ b + 1 \in 1..L
    BY <1>4, <1>7, <2>1, <2>2 DEF Shifted
  <2>3. CASE GoesOn(p, b)
    <3>1. PICK q \in Packet : q = loop[a + 1] /\ loop'[a] = q
      BY <1>3, <1>4, <2>1 DEF Shifted
    <3>2. Steps(p, q)
      BY <1>1, <1>2, <1>3, <1>4, <1>7, <2>1, <3>1
    <3>3. Ch(On(p)) = Ch(p) /\ Off(On(p)) = Off(p) + 1 /\ loop'[b] = On(p)
      BY <1>5, <2>3 DEF GoesOn
    <3>4. Ch(p) \in Int /\ Off(p) \in Int /\ Ch(q) \in Int /\ Off(q) \in Int
      BY <1>2, <3>1, ChOff
    <3>5. Steps(q, On(p))
      BY <1>2, <3>2, <3>3, <3>4 DEF Steps
    <3> QED
      BY <3>1, <3>3, <3>5
  <2> QED
    BY <1>3, <1>6, <1>7, <2>2, <2>3
<1>8. ASSUME NEW a \in 1..Len(loop'), NEW b \in 1..Len(tosend'),
             ~loop'[a].end, loop'[a].kind = tosend'[b].kind
      PROVE  Ch(loop'[a]) < Ch(tosend'[b])
  <2>1. CASE Shifted(a) /\ a + 1 \in 1..L
    BY <1>2, <1>4, <1>8, <2>1 DEF Shifted
  <2>2. CASE GoesOn(p, a)
    BY <1>1, <1>2, <1>3, <1>4, <1>5, <1>8, <2>2 DEF GoesOn
  <2> QED
    BY <1>3, <1>6, <1>8, <2>1, <2>2
<1> QED
  BY <1>2, <1>7, <1>8 DEF Order, InStep, Steps, Ch, Off

LEMMA LastAlonePass ==
  ASSUME TypeOK, Order, Recirculate, ~loop[1].end
  PROVE  LastAlone'
<1>1. PICK p : p = loop[1] /\ ~p.end
  OBVIOUS
<1>2. /\ p \in Packet /\ Done(p).kind = p.kind /\ Done(p).index = p.index
      /\ Done(p).end <=> p.kind = "fermat"
      /\ On(p).kind = p.kind /\ ~On(p).end
      /\ 1 \in 1..Len(loop) /\ tosend' = tosend /\ loop # <<>>
      /\ \A b \in 1..Len(loop') : Shifted(b) \/ Finished(p, b) \/ GoesOn(p, b)
  BY <1>1, PassFacts
<1>3. /\ loop \in Seq(Packet) /\ wire \in Seq(Packet)
      /\ \A a \in 1..Len(loop) : loop[a].end => loop[a].kind = "fermat"
  BY DEF TypeOK
<1>4. PICK L \in Nat, W \in Nat : L = Len(loop) /\ W = Len(wire) /\ Len(loop') \in Nat
  BY <1>1, <1>3, PassFacts
<1>5. /\ \A a \in 1..W : IsLast(wire[a]) =>
            /\ \A b \in 1..W : a < b => wire[b].kind # wire[a].kind
            /\ \A b \in 1..L : loop[b].kind # wire[a].kind
            /\ \A b \in 1..Len(tosend) : tosend[b].kind # wire[a].kind
      /\ \A a \in 1..L : loop[a].end /\ IsLast(loop[a]) =>
            /\ \A b \in 1..L : (a < b \/ ~loop[b].end) => loop[b].kind # loop[a].kind
            /\ \A b \in 1..Len(tosend) : tosend[b].kind # loop[a].kind
  BY <1>4 DEF Order, LastAlone
<1>6. IsLast(Done(p)) <=> IsLast(p)
  BY <1>2 DEF IsLast
<1>7. ASSUME NEW b \in 1..Len(loop')
      PROVE  \/ b + 1 \in 2..L /\ b + 1 \in 1..L /\ loop'[b] = loop[b + 1]
             \/ loop'[b].kind = p.kind
  BY <1>2, <1>4 DEF Shifted, Finished, GoesOn
<1>8. wire' = (IF p.kind \in Filters /\ Leaves(p) THEN Append(wire, Done(p)) ELSE wire)
  BY <1>1, PassFacts DEF Passed
<1>9. ASSUME NEW a \in 1..Len(wire')
      PROVE  \/ a \in 1..W /\ wire'[a] = wire[a]
             \/ a = W + 1 /\ a = Len(wire') /\ wire'[a] = Done(p) /\ p.kind \in Filters
  BY <1>3, <1>4, <1>8
<1>10. ASSUME IsLast(p)
       PROVE  /\ \A b \in 1..Len(loop') : ~GoesOn(p, b)
              /\ \A b \in 2..L : ~loop[b].end => loop[b].kind # p.kind
              /\ \A b \in 1..Len(tosend) : tosend[b].kind # p.kind
  <2>1. /\ Off(p) = ChainLen(p.kind) - 1
        /\ \A b \in 2..L : ~loop[b].end => loop[b].kind # p.kind
        /\ \A b \in 1..Len(tosend) : tosend[b].kind # p.kind
    BY <1>1, <1>2, <1>4, <1>10, NoneBehind
  <2>2. p.index \in StopAt(p.kind)
    BY <1>1, <2>1, OnInChain
  <2> QED
    BY <2>1, <2>2 DEF GoesOn
<1>11. "fermat" \notin Filters
  BY DEF Filters
<1>12. ASSUME NEW a \in 1..Len(wire'), IsLast(wire'[a])
       PROVE  /\ \A b \in 1..Len(wire') : a < b => wire'[b].kind # wire'[a].kind
              /\ \A b \in 1..Len(loop') : loop'[b].kind # wire'[a].kind
              /\ \A b \in 1..Len(tosend') : tosend'[b].kind # wire'[a].kind
  <2>1. CASE a \in 1..W /\ wire'[a] = wire[a]
    <3>1. IsLast(wire[a])
      BY <1>12, <2>1
    <3>2. p.kind # wire[a].kind
      BY <1>1, <1>2, <1>4, <1>5, <2>1, <3>1
    <3>3. ASSUME NEW b \in 1..Len(wire'), a < b PROVE wire'[b].kind # wire'[a].kind
      <4>1. CASE b \in 1..W /\ wire'[b] = wire[b]
        BY <1>5, <2>1, <3>1, <3>3, <4>1
      <4>2. CASE wire'[b] = Done(p)
        BY <1>2, <2>1, <3>2, <4>2
      <4> QED
        BY <1>9, <4>1, <4>2
    <3>4. ASSUME NEW b \in 1..Len(loop') PROVE loop'[b].kind # wire'[a].kind
      BY <1>5, <1>7, <2>1, <3>1, <3>2
    <3>5. \A b \in 1..Len(tosend') : tosend'[b].kind # wire'[a].kind
      BY <1>2, <1>5, <2>1, <3>1
    <3> QED
      BY <3>3, <3>4, <3>5
  <2>2. CASE a = W + 1 /\ a = Len(wire') /\ wire'[a] = Done(p) /\ p.kind \in Filters
    <3>1. IsLast(p) /\ wire'[a].kind = p.kind /\ p.kind # "fermat"
      BY <1>2, <1>6, <1>11, <1>12, <2>2
    <3>2. \A b \in 1..Len(wire') : ~(a < b)
      BY <1>4, <2>2
    <3>3. ASSUME NEW b \in 1..Len(loop') PROVE loop'[b].kind # p.kind
      <4>1. CASE Shifted(b)
        <5>1. b + 1 \in 2..L /\ b + 1 \in 1..L /\ loop'[b] = loop[b + 1]
          BY <1>4, <4>1 DEF Shifted
        <5>2. CASE loop[b + 1].end
          BY <1>3, <1>4, <3>1, <5>1, <5>2
        <5>3. CASE ~loop[b + 1].end
          BY <1>10, <3>1, <5>1, <5>3
        <5> QED
          BY <5>2, <5>3
      <4>2. ~Finished(p, b)
        BY <3>1 DEF Finished
      <4>3. ~GoesOn(p, b)
        BY <1>10, <3>1
      <4> QED
        BY <1>2, <4>1, <4>2, <4>3
    <3> QED
      BY <1>2, <1>10, <3>1, <3>2, <3>3
  <2> QED
    BY <1>9, <2>1, <2>2
<1>13. ASSUME NEW a \in 1..Len(loop'), loop'[a].end, IsLast(loop'[a])
       PROVE  /\ \A b \in 1..Len(loop') :
                    (a < b \/ ~loop'[b].end) => loop'[b].kind # loop'[a].kind
              /\ \A b \in 1..Len(tosend') : tosend'[b].kind # loop'[a].kind
  <2>1. CASE Shifted(a)
    <3>1. /\ loop'[a] = loop[a + 1] /\ a + 1 \in 1..L
          /\ loop[a + 1].end /\ IsLast(loop[a + 1])
      BY <1>4, <1>13, <2>1 DEF Shifted
    <3>2. p.kind # loop[a + 1].kind
      BY <1>1, <1>2, <1>4, <1>5, <3>1
    <3>3. ASSUME NEW b \in 1..Len(loop'), a < b \/ ~loop'[b].end
          PROVE  loop'[b].kind # loop'[a].kind
      <4>1. CASE b + 1 \in 1..L /\ loop'[b] = loop[b + 1]
        <5>1. a + 1 < b + 1 \/ ~loop[b + 1].end
          BY <3>3, <4>1
        <5> QED
          BY <1>5, <3>1, <4>1, <5>1
      <4>2. CASE loop'[b].kind = p.kind
        BY <3>1, <3>2, <4>2
      <4> QED
        BY <1>7, <4>1, <4>2
    <3>4. \A b \in 1..Len(tosend') : tosend'[b].kind # loop'[a].kind
      BY <1>2, <1>5, <3>1
    <3> QED
      BY <3>3, <3>4
  <2>2. CASE Finished(p, a)
    <3>1. IsLast(p) /\ loop'[a].kind = p.kind /\ a = L
      BY <1>2, <1>4, <1>6, <1>13, <2>2 DEF Finished
    <3>2. ASSUME NEW b \in 1..Len(loop'), a < b \/ ~loop'[b].end
          PROVE  loop'[b].kind # p.kind
      <4>1. CASE Shifted(b)
        <5>1. b + 1 \in 2..L /\ loop'[b] = loop[b + 1] /\ ~(a < b)
          BY <1>4, <3>1, <4>1 DEF Shifted
        <5> QED
          BY <1>10, <3>1, <3>2, <5>1
      <4>2. ~Finished(p, b)
        BY <1>2, <1>4, <3>1, <3>2, <2>2 DEF Finished
      <4>3. ~GoesOn(p, b)
        BY <1>10, <3>1
      <4> QED
        BY <1>2, <4>1, <4>2, <4>3
    <3> QED
      BY <1>2, <1>10, <3>1, <3>2
  <2>3. ~GoesOn(p, a)
    BY <1>2, <1>13 DEF GoesOn
  <2> QED
    BY <1>2, <2>1, <2>2, <2>3
<1> QED
  BY <1>12, <1>13 DEF LastAlone, IsLast

LEMMA OrderRecirculate == TypeOK /\ Order /\ Recirculate => Order'
<1> SUFFICES ASSUME TypeOK, Order, Recirculate PROVE Order'
  OBVIOUS
<1>1. CASE loop[1].end
  BY <1>1, OrderEnd
<1>2. CASE ~loop[1].end
  <2>1. PICK p : p = loop[1] /\ ~p.end
    BY <1>2
  <2>2. /\ p \in Packet /\ Done(p).kind = p.kind /\ Done(p).index = p.index
        /\ On(p).kind = p.kind /\ 1 \in 1..Len(loop) /\ tosend' = tosend /\ loop # <<>>
        /\ round' = round /\ avail' = avail
        /\ \A b \in 1..Len(loop') : Shifted(b) \/ Finished(p, b) \/ GoesOn(p, b)
    BY <2>1, PassFacts
  <2>3. loop \in Seq(Packet) /\ wire \in Seq(Packet)
    BY DEF TypeOK
  <2>4. PICK L \in Nat, W \in Nat : L = Len(loop) /\ W = Len(wire) /\ Len(loop') \in Nat
    BY <2>1, <2>3, PassFacts
  <2>5. wire' = (IF p.kind \in Filters /\ Leaves(p) THEN Append(wire, Done(p)) ELSE wire)
    BY <2>1, PassFacts DEF Passed
  <2>6. \A a \in 1..Len(wire') : (a \in 1..W /\ wire'[a] = wire[a]) \/ wire'[a] = Done(p)
    BY <2>3, <2>4, <2>5
  <2>7. ASSUME NEW b \in 1..Len(loop')
        PROVE  \/ b + 1 \in 1..L /\ loop'[b] = loop[b + 1]
               \/ loop'[b] = Done(p)
               \/ loop'[b] = On(p) /\ p.index \notin StopAt(p.kind)
    BY <2>2, <2>4 DEF Shifted, Finished, GoesOn
  <2>8. p.index \in Half(p.kind, round)
    BY <2>1, <2>2 DEF Order, InRound
  <2>9. p.index \notin StopAt(p.kind) => On(p).index \in Half(p.kind, round)
    BY <2>1, OnInChain
  <2>10. InRound'
    <3>1. \A a \in 1..Len(wire') : wire'[a].index \in Half(wire'[a].kind, round)
      BY <2>2, <2>4, <2>6, <2>8 DEF Order, InRound
    <3>2. \A a \in 1..Len(loop') : loop'[a].index \in Half(loop'[a].kind, round)
      BY <2>2, <2>4, <2>7, <2>8, <2>9 DEF Order, InRound
    <3> QED
      BY <2>2, <3>1, <3>2 DEF Order, InRound, Off
  <2>11. NothingYet'
    BY <2>2 DEF Order, NothingYet
  <2>12. AllIn'
    <3>1. p.kind \notin avail
      BY <2>1, <2>2 DEF Order, AllIn
    <3>2. \A a \in 1..Len(wire') : wire'[a].kind \notin avail
      BY <2>2, <2>4, <2>6, <3>1 DEF Order, AllIn
    <3>3. \A a \in 1..Len(loop') : loop'[a].kind \notin avail
      BY <2>2, <2>4, <2>7, <3>1 DEF Order, AllIn
    <3> QED
      BY <2>2, <3>2, <3>3 DEF Order, AllIn
  <2> QED
    BY <1>2, <2>10, <2>11, <2>12, InStepPass, LastAlonePass DEF Order
<1> QED
  BY <1>1, <1>2

LEMMA OrderDeliver == TypeOK /\ Order /\ Deliver => Order'
<1> SUFFICES ASSUME TypeOK, Order, Deliver PROVE Order'
  OBVIOUS
<1>1. /\ wire \in Seq(Packet) /\ wire # <<>> /\ wire' = Tail(wire) /\ Head(wire) = wire[1]
      /\ loop' = loop /\ tosend' = tosend /\ round' = round
  BY DEF TypeOK, Deliver, switchVars
<1>2. PICK W \in Nat : W = Len(wire) /\ W >= 1
  BY <1>1
<1>3. /\ Len(wire') = W - 1 /\ 1 \in 1..W
      /\ \A a \in 1..(W - 1) : wire'[a] = wire[a + 1] /\ a + 1 \in 1..W /\ 1 < a + 1
  BY <1>1, <1>2
<1>4. PICK p : p = wire[1]
  OBVIOUS
<1>5. avail' = IF IsLast(p) THEN avail \cup {p.kind} ELSE avail
  BY <1>1, <1>4 DEF Deliver, IsLast, LastIndex
<1>6. /\ \A a \in 1..W : IsLast(wire[a]) =>
            /\ \A b \in 1..W : a < b => wire[b].kind # wire[a].kind
            /\ \A b \in 1..Len(loop) : loop[b].kind # wire[a].kind
            /\ \A b \in 1..Len(tosend) : tosend[b].kind # wire[a].kind
  BY <1>2 DEF Order, LastAlone
<1>7. InRound'
  BY <1>1, <1>2, <1>3 DEF Order, InRound, Off
<1>8. NothingYet'
  BY <1>1 DEF Order, NothingYet
<1>9. InStep'
  BY <1>1 DEF Order, InStep, Steps, Ch, Off
<1>10. LastAlone'
  <2>1. ASSUME NEW a \in 1..Len(wire'), IsLast(wire'[a])
        PROVE  /\ \A b \in 1..Len(wire') : a < b => wire'[b].kind # wire'[a].kind
               /\ \A b \in 1..Len(loop') : loop'[b].kind # wire'[a].kind
               /\ \A b \in 1..Len(tosend') : tosend'[b].kind # wire'[a].kind
    <3>1. wire'[a] = wire[a + 1] /\ a + 1 \in 1..W
      BY <1>2, <1>3
    <3>2. ASSUME NEW b \in 1..Len(wire'), a < b PROVE wire'[b].kind # wire'[a].kind
      <4>1. wire'[b] = wire[b + 1] /\ b + 1 \in 1..W /\ a + 1 < b + 1
        BY <1>2, <1>3, <3>2
      <4> QED
        BY <1>6, <2>1, <3>1, <4>1
    <3> QED
      BY <1>1, <1>6, <2>1, <3>1, <3>2
  <2> QED
    BY <1>1, <2>1 DEF Order, LastAlone, IsLast
<1>11. AllIn'
  <2>1. CASE ~IsLast(p)
    BY <1>1, <1>2, <1>3, <1>5, <2>1 DEF Order, AllIn
  <2>2. CASE IsLast(p)
    <3>1. /\ \A b \in 1..W : 1 < b => wire[b].kind # p.kind
          /\ \A b \in 1..Len(loop) : loop[b].kind # p.kind
          /\ \A b \in 1..Len(tosend) : tosend[b].kind # p.kind
      BY <1>3, <1>4, <1>6, <2>2
    <3>2. \A b \in 1..Len(wire') : wire'[b].kind # p.kind /\ wire'[b].kind \notin avail
      BY <1>2, <1>3, <3>1 DEF Order, AllIn
    <3> QED
      BY <1>1, <1>5, <2>2, <3>1, <3>2 DEF Order, AllIn
  <2> QED
    BY <2>1, <2>2
<1> QED
  BY <1>7, <1>8, <1>9, <1>10, <1>11 DEF Order

LEMMA OrderNext == TypeOK /\ Order /\ [Next]_vars => Order'
<1> SUFFICES ASSUME TypeOK, Order, [Next]_vars PROVE Order'
  OBVIOUS
<1>1. CASE UNCHANGED vars
  BY <1>1 DEF Order, InRound, NothingYet, InStep, LastAlone, AllIn, Steps, Ch, Off, IsLast,
              vars, switchVars, ctrlVars
<1> QED
  BY <1>1, OrderFlip, OrderInject, OrderRecirculate, OrderDeliver DEF Next

LEMMA OrderInit == Init => Order
BY DEF Init, Order, InRound, NothingYet, InStep, LastAlone, AllIn

LEMMA OrderCorrect == Spec => []Order
BY OrderInit, OrderNext, TypeCorrect, PTL DEF Spec
-----------------------------------------------------------------------------
(* The packets that have more to read, and those that have left for good.  *)
Pending == {q \in Packet : \/ \E a \in 1..Len(tosend) : q = tosend[a]
                           \/ \E a \in 1..Len(loop) : q = loop[a] /\ ~q.end}
Out == {q \in Packet : \/ \E a \in 1..Len(wire) : q = wire[a]
                       \/ \E a \in 1..Len(loop) : q = loop[a] /\ q.end}

(* The start of a chain, and the packets that start there.                 *)
LEMMA SetsFlip ==
  ASSUME TypeOK, Order, Flip, NEW r \in Nat, r = round + 1
  PROVE  /\ Out' = {}
         /\ \A q \in Pending' : \E k \in Kinds, c \in 1..Chains : q = Sent(k, r, c)
         /\ \A k \in Kinds, c \in 1..Chains : Sent(k, r, c) \in Pending'
<1>1. /\ tosend' = AllStarts(r) /\ loop' = <<>> /\ wire' = <<>>
  BY FlipWhenEmpty DEF Flip, AllStarts
<1>2. Len(loop') = 0 /\ Len(wire') = 0
  BY <1>1
<1>3. Out' = {}
  BY <1>2 DEF Out
<1>4. \A q \in Pending' : \E a \in 1..Len(tosend') : q = tosend'[a]
  BY <1>2 DEF Pending
<1>5. ASSUME NEW q \in Pending' PROVE \E k \in Kinds, c \in 1..Chains : q = Sent(k, r, c)
  <2>1. PICK a \in 1..Len(tosend') : q = tosend'[a]
    BY <1>4
  <2>2. PICK k \in Kinds, c \in 1..Chains : tosend'[a] = Sent(k, r, c)
    BY <1>1, AllStartsInOrder
  <2> QED
    BY <2>1, <2>2
<1>6. ASSUME NEW k \in Kinds, NEW c \in 1..Chains PROVE Sent(k, r, c) \in Pending'
  <2>1. First(k) + c \in 1..Len(tosend') /\ tosend'[First(k) + c] = Sent(k, r, c)
    BY <1>1, AllStartsInOrder
  <2>2. Sent(k, r, c) \in Packet
    BY StartsOf
  <2> QED
    BY <2>1, <2>2 DEF Pending
<1> QED
  BY <1>3, <1>5, <1>6

LEMMA SetsInject ==
  ASSUME TypeOK, Inject
  PROVE  Pending' = Pending /\ Out' = Out
<1>1. /\ tosend \in Seq(Packet) /\ loop \in Seq(Packet) /\ tosend # <<>>
      /\ tosend' = Tail(tosend) /\ loop' = Append(loop, Head(tosend)) /\ wire' = wire
      /\ \A a \in 1..Len(tosend) : ~tosend[a].end
  BY DEF TypeOK, Inject
<1>2. PICK N \in Nat, L \in Nat : N = Len(tosend) /\ N >= 1 /\ L = Len(loop)
  BY <1>1
<1>3. /\ Len(tosend') = N - 1 /\ 1 \in 1..N
      /\ \A a \in 1..(N - 1) : tosend'[a] = tosend[a + 1] /\ a + 1 \in 1..N
      /\ \A a \in 2..N : a - 1 \in 1..(N - 1) /\ tosend'[a - 1] = tosend[a]
  BY <1>1, <1>2
<1>4. /\ Len(loop') = L + 1
      /\ \A a \in 1..L : loop'[a] = loop[a]
      /\ loop'[L + 1] = tosend[1] /\ L + 1 \in 1..(L + 1)
  BY <1>1, <1>2
<1>5. \A a \in 1..N : a = 1 \/ a \in 2..N
  BY <1>2
<1>6. \A a \in 1..(L + 1) : a = L + 1 \/ a \in 1..L
  BY <1>2
<1>7. \A a \in 1..L : a \in 1..(L + 1)
  BY <1>2
<1>8. ASSUME NEW q \in Pending PROVE q \in Pending'
  <2>1. CASE \E a \in 1..N : q = tosend[a]
    <3>1. PICK a \in 1..N : q = tosend[a] /\ ~q.end
      BY <1>1, <1>2, <2>1
    <3>2. CASE a = 1
      BY <1>3, <1>4, <3>1, <3>2 DEF Pending
    <3>3. CASE a \in 2..N
      BY <1>3, <3>1, <3>3 DEF Pending
    <3> QED
      BY <1>5, <3>2, <3>3
  <2>2. CASE \E a \in 1..L : q = loop[a] /\ ~q.end
    BY <1>4, <1>7, <2>2 DEF Pending
  <2> QED
    BY <1>2, <2>1, <2>2 DEF Pending
<1>9. ASSUME NEW q \in Pending' PROVE q \in Pending
  <2>1. CASE \E a \in 1..(N - 1) : q = tosend'[a]
    BY <1>2, <1>3, <2>1 DEF Pending
  <2>2. CASE \E a \in 1..(L + 1) : q = loop'[a] /\ ~q.end
    BY <1>2, <1>3, <1>4, <1>6, <2>2 DEF Pending
  <2> QED
    BY <1>3, <1>4, <2>1, <2>2 DEF Pending
<1>10. Out' = Out
  <2>1. ASSUME NEW q PROVE (\E a \in 1..(L + 1) : q = loop'[a] /\ q.end)
                              <=> (\E a \in 1..L : q = loop[a] /\ q.end)
    BY <1>1, <1>2, <1>3, <1>4, <1>6, <1>7
  <2> QED
    BY <1>1, <1>2, <1>4, <2>1 DEF Out
<1> QED
  BY <1>8, <1>9, <1>10

LEMMA SetsDeliver ==
  ASSUME TypeOK, Deliver
  PROVE  /\ Pending' = Pending /\ Out' \subseteq Out
         /\ Head(wire) \in Out /\ \A q \in Out : q \in Out' \/ q = Head(wire)
<1>1. /\ wire \in Seq(Packet) /\ wire # <<>> /\ wire' = Tail(wire) /\ Head(wire) = wire[1]
      /\ loop' = loop /\ tosend' = tosend
  BY DEF TypeOK, Deliver, switchVars
<1>2. PICK W \in Nat : W = Len(wire) /\ W >= 1
  BY <1>1
<1>3. /\ Len(wire') = W - 1 /\ 1 \in 1..W
      /\ \A a \in 1..(W - 1) : wire'[a] = wire[a + 1] /\ a + 1 \in 1..W
      /\ \A a \in 2..W : a - 1 \in 1..(W - 1) /\ wire'[a - 1] = wire[a]
  BY <1>1, <1>2
<1>4. \A a \in 1..W : a = 1 \/ a \in 2..W
  BY <1>2
<1>5. Pending' = Pending
  BY <1>1 DEF Pending
<1>6. Out' \subseteq Out
  BY <1>1, <1>2, <1>3 DEF Out
<1>7. wire[1] \in Out
  BY <1>1, <1>2, <1>3 DEF Out
<1>8. ASSUME NEW q \in Out PROVE q \in Out' \/ q = wire[1]
  <2>1. CASE \E a \in 1..W : q = wire[a]
    <3>1. PICK a \in 1..W : q = wire[a]
      BY <2>1
    <3>2. CASE a \in 2..W
      <4>1. a - 1 \in 1..Len(wire') /\ q = wire'[a - 1]
        BY <1>3, <3>1, <3>2
      <4> QED
        BY <4>1 DEF Out
    <3> QED
      BY <1>4, <3>1, <3>2
  <2>2. CASE \E a \in 1..Len(loop) : q = loop[a] /\ q.end
    BY <1>1, <2>2 DEF Out
  <2> QED
    BY <1>2, <2>1, <2>2 DEF Out
<1> QED
  BY <1>1, <1>5, <1>6, <1>7, <1>8

LEMMA SetsEnd ==
  ASSUME TypeOK, Recirculate, loop[1].end
  PROVE  Pending' = Pending /\ Out' = Out
<1>1. /\ loop \in Seq(Packet) /\ wire \in Seq(Packet) /\ tosend' = tosend
      /\ loop # <<>> /\ loop' = Tail(loop) /\ wire' = Append(wire, loop[1]) /\ loop[1] \in Packet
  BY Passes DEF TypeOK, Recirculate
<1>2. PICK L \in Nat, W \in Nat : L = Len(loop) /\ L >= 1 /\ W = Len(wire)
  BY <1>1
<1>3. /\ Len(loop') = L - 1 /\ 1 \in 1..L
      /\ \A a \in 1..(L - 1) : loop'[a] = loop[a + 1] /\ a + 1 \in 1..L
      /\ \A a \in 2..L : a - 1 \in 1..(L - 1) /\ loop'[a - 1] = loop[a]
  BY <1>1, <1>2
<1>4. /\ Len(wire') = W + 1 /\ wire'[W + 1] = loop[1] /\ W + 1 \in 1..(W + 1)
      /\ \A a \in 1..W : wire'[a] = wire[a] /\ a \in 1..(W + 1)
      /\ \A a \in 1..(W + 1) : a = W + 1 \/ a \in 1..W
  BY <1>1, <1>2
<1>5. \A a \in 1..L : a = 1 \/ a \in 2..L
  BY <1>2
<1>6. ASSUME NEW q, ~q.end
      PROVE  (\E a \in 1..(L - 1) : q = loop'[a]) <=> (\E a \in 1..L : q = loop[a])
  BY <1>3, <1>5, <1>6
<1>7. Pending' = Pending
  BY <1>1, <1>2, <1>3, <1>6 DEF Pending
<1>8. ASSUME NEW q \in Out PROVE q \in Out'
  <2>1. CASE \E a \in 1..W : q = wire[a]
    BY <1>4, <2>1 DEF Out
  <2>2. CASE \E a \in 1..L : q = loop[a] /\ q.end
    <3>1. PICK a \in 1..L : q = loop[a] /\ q.end
      BY <2>2
    <3>2. CASE a \in 2..L
      <4>1. a - 1 \in 1..Len(loop') /\ q = loop'[a - 1] /\ q.end
        BY <1>3, <3>1, <3>2
      <4> QED
        BY <4>1 DEF Out
    <3>3. CASE a = 1
      <4>1. W + 1 \in 1..Len(wire') /\ q = wire'[W + 1]
        BY <1>4, <3>1, <3>3
      <4> QED
        BY <4>1 DEF Out
    <3> QED
      BY <1>5, <3>2, <3>3
  <2> QED
    BY <1>2, <2>1, <2>2 DEF Out
<1>9. ASSUME NEW q \in Out' PROVE q \in Out
  <2>1. CASE \E a \in 1..(W + 1) : q = wire'[a]
    BY <1>2, <1>3, <1>4, <2>1 DEF Out
  <2>2. CASE \E a \in 1..(L - 1) : q = loop'[a] /\ q.end
    BY <1>2, <1>3, <2>2 DEF Out
  <2> QED
    BY <1>3, <1>4, <2>1, <2>2 DEF Out
<1> QED
  BY <1>7, <1>8, <1>9

(* A live packet reads; no other packet of its sketch is in its chain.     *)
LEMMA SetsPass ==
  ASSUME TypeOK, Order, Recirculate, NEW p, p = loop[1], ~p.end
  PROVE  /\ p \in Pending
         /\ \A q \in Pending' : \/ q \in Pending /\ (q.kind = p.kind => Ch(q) # Ch(p))
                                \/ q = On(p) /\ p.index \notin StopAt(p.kind)
         /\ \A q \in Pending : q = p \/ q \in Pending'
         /\ p.index \notin StopAt(p.kind) => On(p) \in Pending'
         /\ \A q \in Out' : q \in Out \/ (q = Done(p) /\ Leaves(p))
         /\ Out \subseteq Out'
         /\ Leaves(p) => Done(p) \in Out'
<1>1. /\ p \in Packet /\ Done(p) \in Packet /\ On(p) \in Packet
      /\ Done(p).kind = p.kind /\ (Done(p).end <=> p.kind = "fermat") /\ ~On(p).end
      /\ 1 \in 1..Len(loop) /\ tosend' = tosend /\ loop # <<>>
      /\ \A b \in 1..Len(loop') : Shifted(b) \/ Finished(p, b) \/ GoesOn(p, b)
      /\ Queued(p) /\ Passed(p)
  BY PassFacts
<1>2. tosend \in Seq(Packet) /\ loop \in Seq(Packet) /\ wire \in Seq(Packet)
  BY DEF TypeOK
<1>3. PICK L \in Nat, W \in Nat, K \in Nat :
         L = Len(loop) /\ W = Len(wire) /\ K = Len(loop') /\ L >= 1 /\ K >= L - 1
  <2>1. Len(loop') \in Nat /\ Len(loop') >= Len(loop) - 1
    BY <1>1, PassFacts DEF Queued
  <2> QED
    BY <1>1, <1>2, <2>1
<1>4. \A a \in 1..L : a = 1 \/ a \in 2..L
  BY <1>3
<1>5. \A a \in 2..L : a - 1 \in 1..K /\ loop'[a - 1] = loop[a]
  BY <1>1, <1>3 DEF Queued
<1>6. p \in Pending
  BY <1>1, <1>3 DEF Pending
<1>7. ASSUME NEW q \in Pending'
      PROVE  \/ q \in Pending /\ (q.kind = p.kind => Ch(q) # Ch(p))
             \/ q = On(p) /\ p.index \notin StopAt(p.kind)
  <2>1. CASE \E a \in 1..Len(tosend') : q = tosend'[a]
    <3>1. PICK a \in 1..Len(tosend) : q = tosend[a]
      BY <1>1, <2>1
    <3>2. q \in Pending /\ q \in Packet
      BY <1>2, <3>1 DEF Pending
    <3>3. q.kind = p.kind => Ch(p) < Ch(q)
      BY <1>1, <3>1 DEF Order, InStep
    <3>4. Ch(p) \in Int /\ Ch(q) \in Int
      BY <1>1, <3>2, ChOff
    <3> QED
      BY <3>2, <3>3, <3>4
  <2>2. CASE \E b \in 1..K : q = loop'[b] /\ ~q.end
    <3>1. PICK b \in 1..K : q = loop'[b] /\ ~q.end
      BY <2>2
    <3>2. ~Finished(p, b)
      BY <1>1, <3>1 DEF Finished
    <3>3. CASE Shifted(b)
      <4>1. b + 1 \in 1..L /\ 1 < b + 1 /\ q = loop[b + 1]
        BY <1>3, <3>1, <3>3 DEF Shifted
      <4>2. q \in Pending
        BY <1>2, <1>3, <3>1, <4>1 DEF Pending
      <4>3. Steps(p, q)
        BY <1>1, <1>3, <3>1, <4>1 DEF Order, InStep
      <4> QED
        BY <4>2, <4>3 DEF Steps
    <3>4. CASE GoesOn(p, b)
      BY <3>1, <3>4 DEF GoesOn
    <3> QED
      BY <1>1, <1>3, <3>2, <3>3, <3>4
  <2> QED
    BY <1>3, <2>1, <2>2 DEF Pending
<1>8. ASSUME NEW q \in Pending, q # p PROVE q \in Pending'
  <2>1. CASE \E a \in 1..Len(tosend) : q = tosend[a]
    BY <1>1, <2>1 DEF Pending
  <2>2. CASE \E a \in 1..L : q = loop[a] /\ ~q.end
    <3>1. PICK a \in 1..L : q = loop[a] /\ ~q.end
      BY <2>2
    <3>2. a \in 2..L
      BY <1>4, <1>8, <3>1
    <3>3. a - 1 \in 1..K /\ q = loop'[a - 1]
      BY <1>5, <3>1, <3>2
    <3> QED
      BY <1>3, <3>1, <3>3 DEF Pending
  <2> QED
    BY <1>3, <2>1, <2>2 DEF Pending
<1>9. ASSUME p.index \notin StopAt(p.kind) PROVE On(p) \in Pending'
  <2>1. K >= L /\ loop'[K] = On(p)
    BY <1>1, <1>3, <1>9 DEF Queued
  <2>2. K \in 1..K
    BY <1>3, <2>1
  <2> QED
    BY <1>1, <1>3, <2>1, <2>2 DEF Pending
<1>10. wire' = (IF p.kind \in Filters /\ Leaves(p) THEN Append(wire, Done(p)) ELSE wire)
  BY <1>1 DEF Passed
<1>11. ASSUME NEW q \in Out' PROVE q \in Out \/ (q = Done(p) /\ Leaves(p))
  <2>1. CASE \E a \in 1..Len(wire') : q = wire'[a]
    <3>1. PICK a \in 1..Len(wire') : q = wire'[a]
      BY <2>1
    <3>2. (a \in 1..W /\ q = wire[a]) \/ (q = Done(p) /\ Leaves(p))
      BY <1>2, <1>3, <1>10, <3>1
    <3> QED
      BY <1>2, <1>3, <3>2 DEF Out
  <2>2. CASE \E b \in 1..K : q = loop'[b] /\ q.end
    <3>1. PICK b \in 1..K : q = loop'[b] /\ q.end
      BY <2>2
    <3>2. ~GoesOn(p, b)
      BY <1>1, <3>1 DEF GoesOn
    <3>3. CASE Shifted(b)
      <4>1. b + 1 \in 1..L /\ q = loop[b + 1]
        BY <1>3, <3>1, <3>3 DEF Shifted
      <4> QED
        BY <1>2, <1>3, <3>1, <4>1 DEF Out
    <3>4. CASE Finished(p, b)
      BY <3>1, <3>4 DEF Finished
    <3> QED
      BY <1>1, <1>3, <3>2, <3>3, <3>4
  <2> QED
    BY <1>3, <2>1, <2>2 DEF Out
<1>12. ASSUME NEW q \in Out PROVE q \in Out'
  <2>1. CASE \E a \in 1..W : q = wire[a]
    <3>1. PICK a \in 1..W : q = wire[a]
      BY <2>1
    <3>2. a \in 1..Len(wire') /\ wire'[a] = wire[a]
      BY <1>2, <1>3, <1>10
    <3> QED
      BY <3>1, <3>2 DEF Out
  <2>2. CASE \E a \in 1..L : q = loop[a] /\ q.end
    <3>1. PICK a \in 1..L : q = loop[a] /\ q.end
      BY <2>2
    <3>2. a \in 2..L
      BY <1>4, <3>1
    <3>3. a - 1 \in 1..K /\ q = loop'[a - 1]
      BY <1>5, <3>1, <3>2
    <3> QED
      BY <1>3, <3>1, <3>3 DEF Out
  <2> QED
    BY <1>3, <2>1, <2>2 DEF Out
<1>13. ASSUME Leaves(p) PROVE Done(p) \in Out'
  <2>1. CASE p.kind = "fermat"
    <3>1. K >= L /\ loop'[L] = Done(p)
      BY <1>1, <1>3, <1>13, <2>1 DEF Queued
    <3>2. L \in 1..K
      BY <1>3, <3>1
    <3> QED
      BY <1>1, <1>3, <2>1, <3>1, <3>2 DEF Out
  <2>2. CASE p.kind \in Filters
    <3>1. wire' = Append(wire, Done(p))
      BY <1>10, <1>13, <2>2
    <3>2. W + 1 \in 1..Len(wire') /\ wire'[W + 1] = Done(p)
      BY <1>2, <1>3, <3>1
    <3> QED
      BY <1>1, <3>2 DEF Out
  <2> QED
    BY <1>1, <2>1, <2>2 DEF Packet, Kinds
<1> QED
  BY <1>6, <1>7, <1>8, <1>9, <1>11, <1>12, <1>13

LEMMA PendingInRound ==
  ASSUME TypeOK, Order
  PROVE  /\ round \in Nat
         /\ \A q \in Pending : /\ q \in Packet /\ q.kind \in Kinds /\ q.kind \notin avail
                               /\ q.index \in Half(q.kind, round) /\ round # 0
         /\ \A q \in Out : /\ q \in Packet /\ q.kind \in Kinds /\ q.kind \notin avail
                           /\ q.index \in Half(q.kind, round) /\ round # 0
<1>1. \A q \in Packet : q.kind \in Kinds
  BY DEF Packet
<1>2. round = 0 => Pending = {} /\ Out = {}
  <2>1. ASSUME round = 0 PROVE Len(tosend) = 0 /\ Len(loop) = 0 /\ Len(wire) = 0
    BY <2>1 DEF Order, NothingYet
  <2> QED
    BY <2>1 DEF Pending, Out
<1>3. \A q \in Pending : q.kind \notin avail /\ q.index \in Half(q.kind, round)
  BY DEF Pending, Order, AllIn, InRound
<1>4. \A q \in Out : q.kind \notin avail /\ q.index \in Half(q.kind, round)
  BY DEF Out, Order, AllIn, InRound
<1>5. \A q \in Pending : q \in Packet
  BY DEF Pending
<1>6. \A q \in Out : q \in Packet
  BY DEF Out
<1> QED
  BY <1>1, <1>2, <1>3, <1>4, <1>5, <1>6 DEF TypeOK

(* Index g is still to be read by the packet of its chain.                 *)
Ahead(p, g) == p.index <= g /\ g \div ChainLen(p.kind) = Ch(p)
Unread(k, g) == \E p \in Pending : p.kind = k /\ Ahead(p, g)

LEMMA UnreadFlip ==
  ASSUME TypeOK, Order, Flip, NEW k \in Kinds, NEW g \in Half(k, round + 1)
  PROVE  Unread(k, g)'
<1>1. PICK r \in Nat : r = round + 1
  BY DEF TypeOK
<1>2. PICK c \in 1..Chains :
         Start(k, r, c) <= g /\ g \div ChainLen(k) = Start(k, r, c) \div ChainLen(k)
  BY <1>1, StartsCover
<1>3. Sent(k, r, c) \in Pending'
  BY <1>1, SetsFlip
<1>4. Sent(k, r, c).kind = k /\ Sent(k, r, c).index = Start(k, r, c)
  BY DEF Sent
<1>5. Ahead(Sent(k, r, c), g)
  BY <1>2, <1>4 DEF Ahead, Ch
<1> QED
  BY <1>3, <1>4, <1>5 DEF Unread, Ahead, Ch

(* A pass reads one index.                                                 *)
LEMMA UnreadPass ==
  ASSUME TypeOK, Order, Recirculate, NEW p, p = loop[1], ~p.end,
         NEW k \in Kinds, NEW g \in Half(k, round)
  PROVE  Unread(k, g)' <=> (Unread(k, g) /\ ~(k = p.kind /\ g = p.index))
<1>1. /\ p \in Pending
      /\ \A q \in Pending' : \/ q \in Pending /\ (q.kind = p.kind => Ch(q) # Ch(p))
                             \/ q = On(p) /\ p.index \notin StopAt(p.kind)
      /\ \A q \in Pending : q = p \/ q \in Pending'
      /\ p.index \notin StopAt(p.kind) => On(p) \in Pending'
  BY SetsPass
<1>2. p \in Packet /\ On(p).kind = p.kind /\ On(p).index = p.index + 1
  BY PassFacts
<1>3. p.index \notin StopAt(p.kind) => Ch(On(p)) = Ch(p)
  BY OnInChain
<1>4. round \in Nat /\ p.kind \in Kinds /\ p.index \in Half(p.kind, round) /\ p.index \in Int /\ g \in Int
  <2>1. round \in Nat /\ p.kind \in Kinds /\ p.index \in Half(p.kind, round)
    BY <1>1, PendingInRound
  <2> QED
    BY <2>1, InHalf
<1>5. ASSUME Unread(k, g), ~(k = p.kind /\ g = p.index) PROVE Unread(k, g)'
  <2>1. PICK q \in Pending : q.kind = k /\ Ahead(q, g)
    BY <1>5 DEF Unread
  <2>2. CASE q # p
    BY <1>1, <2>1, <2>2 DEF Unread, Ahead, Ch
  <2>3. CASE q = p
    <3>1. p.kind = k /\ p.index < g /\ g \div ChainLen(k) = Ch(p)
      BY <1>4, <1>5, <2>1, <2>3 DEF Ahead
    <3>2. ASSUME p.index \in StopAt(p.kind) PROVE FALSE
      <4>1. p.index % ChainLen(k) = ChainLen(k) - 1
        BY <1>4, <3>1, <3>2, StopIsChainEnd
      <4>2. PICK L \in Nat \ {0} : L = ChainLen(k)
        BY Lengths
      <4>3. p.index \div L = g \div L
        BY <3>1, <4>2 DEF Ch
      <4>4. g - p.index = (g % L) - (p.index % L)
        BY <1>4, <4>2, <4>3, SameChain
      <4>5. g % L \in 0..(L - 1)
        BY <1>4, DivMod
      <4>6. PICK y \in Int : y = g % L /\ y <= L - 1
        BY <4>5
      <4>7. g - p.index = y - (L - 1)
        BY <4>1, <4>2, <4>4, <4>6
      <4> QED
        BY <1>4, <3>1, <4>6, <4>7
    <3>3. Ahead(On(p), g)
      BY <1>2, <1>3, <1>4, <3>1, <3>2 DEF Ahead
    <3> QED
      BY <1>1, <1>2, <3>1, <3>2, <3>3 DEF Unread, Ahead, Ch
  <2> QED
    BY <2>2, <2>3
<1>6. ASSUME Unread(k, g)' PROVE Unread(k, g) /\ ~(k = p.kind /\ g = p.index)
  <2>1. PICK q \in Pending' : q.kind = k /\ Ahead(q, g)
    BY <1>6 DEF Unread, Ahead, Ch
  <2>2. CASE q \in Pending /\ (q.kind = p.kind => Ch(q) # Ch(p))
    <3>1. Unread(k, g)
      BY <2>1, <2>2 DEF Unread
    <3>2. ASSUME k = p.kind, g = p.index PROVE FALSE
      BY <2>1, <2>2, <3>2 DEF Ahead, Ch
    <3> QED
      BY <3>1, <3>2
  <2>3. CASE q = On(p) /\ p.index \notin StopAt(p.kind)
    <3>1. p.kind = k /\ p.index + 1 <= g /\ g \div ChainLen(k) = Ch(p)
      BY <1>2, <1>3, <2>1, <2>3 DEF Ahead
    <3>2. Ahead(p, g) /\ g # p.index
      BY <1>4, <3>1 DEF Ahead
    <3> QED
      BY <1>1, <3>1, <3>2 DEF Unread
  <2> QED
    BY <1>1, <2>2, <2>3
<1> QED
  BY <1>5, <1>6

(* A filter counter of the half holds what was counted in until it is      *)
(* read.                                                                   *)
Uncleaned ==
    round # 0 => \A k \in Filters : \A g \in Half(k, round) : g \in full[k] <=> Unread(k, g)

LEMMA UncleanedNext == TypeOK /\ Order /\ Uncleaned /\ [Next]_vars => Uncleaned'
<1> SUFFICES ASSUME TypeOK, Order, Uncleaned, [Next]_vars PROVE Uncleaned'
  OBVIOUS
<1>0. \A k \in Filters : k \in Kinds
  BY DEF Kinds
<1>1. ASSUME UNCHANGED <<round, full>>, Pending' = Pending PROVE Uncleaned'
  BY <1>1 DEF Uncleaned, Unread, Ahead, Ch
<1>2. CASE UNCHANGED vars
  <2>1. Pending' = Pending
    BY <1>2 DEF vars, switchVars, Pending
  <2> QED
    BY <1>1, <1>2, <2>1 DEF vars, switchVars
<1>3. CASE Flip
  <2>1. PICK r \in Nat : r = round + 1
    BY DEF TypeOK
  <2>2. round' = r /\ \A k \in Filters : Half(k, r) \subseteq full'[k]
    BY <1>3, <2>1 DEF Flip
  <2>3. ASSUME NEW k \in Filters, NEW g \in Half(k, r) PROVE g \in full'[k] /\ Unread(k, g)'
    BY <1>0, <1>3, <2>1, <2>2, UnreadFlip
  <2> QED
    BY <2>2, <2>3 DEF Uncleaned
<1>4. CASE Inject
  BY <1>1, <1>4, SetsInject DEF Inject
<1>5. CASE Deliver
  BY <1>1, <1>5, SetsDeliver DEF Deliver, switchVars
<1>6. CASE Recirculate
  <2>1. CASE loop[1].end
    <3>1. UNCHANGED <<round, full>>
      BY <1>6, <2>1, Passes DEF Recirculate
    <3> QED
      BY <1>1, <1>6, <2>1, <3>1, SetsEnd
  <2>2. CASE ~loop[1].end
    <3>1. PICK p : p = loop[1] /\ ~p.end
      BY <2>2
    <3>2. full' = Cleaning(p.kind, p.index) /\ round' = round
      BY <1>6, <3>1, PassFacts DEF Passed
    <3>3. DOMAIN full = Filters
      BY DEF TypeOK
    <3>4. ASSUME NEW k \in Filters, NEW g \in Half(k, round), round # 0
          PROVE  g \in full'[k] <=> Unread(k, g)'
      <4>1. g \in full[k] <=> Unread(k, g)
        BY <3>4 DEF Uncleaned
      <4>2. Unread(k, g)' <=> (Unread(k, g) /\ ~(k = p.kind /\ g = p.index))
        BY <1>0, <1>6, <3>1, UnreadPass
      <4>3. g \in full'[k] <=> (g \in full[k] /\ ~(k = p.kind /\ g = p.index))
        BY <3>2, <3>3 DEF Cleaning
      <4> QED
        BY <4>1, <4>2, <4>3
    <3> QED
      BY <3>2, <3>4 DEF Uncleaned
  <2> QED
    BY <2>1, <2>2
<1> QED
  BY <1>2, <1>3, <1>4, <1>5, <1>6 DEF Next

LEMMA UncleanedCorrect == Spec => []Uncleaned
<1>1. Init => Uncleaned
  BY DEF Init, Uncleaned
<1> QED
  BY <1>1, UncleanedNext, TypeCorrect, OrderCorrect, PTL DEF Spec

(* When all sketches of a round are available, so that the switch may flip *)
(* again, both filters are clean in the half that was read: every chain    *)
(* has come to its end, also those of filter 1, whose packets are cut at   *)
(* the wrong places.                                                       *)
THEOREM CleanWhenAvailable == Spec => []CleanBeforeReuse
<1>1. TypeOK /\ Order /\ Uncleaned => CleanBeforeReuse
  <2> SUFFICES ASSUME TypeOK, Order, Uncleaned, avail = Kinds, NEW k \in Filters
               PROVE  full[k] \cap Half(k, round) = {}
    BY DEF CleanBeforeReuse
  <2>1. Pending = {}
    BY PendingInRound
  <2>2. round # 0
    BY DEF Order, NothingYet, Kinds
  <2>3. \A g \in Half(k, round) : ~Unread(k, g)
    BY <2>1 DEF Unread
  <2> QED
    BY <2>2, <2>3 DEF Uncleaned
<1> QED
  BY <1>1, TypeCorrect, OrderCorrect, UncleanedCorrect, PTL
-----------------------------------------------------------------------------
(* Where a packet holds what, from the index it read last downwards.       *)
Good(k) == k # "clean_1" \/ round % 2 = 0
Base(k) == HalfBase(k, round)

Below(j, t) == {x \in (j + 1)..t : x < EgressSize}

LEMMA EgressSizes ==
  /\ EgressSize \in Nat /\ EgressSize <= Size("fermat")
  /\ Size("fermat") \in Nat \ {0} /\ "fermat" \in Kinds
<1>1. "fermat" \in Kinds
  BY DEF Kinds
<1>2. PICK S \in Nat \ {0} : S = Size("fermat")
  BY <1>1, Lengths
<1>3. (S * 3) \div 4 \in Nat /\ (S * 3) \div 4 <= S
  OBVIOUS
<1> QED
  BY <1>1, <1>2, <1>3 DEF EgressSize

(* One index more: one or two places further back.                         *)
LEMMA BelowNext ==
  ASSUME NEW j \in Int, NEW t \in Int, j <= t
  PROVE  /\ Cardinality(Below(j, t)) \in Nat
         /\ Cardinality(Below(j, t + 1)) =
               Cardinality(Below(j, t)) + (IF t + 1 < EgressSize THEN 1 ELSE 0)
<1>1. IsFiniteSet((j + 1)..t)
  BY FS_Interval
<1>2. Below(j, t) \subseteq (j + 1)..t
  BY DEF Below
<1>3. IsFiniteSet(Below(j, t)) /\ Cardinality(Below(j, t)) \in Nat
  BY <1>1, <1>2, FS_Subset, FS_CardinalityType
<1>4. EgressSize \in Int
  BY EgressSizes
<1>5. CASE t + 1 < EgressSize
  <2>1. Below(j, t + 1) = Below(j, t) \cup {t + 1}
    BY <1>4, <1>5 DEF Below
  <2>2. t + 1 \notin Below(j, t)
    BY DEF Below
  <2> QED
    BY <1>3, <1>5, <2>1, <2>2, FS_AddElement
<1>6. CASE ~(t + 1 < EgressSize)
  <2>1. Below(j, t + 1) = Below(j, t)
    BY <1>4, <1>6 DEF Below
  <2> QED
    BY <1>3, <1>6, <2>1
<1> QED
  BY <1>3, <1>5, <1>6

LEMMA PlaceNext ==
  ASSUME NEW k \in Kinds, NEW j \in Int, NEW t \in Int, j <= t
  PROVE  /\ Place(k, t, j) \in Nat /\ Place(k, t, j) >= 1
         /\ Place(k, t + 1, j) = Place(k, t, j) + 1 + (IF HasEgress(k, t + 1) THEN 1 ELSE 0)
<1>1. PICK c \in Nat : c = Cardinality(Below(j, t))
  BY BelowNext
<1>4. PICK d \in Nat : d = Cardinality(Below(j, t + 1)) /\ d = c + (IF t + 1 < EgressSize THEN 1 ELSE 0)
  <2>1. Cardinality(Below(j, t + 1)) = c + (IF t + 1 < EgressSize THEN 1 ELSE 0)
    BY <1>1, BelowNext
  <2>2. c + (IF t + 1 < EgressSize THEN 1 ELSE 0) \in Nat
    OBVIOUS
  <2> QED
    BY <2>1, <2>2
<1>2. Place(k, t, j) = 1 + (t - j) + (IF k = "fermat" THEN c ELSE 0)
  BY <1>1, Zenon DEF Place, Below
<1>3. Place(k, t + 1, j) = 1 + ((t + 1) - j) + (IF k = "fermat" THEN d ELSE 0)
  BY <1>4, Zenon DEF Place, Below
<1> QED
  BY <1>1, <1>2, <1>3, <1>4 DEF HasEgress

LEMMA PlaceFirst ==
  ASSUME NEW k \in Kinds, NEW t \in Int
  PROVE  Place(k, t, t) = 1
<1>1. {x \in (t + 1)..t : x < EgressSize} = {}
  OBVIOUS
<1>2. Cardinality({}) = 0
  BY FS_EmptySet
<1> QED
  BY <1>1, <1>2 DEF Place

Two(k, t) == IF HasEgress(k, t) THEN 1 ELSE 0

(* A packet that read t last holds index j's values of this round.         *)
Holds(p, t, j) ==
    /\ Nth(p, Place(p.kind, t, j) + Two(p.kind, j)) = Val(round, Base(p.kind) + j)
    /\ HasEgress(p.kind, j) => Nth(p, Place(p.kind, t, j)) = Val(round, EgressIndex(Base(p.kind) + j))

Filled(p, t, n) == \A j \in Int : t - n < j /\ j <= t => Holds(p, t, j)

NthOf(v, n) == IF n <= Len(v) THEN v[n] ELSE Trailer

LEMMA NthBehind ==
  ASSUME NEW w \in Seq(Value), NEW v \in Seq(Value), NEW n \in Nat, n >= 1
  PROVE  NthOf(w \o v, Len(w) + n) = NthOf(v, n)
<1>2. PICK M, L \in Nat : M = Len(w) /\ L = Len(v)
  OBVIOUS
<1>3. /\ Len(w \o v) = M + L
      /\ \A c \in 1..L : (w \o v)[M + c] = v[c]
  BY <1>2, Joined
<1>4. M + n <= M + L <=> n <= L
  OBVIOUS
<1>5. n <= L => n \in 1..L
  OBVIOUS
<1> QED
  BY <1>2, <1>3, <1>4, <1>5 DEF NthOf

LEMMA NthFront ==
  ASSUME NEW q, NEW p, NEW w \in Seq(Value), p.values \in Seq(Value),
         q.values = w \o p.values, NEW n \in 1..Len(w)
  PROVE  Nth(q, n) = w[n]
<1>1. PICK v \in Seq(Value) : v = p.values
  OBVIOUS
<1>2. PICK M, L \in Nat : M = Len(w) /\ L = Len(v)
  OBVIOUS
<1>3. /\ Len(w \o v) = M + L
      /\ \A c \in 1..M : (w \o v)[c] = w[c]
  BY <1>2, Joined
<1>4. n \in 1..M /\ n <= M + L
  BY <1>2
<1> QED
  BY <1>1, <1>3, <1>4 DEF Nth

(* What a pass puts in front is as many values as the places move.         *)
LEMMA ReadsRight ==
  ASSUME round \in Nat, NEW k \in Kinds, NEW t \in 0..(Size(k) - 1), NEW i, i = Base(k) + t,
         k \in Filters => i \in full[k]
  PROVE  /\ ReadValues(k, i) \in Seq(Value) /\ Two(k, t) \in {0, 1}
         /\ Len(ReadValues(k, i)) = 1 + Two(k, t)
         /\ ReadValues(k, i)[1 + Two(k, t)] = Val(round, i)
         /\ HasEgress(k, t) => ReadValues(k, i)[1] = Val(round, EgressIndex(i))
<1>1. Base(k) \in Nat /\ Size(k) \in Nat /\ t \in Int /\ i \in Int
  BY Bases, Lengths DEF Base
<1>2. i \in Half(k, round)
  BY <1>1 DEF Half, Base
<1>3. i \in Nat /\ i % Size(k) = t
  BY <1>1, <1>2, InHalf DEF Base
<1>4. ReadValues(k, i) \in Seq(Value)
  BY <1>3, ReadsValues
<1>5. "fermat" \notin Filters /\ (k \in Filters \/ k = "fermat")
  BY DEF Filters, Kinds
<1>6. CASE HasEgress(k, t)
  <2>1. k = "fermat" /\ k \notin Filters /\ i % Size(k) < EgressSize
    BY <1>3, <1>5, <1>6 DEF HasEgress
  <2>2. ReadValues(k, i) = << Val(round, EgressIndex(i)), Val(round, i) >>
    BY <2>1 DEF ReadValues
  <2>3. Two(k, t) = 1
    BY <1>6 DEF Two
  <2> QED
    BY <1>4, <2>2, <2>3
<1>7. CASE ~HasEgress(k, t)
  <2>1. ReadValues(k, i) = << Val(round, i) >>
    <3>1. CASE k \in Filters
      BY <3>1 DEF ReadValues
    <3>2. CASE k = "fermat"
      BY <1>3, <1>5, <1>7, <3>2 DEF ReadValues, HasEgress
    <3> QED
      BY <1>5, <3>1, <3>2
  <2>2. Two(k, t) = 0
    BY <1>7 DEF Two
  <2> QED
    BY <1>4, <1>7, <2>1, <2>2
<1> QED
  BY <1>6, <1>7

LEMMA FilledRead ==
  ASSUME round \in Nat, NEW p \in Packet, NEW q, q.kind = p.kind,
         NEW t \in Nat, t \in 0..(Size(p.kind) - 1), NEW i, i = Base(p.kind) + t,
         p.kind \in Filters => i \in full[p.kind],
         q.values = ReadValues(p.kind, i) \o p.values,
         NEW n \in Nat, Filled(p, t - 1, n)
  PROVE  Filled(q, t, n + 1)
<1>1. p.kind \in Kinds /\ p.values \in Seq(Value)
  BY DEF Packet
<1>2. PICK k \in Kinds : k = p.kind
  BY <1>1
<1>3. PICK w \in Seq(Value) : w = ReadValues(k, i)
  BY <1>2, ReadsRight
<1>4. /\ Two(k, t) \in {0, 1} /\ Len(w) = 1 + Two(k, t)
      /\ w[1 + Two(k, t)] = Val(round, i)
      /\ HasEgress(k, t) => w[1] = Val(round, EgressIndex(i))
  BY <1>2, <1>3, ReadsRight
<1>5. t \in Int
  OBVIOUS
<1>6. ASSUME NEW j \in Int, t - (n + 1) < j, j <= t PROVE Holds(q, t, j)
  <2>1. CASE j = t
    <3>1. Place(k, t, t) = 1
      BY <1>5, PlaceFirst
    <3>2. 1 \in 1..Len(w) /\ 1 + Two(k, t) \in 1..Len(w)
      BY <1>4
    <3>3. Nth(q, 1) = w[1] /\ Nth(q, 1 + Two(k, t)) = w[1 + Two(k, t)]
      BY <1>1, <1>2, <1>3, <3>2, NthFront
    <3> QED
      BY <1>2, <1>4, <2>1, <3>1, <3>3 DEF Holds
  <2>2. CASE j # t
    <3>1. j <= t - 1 /\ (t - 1) - n < j /\ t - 1 \in Int
      BY <1>6, <2>2
    <3>2. Holds(p, t - 1, j)
      BY <3>1 DEF Filled
    <3>3. PICK u \in Int : u = t - 1
      BY <3>1
    <3>4. PICK a \in Nat : a = Place(k, u, j) /\ a >= 1
      BY <3>1, <3>3, PlaceNext
    <3>5. Place(k, t, j) = a + 1 + Two(k, t)
      <4>1. u + 1 = t
        BY <1>5, <3>3
      <4>2. Place(k, u + 1, j) = a + 1 + (IF HasEgress(k, u + 1) THEN 1 ELSE 0)
        BY <3>1, <3>3, <3>4, PlaceNext
      <4> QED
        BY <4>1, <4>2 DEF Two
    <3>6. Two(k, j) \in {0, 1}
      BY DEF Two
    <3>7. PICK b \in Nat : b = a + Two(k, j) /\ b >= 1
      BY <3>4, <3>6
    <3>8. PICK c \in Nat, d \in Nat : c = Len(w) + a /\ d = Len(w) + b
      OBVIOUS
    <3>10. Nth(q, c) = Nth(p, a) /\ Nth(q, d) = Nth(p, b)
      <4>1. q.values = w \o p.values
        BY <1>2, <1>3
      <4>4. PICK v \in Seq(Value) : v = p.values
        BY <1>1
      <4>5. a \in Nat /\ a >= 1 /\ b \in Nat /\ b >= 1 /\ v \in Seq(Value) /\ w \in Seq(Value)
        BY <1>3, <3>4, <3>7
      <4>6. /\ NthOf(w \o v, Len(w) + a) = NthOf(v, a)
            /\ NthOf(w \o v, Len(w) + b) = NthOf(v, b)
        BY ONLY <4>5, NthBehind
      <4>7. \A x : Nth(q, x) = NthOf(w \o v, x) /\ Nth(p, x) = NthOf(v, x)
        BY <4>1, <4>4, Zenon DEF Nth, NthOf
      <4> QED
        BY <3>8, <4>6, <4>7, Zenon
    <3>9. Place(k, t, j) = c /\ Place(k, t, j) + Two(k, j) = d
      <4>1. PICK e, f \in {0, 1} : e = Two(k, t) /\ f = Two(k, j)
        BY <1>4, <3>6
      <4>2. c = 1 + e + a /\ d = 1 + e + b /\ b = a + f
        BY <1>4, <3>7, <3>8, <4>1
      <4>3. Place(k, t, j) = a + 1 + e
        BY <3>5, <4>1
      <4>4. a \in Int
        OBVIOUS
      <4>5. b \in Int /\ c \in Int /\ d \in Int
        OBVIOUS
      <4>6. e \in Int /\ f \in Int
        BY <4>1
      <4>7. Place(k, t, j) = c
        BY ONLY <4>2, <4>3, <4>4, <4>5, <4>6
      <4>8. Place(k, t, j) + Two(k, j) = d
        BY ONLY <4>1, <4>2, <4>3, <4>4, <4>5, <4>6
      <4> QED
        BY <4>7, <4>8
    <3> QED
      BY <1>2, <3>2, <3>3, <3>4, <3>7, <3>9, <3>10 DEF Holds
  <2> QED
    BY <2>1, <2>2
<1> QED
  BY <1>6 DEF Filled

LEMMA ChainStartsBlock ==
  ASSUME NEW k \in Kinds, NEW i \in Int, i % ChainLen(k) = 0
  PROVE  i % Carry[k] = 0
<1>1. PICK C, P, L \in Nat \ {0} : C = Carry[k] /\ P = Pieces[k] /\ L = ChainLen(k) /\ L = P * C
  BY Lengths
<1>2. /\ i \div L \in Int /\ i % L = 0
      /\ i = (i \div L) * L + (i % L)
  <2>1. i \in Int /\ L \in Nat \ {0}
    BY <1>1
  <2> QED
    BY <1>1, <2>1, DivMod
<1>3. PICK q \in Int : i = q * L + 0
  BY <1>2
<1>4. i = q * L
  <2>1. PICK v \in Int : v = q * L
    OBVIOUS
  <2> QED
    BY <1>3, <2>1
<1>5. PICK p \in Int : p = q * P
  OBVIOUS
<1>6. p * C = q * (P * C)
  BY <1>5
<1>7. i = p * C + 0
  <2>1. PICK v \in Int : v = p * C
    OBVIOUS
  <2>2. i = v
    BY <1>1, <1>4, <1>6, <2>1
  <2> QED
    BY <2>1, <2>2
<1>8. 0 \in 0..(C - 1)
  OBVIOUS
<1>9. i % C = 0
  <2>1. i \in Int /\ p \in Int /\ C \in Nat \ {0}
    BY <1>1, <1>5
  <2> QED
    BY <1>7, <1>8, <2>1, DivModUnique
<1> QED
  BY <1>1, <1>9

(* Every packet holds the values of its block that it has read, and one    *)
(* that has left holds all of them.                                        *)
Fill ==
    /\ \A p \in Pending : Good(p.kind) =>
          Filled(p, (p.index - 1) - Base(p.kind), p.index % Carry[p.kind])
    /\ \A p \in Out : Good(p.kind) =>
          /\ p.index % Carry[p.kind] = Carry[p.kind] - 1
          /\ Filled(p, p.index - Base(p.kind), Carry[p.kind])

LEMMA FillSame ==
  ASSUME round' = round,
         \A p \in Pending' : Good(p.kind) =>
            Filled(p, (p.index - 1) - Base(p.kind), p.index % Carry[p.kind]),
         \A p \in Out' : Good(p.kind) =>
            /\ p.index % Carry[p.kind] = Carry[p.kind] - 1
            /\ Filled(p, p.index - Base(p.kind), Carry[p.kind])
  PROVE  Fill'
BY DEF Fill, Filled, Holds, Good, Base

LEMMA FillFlip == TypeOK /\ Order /\ Flip => Fill'
<1> SUFFICES ASSUME TypeOK, Order, Flip PROVE Fill'
  OBVIOUS
<1>1. PICK r \in Nat : r = round + 1 /\ round' = r
  BY DEF TypeOK, Flip
<1>2. Out' = {} /\ \A q \in Pending' : \E k \in Kinds, c \in 1..Chains : q = Sent(k, r, c)
  BY <1>1, SetsFlip
<1>3. ASSUME NEW q \in Pending'
      PROVE  q.index % Carry[q.kind] = 0 /\ (q.index - 1) - HalfBase(q.kind, r) \in Int
  <2>1. PICK k \in Kinds, c \in 1..Chains : q = Sent(k, r, c)
    BY <1>2
  <2>2. q.kind = k /\ q.index = Start(k, r, c)
    BY <2>1 DEF Sent
  <2>3. q.index \in Nat /\ q.index % ChainLen(k) = 0
    BY <2>2, StartsAtChains, InHalf
  <2>4. q.index % Carry[k] = 0
    BY <2>3, ChainStartsBlock
  <2>5. (q.index - 1) - HalfBase(k, r) \in Int
    BY <2>3, Bases
  <2> QED
    BY <2>2, <2>4, <2>5
<1>4. \A t \in Int : \A j \in Int : ~(t - 0 < j /\ j <= t)
  OBVIOUS
<1> QED
  BY <1>1, <1>2, <1>3, <1>4 DEF Fill, Filled, Base

(* A live packet that goes on holds what it read and read now.             *)
LEMMA FillPass ==
  ASSUME TypeOK, Order, Uncleaned, Fill, Recirculate, NEW p, p = loop[1], ~p.end, Good(p.kind)
  PROVE  /\ p.index \notin StopAt(p.kind) =>
               Filled(On(p), (On(p).index - 1) - Base(p.kind), On(p).index % Carry[p.kind])
         /\ Leaves(p) =>
               /\ p.index % Carry[p.kind] = Carry[p.kind] - 1
               /\ Filled(Done(p), p.index - Base(p.kind), Carry[p.kind])
<1>1. /\ p \in Packet /\ Done(p).kind = p.kind /\ On(p).kind = p.kind /\ On(p).index = p.index + 1
      /\ p \in Pending /\ round \in Nat
  BY PassFacts, SetsPass DEF TypeOK
<1>2. /\ Done(p).values = ReadValues(p.kind, p.index) \o p.values
      /\ On(p).values = IF p.index \in MirrorAt(p.kind) THEN <<>>
                        ELSE ReadValues(p.kind, p.index) \o p.values
  BY <1>1, PacketAfter
<1>3. PICK k \in Kinds : k = p.kind /\ Good(k)
  BY <1>1 DEF Packet
<1>4. PICK i \in Nat, t \in Nat :
         /\ i = p.index /\ i \in Half(k, round) /\ i = Base(k) + t /\ t = i - Base(k)
         /\ t \in 0..(Size(k) - 1) /\ round # 0
  <2>1. p.index \in Half(k, round) /\ round # 0
    BY <1>1, <1>3, PendingInRound
  <2>2. p.index \in Nat /\ p.index - Base(k) \in 0..(Size(k) - 1) /\ Base(k) \in Nat
    BY <1>1, <1>3, <2>1, InHalf, Bases DEF Base
  <2>3. p.index = Base(k) + (p.index - Base(k))
    BY <2>2
  <2> QED
    BY <2>1, <2>2, <2>3
<1>5. ASSUME k \in Filters PROVE i \in full[k]
  <2>1. Ahead(p, i)
    BY <1>3, <1>4 DEF Ahead, Ch
  <2>2. Unread(k, i)
    BY <1>1, <1>3, <2>1 DEF Unread
  <2> QED
    BY <1>4, <1>5, <2>2 DEF Uncleaned
<1>6. PICK n \in Nat : n = i % Carry[k] /\ n \in 0..(Carry[k] - 1)
  <2>1. i % Carry[k] \in 0..(Carry[k] - 1)
    <3>1. i \in Int /\ Carry[k] \in Nat \ {0}
      BY <1>4, Lengths
    <3> QED
      BY <3>1, DivMod
  <2> QED
    BY <2>1
<1>13. Carry[k] \in Nat \ {0} /\ Base(k) \in Nat
  BY <1>1, Lengths, Bases DEF Base
<1>7. Filled(p, t - 1, n)
  <2>1. (i - 1) - Base(k) = t - 1
    BY <1>4, <1>13
  <2> QED
    BY <1>1, <1>3, <1>4, <1>6, <2>1 DEF Fill
<1>8. ASSUME NEW q, q.kind = k, q.values = ReadValues(k, i) \o p.values
      PROVE  Filled(q, t, n + 1)
  BY <1>1, <1>3, <1>4, <1>5, <1>7, <1>8, FilledRead
<1>9. k # "clean_1" \/ round % 2 = 0
  BY <1>3 DEF Good
<1>10. i \in StopAt(k) <=> i % ChainLen(k) = ChainLen(k) - 1
  BY <1>1, <1>4, StopIsChainEnd
<1>11. i \notin StopAt(k) => (i \in MirrorAt(k) <=> n = Carry[k] - 1)
  BY <1>1, <1>4, <1>6, <1>9, <1>10, MirrorInChain
<1>12. i \in StopAt(k) => n = Carry[k] - 1
  <2>1. i \in Int
    BY <1>4
  <2> QED
    BY <1>6, <1>10, <2>1, ChainEndsBlock
<1>14. ASSUME i \notin StopAt(k)
       PROVE  Filled(On(p), ((i + 1) - 1) - Base(k), (i + 1) % Carry[k])
  <2>1. ((i + 1) - 1) - Base(k) = t
    BY <1>4, <1>13
  <2>2. CASE i \in MirrorAt(k)
    <3>1. (i + 1) % Carry[k] = 0
      <4>1. i % Carry[k] = Carry[k] - 1 /\ i \in Int
        BY <1>6, <1>11, <1>14, <2>2
      <4> QED
        BY <1>13, <4>1, NextStarts
    <3>2. \A j \in Int : ~(t - 0 < j /\ j <= t)
      OBVIOUS
    <3> QED
      BY <2>1, <3>1, <3>2 DEF Filled
  <2>3. CASE i \notin MirrorAt(k)
    <3>1. (i + 1) % Carry[k] = n + 1
      <4>1. i % Carry[k] # Carry[k] - 1 /\ i \in Int
        BY <1>6, <1>11, <1>14, <2>3
      <4> QED
        BY <1>6, <1>13, <4>1, NextInChain
    <3>2. On(p).values = ReadValues(k, i) \o p.values /\ On(p).kind = k
      BY <1>1, <1>2, <1>3, <1>4, <2>3
    <3>3. Filled(On(p), t, n + 1)
      BY <1>8, <3>2
    <3> QED
      BY <2>1, <3>1, <3>3
  <2> QED
    BY <2>2, <2>3
<1>15. ASSUME Leaves(p)
       PROVE  n = Carry[k] - 1 /\ Filled(Done(p), i - Base(k), Carry[k])
  <2>1. n = Carry[k] - 1
    BY <1>3, <1>4, <1>11, <1>12, <1>15 DEF Leaves
  <2>2. n + 1 = Carry[k]
    BY <1>13, <2>1
  <2>3. Filled(Done(p), t, n + 1)
    BY <1>1, <1>2, <1>3, <1>4, <1>8
  <2> QED
    BY <1>4, <2>1, <2>2, <2>3
<1> QED
  BY <1>1, <1>3, <1>4, <1>6, <1>14, <1>15

LEMMA FillNext == TypeOK /\ Order /\ Uncleaned /\ Fill /\ [Next]_vars => Fill'
<1> SUFFICES ASSUME TypeOK, Order, Uncleaned, Fill, [Next]_vars PROVE Fill'
  OBVIOUS
<1>1. ASSUME round' = round, Pending' = Pending, Out' \subseteq Out PROVE Fill'
  <2>1. \A p \in Pending' : Good(p.kind) =>
           Filled(p, (p.index - 1) - Base(p.kind), p.index % Carry[p.kind])
    BY <1>1 DEF Fill
  <2>2. \A p \in Out' : Good(p.kind) =>
           /\ p.index % Carry[p.kind] = Carry[p.kind] - 1
           /\ Filled(p, p.index - Base(p.kind), Carry[p.kind])
    BY <1>1 DEF Fill
  <2> QED
    BY <1>1, <2>1, <2>2, FillSame
<1>2. CASE UNCHANGED vars
  BY <1>1, <1>2 DEF vars, switchVars, Pending, Out
<1>3. CASE Flip
  BY <1>3, FillFlip
<1>4. CASE Inject
  BY <1>1, <1>4, SetsInject DEF Inject
<1>5. CASE Deliver
  BY <1>1, <1>5, SetsDeliver DEF Deliver, switchVars
<1>6. CASE Recirculate
  <2>1. CASE loop[1].end
    BY <1>1, <1>6, <2>1, SetsEnd DEF Recirculate
  <2>2. CASE ~loop[1].end
    <3>1. PICK p : p = loop[1] /\ ~p.end
      BY <2>2
    <3>2. round' = round /\ On(p).kind = p.kind /\ Done(p).kind = p.kind /\ Done(p).index = p.index
      BY <1>6, <3>1, PassFacts
    <3>3. /\ \A q \in Pending' : q \in Pending \/ (q = On(p) /\ p.index \notin StopAt(p.kind))
          /\ \A q \in Out' : q \in Out \/ (q = Done(p) /\ Leaves(p))
      BY <1>6, <3>1, SetsPass
    <3>4. ASSUME Good(p.kind)
          PROVE  /\ p.index \notin StopAt(p.kind) =>
                      Filled(On(p), (On(p).index - 1) - Base(p.kind), On(p).index % Carry[p.kind])
                 /\ Leaves(p) =>
                      /\ p.index % Carry[p.kind] = Carry[p.kind] - 1
                      /\ Filled(Done(p), p.index - Base(p.kind), Carry[p.kind])
      BY <1>6, <3>1, <3>4, FillPass
    <3>5. ASSUME NEW q \in Pending', Good(q.kind)
          PROVE  Filled(q, (q.index - 1) - Base(q.kind), q.index % Carry[q.kind])
      <4>1. CASE q \in Pending
        BY <3>5, <4>1 DEF Fill
      <4>2. CASE q = On(p) /\ p.index \notin StopAt(p.kind)
        BY <3>2, <3>4, <3>5, <4>2
      <4> QED
        BY <3>3, <3>5, <4>1, <4>2
    <3>6. ASSUME NEW q \in Out', Good(q.kind)
          PROVE  /\ q.index % Carry[q.kind] = Carry[q.kind] - 1
                 /\ Filled(q, q.index - Base(q.kind), Carry[q.kind])
      <4>1. CASE q \in Out
        BY <3>6, <4>1 DEF Fill
      <4>2. CASE q = Done(p) /\ Leaves(p)
        BY <3>2, <3>4, <3>6, <4>2
      <4> QED
        BY <3>3, <3>6, <4>1, <4>2
    <3> QED
      BY <3>2, <3>5, <3>6, FillSame
  <2> QED
    BY <2>1, <2>2
<1> QED
  BY <1>2, <1>3, <1>4, <1>5, <1>6 DEF Next

LEMMA FillCorrect == Spec => []Fill
<1>1. Init => Fill
  <2> SUFFICES ASSUME Init PROVE Pending = {} /\ Out = {}
    BY DEF Fill
  <2> QED
    BY DEF Init, Pending, Out
<1> QED
  BY <1>1, FillNext, TypeCorrect, OrderCorrect, UncleanedCorrect, PTL DEF Spec

(* Every index of the half is still to be read, or its values are in a     *)
(* packet that has not arrived, or the controller has them.                *)
InBlock(p, i) == p.index - (p.index % Carry[p.kind]) <= i /\ i <= p.index

Carried(k, i) == \/ \E p \in Pending : p.kind = k /\ InBlock(p, i) /\ i # p.index
                 \/ \E p \in Out : p.kind = k /\ InBlock(p, i)

Delivered(k, j) ==
    /\ counter[k][j] = Val(round, Base(k) + j)
    /\ HasEgress(k, j) => egress[j] = Val(round, EgressIndex(Base(k) + j))

Data ==
    round # 0 => \A k \in Kinds : Good(k) => \A j \in 0..(Size(k) - 1) :
        Unread(k, Base(k) + j) \/ Carried(k, Base(k) + j) \/ Delivered(k, j)

(* A packet that stays in its block begins where it began.                 *)
LEMMA SameBlock ==
  ASSUME TypeOK, Order, NEW p \in Pending, Good(p.kind), ~Leaves(p)
  PROVE  /\ p.index \in Nat /\ p.index % Carry[p.kind] \in Nat
         /\ (p.index + 1) % Carry[p.kind] = (p.index % Carry[p.kind]) + 1
<1>1. PICK k \in Kinds, i \in Nat : k = p.kind /\ i = p.index /\ i \in Int
  BY DEF Pending, Packet
<1>2. i \in Half(k, round) /\ round \in Nat
  BY <1>1, PendingInRound
<1>3. Carry[k] \in Nat \ {0}
  BY <1>1, Lengths
<1>4. k # "clean_1" \/ round % 2 = 0
  BY <1>1 DEF Good
<1>5. i \notin StopAt(k) /\ i \notin MirrorAt(k)
  BY <1>1 DEF Leaves
<1>6. i % ChainLen(k) # ChainLen(k) - 1
  BY <1>1, <1>2, <1>5, StopIsChainEnd
<1>7. i % Carry[k] # Carry[k] - 1
  BY <1>1, <1>2, <1>4, <1>5, <1>6, MirrorInChain
<1>8. (i + 1) % Carry[k] = (i % Carry[k]) + 1
  BY <1>1, <1>3, <1>7, NextInChain
<1>9. i % Carry[k] \in Nat
  <2>1. i % Carry[k] \in 0..(Carry[k] - 1)
    BY <1>1, <1>3, DivMod
  <2> QED
    BY <2>1
<1> QED
  BY <1>1, <1>8, <1>9

LEMMA CarriedPass ==
  ASSUME TypeOK, Order, Recirculate, NEW p, p = loop[1], ~p.end,
         NEW k \in Kinds, Good(k), NEW i \in Half(k, round),
         Carried(k, i) \/ (k = p.kind /\ i = p.index)
  PROVE  Carried(k, i)'
<1>1. /\ p \in Pending /\ p \in Packet /\ round \in Nat
      /\ On(p).kind = p.kind /\ On(p).index = p.index + 1
      /\ Done(p).kind = p.kind /\ Done(p).index = p.index
  BY PassFacts, SetsPass DEF TypeOK
<1>2. i \in Int
  BY <1>1, InHalf
<1>3. /\ \A q \in Pending : q = p \/ q \in Pending'
      /\ p.index \notin StopAt(p.kind) => On(p) \in Pending'
      /\ Out \subseteq Out'
      /\ Leaves(p) => Done(p) \in Out'
  BY SetsPass
<1>4. ASSUME k = p.kind, InBlock(p, i) PROVE Carried(k, i)'
  <2>1. CASE Leaves(p)
    <3>1. Done(p) \in Out' /\ Done(p).kind = k /\ Done(p).index = p.index
      BY <1>1, <1>3, <1>4, <2>1
    <3>2. InBlock(Done(p), i)
      BY <1>1, <1>4, <3>1 DEF InBlock
    <3> QED
      BY <3>1, <3>2 DEF Carried
  <2>2. CASE ~Leaves(p)
    <3>1. On(p) \in Pending' /\ On(p).kind = k /\ On(p).index = p.index + 1
      BY <1>1, <1>3, <1>4, <2>2 DEF Leaves
    <3>2. /\ p.index \in Nat /\ p.index % Carry[k] \in Nat
          /\ (p.index + 1) % Carry[k] = (p.index % Carry[k]) + 1
      BY <1>1, <1>4, <2>2, SameBlock
    <3>3. p.index - (p.index % Carry[k]) <= i /\ i <= p.index
      BY <1>4 DEF InBlock
    <3>4. (p.index + 1) - ((p.index + 1) % Carry[k]) = p.index - (p.index % Carry[k])
      BY <3>2
    <3>5. i <= p.index + 1 /\ i # p.index + 1
      BY <1>2, <3>2, <3>3
    <3>6. InBlock(On(p), i) /\ i # On(p).index
      BY <3>1, <3>3, <3>4, <3>5 DEF InBlock
    <3> QED
      BY <3>1, <3>6 DEF Carried
  <2> QED
    BY <2>1, <2>2
<1>5. ASSUME k = p.kind, i = p.index PROVE InBlock(p, i)
  <2>1. p.index % Carry[k] \in 0..(Carry[k] - 1) /\ Carry[k] \in Nat \ {0}
    <3>1. Carry[k] \in Nat \ {0}
      BY Lengths
    <3> QED
      BY <1>2, <1>5, <3>1, DivMod
  <2> QED
    BY <1>2, <1>5, <2>1 DEF InBlock
<1>6. CASE Carried(k, i)
  <2>1. ASSUME NEW q \in Pending, q.kind = k, InBlock(q, i), i # q.index PROVE Carried(k, i)'
    <3>1. CASE q = p
      BY <1>4, <2>1, <3>1
    <3>2. CASE q \in Pending'
      BY <2>1, <3>2 DEF Carried
    <3> QED
      BY <1>3, <3>1, <3>2
  <2>2. ASSUME NEW q \in Out, q.kind = k, InBlock(q, i) PROVE Carried(k, i)'
    BY <1>3, <2>2 DEF Carried
  <2> QED
    BY <1>6, <2>1, <2>2 DEF Carried
<1> QED
  BY <1>4, <1>5, <1>6

(* What a packet of this round holds is right where the controller puts it,*)
(* and it touches nothing else.                                            *)
LEMMA Writes ==
  ASSUME TypeOK, Order, Fill, Deliver, NEW p, p = Head(wire),
         NEW k \in Kinds, Good(k), NEW j \in 0..(Size(k) - 1),
         Delivered(k, j) \/ (p.kind = k /\ InBlock(p, Base(k) + j))
  PROVE  Delivered(k, j)'
<1>1. p \in Out /\ round' = round
  BY SetsDeliver DEF Deliver, switchVars
<1>2. /\ p \in Packet /\ p.kind \in Kinds /\ p.index \in Half(p.kind, round)
      /\ round \in Nat
  BY <1>1, PendingInRound
<1>3. PICK K \in Kinds : K = p.kind
  BY <1>2
<1>4. PICK t \in 0..(Size(K) - 1) : /\ t = p.index % Size(K) /\ p.index = Base(K) + t
                                    /\ t = p.index - Base(K)
  <2>1. /\ p.index \in Nat /\ p.index % Size(K) = p.index - Base(K)
        /\ p.index - Base(K) \in 0..(Size(K) - 1)
    BY <1>2, <1>3, InHalf DEF Base
  <2>2. Base(K) \in Nat
    BY <1>2, Bases DEF Base
  <2> QED
    BY <2>1, <2>2
<1>5. /\ counter' = [counter EXCEPT ![K] = [i \in DOMAIN counter[K] |->
            IF i \notin Written(K, t) THEN counter[K][i]
            ELSE Nth(p, Place(K, t, i) + (IF HasEgress(K, i) THEN 1 ELSE 0))]]
      /\ egress' = [i \in DOMAIN egress |->
            IF i \in Written(K, t) /\ HasEgress(K, i) THEN Nth(p, Place(K, t, i)) ELSE egress[i]]
  BY <1>3, <1>4 DEF Deliver
<1>6. /\ DOMAIN counter = Kinds /\ DOMAIN counter[k] = 0..(Size(k) - 1)
      /\ DOMAIN egress = 0..(EgressSize - 1)
  BY DEF TypeOK
<1>7. CASE K = k /\ j \in Written(k, t)
  <2>1. Filled(p, t, Carry[k])
    BY <1>1, <1>3, <1>4, <1>7 DEF Fill
  <2>2. Holds(p, t, j)
    BY <1>7, <2>1 DEF Filled, Written
  <2>3. counter'[k][j] = Nth(p, Place(k, t, j) + Two(k, j))
    BY <1>5, <1>6, <1>7 DEF Two
  <2>4. ASSUME HasEgress(k, j) PROVE egress'[j] = Nth(p, Place(k, t, j))
    <3>1. j \in DOMAIN egress
      BY <1>6, <2>4, EgressSizes DEF HasEgress
    <3> QED
      BY <1>5, <1>7, <2>4, <3>1
  <2>5. /\ counter'[k][j] = Val(round, Base(k) + j)
        /\ HasEgress(k, j) => egress'[j] = Val(round, EgressIndex(Base(k) + j))
    BY <1>3, <1>7, <2>2, <2>3, <2>4 DEF Holds
  <2> QED
    BY <1>1, <2>5 DEF Delivered, Base
<1>8. CASE ~(K = k /\ j \in Written(k, t))
  <2>1. counter'[k][j] = counter[k][j]
    BY <1>5, <1>6, <1>8
  <2>2. ASSUME HasEgress(k, j) PROVE egress'[j] = egress[j]
    <3>1. j \in DOMAIN egress
      BY <1>6, <2>2, EgressSizes DEF HasEgress
    <3>2. ~(j \in Written(K, t) /\ HasEgress(K, j))
      BY <1>8, <2>2 DEF HasEgress
    <3> QED
      BY <1>5, <3>1, <3>2
  <2>3. Delivered(k, j)
    <3>1. ~(p.kind = k /\ InBlock(p, Base(k) + j))
      <4>1. ASSUME p.kind = k, InBlock(p, Base(k) + j) PROVE j \in Written(k, t)
        <5>1. p.index % Carry[k] = Carry[k] - 1
          BY <1>1, <4>1 DEF Fill
        <5>2. p.index - (Carry[k] - 1) <= Base(k) + j /\ Base(k) + j <= p.index
          BY <4>1, <5>1 DEF InBlock
        <5>3. p.index = Base(k) + t /\ Base(k) \in Nat /\ Carry[k] \in Nat \ {0} /\ t \in Int
          BY <1>2, <1>3, <1>4, <4>1, Bases, Lengths DEF Base
        <5> HIDE <1>4
        <5>4. t - Carry[k] < j /\ j <= t
          BY <5>2, <5>3
        <5> QED
          BY <5>4 DEF Written
      <4> QED
        BY <1>3, <1>8, <4>1
    <3> QED
      BY <3>1
  <2> QED
    BY <1>1, <2>1, <2>2, <2>3 DEF Delivered, Base
<1> QED
  BY <1>7, <1>8

LEMMA DataNext == TypeOK /\ Order /\ Fill /\ Data /\ [Next]_vars => Data'
<1> SUFFICES ASSUME TypeOK, Order, Fill, Data, [Next]_vars PROVE Data'
  OBVIOUS
<1>0. round \in Nat
  BY DEF TypeOK
<1>1. ASSUME UNCHANGED <<round, counter, egress>>, Pending' = Pending, Out' = Out PROVE Data'
  BY <1>1 DEF Data, Unread, Ahead, Ch, Carried, Delivered, Good, Base
<1>2. CASE UNCHANGED vars
  BY <1>1, <1>2 DEF vars, switchVars, ctrlVars, Pending, Out
<1>3. CASE Flip
  <2>1. PICK r \in Nat : r = round + 1 /\ round' = r
    BY <1>0, <1>3 DEF Flip
  <2>2. ASSUME NEW k \in Kinds, NEW j \in 0..(Size(k) - 1) PROVE Unread(k, HalfBase(k, r) + j)'
    <3>1. HalfBase(k, r) + j \in Half(k, r)
      BY <2>1, Bases, Lengths DEF Half
    <3> QED
      BY <1>3, <2>1, <3>1, UnreadFlip
  <2> QED
    BY <2>1, <2>2 DEF Data, Base
<1>4. CASE Inject
  BY <1>1, <1>4, SetsInject DEF Inject, ctrlVars
<1>7. ASSUME NEW k \in Kinds, NEW j \in 0..(Size(k) - 1) PROVE Base(k) + j \in Half(k, round)
  BY <1>0, Bases, Lengths DEF Base, Half
<1>5. CASE Deliver
  <2>1. PICK p : p = Head(wire)
    OBVIOUS
  <2>2. /\ Pending' = Pending /\ round' = round
        /\ \A q \in Out : q \in Out' \/ q = p
    BY <1>5, <2>1, SetsDeliver DEF Deliver, switchVars
  <2>3. ASSUME NEW k \in Kinds, Good(k), NEW j \in 0..(Size(k) - 1), round # 0
        PROVE  Unread(k, Base(k) + j)' \/ Carried(k, Base(k) + j)' \/ Delivered(k, j)'
    <3>1. CASE Unread(k, Base(k) + j)
      BY <2>2, <3>1 DEF Unread, Ahead, Ch, Base
    <3>2. CASE Carried(k, Base(k) + j) /\ ~(p.kind = k /\ InBlock(p, Base(k) + j))
      BY <2>2, <3>2 DEF Carried, Base
    <3>3. CASE (p.kind = k /\ InBlock(p, Base(k) + j)) \/ Delivered(k, j)
      BY <1>5, <2>1, <2>3, <3>3, Writes
    <3> QED
      BY <2>3, <3>1, <3>2, <3>3 DEF Data
  <2> QED
    BY <2>2, <2>3 DEF Data, Good
<1>6. CASE Recirculate
  <2>1. CASE loop[1].end
    BY <1>1, <1>6, <2>1, SetsEnd DEF Recirculate, ctrlVars
  <2>2. CASE ~loop[1].end
    <3>1. PICK p : p = loop[1] /\ ~p.end
      BY <2>2
    <3>2. round' = round /\ counter' = counter /\ egress' = egress
      BY <1>6, <3>1, PassFacts
    <3>3. ASSUME NEW k \in Kinds, Good(k), NEW j \in 0..(Size(k) - 1), round # 0, NEW i, i = Base(k) + j
          PROVE  Unread(k, i)' \/ Carried(k, i)' \/ Delivered(k, j)'
      <4>1. i \in Half(k, round)
        BY <1>7, <3>3
      <4>2. CASE Unread(k, i) /\ ~(k = p.kind /\ i = p.index)
        BY <1>6, <3>1, <4>1, <4>2, UnreadPass
      <4>3. CASE Carried(k, i) \/ (k = p.kind /\ i = p.index)
        BY <1>6, <3>1, <3>3, <4>1, <4>3, CarriedPass
      <4>4. CASE Delivered(k, j)
        BY <3>2, <4>4 DEF Delivered, Base
      <4> QED
        BY <3>3, <4>2, <4>3, <4>4 DEF Data
    <3>4. \A k \in Kinds : Base(k)' = Base(k) /\ Good(k)' = Good(k)
      BY <3>2 DEF Base, Good
    <3> QED
      BY <3>2, <3>3, <3>4 DEF Data
  <2> QED
    BY <2>1, <2>2
<1> QED
  BY <1>2, <1>3, <1>4, <1>5, <1>6 DEF Next

LEMMA DataCorrect == Spec => []Data
<1>1. Init => Data
  BY DEF Init, Data
<1> QED
  BY <1>1, DataNext, TypeCorrect, OrderCorrect, FillCorrect, PTL DEF Spec

(* What the controller holds of a sketch whose flag is set was read in     *)
(* this round from the index it stands for, although eight chains run at   *)
(* once and only the packet with the greatest index sets the flag: filter  *)
(* 2, filter 1 in the rounds that read the second half, and the Fermat     *)
(* sketch at ingress and at egress.                                        *)
THEOREM WholeReadouts == Spec => []WholeWhenAvailable
<1>1. TypeOK /\ Order /\ Data => WholeWhenAvailable
  <2> SUFFICES ASSUME TypeOK, Order, Data PROVE WholeWhenAvailable
    OBVIOUS
  <2>1. ASSUME NEW k \in Kinds, k \in avail, Good(k), NEW j \in 0..(Size(k) - 1)
        PROVE  Delivered(k, j)
    <3>1. round # 0
      BY <2>1 DEF Order, NothingYet
    <3>2. \A q \in Pending \cup Out : q.kind # k
      BY <2>1, PendingInRound
    <3>3. ~Unread(k, Base(k) + j) /\ ~Carried(k, Base(k) + j)
      BY <3>2 DEF Unread, Carried
    <3> QED
      BY <2>1, <3>1, <3>3 DEF Data
  <2>2. ASSUME NEW k \in Kinds, k \in avail, Good(k) PROVE WholeReadout(k)
    BY <2>1, <2>2 DEF WholeReadout, Delivered, Base
  <2>3. /\ "clean_2" \in Kinds /\ Good("clean_2") /\ "fermat" \in Kinds /\ Good("fermat")
        /\ "clean_1" \in Kinds /\ (round % 2 = 0 => Good("clean_1"))
    BY DEF Kinds, Filters, Good
  <2>4. ASSUME "fermat" \in avail, NEW i \in DOMAIN egress
        PROVE  egress[i] = Val(round, (IF round % 2 = 1 THEN 0 ELSE EgressSize) + i)
    <3>1. /\ EgressSize \in Nat /\ Size("fermat") \in Nat /\ EgressSize <= Size("fermat")
          /\ i \in 0..(EgressSize - 1)
      BY EgressSizes DEF TypeOK
    <3>2. i \in 0..(Size("fermat") - 1) /\ HasEgress("fermat", i)
      BY <3>1 DEF HasEgress
    <3>3. egress[i] = Val(round, EgressIndex(Base("fermat") + i))
      BY <2>1, <2>3, <2>4, <3>2 DEF Delivered
    <3>4. EgressIndex(Base("fermat") + i) = (IF round % 2 = 1 THEN 0 ELSE EgressSize) + i
      BY <3>1 DEF EgressIndex, Base, HalfBase
    <3> QED
      BY <3>3, <3>4
  <2> QED
    BY <2>2, <2>3, <2>4 DEF WholeWhenAvailable
<1> QED
  BY <1>1, TypeCorrect, OrderCorrect, DataCorrect, PTL
=============================================================================
