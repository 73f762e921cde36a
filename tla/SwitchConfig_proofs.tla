------------------------- MODULE SwitchConfig_proofs -------------------------
(***************************************************************************)
(* For every word width, all messages and whatever comes after whatever:   *)
(* a switch in the middle of a batch never counts with ranges of one       *)
(* message and a mask of another, and a switch that has finished one       *)
(* counts where the controller decodes.                                    *)
(*                                                                         *)
(* The invariant is that todo is the rest of the last message's batch and  *)
(* the tables hold what the operations before that rest have put there.    *)
(* The first part is about ZoneMap: the switch, which cannot divide, puts  *)
(* an index into the same bucket as the controller, which can.             *)
(***************************************************************************)
EXTENDS SwitchConfig, SequenceTheorems, FiniteSetTheorems, TLAPS

(* Dividing i by size: i is in the q-th stretch of size indices.           *)
LEMMA DivFacts ==
  ASSUME NEW i \in Nat, NEW size \in Nat \ {0}
  PROVE  /\ i \div size \in Nat
         /\ i % size \in 0..(size - 1)
         /\ i = (i \div size) * size + (i % size)
<1>1. i % size \in 0..(size - 1)
  OBVIOUS
<1>2. i = size * (i \div size) + (i % size)
  OBVIOUS
<1>3. i \div size \in Int
  OBVIOUS
<1>4. i \div size >= 0
  OBVIOUS
<1> QED
  BY <1>1, <1>2, <1>3, <1>4

(* Stretches do not overlap.                                               *)
LEMMA StretchUnique ==
  ASSUME NEW size \in Nat \ {0}, NEW a \in Nat, NEW b \in Nat, NEW i \in Nat,
         a * size <= i, i < (a + 1) * size, b * size <= i, i < (b + 1) * size
  PROVE  a = b
<1>1. CASE a < b
  <2>1. PICK d \in Nat : b = a + 1 + d
    <3>1. b - a - 1 \in Nat /\ b = a + 1 + (b - a - 1)
      BY <1>1
    <3> QED BY <3>1
  <2>2. b * size = (a + 1) * size + d * size
    BY <2>1
  <2>3. d * size >= 0
    OBVIOUS
  <2> QED BY <2>2, <2>3
<1>2. CASE b < a
  <2>1. PICK d \in Nat : a = b + 1 + d
    <3>1. a - b - 1 \in Nat /\ a = b + 1 + (a - b - 1)
      BY <1>2
    <3> QED BY <3>1
  <2>2. a * size = (b + 1) * size + d * size
    BY <2>1
  <2>3. d * size >= 0
    OBVIOUS
  <2> QED BY <2>2, <2>3
<1> QED BY <1>1, <1>2

(* The last entry is the one of the stretch that the mask is in.           *)
LEMMA NumEntryFacts ==
  ASSUME NEW size \in Nat \ {0}, NEW mask \in Nat
  PROVE  NumEntry(size, mask) = (mask \div size) + 1
<1> DEFINE q == mask \div size
           r == mask % size
<1>1. q \in Nat /\ r \in 0..(size - 1) /\ mask = q * size + r
  BY DivFacts
<1>2. mask - r = q * size
  BY <1>1
<1> HIDE DEF q, r
<1>3. (q * size) \div size = q
  BY <1>1
<1>4. NumEntry(size, mask) = ((mask - r) \div size) + 1
  BY DEF NumEntry, r
<1>5. NumEntry(size, mask) = q + 1
  BY <1>2, <1>3, <1>4
<1> QED
  BY <1>5 DEF q

(* An index up to the mask is in the stretch i div size and in no other.   *)
LEMMA OneEntry ==
  ASSUME NEW size \in Nat \ {0}, NEW base \in Nat, NEW mask \in Nat, NEW i \in 0..mask
  PROVE  Matches(RangeTable(size, base, mask), i)
            = {RangeEntry(i \div size, size, base, mask)}
<1> DEFINE q == i \div size
           m == mask \div size
           entry(k) == RangeEntry(k, size, base, mask)
<1>1. i \in Nat /\ i <= mask
  OBVIOUS
<1>2. q \in Nat /\ i % size \in 0..(size - 1) /\ i = q * size + (i % size)
  BY <1>1, DivFacts
<1>3. m \in Nat /\ mask % size \in 0..(size - 1) /\ mask = m * size + (mask % size)
  BY DivFacts
<1>4. NumEntry(size, mask) = m + 1
  BY NumEntryFacts
<1> HIDE DEF q, m
<1>5. q * size <= i /\ i < (q + 1) * size
  BY <1>1, <1>2
<1>6. m * size <= mask /\ mask < (m + 1) * size
  BY <1>3
<1>7. q <= m
  <2>1. CASE m < q
    <3>1. PICK d \in Nat : q = m + 1 + d
      <4>1. q - m - 1 \in Nat /\ q = m + 1 + (q - m - 1)
        BY <1>2, <1>3, <2>1
      <4> QED BY <4>1
    <3>2. q * size = (m + 1) * size + d * size /\ d * size >= 0
      BY <1>3, <3>1
    <3> QED BY <1>1, <1>2, <1>3, <1>5, <1>6, <3>2
  <2> QED BY <1>2, <1>3, <2>1
<1>8. RangeTable(size, base, mask) = {entry(k) : k \in 0..m}
  BY <1>3, <1>4 DEF RangeTable
<1>9. ASSUME NEW k \in 0..m, k # m
      PROVE  entry(k).lo = k * size /\ entry(k).hi = (k + 1) * size - 1
  BY <1>3, <1>4, <1>9 DEF RangeEntry
<1>10. entry(m).lo = m * size /\ entry(m).hi = mask
  BY <1>3, <1>4 DEF RangeEntry
<1>11. entry(q).lo <= i /\ i <= entry(q).hi
  <2>1. CASE q = m
    BY <1>1, <1>5, <1>10, <2>1
  <2>2. CASE q # m
    BY <1>2, <1>3, <1>5, <1>7, <1>9, <2>2
  <2> QED BY <2>1, <2>2
<1>12. ASSUME NEW k \in 0..m, entry(k).lo <= i, i <= entry(k).hi
       PROVE  k = q
  <2>1. k \in Nat /\ k * size <= i
    <3>1. CASE k = m
      BY <1>10, <1>12, <1>3, <3>1
    <3>2. CASE k # m
      BY <1>9, <1>12, <1>3, <3>2
    <3> QED BY <3>1, <3>2
  <2>2. i < (k + 1) * size
    <3>1. CASE k = m
      BY <1>1, <1>6, <1>3, <3>1
    <3>2. CASE k # m
      <4>1. entry(k).hi = (k + 1) * size - 1
        BY <1>9, <3>2
      <4>2. (k + 1) * size \in Nat
        BY <2>1
      <4> QED BY <1>1, <1>12, <4>1, <4>2
    <3> QED BY <3>1, <3>2
  <2> QED BY <1>1, <1>2, <1>5, <2>1, <2>2, StretchUnique
<1>13. q \in 0..m
  BY <1>2, <1>3, <1>7
<1> HIDE DEF entry
<1>14. Matches({entry(k) : k \in 0..m}, i) = {entry(q)}
  BY <1>11, <1>12, <1>13 DEF Matches
<1> QED
  BY <1>8, <1>14 DEF entry, q

(* For every zone that lies within the indices, every mask and every       *)
(* masked index, the range table adjust builds (Hierarchical_Fermat.cpp)   *)
(* makes the data plane count where the controller decodes                 *)
(* (fermatDecode.h: zone_base + hash % zone_size).                         *)
THEOREM RangesMapAsDecoded ==
  ASSUME NEW size \in Nat \ {0}, NEW base \in Nat, NEW mask \in Nat, NEW i \in 0..mask,
         base + size <= Word
  PROVE  MapIndex(RangeTable(size, base, mask), i) = DecodePos(i, size, base)
<1> DEFINE q == i \div size
           r == i % size
           e == RangeEntry(q, size, base, mask)
<1>1. i \in Nat /\ Word \in Nat \ {0}
  BY WordBitsAssumption
<1>2. q \in Nat /\ r \in 0..(size - 1) /\ i = q * size + r
  BY <1>1, DivFacts
<1>3. Matches(RangeTable(size, base, mask), i) = {e}
  BY OneEntry
<1>4. e.offset = Offset(q, size, base)
  BY DEF RangeEntry
<1> HIDE DEF q, r, e
<1>5. MapIndex(RangeTable(size, base, mask), i) = (i + e.offset) % Word
  <2>1. (CHOOSE x \in {e} : TRUE) = e
    OBVIOUS
  <2> QED BY <1>3, <2>1 DEF MapIndex
<1>6. q * size \in Nat
  BY <1>2
<1>7. r + base \in Nat /\ r + base < Word
  BY <1>1, <1>2
<1>8. (i + e.offset) % Word = r + base
  <2>1. CASE base >= q * size
    <3>1. i + e.offset = r + base
      BY <1>2, <1>4, <1>6, <2>1 DEF Offset
    <3> QED BY <3>1, <1>1, <1>7
  <2>2. CASE ~(base >= q * size)
    <3>1. i + e.offset = Word + (r + base)
      BY <1>1, <1>2, <1>4, <1>6, <2>2 DEF Offset
    <3>2. (Word + (r + base)) % Word = r + base
      BY <1>1, <1>7
    <3> QED BY <3>1, <3>2
  <2> QED BY <2>1, <2>2
<1> QED
  BY <1>5, <1>8 DEF DecodePos, r
-----------------------------------------------------------------------------
(* What MapEntries is to enter for a zone.                                 *)
Table(m, j) == RangeTable(m.zone_size[j], m.zone_base[j], MsgMask(m, j))
MapPart(m, j) ==
    {Op("addMap", j + 1, e) : e \in Table(m, j)}
    \cup {Op("addRemap", Nothing, e) : e \in IF j = 1 THEN Table(m, 1) ELSE {}}
ClassPart(m) == {ClassOps(m)[k] : k \in 1..Len(ClassOps(m))}
Later(m) == MapPart(m, 0) \cup MapPart(m, 1) \cup MapPart(m, 2) \cup ClassPart(m)

(* The ranges of a filter's counter for thresholds th, and those of them   *)
(* that the table takes.                                                   *)
Classes(max, th) ==
    {ClassEntries(max, th[1], th[2])[k] : k \in DOMAIN ClassEntries(max, th[1], th[2])}
Taken(S) == UNION {Accepted(e) : e \in S}

(* The operations of a batch that come before all entries.                 *)
First(m) == Clears(m) \o Masks(m)
Firsts(m) == {First(m)[k] : k \in 1..Len(First(m))}
-----------------------------------------------------------------------------
(* s has all elements of S and no others.                                  *)
Lists(s, S) == s \in Seq(S) /\ \A o \in S : \E k \in 1..Len(s) : s[k] = o

LEMMA ListsConcat ==
    ASSUME NEW S, NEW T, NEW s, NEW t, Lists(s, S), Lists(t, T)
    PROVE  Lists(s \o t, S \cup T)
<1> DEFINE U == S \cup T
<1>1. s \in Seq(U) /\ t \in Seq(U) /\ Len(s) \in Nat /\ Len(t) \in Nat
  BY DEF Lists
<1>2. /\ s \o t \in Seq(U) /\ Len(s \o t) = Len(s) + Len(t)
      /\ \A i \in 1..(Len(s) + Len(t)) :
             (s \o t)[i] = IF i <= Len(s) THEN s[i] ELSE t[i - Len(s)]
  BY <1>1, ConcatProperties
<1>3. \A o \in S : \E k \in 1..Len(s \o t) : (s \o t)[k] = o
  <2> SUFFICES ASSUME NEW o \in S PROVE \E k \in 1..Len(s \o t) : (s \o t)[k] = o
    OBVIOUS
  <2>1. PICK k \in 1..Len(s) : s[k] = o
    BY DEF Lists
  <2> QED
    BY <1>1, <1>2, <2>1
<1>4. \A o \in T : \E k \in 1..Len(s \o t) : (s \o t)[k] = o
  <2> SUFFICES ASSUME NEW o \in T PROVE \E k \in 1..Len(s \o t) : (s \o t)[k] = o
    OBVIOUS
  <2>1. PICK k \in 1..Len(t) : t[k] = o
    BY DEF Lists
  <2>2. Len(s) + k \in 1..Len(s \o t) /\ (s \o t)[Len(s) + k] = o
    BY <1>1, <1>2, <2>1
  <2> QED
    BY <2>2
<1> QED
  BY <1>2, <1>3, <1>4 DEF Lists

(* s is f and then, in some order, what S has.                             *)
Continues(s, f, S) ==
    /\ s \in Seq({f[k] : k \in 1..Len(f)} \cup S) /\ Len(f) <= Len(s)
    /\ \A k \in 1..Len(f) : s[k] = f[k]
    /\ \A k \in (Len(f) + 1)..Len(s) : s[k] \in S
    /\ \A o \in S : \E k \in (Len(f) + 1)..Len(s) : s[k] = o

LEMMA ContinuesConcat ==
    ASSUME NEW F, NEW f \in Seq(F), NEW S, NEW T, NEW s, NEW t, Continues(s, f, S), Lists(t, T)
    PROVE  Continues(s \o t, f, S \cup T)
<1> DEFINE U == {f[k] : k \in 1..Len(f)} \cup (S \cup T)
<1>0. Len(f) \in Nat
  OBVIOUS
<1>1. s \in Seq(U) /\ t \in Seq(U) /\ Len(s) \in Nat /\ Len(t) \in Nat /\ Len(f) <= Len(s)
  BY DEF Lists, Continues
<1>2. /\ s \o t \in Seq(U) /\ Len(s \o t) = Len(s) + Len(t)
      /\ \A i \in 1..(Len(s) + Len(t)) :
             (s \o t)[i] = IF i <= Len(s) THEN s[i] ELSE t[i - Len(s)]
  BY <1>1, ConcatProperties
<1>3. \A k \in 1..Len(f) : (s \o t)[k] = f[k]
  BY <1>0, <1>1, <1>2 DEF Continues
<1>4. ASSUME NEW k \in (Len(f) + 1)..Len(s \o t)
      PROVE  (s \o t)[k] \in S \cup T
  <2>1. CASE k <= Len(s)
    BY <1>0, <1>1, <1>2, <2>1 DEF Continues
  <2>2. CASE ~(k <= Len(s))
    <3>1. k - Len(s) \in 1..Len(t) /\ (s \o t)[k] = t[k - Len(s)]
      BY <1>0, <1>1, <1>2, <2>2
    <3>2. t \in Seq(T)
      BY DEF Lists
    <3> QED
      BY <3>1, <3>2, ElementOfSeq
  <2> QED
    BY <2>1, <2>2
<1>5. ASSUME NEW o \in S \cup T
      PROVE  \E k \in (Len(f) + 1)..Len(s \o t) : (s \o t)[k] = o
  <2>1. CASE o \in S
    <3>1. PICK k \in (Len(f) + 1)..Len(s) : s[k] = o
      BY <2>1 DEF Continues
    <3> QED
      BY <1>0, <1>1, <1>2, <3>1
  <2>2. CASE o \in T
    <3>1. PICK k \in 1..Len(t) : t[k] = o
      BY <2>2 DEF Lists
    <3>2. Len(s) + k \in (Len(f) + 1)..Len(s \o t) /\ (s \o t)[Len(s) + k] = o
      BY <1>0, <1>1, <1>2, <3>1
    <3> QED
      BY <3>2
  <2> QED
    BY <2>1, <2>2
<1>6. Len(f) <= Len(s \o t)
  BY <1>0, <1>1, <1>2
<1> QED
  BY <1>2, <1>3, <1>4, <1>5, <1>6, Zenon DEF Continues
-----------------------------------------------------------------------------
(* The messages have sizes, bases and masks that fit in a word.            *)
LEMMA MsgFacts ==
    ASSUME NEW m \in Configs, NEW j \in Zone
    PROVE  /\ m.zone_size[j] \in Nat /\ m.zone_base[j] \in Nat
           /\ MsgMask(m, j) \in Nat /\ MsgMask(m, j) < Word
           /\ m.zone_base[j] + m.zone_size[j] < Word
<1>1. Word \in Nat
  BY WordBitsAssumption
<1>2. /\ m.zone_size[j] \in Nat /\ m.zone_base[j] \in Nat /\ MsgMask(m, j) \in 0..(Word - 1)
      /\ m.zone_base[j] + m.zone_size[j] < Word
  BY ConfigAssumption
<1> QED
  BY <1>1, <1>2

(* A sequence that is given by its places.                                 *)
LEMMA SeqByPlace ==
    ASSUME NEW n \in Nat, NEW S, NEW s \in [1..n -> S]
    PROVE  s \in Seq(S) /\ Len(s) = n
OBVIOUS

LEMMA ListsByPlace ==
    ASSUME NEW n \in Nat, NEW s, s = [k \in 1..n |-> s[k]]
    PROVE  Lists(s, {s[k] : k \in 1..n}) /\ Len(s) = n
<1> DEFINE S == {s[k] : k \in 1..n}
<1>1. s \in [1..n -> S]
  OBVIOUS
<1>2. s \in Seq(S) /\ Len(s) = n
  BY <1>1
<1> QED
  BY <1>2 DEF Lists
-----------------------------------------------------------------------------
ClearsLen(m) == IF m.whether_range = 1 THEN 4 ELSE 3

(* The first operations of a batch: the tables are cleared, then come the  *)
(* masks of the three types, that of the egress and the sampling bound.    *)
LEMMA FirstFacts ==
    ASSUME NEW m \in Configs
    PROVE  LET c == ClearsLen(m)
               f == First(m)
           IN  /\ f \in Seq(Firsts(m)) /\ Len(f) = c + 5
               /\ f[1] = Op("clearMask", Nothing, Nothing)
               /\ f[2] = Op("clearMap", Nothing, Nothing)
               /\ f[3] = Op("clearRemap", Nothing, Nothing)
               /\ c = 4 => f[4] = Op("clearClasses", Nothing, Nothing)
               /\ \A j \in Types : f[c + j] = Op("addMask", j, MsgMask(m, j - 1))
               /\ f[c + 4] = Op("setRemapMask", Nothing, MsgMask(m, 1))
               /\ f[c + 5] = Op("setDrop", Nothing, m.drop_rate)
<1> DEFINE c == ClearsLen(m)
           f == First(m)
           c1 == << Op("clearMask", Nothing, Nothing), Op("clearMap", Nothing, Nothing),
                    Op("clearRemap", Nothing, Nothing) >>
           c2 == IF m.whether_range = 1 THEN << Op("clearClasses", Nothing, Nothing) >> ELSE <<>>
           m1 == [j \in 1..3 |-> Op("addMask", j, MsgMask(m, j - 1))]
           m2 == << Op("setRemapMask", Nothing, MsgMask(m, 1)), Op("setDrop", Nothing, m.drop_rate) >>
           O == {c1[1], c1[2], c1[3], Op("clearClasses", Nothing, Nothing), m2[1], m2[2]}
                    \cup {m1[j] : j \in 1..3}
<1>1. c1 \in Seq(O) /\ Len(c1) = 3
  <2> HIDE DEF m1, m2
  <2> QED OBVIOUS
<1>2. /\ c2 \in Seq(O) /\ Len(c2) = c - 3 /\ c \in {3, 4}
      /\ c = 4 => c2[1] = Op("clearClasses", Nothing, Nothing)
  <2> DEFINE o == Op("clearClasses", Nothing, Nothing)
  <2>0. o \in O
    OBVIOUS
  <2>1. CASE m.whether_range = 1
    <3>1. c2 = << o >> /\ c = 4
      BY <2>1 DEF ClearsLen
    <3> HIDE DEF c2, c, O, o
    <3>2. << o >> \in Seq(O) /\ Len(<< o >>) = 1 /\ << o >>[1] = o
      BY <2>0
    <3>3. c2 \in Seq(O) /\ Len(c2) = c - 3 /\ c \in {3, 4} /\ c2[1] = o
      BY <3>1, <3>2
    <3> QED BY <3>3 DEF o
  <2>2. CASE m.whether_range # 1
    <3>1. c2 = << >> /\ c = 3
      BY <2>2 DEF ClearsLen
    <3> HIDE DEF c2, c, O
    <3>2. << >> \in Seq(O) /\ Len(<< >>) = 0
      BY EmptySeq
    <3> QED BY <3>1, <3>2
  <2> QED BY <2>1, <2>2
<1>3. m1 \in Seq(O) /\ Len(m1) = 3
  <2>1. m1 \in [1..3 -> O] /\ 3 \in Nat
    OBVIOUS
  <2> HIDE DEF O, m1
  <2> QED BY <2>1, SeqByPlace
<1>4. m2 \in Seq(O) /\ Len(m2) = 2
  <2> HIDE DEF m1, c1
  <2> QED OBVIOUS
<1>5. f = (c1 \o c2) \o (m1 \o m2)
  BY DEF First, Clears, Masks
<1>6. \A j \in Types : m1[j] = Op("addMask", j, MsgMask(m, j - 1))
  BY DEF Types
<1>7. /\ c1[1] = Op("clearMask", Nothing, Nothing)
      /\ c1[2] = Op("clearMap", Nothing, Nothing)
      /\ c1[3] = Op("clearRemap", Nothing, Nothing)
      /\ m2[1] = Op("setRemapMask", Nothing, MsgMask(m, 1))
      /\ m2[2] = Op("setDrop", Nothing, m.drop_rate)
  OBVIOUS
<1> HIDE DEF c1, c2, m1, m2, O, f, c
<1>8. /\ c1 \o c2 \in Seq(O) /\ Len(c1 \o c2) = c
      /\ \A i \in 1..c : (c1 \o c2)[i] = IF i <= 3 THEN c1[i] ELSE c2[i - 3]
  <2>1. /\ c1 \o c2 \in Seq(O) /\ Len(c1 \o c2) = Len(c1) + Len(c2)
        /\ \A i \in 1..(Len(c1) + Len(c2)) :
               (c1 \o c2)[i] = IF i <= Len(c1) THEN c1[i] ELSE c2[i - Len(c1)]
    BY <1>1, <1>2, ConcatProperties
  <2> QED BY <1>1, <1>2, <2>1
<1>9. /\ m1 \o m2 \in Seq(O) /\ Len(m1 \o m2) = 5
      /\ \A i \in 1..5 : (m1 \o m2)[i] = IF i <= 3 THEN m1[i] ELSE m2[i - 3]
  <2>1. /\ m1 \o m2 \in Seq(O) /\ Len(m1 \o m2) = Len(m1) + Len(m2)
        /\ \A i \in 1..(Len(m1) + Len(m2)) :
               (m1 \o m2)[i] = IF i <= Len(m1) THEN m1[i] ELSE m2[i - Len(m1)]
    BY <1>3, <1>4, ConcatProperties
  <2> QED BY <1>3, <1>4, <2>1
<1>10. /\ f \in Seq(O) /\ Len(f) = c + 5
       /\ \A i \in 1..(c + 5) : f[i] = IF i <= c THEN (c1 \o c2)[i] ELSE (m1 \o m2)[i - c]
  <2> DEFINE cc == c1 \o c2
             mm == m1 \o m2
  <2>1. cc \in Seq(O) /\ mm \in Seq(O) /\ Len(cc) = c /\ Len(mm) = 5 /\ f = cc \o mm
    BY <1>5, <1>8, <1>9
  <2> HIDE DEF cc, mm
  <2>2. /\ cc \o mm \in Seq(O) /\ Len(cc \o mm) = Len(cc) + Len(mm)
        /\ \A i \in 1..(Len(cc) + Len(mm)) :
               (cc \o mm)[i] = IF i <= Len(cc) THEN cc[i] ELSE mm[i - Len(cc)]
    BY <2>1, ConcatProperties
  <2>3. /\ f \in Seq(O) /\ Len(f) = c + 5
        /\ \A i \in 1..(c + 5) : f[i] = IF i <= c THEN cc[i] ELSE mm[i - c]
    BY <1>2, <2>1, <2>2
  <2> QED BY <2>3 DEF cc, mm
<1>11. /\ f[1] = c1[1] /\ f[2] = c1[2] /\ f[3] = c1[3]
       /\ c = 4 => f[4] = c2[1]
  BY <1>2, <1>8, <1>10
<1>15. \A i \in 1..5 : f[c + i] = (m1 \o m2)[i]
  <2> SUFFICES ASSUME NEW i \in 1..5 PROVE f[c + i] = (m1 \o m2)[i]
    OBVIOUS
  <2>1. c + i \in 1..(c + 5) /\ ~(c + i <= c) /\ (c + i) - c = i
    BY <1>2
  <2> QED
    BY <1>10, <2>1
<1>12. \A j \in Types : f[c + j] = m1[j]
  BY <1>9, <1>15 DEF Types
<1>13. f[c + 4] = m2[1] /\ f[c + 5] = m2[2]
  <2>1. (m1 \o m2)[4] = m2[4 - 3] /\ (m1 \o m2)[5] = m2[5 - 3]
    BY <1>9
  <2>2. 4 \in 1..5 /\ 5 \in 1..5 /\ 4 - 3 = 1 /\ 5 - 3 = 2
    OBVIOUS
  <2>3. (m1 \o m2)[4] = m2[1] /\ (m1 \o m2)[5] = m2[2]
    BY <2>1, <2>2
  <2> QED
    BY <1>15, <2>2, <2>3
<1>14. f \in Seq(Firsts(m))
  <2>1. f \in [1..Len(f) -> {f[k] : k \in 1..Len(f)}] /\ Len(f) \in Nat
    BY <1>2, <1>10
  <2> QED
    BY <2>1 DEF Firsts, f
<1> QED
  <2>1. /\ f \in Seq(Firsts(m)) /\ Len(f) = c + 5
        /\ f[1] = Op("clearMask", Nothing, Nothing)
        /\ f[2] = Op("clearMap", Nothing, Nothing)
        /\ f[3] = Op("clearRemap", Nothing, Nothing)
        /\ c = 4 => f[4] = Op("clearClasses", Nothing, Nothing)
        /\ \A j \in Types : f[c + j] = Op("addMask", j, MsgMask(m, j - 1))
        /\ f[c + 4] = Op("setRemapMask", Nothing, MsgMask(m, 1))
        /\ f[c + 5] = Op("setDrop", Nothing, m.drop_rate)
    <3>1. f[1] = Op("clearMask", Nothing, Nothing) /\ f[2] = Op("clearMap", Nothing, Nothing)
      BY <1>7, <1>11
    <3>2. f[3] = Op("clearRemap", Nothing, Nothing)
      BY <1>7, <1>11
    <3>3. c = 4 => f[4] = Op("clearClasses", Nothing, Nothing)
      BY <1>2, <1>11
    <3>4. \A j \in Types : f[c + j] = Op("addMask", j, MsgMask(m, j - 1))
      BY <1>6, <1>12
    <3>5. f[c + 4] = Op("setRemapMask", Nothing, MsgMask(m, 1))
          /\ f[c + 5] = Op("setDrop", Nothing, m.drop_rate)
      BY <1>7, <1>13
    <3> QED BY <1>10, <1>14, <3>1, <3>2, <3>3, <3>4, <3>5
  <2> QED
    BY <2>1 DEF f, c

(* Then the entries of the zones, each range of a zone once.               *)
LEMMA RangesListed ==
    ASSUME NEW m \in Configs, NEW j \in Zone
    PROVE  Lists(ZoneRanges(m, j), Table(m, j))
<1> DEFINE size == m.zone_size[j]
           base == m.zone_base[j]
           mask == MsgMask(m, j)
           num == IF size = 0 THEN 0 ELSE NumEntry(size, mask)
           r == ZoneRanges(m, j)
<1>1. size \in Nat /\ mask \in Nat
  BY MsgFacts
<1>2. num \in Nat
  <2>1. CASE size = 0
    BY <2>1
  <2>2. CASE size # 0
    <3>1. size \in Nat \ {0}
      BY <1>1, <2>2
    <3>2. NumEntry(size, mask) = (mask \div size) + 1 /\ mask \div size \in Nat
      BY <1>1, <3>1, NumEntryFacts, DivFacts
    <3> QED BY <2>2, <3>2
  <2> QED BY <2>1, <2>2
<1>3. r = [k \in 1..num |-> RangeEntry(k - 1, size, base, mask)]
  BY DEF ZoneRanges
<1>4. Lists(r, {r[k] : k \in 1..num})
  <2> HIDE DEF num
  <2>1. r = [k \in 1..num |-> r[k]]
    BY <1>3
  <2> HIDE DEF r
  <2> QED BY <1>2, <2>1, ListsByPlace
<1>5. Table(m, j) = {r[k] : k \in 1..num}
  <2>1. CASE size = 0
    BY <2>1 DEF Table, RangeTable
  <2>2. CASE size # 0
    <3>1. Table(m, j) = {RangeEntry(k, size, base, mask) : k \in 0..(num - 1)}
      BY <2>2 DEF Table, RangeTable
    <3> HIDE DEF num, r, size, base, mask
    <3>2. \A k \in 0..(num - 1) : k + 1 \in 1..num /\ RangeEntry(k, size, base, mask) = r[k + 1]
      BY <1>2, <1>3
    <3>3. \A k \in 1..num : k - 1 \in 0..(num - 1) /\ RangeEntry(k - 1, size, base, mask) = r[k]
      BY <1>2, <1>3
    <3> QED
      BY <3>1, <3>2, <3>3
  <2> QED BY <2>1, <2>2
<1> QED
  BY <1>4, <1>5

LEMMA EntriesListed ==
    ASSUME NEW m \in Configs, NEW j \in Zone
    PROVE  Lists(MapEntries(m, j), MapPart(m, j))
<1> DEFINE r == ZoneRanges(m, j)
           A == {Op("addMap", j + 1, e) : e \in Table(m, j)}
           B == {Op("addRemap", Nothing, e) : e \in IF j = 1 THEN Table(m, 1) ELSE {}}
           a == [k \in DOMAIN r |-> Op("addMap", j + 1, r[k])]
           b == IF j = 1 THEN [k \in DOMAIN r |-> Op("addRemap", Nothing, r[k])] ELSE <<>>
<1>1. r \in Seq(Table(m, j)) /\ (\A e \in Table(m, j) : \E k \in 1..Len(r) : r[k] = e)
      /\ Len(r) \in Nat /\ DOMAIN r = 1..Len(r)
  BY RangesListed DEF Lists
<1>2. \A k \in 1..Len(r) : r[k] \in Table(m, j)
  BY <1>1, ElementOfSeq
<1> HIDE DEF r
<1>3. Lists(a, A)
  <2>1. a \in [1..Len(r) -> A]
    BY <1>1, <1>2
  <2>2. a \in Seq(A) /\ Len(a) = Len(r)
    <3> HIDE DEF a, A
    <3> QED BY <1>1, <2>1
  <2>3. \A k \in 1..Len(r) : a[k] = Op("addMap", j + 1, r[k])
    BY <1>1
  <2>4. \A o \in A : \E k \in 1..Len(a) : a[k] = o
    <3> SUFFICES ASSUME NEW e \in Table(m, j)
                 PROVE  \E k \in 1..Len(a) : a[k] = Op("addMap", j + 1, e)
      OBVIOUS
    <3> HIDE DEF a
    <3> QED BY <1>1, <2>2, <2>3
  <2> QED
    BY <2>2, <2>4 DEF Lists
<1>4. Lists(b, B)
  <2>1. CASE j = 1
    <3>0. b = [k \in 1..Len(r) |-> Op("addRemap", Nothing, r[k])]
      BY <1>1, <2>1
    <3>1. b \in [1..Len(r) -> B]
      BY <1>1, <1>2, <2>1, <3>0
    <3>2. b \in Seq(B) /\ Len(b) = Len(r)
      <4> HIDE DEF b, B
      <4> QED BY <1>1, <3>1
    <3>3. \A k \in 1..Len(r) : b[k] = Op("addRemap", Nothing, r[k])
      BY <3>0
    <3>4. \A o \in B : \E k \in 1..Len(b) : b[k] = o
      <4> SUFFICES ASSUME NEW e \in Table(m, j)
                   PROVE  \E k \in 1..Len(b) : b[k] = Op("addRemap", Nothing, e)
        BY <2>1
      <4> HIDE DEF b
      <4> QED BY <1>1, <3>2, <3>3
    <3> QED
      BY <3>2, <3>4 DEF Lists
  <2>2. CASE j # 1
    <3>1. b = <<>> /\ B = {}
      BY <2>2
    <3> HIDE DEF b, B
    <3> QED
      BY <3>1 DEF Lists
  <2> QED
    BY <2>1, <2>2
<1>5. MapEntries(m, j) = a \o b
  BY DEF MapEntries, r
<1>6. MapPart(m, j) = A \cup B
  BY DEF MapPart
<1> HIDE DEF a, b, A, B
<1> QED
  BY <1>3, <1>4, <1>5, <1>6, ListsConcat

(* And the filters' ranges.                                                *)
LEMMA ClassesAreSeq ==
    ASSUME NEW max, NEW hl, NEW hh
    PROVE  \E X : ClassEntries(max, hl, hh) \in Seq(X)
<1> DEFINE x == [lo |-> 0, hi |-> UpTo(max - 1, hl), type |-> 1]
           y == [lo |-> hl, hi |-> UpTo(max - 1, hh), type |-> 2]
           z == [lo |-> Lesser(max, hh), hi |-> max, type |-> 3]
           X == {x, y, z}
           a == IF hl > 0 THEN << x >> ELSE << >>
           b == IF hl <= max - 1 THEN << y >> ELSE << >>
<1>1. ClassEntries(max, hl, hh) = (a \o b) \o << z >>
  BY DEF ClassEntries
<1> HIDE DEF x, y, z
<1>2. a \in Seq(X) /\ b \in Seq(X) /\ << z >> \in Seq(X)
  <2>1. << >> \in Seq(X)
    BY EmptySeq
  <2>2. << x >> \in Seq(X) /\ << y >> \in Seq(X) /\ << z >> \in Seq(X)
    OBVIOUS
  <2> HIDE DEF X
  <2>3. CASE hl > 0 /\ hl <= max - 1
    BY <2>1, <2>2, <2>3
  <2>4. CASE hl > 0 /\ ~(hl <= max - 1)
    BY <2>1, <2>2, <2>4
  <2>5. CASE ~(hl > 0) /\ hl <= max - 1
    BY <2>1, <2>2, <2>5
  <2>6. CASE ~(hl > 0) /\ ~(hl <= max - 1)
    BY <2>1, <2>2, <2>6
  <2> QED BY Zenon, <2>2, <2>3, <2>4, <2>5, <2>6
<1> HIDE DEF a, b, X
<1>3. a \o b \in Seq(X)
  BY <1>2, ConcatProperties
<1>4. (a \o b) \o << z >> \in Seq(X)
  BY <1>2, <1>3, ConcatProperties
<1> QED
  BY <1>1, <1>4

LEMMA ClassesListed ==
    ASSUME NEW m \in Configs
    PROVE  /\ Lists(ClassOps(m), ClassPart(m))
           /\ \A o \in ClassPart(m) :
                  /\ o.op \in {"addClass1", "addClass2"} /\ m.whether_range = 1
                  /\ o.op = "addClass1" => o.entry \in Classes(Filter1Max, m.thresh)
                  /\ o.op = "addClass2" => o.entry \in Classes(Filter2Max, m.thresh)
           /\ m.whether_range = 1 =>
                  /\ \A e \in Classes(Filter1Max, m.thresh) :
                         Op("addClass1", Nothing, e) \in ClassPart(m)
                  /\ \A e \in Classes(Filter2Max, m.thresh) :
                         Op("addClass2", Nothing, e) \in ClassPart(m)
<1> DEFINE e1 == ClassEntries(Filter1Max, m.thresh[1], m.thresh[2])
           e2 == ClassEntries(Filter2Max, m.thresh[1], m.thresh[2])
           s == [k \in DOMAIN e1 |-> Op("addClass1", Nothing, e1[k])]
           t == [k \in DOMAIN e2 |-> Op("addClass2", Nothing, e2[k])]
           O == {s[k] : k \in DOMAIN e1} \cup {t[k] : k \in DOMAIN e2}
<1>1. PICK X1 : e1 \in Seq(X1)
  BY ClassesAreSeq
<1>2. PICK X2 : e2 \in Seq(X2)
  BY ClassesAreSeq
<1>3. /\ Len(e1) \in Nat /\ DOMAIN e1 = 1..Len(e1)
      /\ Len(e2) \in Nat /\ DOMAIN e2 = 1..Len(e2)
  <2> HIDE DEF e1, e2
  <2> QED BY <1>1, <1>2
<1>4. \A o \in O :
          /\ o.op \in {"addClass1", "addClass2"}
          /\ o.op = "addClass1" => o.entry \in Classes(Filter1Max, m.thresh)
          /\ o.op = "addClass2" => o.entry \in Classes(Filter2Max, m.thresh)
  <2>1. /\ Classes(Filter1Max, m.thresh) = {e1[k] : k \in DOMAIN e1}
        /\ Classes(Filter2Max, m.thresh) = {e2[k] : k \in DOMAIN e2}
    BY DEF Classes
  <2> HIDE DEF e1, e2
  <2> QED BY <2>1 DEF Op
<1>13. /\ \A e \in Classes(Filter1Max, m.thresh) :
              \E k \in 1..Len(e1) : s[k] = Op("addClass1", Nothing, e)
       /\ \A e \in Classes(Filter2Max, m.thresh) :
              \E k \in 1..Len(e2) : t[k] = Op("addClass2", Nothing, e)
  <2>1. /\ Classes(Filter1Max, m.thresh) = {e1[k] : k \in DOMAIN e1}
        /\ Classes(Filter2Max, m.thresh) = {e2[k] : k \in DOMAIN e2}
    BY DEF Classes
  <2> HIDE DEF e1, e2
  <2> QED BY <1>3, <2>1
<1>5. s \in [1..Len(e1) -> O] /\ t \in [1..Len(e2) -> O]
  <2> HIDE DEF e1, e2
  <2> QED BY <1>3
<1>6. ClassOps(m) = IF m.whether_range = 1 THEN s \o t ELSE << >>
  BY DEF ClassOps
<1> HIDE DEF e1, e2, s, t, O
<1>7. s \in Seq(O) /\ t \in Seq(O)
  BY <1>3, <1>5, SeqByPlace
<1>8. ClassOps(m) \in Seq(O)
  <2>1. s \o t \in Seq(O) /\ << >> \in Seq(O)
    BY <1>7, ConcatProperties, EmptySeq
  <2> QED BY <1>6, <2>1
<1> DEFINE c == ClassOps(m)
<1>9. ClassPart(m) = {c[k] : k \in 1..Len(c)}
  BY DEF ClassPart
<1> HIDE DEF c
<1>10. c \in [1..Len(c) -> O] /\ Len(c) \in Nat
  BY <1>8 DEF c
<1>11. Lists(c, {c[k] : k \in 1..Len(c)})
  <2>1. c = [k \in 1..Len(c) |-> c[k]]
    BY <1>10
  <2> QED BY <1>10, <2>1, ListsByPlace
<1>12. ClassPart(m) \subseteq O
  BY <1>9, <1>10
<1>14. ClassPart(m) # {} => m.whether_range = 1
  <2>1. c = <<>> => ClassPart(m) = {}
    BY <1>9
  <2> QED BY <1>6, <2>1 DEF c
<1>15. ASSUME m.whether_range = 1
       PROVE  /\ \A e \in Classes(Filter1Max, m.thresh) :
                     Op("addClass1", Nothing, e) \in ClassPart(m)
              /\ \A e \in Classes(Filter2Max, m.thresh) :
                     Op("addClass2", Nothing, e) \in ClassPart(m)
  <2>1. c = s \o t
    BY <1>6, <1>15 DEF c
  <2>2. Len(s) = Len(e1) /\ Len(t) = Len(e2)
    BY <1>3, <1>5, SeqByPlace
  <2>3. /\ Len(c) = Len(s) + Len(t)
        /\ \A i \in 1..(Len(s) + Len(t)) : c[i] = IF i <= Len(s) THEN s[i] ELSE t[i - Len(s)]
    BY <1>7, <2>1, ConcatProperties
  <2>4. \A k \in 1..Len(e1) : k \in 1..Len(c) /\ c[k] = s[k]
    BY <1>3, <2>2, <2>3
  <2>5. \A k \in 1..Len(e2) : Len(e1) + k \in 1..Len(c) /\ c[Len(e1) + k] = t[k]
    BY <1>3, <2>2, <2>3
  <2> QED
    BY <1>9, <1>13, <2>4, <2>5
<1> QED
  BY <1>4, <1>9, <1>11, <1>12, <1>14, <1>15 DEF c

LEMMA BatchFacts ==
    ASSUME NEW m \in Configs
    PROVE  Continues(Batch(m), First(m), Later(m))
<1> DEFINE f == First(m)
<1>0. f \in Seq(Firsts(m))
  BY FirstFacts
<1>1. Continues(f, f, {})
  <2>1. f \in Seq({f[k] : k \in 1..Len(f)} \cup {}) /\ Len(f) \in Nat
    BY <1>0 DEF Firsts
  <2> HIDE DEF f
  <2> QED BY <2>1 DEF Continues
<1>2. /\ Lists(MapEntries(m, 0), MapPart(m, 0)) /\ Lists(MapEntries(m, 1), MapPart(m, 1))
      /\ Lists(MapEntries(m, 2), MapPart(m, 2)) /\ Lists(ClassOps(m), ClassPart(m))
  BY EntriesListed, ClassesListed DEF Zone
<1>3. Continues(f \o MapEntries(m, 0), f, {} \cup MapPart(m, 0))
  BY <1>0, <1>1, <1>2, ContinuesConcat
<1>4. Continues((f \o MapEntries(m, 0)) \o MapEntries(m, 1), f,
                ({} \cup MapPart(m, 0)) \cup MapPart(m, 1))
  BY <1>0, <1>2, <1>3, ContinuesConcat
<1>5. Continues(((f \o MapEntries(m, 0)) \o MapEntries(m, 1)) \o MapEntries(m, 2), f,
                (({} \cup MapPart(m, 0)) \cup MapPart(m, 1)) \cup MapPart(m, 2))
  BY <1>0, <1>2, <1>4, ContinuesConcat
<1>6. Continues((((f \o MapEntries(m, 0)) \o MapEntries(m, 1)) \o MapEntries(m, 2)) \o ClassOps(m), f,
                ((({} \cup MapPart(m, 0)) \cup MapPart(m, 1)) \cup MapPart(m, 2)) \cup ClassPart(m))
  BY <1>0, <1>2, <1>5, ContinuesConcat
<1>7. ((({} \cup MapPart(m, 0)) \cup MapPart(m, 1)) \cup MapPart(m, 2)) \cup ClassPart(m) = Later(m)
  BY Zenon DEF Later
<1>8. Batch(m) = (((f \o MapEntries(m, 0)) \o MapEntries(m, 1)) \o MapEntries(m, 2)) \o ClassOps(m)
  BY Zenon DEF Batch, First
<1> QED
  BY <1>6, <1>7, <1>8
-----------------------------------------------------------------------------
(* What the entries are, and that none is missing.                         *)
LEMMA LaterFacts ==
    ASSUME NEW m \in Configs
    PROVE  /\ \A o \in Later(m) :
                  /\ o.op \in {"addMap", "addRemap", "addClass1", "addClass2"}
                  /\ o.op = "addMap" => o.key \in Types /\ o.entry \in Table(m, o.key - 1)
                  /\ o.op = "addRemap" => o.entry \in Table(m, 1)
                  /\ o.op \in {"addClass1", "addClass2"} => m.whether_range = 1
                  /\ o.op = "addClass1" => o.entry \in Classes(Filter1Max, m.thresh)
                  /\ o.op = "addClass2" => o.entry \in Classes(Filter2Max, m.thresh)
           /\ m.whether_range = 1 =>
                  /\ \A e \in Classes(Filter1Max, m.thresh) : Op("addClass1", Nothing, e) \in Later(m)
                  /\ \A e \in Classes(Filter2Max, m.thresh) : Op("addClass2", Nothing, e) \in Later(m)
           /\ \A t \in Types : \A e \in Table(m, t - 1) : Op("addMap", t, e) \in Later(m)
           /\ \A e \in Table(m, 1) : Op("addRemap", Nothing, e) \in Later(m)
<1>1. ASSUME NEW j \in Zone, NEW o \in MapPart(m, j)
      PROVE  /\ o.op \in {"addMap", "addRemap"}
             /\ o.op = "addMap" => o.key \in Types /\ o.entry \in Table(m, o.key - 1)
             /\ o.op = "addRemap" => o.entry \in Table(m, 1)
  <2>1. CASE \E e \in Table(m, j) : o = Op("addMap", j + 1, e)
    <3>1. PICK e \in Table(m, j) : o = Op("addMap", j + 1, e)
      BY <2>1
    <3>2. o.op = "addMap" /\ o.key = j + 1 /\ o.entry = e
      BY <3>1 DEF Op
    <3>3. j + 1 \in Types /\ (j + 1) - 1 = j
      BY DEF Zone, Types
    <3> QED BY <3>2, <3>3
  <2>2. CASE \E e \in IF j = 1 THEN Table(m, 1) ELSE {} : o = Op("addRemap", Nothing, e)
    <3>1. PICK e \in IF j = 1 THEN Table(m, 1) ELSE {} : o = Op("addRemap", Nothing, e)
      BY <2>2
    <3>2. o.op = "addRemap" /\ o.entry = e /\ e \in Table(m, 1)
      BY <3>1 DEF Op
    <3> QED BY <3>2
  <2> QED
    BY <2>1, <2>2 DEF MapPart
<1>2. ASSUME NEW o \in Later(m)
      PROVE  /\ o.op \in {"addMap", "addRemap", "addClass1", "addClass2"}
             /\ o.op = "addMap" => o.key \in Types /\ o.entry \in Table(m, o.key - 1)
             /\ o.op = "addRemap" => o.entry \in Table(m, 1)
             /\ o.op \in {"addClass1", "addClass2"} => m.whether_range = 1
             /\ o.op = "addClass1" => o.entry \in Classes(Filter1Max, m.thresh)
             /\ o.op = "addClass2" => o.entry \in Classes(Filter2Max, m.thresh)
  <2>1. CASE o \in ClassPart(m)
    <3>1. /\ o.op \in {"addClass1", "addClass2"} /\ m.whether_range = 1
          /\ o.op = "addClass1" => o.entry \in Classes(Filter1Max, m.thresh)
          /\ o.op = "addClass2" => o.entry \in Classes(Filter2Max, m.thresh)
      BY <2>1, ClassesListed
    <3> QED BY <3>1
  <2>2. CASE \E j \in Zone : o \in MapPart(m, j)
    <3>1. /\ o.op \in {"addMap", "addRemap"}
          /\ o.op = "addMap" => o.key \in Types /\ o.entry \in Table(m, o.key - 1)
          /\ o.op = "addRemap" => o.entry \in Table(m, 1)
      BY <1>1, <2>2
    <3> QED BY <3>1
  <2> QED
    BY <2>1, <2>2 DEF Later, Zone
<1>3. ASSUME NEW t \in Types, NEW e \in Table(m, t - 1)
      PROVE  Op("addMap", t, e) \in Later(m)
  <2>1. t - 1 \in Zone /\ (t - 1) + 1 = t
    BY DEF Types, Zone
  <2>2. Op("addMap", t, e) \in MapPart(m, t - 1)
    BY <2>1 DEF MapPart
  <2> QED
    BY <2>1, <2>2 DEF Later, Zone
<1>4. ASSUME NEW e \in Table(m, 1)
      PROVE  Op("addRemap", Nothing, e) \in Later(m)
  <2>1. Op("addRemap", Nothing, e) \in MapPart(m, 1)
    BY DEF MapPart
  <2> QED
    BY <2>1 DEF Later
<1>5. m.whether_range = 1 =>
          /\ \A e \in Classes(Filter1Max, m.thresh) : Op("addClass1", Nothing, e) \in Later(m)
          /\ \A e \in Classes(Filter2Max, m.thresh) : Op("addClass2", Nothing, e) \in Later(m)
  BY ClassesListed DEF Later
<1> QED
  BY <1>2, <1>3, <1>4, <1>5

(* A batch by its places.                                                  *)
LEMMA BatchByPlace ==
    ASSUME NEW m \in Configs
    PROVE  LET c == ClearsLen(m)
               b == Batch(m)
           IN  /\ b \in Seq(Firsts(m) \cup Later(m)) /\ Len(b) \in Nat
               /\ c \in {3, 4} /\ c + 5 <= Len(b)
               /\ \A k \in 1..(c + 5) : b[k] = First(m)[k]
               /\ \A k \in (c + 6)..Len(b) : b[k] \in Later(m)
               /\ \A o \in Later(m) : \E k \in (c + 6)..Len(b) : b[k] = o
<1> DEFINE b == Batch(m)
           f == First(m)
           L == Later(m)
           c == ClearsLen(m)
<1>1. Len(f) = c + 5 /\ c \in {3, 4}
  BY FirstFacts DEF ClearsLen
<1>2. Continues(b, f, L)
  BY BatchFacts
<1>3. b \in Seq(Firsts(m) \cup L)
  BY <1>2 DEF Continues, Firsts
<1>4. (c + 5) + 1 = c + 6
  BY <1>1
<1> HIDE DEF b, f, L, c
<1>5. Len(b) \in Nat
  BY <1>3
<1>6. /\ c + 5 <= Len(b) /\ \A k \in 1..(c + 5) : b[k] = f[k]
      /\ \A k \in (c + 6)..Len(b) : b[k] \in L
      /\ \A o \in L : \E k \in (c + 6)..Len(b) : b[k] = o
  BY <1>1, <1>2, <1>4 DEF Continues
<1> QED
  BY <1>1, <1>3, <1>5, <1>6 DEF b, f, L, c

LEMMA OpByPlace ==
    ASSUME NEW m \in Configs, NEW k \in 1..Len(Batch(m))
    PROVE  LET c == ClearsLen(m)
               o == Batch(m)[k]
           IN  /\ o.op = "clearMask" <=> k = 1
               /\ o.op = "clearMap" <=> k = 2
               /\ o.op = "clearRemap" <=> k = 3
               /\ \A j \in Types : k = c + j => o = Op("addMask", j, MsgMask(m, j - 1))
               /\ o.op = "addMask" => \E j \in Types : k = c + j
               /\ k = c + 4 => o = Op("setRemapMask", Nothing, MsgMask(m, 1))
               /\ o.op = "setRemapMask" => k = c + 4
               /\ o.op \in {"addMap", "addRemap"} => k >= c + 6
               /\ o.op = "addMap" => o.key \in Types /\ o.entry \in Table(m, o.key - 1)
               /\ o.op = "addRemap" => o.entry \in Table(m, 1)
               /\ o.op = "clearClasses" <=> k = 4 /\ c = 4
               /\ k = c + 5 => o = Op("setDrop", Nothing, m.drop_rate)
               /\ o.op = "setDrop" => k = c + 5
               /\ o.op \in {"addClass1", "addClass2"} => k >= c + 6 /\ m.whether_range = 1
               /\ o.op = "addClass1" => o.entry \in Classes(Filter1Max, m.thresh)
               /\ o.op = "addClass2" => o.entry \in Classes(Filter2Max, m.thresh)
<1> DEFINE c == ClearsLen(m)
           b == Batch(m)
           f == First(m)
           o == b[k]
<1>1. c \in {3, 4} /\ c + 5 <= Len(b) /\ Len(b) \in Nat
  BY BatchByPlace
<1>2. CASE k \in 1..(c + 5)
  <2>1. o = f[k]
    BY <1>2, BatchByPlace
  <2>2. /\ f[1] = Op("clearMask", Nothing, Nothing)
        /\ f[2] = Op("clearMap", Nothing, Nothing)
        /\ f[3] = Op("clearRemap", Nothing, Nothing)
        /\ (c = 4 => f[4] = Op("clearClasses", Nothing, Nothing))
        /\ \A j \in Types : f[c + j] = Op("addMask", j, MsgMask(m, j - 1))
        /\ f[c + 4] = Op("setRemapMask", Nothing, MsgMask(m, 1))
        /\ f[c + 5] = Op("setDrop", Nothing, m.drop_rate)
    BY FirstFacts
  <2> HIDE DEF c, f, b, o
  <2>3. \/ k = 1 \/ k = 2 \/ k = 3 \/ (k = 4 /\ c = 4) \/ \E j \in Types : k = c + j
        \/ k = c + 4 \/ k = c + 5
    BY <1>1, <1>2 DEF Types
  <2>4. CASE k = 1
    BY <1>1, <2>1, <2>2, <2>4 DEF Op, Types, c, b, o
  <2>5. CASE k = 2
    BY <1>1, <2>1, <2>2, <2>5 DEF Op, Types, c, b, o
  <2>6. CASE k = 3
    BY <1>1, <2>1, <2>2, <2>6 DEF Op, Types, c, b, o
  <2>7. CASE k = 4 /\ c = 4
    BY <1>1, <2>1, <2>2, <2>7 DEF Op, Types, c, b, o
  <2>8. CASE \E j \in Types : k = c + j
    <3>1. PICK j \in Types : k = c + j
      BY <2>8
    <3>2. o = Op("addMask", j, MsgMask(m, j - 1))
      BY <2>1, <2>2, <3>1
    <3>3. o.op = "addMask" /\ k > 3 /\ k < c + 4 /\ \A i \in Types : k = c + i => i = j
      BY <1>1, <3>1, <3>2 DEF Op, Types
    <3> QED
      BY <1>1, <3>1, <3>2, <3>3 DEF Types, c, b, o
  <2>9. CASE k = c + 4
    BY <1>1, <2>1, <2>2, <2>9 DEF Op, Types, c, b, o
  <2>10. CASE k = c + 5
    BY <1>1, <2>1, <2>2, <2>10 DEF Op, Types, c, b, o
  <2> QED
    BY <2>3, <2>4, <2>5, <2>6, <2>7, <2>8, <2>9, <2>10
<1>3. CASE k \in (c + 6)..Len(b)
  <2>1. o \in Later(m)
    BY <1>3, BatchByPlace
  <2>2. /\ o.op \in {"addMap", "addRemap", "addClass1", "addClass2"}
        /\ (o.op = "addMap" => o.key \in Types /\ o.entry \in Table(m, o.key - 1))
        /\ (o.op = "addRemap" => o.entry \in Table(m, 1))
        /\ (o.op \in {"addClass1", "addClass2"} => m.whether_range = 1)
        /\ (o.op = "addClass1" => o.entry \in Classes(Filter1Max, m.thresh))
        /\ (o.op = "addClass2" => o.entry \in Classes(Filter2Max, m.thresh))
    BY <2>1, LaterFacts
  <2>3. k > c + 5
    BY <1>1, <1>3
  <2> HIDE DEF c, f, b, o
  <2> QED
    BY <1>1, <1>3, <2>2, <2>3 DEF Types, c, b, o
<1> QED
  BY <1>1, <1>2, <1>3
-----------------------------------------------------------------------------
(* What the first n operations of a batch enter into the tables.           *)
Places(m, n, name) == {k \in 1..n : Batch(m)[k].op = name}
MapEntered(m, n, t) ==
    {Batch(m)[k].entry : k \in {i \in Places(m, n, "addMap") : Batch(m)[i].key = t}}
RemapEntered(m, n) == {Batch(m)[k].entry : k \in Places(m, n, "addRemap")}
ClassEntered(m, n, name) == UNION {Accepted(Batch(m)[k].entry) : k \in Places(m, n, name)}

(* The filters' tables are those of the thresholds th.                     *)
ClassedBy(th) ==
    class1 = Taken(Classes(Filter1Max, th)) /\ class2 = Taken(Classes(Filter2Max, th))

(* After n operations the tables hold what these have entered, once they   *)
(* have been cleared.                                                      *)
Applied(m, n) ==
    /\ n >= 2 => \A t \in Types : map[t] = MapEntered(m, n, t)
    /\ n >= 3 => remap = RemapEntered(m, n)
    /\ \A t \in Types : n >= ClearsLen(m) + t => mapMask[t] = MsgMask(m, t - 1)
    /\ n >= ClearsLen(m) + 4 => remapMask = MsgMask(m, 1)
    /\ n >= ClearsLen(m) + 5 => dropUp = m.drop_rate
    /\ m.whether_range = 1 => thresh = m.thresh
    /\ (m.whether_range = 1 /\ n >= 4) =>
           /\ class1 = ClassEntered(m, n, "addClass1")
           /\ class2 = ClassEntered(m, n, "addClass2")
    /\ (m.whether_range # 1 /\ thresh # <<>>) => ClassedBy(thresh)

(* A range table never has entries of two messages.                        *)
OneMessage ==
    /\ \A t \in Types : map[t] = {} \/ \E m \in Configs : map[t] \subseteq Table(m, t - 1)
    /\ remap = {} \/ \E m \in Configs : remap \subseteq Table(m, 1)

InBatch(m, n) ==
    /\ n \in 0..Len(Batch(m))
    /\ todo = SubSeq(Batch(m), n + 1, Len(Batch(m)))
    /\ Applied(m, n)

IInv ==
    /\ map = [t \in Types |-> map[t]] /\ mapMask = [t \in Types |-> mapMask[t]]
    /\ OneMessage
    /\ thresh = <<>> \/ thresh \in (0..Filter2Max) \X (0..Filter2Max)
    /\ \/ config = NoConfig /\ todo = <<>> /\ thresh = <<>>
       \/ config \in Configs /\ \E n \in Nat : InBatch(config, n)

(* One more operation.                                                     *)
LEMMA EnteredNext ==
    ASSUME NEW m \in Configs, NEW n \in Nat
    PROVE  LET o == Batch(m)[n + 1]
           IN  /\ \A t \in Types : MapEntered(m, n + 1, t) = MapEntered(m, n, t)
                      \cup (IF o.op = "addMap" /\ o.key = t THEN {o.entry} ELSE {})
               /\ RemapEntered(m, n + 1) = RemapEntered(m, n)
                      \cup (IF o.op = "addRemap" THEN {o.entry} ELSE {})
               /\ \A name : ClassEntered(m, n + 1, name) = ClassEntered(m, n, name)
                      \cup (IF o.op = name THEN Accepted(o.entry) ELSE {})
<1>1. 1..(n + 1) = (1..n) \cup {n + 1}
  OBVIOUS
<1>2. \A name : Places(m, n + 1, name)
                  = Places(m, n, name) \cup (IF Batch(m)[n + 1].op = name THEN {n + 1} ELSE {})
  BY <1>1 DEF Places
<1>3. \A name : ClassEntered(m, n + 1, name) = ClassEntered(m, n, name)
             \cup (IF Batch(m)[n + 1].op = name THEN Accepted(Batch(m)[n + 1].entry) ELSE {})
  <2> TAKE name
  <2>1. CASE Batch(m)[n + 1].op = name
    BY <1>2, <2>1 DEF ClassEntered
  <2>2. CASE Batch(m)[n + 1].op # name
    BY <1>2, <2>2 DEF ClassEntered
  <2> QED BY <2>1, <2>2
<1> QED
  BY <1>2, <1>3 DEF MapEntered, RemapEntered

LEMMA EnteredWithin ==
    ASSUME NEW m \in Configs, NEW n \in 0..Len(Batch(m))
    PROVE  /\ \A t \in Types : MapEntered(m, n, t) \subseteq Table(m, t - 1)
           /\ RemapEntered(m, n) \subseteq Table(m, 1)
<1>1. Len(Batch(m)) \in Nat
  BY BatchByPlace
<1>2. \A k \in 1..n : k \in 1..Len(Batch(m))
  BY <1>1
<1>3. ASSUME NEW t \in Types, NEW k \in 1..n, Batch(m)[k].op = "addMap", Batch(m)[k].key = t
      PROVE  Batch(m)[k].entry \in Table(m, t - 1)
  BY <1>2, <1>3, OpByPlace
<1>4. ASSUME NEW k \in 1..n, Batch(m)[k].op = "addRemap"
      PROVE  Batch(m)[k].entry \in Table(m, 1)
  BY <1>2, <1>4, OpByPlace
<1> QED
  BY <1>3, <1>4 DEF MapEntered, RemapEntered, Places

(* Before the entries come, none has been entered.                         *)
LEMMA NoneEnteredYet ==
    ASSUME NEW m \in Configs, NEW n \in 0..(ClearsLen(m) + 5)
    PROVE  /\ (\A t \in Types : MapEntered(m, n, t) = {}) /\ RemapEntered(m, n) = {}
           /\ ClassEntered(m, n, "addClass1") = {} /\ ClassEntered(m, n, "addClass2") = {}
<1>1. /\ ClearsLen(m) \in {3, 4} /\ ClearsLen(m) + 5 <= Len(Batch(m)) /\ Len(Batch(m)) \in Nat
  BY BatchByPlace
<1>2. ASSUME NEW k \in 1..n
      PROVE  Batch(m)[k].op \notin {"addMap", "addRemap", "addClass1", "addClass2"}
  <2>1. k \in 1..Len(Batch(m)) /\ ~(k >= ClearsLen(m) + 6)
    BY <1>1
  <2> QED
    BY <2>1, OpByPlace
<1> QED
  BY <1>2 DEF MapEntered, RemapEntered, ClassEntered, Places

(* At the end, all have been.                                              *)
LEMMA AllEntered ==
    ASSUME NEW m \in Configs
    PROVE  /\ \A t \in Types : MapEntered(m, Len(Batch(m)), t) = Table(m, t - 1)
           /\ RemapEntered(m, Len(Batch(m))) = Table(m, 1)
           /\ m.whether_range = 1 =>
                  /\ ClassEntered(m, Len(Batch(m)), "addClass1") = Taken(Classes(Filter1Max, m.thresh))
                  /\ ClassEntered(m, Len(Batch(m)), "addClass2") = Taken(Classes(Filter2Max, m.thresh))
<1> DEFINE b == Batch(m)
<1>0. /\ ClearsLen(m) \in {3, 4} /\ Len(b) \in Nat
      /\ \A o \in Later(m) : \E k \in (ClearsLen(m) + 6)..Len(b) : b[k] = o
  BY BatchByPlace
<1>1. \A o \in Later(m) : \E k \in 1..Len(b) : b[k] = o
  BY <1>0
<1>2. ASSUME NEW t \in Types, NEW e \in Table(m, t - 1)
      PROVE  e \in MapEntered(m, Len(b), t)
  <2>1. PICK k \in 1..Len(b) : b[k] = Op("addMap", t, e)
    BY <1>1, LaterFacts
  <2>2. b[k].op = "addMap" /\ b[k].key = t /\ b[k].entry = e
    BY <2>1 DEF Op
  <2> QED
    BY <2>2 DEF MapEntered, Places
<1>3. ASSUME NEW e \in Table(m, 1)
      PROVE  e \in RemapEntered(m, Len(b))
  <2>1. PICK k \in 1..Len(b) : b[k] = Op("addRemap", Nothing, e)
    BY <1>1, LaterFacts
  <2>2. b[k].op = "addRemap" /\ b[k].entry = e
    BY <2>1 DEF Op
  <2> QED
    BY <2>2 DEF RemapEntered, Places
<1>4. Len(b) \in 0..Len(b)
  BY <1>0
<1>5. ASSUME m.whether_range = 1
      PROVE  /\ ClassEntered(m, Len(b), "addClass1") = Taken(Classes(Filter1Max, m.thresh))
             /\ ClassEntered(m, Len(b), "addClass2") = Taken(Classes(Filter2Max, m.thresh))
  <2>1. ASSUME NEW name, NEW S,
               \A k \in 1..Len(b) : b[k].op = name => b[k].entry \in S,
               \A e \in S : Op(name, Nothing, e) \in Later(m)
        PROVE  ClassEntered(m, Len(b), name) = Taken(S)
    <3>1. \A e \in S : \E k \in 1..Len(b) : b[k].op = name /\ b[k].entry = e
      <4> TAKE e \in S
      <4>1. PICK k \in 1..Len(b) : b[k] = Op(name, Nothing, e)
        BY <1>1, <2>1
      <4>2. b[k].op = name /\ b[k].entry = e
        BY <4>1 DEF Op
      <4> QED BY <4>2
    <3>2. \A e \in S : \E k \in Places(m, Len(b), name) : b[k].entry = e
      BY <3>1 DEF Places
    <3>3. \A k \in Places(m, Len(b), name) : b[k].entry \in S
      BY <2>1 DEF Places
    <3> HIDE DEF b
    <3> QED
      BY <3>2, <3>3 DEF ClassEntered, Taken, b
  <2>2. \A k \in 1..Len(b) :
            /\ b[k].op = "addClass1" => b[k].entry \in Classes(Filter1Max, m.thresh)
            /\ b[k].op = "addClass2" => b[k].entry \in Classes(Filter2Max, m.thresh)
    BY OpByPlace
  <2>3. /\ \A e \in Classes(Filter1Max, m.thresh) : Op("addClass1", Nothing, e) \in Later(m)
        /\ \A e \in Classes(Filter2Max, m.thresh) : Op("addClass2", Nothing, e) \in Later(m)
    BY <1>5, LaterFacts
  <2> HIDE DEF b
  <2> QED BY <2>1, <2>2, <2>3
<1> QED
  BY <1>2, <1>3, <1>4, <1>5, EnteredWithin
-----------------------------------------------------------------------------
(* Nothing left to do: the whole batch has been applied.                   *)
LEMMA AtEnd ==
    ASSUME NEW m \in Configs, NEW n \in Nat, InBatch(m, n), todo = <<>>
    PROVE  /\ n = Len(Batch(m)) /\ n \in Nat /\ n >= ClearsLen(m) + 5 /\ ClearsLen(m) \in {3, 4}
           /\ thresh # <<>> => ClassedBy(thresh)
<1> DEFINE b == Batch(m)
           c == ClearsLen(m)
<1>2. c \in {3, 4} /\ c + 5 <= Len(b) /\ Len(b) \in Nat /\ b \in Seq(Firsts(m) \cup Later(m))
  BY BatchByPlace
<1>3. n = Len(b)
  <2>1. n \in 0..Len(b) /\ SubSeq(b, n + 1, Len(b)) = <<>>
    BY DEF InBatch
  <2> SUFFICES ASSUME n # Len(b) PROVE FALSE
    OBVIOUS
  <2> HIDE DEF b
  <2>2. \A k \in (n + 1)..Len(b) : b[k] \in Firsts(m) \cup Later(m)
    BY <1>2, <2>1
  <2>3. n + 1 <= Len(b) /\ n + 1 \in Int /\ Len(b) \in Int
    BY <1>2, <2>1
  <2>4. Len(SubSeq(b, n + 1, Len(b))) = Len(b) - (n + 1) + 1
    BY <2>2, <2>3, SubSeqProperties
  <2>5. Len(SubSeq(b, n + 1, Len(b))) = 0
    BY <2>1, EmptySeq
  <2>6. Len(b) - (n + 1) + 1 = 0
    BY Zenon, <2>4, <2>5
  <2> QED
    BY <2>3, <2>6
<1>4. n >= 4
  BY <1>2, <1>3
<1>5. Applied(m, n)
  BY DEF InBatch
<1>6. thresh # <<>> => ClassedBy(thresh)
  <2>1. CASE m.whether_range = 1
    <3>1. /\ thresh = m.thresh
          /\ class1 = ClassEntered(m, n, "addClass1") /\ class2 = ClassEntered(m, n, "addClass2")
      BY <1>4, <1>5, <2>1 DEF Applied
    <3> QED
      BY <1>3, <2>1, <3>1, AllEntered DEF ClassedBy
  <2>2. CASE m.whether_range # 1
    BY <1>5, <2>2 DEF Applied
  <2> QED BY <2>1, <2>2
<1> QED
  BY <1>2, <1>3, <1>6

LEMMA InitIInv == Init => IInv
BY DEF Init, IInv, OneMessage

(* A new message: its batch is all to do.                                  *)
LEMMA ReceiveIInv == IInv /\ Receive => IInv'
<1> SUFFICES ASSUME IInv, Receive PROVE IInv'
  OBVIOUS
<1>1. PICK m \in Configs : config' = m /\ todo' = Batch(m)
  BY DEF Receive
<1>2. UNCHANGED <<map, remap, mapMask, remapMask>>
  BY DEF Receive
<1>3. /\ (map = [t \in Types |-> map[t]])' /\ (mapMask = [t \in Types |-> mapMask[t]])'
      /\ OneMessage'
  BY <1>2 DEF IInv, OneMessage
<1> DEFINE b == Batch(m)
<1>4. b \in Seq(Firsts(m) \cup Later(m)) /\ Len(b) \in Nat /\ ClearsLen(m) \in {3, 4}
  BY BatchByPlace
<1>5. SubSeq(b, 0 + 1, Len(b)) = b
  <2> HIDE DEF b
  <2>1. SubSeq(b, 1, Len(b)) = b
    BY <1>4, SubSeqFull
  <2> QED BY <2>1
<1>8. /\ UNCHANGED <<class1, class2>> /\ todo = <<>>
      /\ thresh' = IF m.whether_range = 1 THEN m.thresh ELSE thresh
  <2>1. PICK k \in Configs : /\ config' = k
                             /\ thresh' = IF k.whether_range = 1 THEN k.thresh ELSE thresh
                             /\ todo' = Batch(k)
    BY DEF Receive
  <2> QED
    BY <1>1, <2>1 DEF Receive
<1>9. (thresh = <<>> \/ thresh \in (0..Filter2Max) \X (0..Filter2Max))'
  BY <1>8, ConfigAssumption DEF IInv
<1>10. thresh # <<>> => ClassedBy(thresh)
  BY <1>8, AtEnd DEF IInv
<1>6. Applied(m, 0)'
  <2>1. (m.whether_range # 1 /\ thresh' # <<>>) => ClassedBy(thresh)'
    BY <1>8, <1>10 DEF ClassedBy
  <2>2. m.whether_range = 1 => thresh' = m.thresh
    BY <1>8
  <2> QED
    BY <1>4, <2>1, <2>2 DEF Applied, Types
<1>7. InBatch(m, 0)'
  BY <1>1, <1>4, <1>5, <1>6 DEF InBatch
<1> QED
  BY <1>1, <1>3, <1>7, <1>9 DEF IInv

(* One operation: what it leaves is the rest of the same batch.            *)
LEMMA RestNext ==
    ASSUME NEW m \in Configs, NEW n \in Nat, InBatch(m, n), todo # <<>>
    PROVE  /\ n + 1 \in 1..Len(Batch(m))
           /\ Head(todo) = Batch(m)[n + 1]
           /\ Tail(todo) = SubSeq(Batch(m), (n + 1) + 1, Len(Batch(m)))
<1> DEFINE b == Batch(m)
<1>1. b \in Seq(Firsts(m) \cup Later(m)) /\ Len(b) \in Nat
  BY BatchByPlace
<1>2. n \in 0..Len(b) /\ todo = SubSeq(b, n + 1, Len(b))
  BY DEF InBatch
<1> HIDE DEF b
<1>3. n # Len(b)
  <2> SUFFICES ASSUME n = Len(b) PROVE FALSE
    OBVIOUS
  <2>1. SubSeq(b, n + 1, Len(b)) = <<>>
    BY <1>1, SubSeqEmpty
  <2> QED BY <1>2, <2>1
<1>4. n + 1 \in 1..Len(b) /\ Len(b) \in (n + 1)..Len(b)
  BY <1>1, <1>2, <1>3
<1>5. Head(SubSeq(b, n + 1, Len(b))) = b[n + 1]
      /\ Tail(SubSeq(b, n + 1, Len(b))) = SubSeq(b, (n + 1) + 1, Len(b))
  BY <1>1, <1>4, HeadTailOfSubSeq
<1> QED
  BY <1>2, <1>4, <1>5 DEF b

LEMMA ApplyIInv == IInv /\ Apply => IInv'
<1> SUFFICES ASSUME IInv, Apply PROVE IInv'
  OBVIOUS
<1>1. todo # <<>> /\ config' = config /\ todo' = Tail(todo)
  BY DEF Apply
<1>2. PICK n \in Nat : config \in Configs /\ InBatch(config, n)
  BY <1>1 DEF IInv
<1> DEFINE m == config
           b == Batch(m)
           c == ClearsLen(m)
           o == b[n + 1]
<1>3. m \in Configs /\ m' = m
  BY <1>1, <1>2
<1>4. n + 1 \in 1..Len(b) /\ Head(todo) = o /\ todo' = SubSeq(b, (n + 1) + 1, Len(b))
  BY <1>1, <1>2, RestNext
<1>5. /\ mapMask' = IF o.op = "clearMask" THEN [t \in Types |-> NoMask]
                    ELSE IF o.op = "addMask" THEN [mapMask EXCEPT ![o.key] = o.entry]
                    ELSE mapMask
      /\ remapMask' = IF o.op = "setRemapMask" THEN o.entry ELSE remapMask
      /\ map' = IF o.op = "clearMap" THEN [t \in Types |-> {}]
                ELSE IF o.op = "addMap" THEN [map EXCEPT ![o.key] = @ \cup {o.entry}]
                ELSE map
      /\ remap' = IF o.op = "clearRemap" THEN {}
                  ELSE IF o.op = "addRemap" THEN remap \cup {o.entry} ELSE remap
      /\ dropUp' = IF o.op = "setDrop" THEN o.entry ELSE dropUp
      /\ class1' = IF o.op = "clearClasses" THEN {}
                   ELSE IF o.op = "addClass1" THEN class1 \cup Accepted(o.entry) ELSE class1
      /\ class2' = IF o.op = "clearClasses" THEN {}
                   ELSE IF o.op = "addClass2" THEN class2 \cup Accepted(o.entry) ELSE class2
      /\ thresh' = thresh
  BY <1>4 DEF Apply
<1>6. /\ (o.op = "clearMask" <=> n + 1 = 1)
      /\ (o.op = "clearMap" <=> n + 1 = 2)
      /\ (o.op = "clearRemap" <=> n + 1 = 3)
      /\ (\A j \in Types : n + 1 = c + j => o = Op("addMask", j, MsgMask(m, j - 1)))
      /\ (o.op = "addMask" => \E j \in Types : n + 1 = c + j)
      /\ (n + 1 = c + 4 => o = Op("setRemapMask", Nothing, MsgMask(m, 1)))
      /\ (o.op = "setRemapMask" => n + 1 = c + 4)
      /\ (o.op \in {"addMap", "addRemap"} => n + 1 >= c + 6)
      /\ (o.op = "addMap" => o.key \in Types /\ o.entry \in Table(m, o.key - 1))
      /\ (o.op = "clearClasses" <=> n + 1 = 4 /\ c = 4)
      /\ (n + 1 = c + 5 => o = Op("setDrop", Nothing, m.drop_rate))
      /\ (o.op = "setDrop" => n + 1 = c + 5)
      /\ (o.op \in {"addClass1", "addClass2"} => m.whether_range = 1)
  BY <1>3, <1>4, OpByPlace
<1>7. c \in {3, 4} /\ Len(b) \in Nat
  BY <1>3, BatchByPlace
<1>8. /\ map = [t \in Types |-> map[t]] /\ mapMask = [t \in Types |-> mapMask[t]]
      /\ OneMessage
  BY DEF IInv
<1>9. Applied(m, n)
  BY <1>2 DEF InBatch
<1>10. \A t \in Types : MapEntered(m, n + 1, t) = MapEntered(m, n, t)
             \cup (IF o.op = "addMap" /\ o.key = t THEN {o.entry} ELSE {})
  BY <1>3, EnteredNext
<1>11. RemapEntered(m, n + 1) = RemapEntered(m, n)
             \cup (IF o.op = "addRemap" THEN {o.entry} ELSE {})
  BY <1>3, EnteredNext
<1>12. n + 1 <= c + 5 =>
           /\ (\A t \in Types : MapEntered(m, n + 1, t) = {}) /\ RemapEntered(m, n + 1) = {}
           /\ ClassEntered(m, n + 1, "addClass1") = {} /\ ClassEntered(m, n + 1, "addClass2") = {}
  BY <1>3, <1>7, NoneEnteredYet
<1>22. \A name : ClassEntered(m, n + 1, name) = ClassEntered(m, n, name)
             \cup (IF o.op = name THEN Accepted(o.entry) ELSE {})
  BY <1>3, EnteredNext
<1>23. m.whether_range = 1 <=> c = 4
  BY DEF ClearsLen
<1>13. /\ \A t \in Types : MapEntered(m, n + 1, t) \subseteq Table(m, t - 1)
       /\ RemapEntered(m, n + 1) \subseteq Table(m, 1)
  BY <1>3, <1>4, EnteredWithin
<1>14. (map = [t \in Types |-> map[t]])' /\ (mapMask = [t \in Types |-> mapMask[t]])'
  <2> HIDE DEF o, b, c, m
  <2>1. (map = [t \in Types |-> map[t]])'
    BY <1>5, <1>8
  <2>2. (mapMask = [t \in Types |-> mapMask[t]])'
    BY <1>5, <1>8
  <2> QED BY <2>1, <2>2
<1> HIDE DEF o, b, c, m
<1>15. ASSUME n + 1 >= 2, NEW t \in Types
       PROVE  map'[t] = MapEntered(m, n + 1, t)
  <2>1. CASE n + 1 = 2
    <3>1. map'[t] = {}
      BY <1>5, <1>6, <2>1
    <3>2. n + 1 <= c + 5
      BY <1>7, <2>1
    <3> QED BY <1>12, <3>1, <3>2
  <2>2. CASE n >= 2
    <3>1. map[t] = MapEntered(m, n, t) /\ o.op # "clearMap"
      BY <1>6, <1>9, <2>2 DEF Applied
    <3>2. CASE o.op = "addMap"
      <4>1. map' = [map EXCEPT ![o.key] = @ \cup {o.entry}]
        BY <1>5, <3>2
      <4>2. map'[t] = IF t = o.key THEN map[t] \cup {o.entry} ELSE map[t]
        BY <1>8, <4>1
      <4> QED BY <1>10, <3>1, <3>2, <4>2
    <3>3. CASE o.op # "addMap"
      <4>1. map' = map
        BY <1>5, <3>1, <3>3
      <4> QED BY <1>10, <3>1, <3>3, <4>1
    <3> QED BY <3>2, <3>3
  <2> QED
    BY <1>15, <2>1, <2>2
<1>16. ASSUME n + 1 >= 3
       PROVE  remap' = RemapEntered(m, n + 1)
  <2>1. CASE n + 1 = 3
    <3>1. remap' = {} /\ n + 1 <= c + 5
      BY <1>5, <1>6, <1>7, <2>1
    <3> QED BY <1>12, <3>1
  <2>2. CASE n >= 3
    <3>1. remap = RemapEntered(m, n) /\ o.op # "clearRemap"
      BY <1>6, <1>9, <2>2 DEF Applied
    <3> QED BY <1>5, <1>11, <3>1
  <2> QED
    BY <1>16, <2>1, <2>2
<1>17. ASSUME NEW t \in Types, n + 1 >= c + t
       PROVE  mapMask'[t] = MsgMask(m, t - 1)
  <2>1. o.op # "clearMask"
    BY <1>6, <1>7, <1>17 DEF Types
  <2>2. CASE n + 1 = c + t
    <3>1. o = Op("addMask", t, MsgMask(m, t - 1))
      BY <1>6, <2>2
    <3>2. o.op = "addMask" /\ o.key = t /\ o.entry = MsgMask(m, t - 1)
      BY <3>1 DEF Op
    <3>3. mapMask' = [mapMask EXCEPT ![t] = MsgMask(m, t - 1)]
      BY <1>5, <2>1, <3>2
    <3> QED BY <1>8, <3>3
  <2>3. CASE n >= c + t
    <3>1. mapMask[t] = MsgMask(m, t - 1)
      BY <1>9, <2>3 DEF Applied, c
    <3>2. CASE o.op = "addMask"
      <4>1. PICK j \in Types : n + 1 = c + j
        BY <1>6, <3>2
      <4>2. o.key = j /\ j # t
        BY <1>6, <1>7, <2>3, <4>1 DEF Op, Types
      <4>3. mapMask' = [mapMask EXCEPT ![j] = o.entry]
        BY <1>5, <2>1, <3>2, <4>2
      <4> QED BY <1>8, <3>1, <4>2, <4>3
    <3>3. CASE o.op # "addMask"
      BY <1>5, <2>1, <3>1, <3>3
    <3> QED BY <3>2, <3>3
  <2> QED
    BY <1>7, <1>17, <2>2, <2>3 DEF Types
<1>18. ASSUME n + 1 >= c + 4
       PROVE  remapMask' = MsgMask(m, 1)
  <2>1. CASE n + 1 = c + 4
    <3>1. o = Op("setRemapMask", Nothing, MsgMask(m, 1))
      BY <1>6, <2>1
    <3> QED BY <1>5, <3>1 DEF Op
  <2>2. CASE n >= c + 4
    <3>1. remapMask = MsgMask(m, 1)
      BY <1>9, <2>2 DEF Applied, c
    <3>2. o.op # "setRemapMask"
      BY <1>6, <1>7, <2>2
    <3> QED BY <1>5, <3>1, <3>2
  <2> QED
    BY <1>7, <1>18, <2>1, <2>2
<1>24. ASSUME n + 1 >= c + 5
       PROVE  dropUp' = m.drop_rate
  <2>1. CASE n + 1 = c + 5
    <3>1. o = Op("setDrop", Nothing, m.drop_rate)
      BY <1>6, <2>1
    <3> QED BY <1>5, <3>1 DEF Op
  <2>2. CASE n >= c + 5
    <3>1. dropUp = m.drop_rate
      BY <1>9, <2>2 DEF Applied, c
    <3>2. o.op # "setDrop"
      BY <1>6, <1>7, <2>2
    <3> QED BY <1>5, <3>1, <3>2
  <2> QED
    BY <1>7, <1>24, <2>1, <2>2
<1>25. ASSUME m.whether_range = 1, n + 1 >= 4
       PROVE  class1' = ClassEntered(m, n + 1, "addClass1") /\ class2' = ClassEntered(m, n + 1, "addClass2")
  <2>1. CASE n + 1 = 4
    <3>1. class1' = {} /\ class2' = {}
      BY <1>5, <1>6, <1>23, <1>25, <2>1
    <3> QED BY <1>7, <1>12, <2>1, <3>1
  <2>2. CASE n >= 4
    <3>1. /\ class1 = ClassEntered(m, n, "addClass1") /\ class2 = ClassEntered(m, n, "addClass2")
          /\ o.op # "clearClasses"
      BY <1>6, <1>9, <1>25, <2>2 DEF Applied
    <3> QED BY <1>5, <1>22, <3>1
  <2> QED
    BY <1>25, <2>1, <2>2
<1>26. ASSUME m.whether_range # 1, thresh' # <<>>
       PROVE  ClassedBy(thresh)'
  <2>1. ClassedBy(thresh)
    BY <1>5, <1>9, <1>26 DEF Applied
  <2>2. class1' = class1 /\ class2' = class2
    BY <1>5, <1>6, <1>23, <1>26
  <2> QED BY <1>5, <2>1, <2>2 DEF ClassedBy
<1>27. m.whether_range = 1 => thresh' = m.thresh
  BY <1>5, <1>9 DEF Applied
<1>19. Applied(m, n + 1)'
  <2>1. /\ (n + 1 >= 2 => \A t \in Types : map'[t] = MapEntered(m, n + 1, t))
        /\ (n + 1 >= 3 => remap' = RemapEntered(m, n + 1))
        /\ (\A t \in Types : n + 1 >= c + t => mapMask'[t] = MsgMask(m, t - 1))
        /\ (n + 1 >= c + 4 => remapMask' = MsgMask(m, 1))
        /\ (n + 1 >= c + 5 => dropUp' = m.drop_rate)
    BY <1>15, <1>16, <1>17, <1>18, <1>24
  <2>2. /\ (m.whether_range = 1 => thresh' = m.thresh)
        /\ ((m.whether_range = 1 /\ n + 1 >= 4) =>
               /\ class1' = ClassEntered(m, n + 1, "addClass1")
               /\ class2' = ClassEntered(m, n + 1, "addClass2"))
        /\ ((m.whether_range # 1 /\ thresh' # <<>>) => ClassedBy(thresh)')
    BY <1>25, <1>26, <1>27
  <2> QED
    BY <1>3, <2>1, <2>2 DEF Applied, c, m, MapEntered, RemapEntered, ClassEntered, Places
<1>20. OneMessage'
  <2>1. ASSUME NEW t \in Types
        PROVE  map'[t] = {} \/ \E k \in Configs : map'[t] \subseteq Table(k, t - 1)
    <3>1. CASE n + 1 >= 2
      BY <1>3, <1>13, <1>15, <3>1
    <3>2. CASE ~(n + 1 >= 2)
      <4>1. map' = map
        BY <1>5, <1>6, <1>7, <3>2
      <4> QED BY <1>8, <4>1 DEF OneMessage
    <3> QED BY <3>1, <3>2
  <2>2. remap' = {} \/ \E k \in Configs : remap' \subseteq Table(k, 1)
    <3>1. CASE n + 1 >= 3
      BY <1>3, <1>13, <1>16, <3>1
    <3>2. CASE ~(n + 1 >= 3)
      <4>1. remap' = remap
        BY <1>5, <1>6, <1>7, <3>2
      <4> QED BY <1>8, <4>1 DEF OneMessage
    <3> QED BY <3>1, <3>2
  <2> QED
    BY <2>1, <2>2 DEF OneMessage
<1>21. InBatch(m, n + 1)'
  <2>1. n + 1 \in 0..Len(b)
    BY <1>4, <1>7
  <2> QED
    BY <1>3, <1>4, <1>19, <2>1 DEF InBatch, b, m
<1> QED
  BY <1>3, <1>5, <1>14, <1>20, <1>21 DEF IInv, m

LEMMA NextIInv == IInv /\ [Next]_vars => IInv'
<1>1. IInv /\ UNCHANGED vars => IInv'
  BY DEF IInv, vars, OneMessage, InBatch, Applied, ClassedBy
<1> QED
  BY <1>1, ReceiveIInv, ApplyIInv DEF Next
-----------------------------------------------------------------------------
LEMMA MaskedFits ==
    ASSUME NEW hash \in Nat, NEW mask \in Nat
    PROVE  Masked(hash, mask) \in 0..mask
<1>1. mask + 1 \in Nat \ {0} /\ (mask + 1) - 1 = mask
  OBVIOUS
<1> QED
  BY <1>1, DivFacts DEF Masked

(* No range reaches beyond the mask.                                       *)
LEMMA WithinMask ==
    ASSUME NEW size \in Nat \ {0}, NEW base \in Nat, NEW mask \in Nat,
           NEW e \in RangeTable(size, base, mask)
    PROVE  e.hi <= mask
<1> DEFINE q == mask \div size
<1>1. q \in Nat /\ mask % size \in 0..(size - 1) /\ mask = q * size + (mask % size)
  BY DivFacts
<1>2. NumEntry(size, mask) - 1 = q
  <2>1. NumEntry(size, mask) = q + 1
    BY NumEntryFacts
  <2> HIDE DEF q
  <2> QED BY <1>1, <2>1
<1>3. PICK k \in 0..(NumEntry(size, mask) - 1) : e = RangeEntry(k, size, base, mask)
  BY DEF RangeTable
<1>4. e.hi = IF k = q THEN mask ELSE (k + 1) * size - 1
  BY <1>2, <1>3 DEF RangeEntry
<1> HIDE DEF q
<1>5. CASE k = q
  BY <1>4, <1>5
<1>6. CASE k # q
  <2>1. PICK d \in Nat : q = (k + 1) + d
    <3>1. q - (k + 1) \in Nat /\ q = (k + 1) + (q - (k + 1))
      BY <1>1, <1>2, <1>3, <1>6
    <3> QED BY <3>1
  <2>2. q * size = (k + 1) * size + d * size
    BY <1>2, <1>3, <2>1
  <2>3. d * size >= 0 /\ d * size \in Int
    BY <2>1
  <2>4. (k + 1) * size \in Int
    BY <1>2, <1>3
  <2> QED
    BY <1>1, <1>4, <1>6, <2>2, <2>3, <2>4
<1> QED
  BY <1>5, <1>6

(* Of a part of a zone's ranges, at most one matches an index, and it is   *)
(* the one that the whole table has for it.                                *)
LEMMA PartOfTable ==
    ASSUME NEW m \in Configs, NEW j \in Zone, NEW T \in SUBSET Table(m, j), NEW i \in Nat
    PROVE  /\ Cardinality(Matches(T, i)) <= 1
           /\ (Matches(T, i) # {} /\ i <= MsgMask(m, j)) =>
                  MapIndex(T, i) = DecodePos(i, m.zone_size[j], m.zone_base[j])
<1> DEFINE size == m.zone_size[j]
           base == m.zone_base[j]
           mask == MsgMask(m, j)
<1>1. size \in Nat /\ base \in Nat /\ mask \in Nat /\ base + size < Word /\ Word \in Nat
  BY MsgFacts, WordBitsAssumption
<1>2. Matches(T, i) \subseteq Matches(Table(m, j), i)
  BY DEF Matches
<1>3. CASE size = 0
  <2>1. Matches(T, i) = {}
    BY <1>3 DEF Table, RangeTable, Matches
  <2> QED
    BY <2>1, FS_EmptySet
<1>4. CASE size # 0
  <2>0. size \in Nat \ {0} /\ base + size <= Word
    BY <1>1, <1>4
  <2>1. CASE i <= mask
    <3>1. i \in 0..mask
      BY <1>1, <2>1
    <3>0. Matches(RangeTable(size, base, mask), i) = {RangeEntry(i \div size, size, base, mask)}
      BY <1>1, <2>0, <3>1, OneEntry
    <3>2. PICK e : Matches(Table(m, j), i) = {e}
      BY Zenon, <3>0 DEF Table
    <3>3. MapIndex(Table(m, j), i) = DecodePos(i, size, base)
      BY <1>1, <2>0, <3>1, RangesMapAsDecoded DEF Table
    <3> HIDE DEF size, base, mask
    <3>4. CASE Matches(T, i) = {}
      BY <3>4, FS_EmptySet
    <3>5. CASE Matches(T, i) # {}
      <4>1. Matches(T, i) = {e}
        BY <1>2, <3>2, <3>5
      <4>2. MapIndex(T, i) = MapIndex(Table(m, j), i)
        BY <3>2, <4>1 DEF MapIndex
      <4>3. Cardinality(Matches(T, i)) = 1
        BY <4>1, FS_Singleton
      <4> QED BY <3>3, <4>2, <4>3 DEF size, base
    <3> QED BY <3>4, <3>5
  <2>2. CASE ~(i <= mask)
    <3>1. ASSUME NEW e \in Matches(T, i) PROVE FALSE
      <4>1. e \in RangeTable(size, base, mask) /\ i <= e.hi
        BY DEF Matches, Table
      <4>2. e.hi <= mask
        BY <1>1, <2>0, <4>1, WithinMask
      <4>3. e.hi \in Int
        <5>1. PICK k \in 0..(NumEntry(size, mask) - 1) : e = RangeEntry(k, size, base, mask)
          BY <2>0, <4>1 DEF RangeTable
        <5>2. k \in Int
          OBVIOUS
        <5> HIDE DEF size, base, mask
        <5> QED BY <1>1, <5>1, <5>2 DEF RangeEntry
      <4> HIDE DEF size, base, mask
      <4> QED BY <1>1, <2>2, <4>1, <4>2, <4>3
    <3>2. Matches(T, i) = {}
      BY <3>1
    <3> QED
      BY <3>2, FS_EmptySet
  <2> QED BY <2>1, <2>2
<1> QED
  BY <1>3, <1>4

(* A table that has all ranges of a zone puts every hash where the         *)
(* controller looks for it.                                                *)
LEMMA WholeTable ==
    ASSUME NEW m \in Configs, NEW j \in Zone, NEW hash \in Nat, m.zone_size[j] > 0
    PROVE  MapIndex(Table(m, j), Masked(hash, MsgMask(m, j)))
               = DecodePos(Masked(hash, MsgMask(m, j)), m.zone_size[j], m.zone_base[j])
<1>1. /\ m.zone_size[j] \in Nat \ {0} /\ m.zone_base[j] \in Nat /\ MsgMask(m, j) \in Nat
      /\ m.zone_base[j] + m.zone_size[j] <= Word
  BY MsgFacts, WordBitsAssumption
<1>2. Masked(hash, MsgMask(m, j)) \in 0..MsgMask(m, j)
  BY <1>1, MaskedFits
<1> QED
  BY <1>1, <1>2, RangesMapAsDecoded DEF Table
-----------------------------------------------------------------------------
LEMMA HashIsNat == \A hash \in Hashes : hash \in Nat
BY WordBitsAssumption DEF Hashes

LEMMA NeverMixed == IInv => OldAndNewNeverMix
<1> SUFFICES ASSUME IInv PROVE OldAndNewNeverMix
  OBVIOUS
<1>1. ASSUME NEW t \in Types, NEW hash \in Hashes, todo # <<>>,
             Head(todo).op \notin {"clearMask", "clearMap", "clearRemap"},
             Matches(map[t], Masked(hash, mapMask[t])) # {}
      PROVE  IngressIndex(t, hash) = Decoded(ZoneOf(t), hash)
  <2>1. PICK n \in Nat : config \in Configs /\ InBatch(config, n)
    BY <1>1 DEF IInv
  <2> DEFINE m == config
             c == ClearsLen(m)
  <2>2. n + 1 \in 1..Len(Batch(m)) /\ Head(todo) = Batch(m)[n + 1] /\ n \in 0..Len(Batch(m))
    BY <1>1, <2>1, RestNext DEF InBatch
  <2>3. n + 1 # 1 /\ n + 1 # 2 /\ n + 1 # 3
    BY <1>1, <2>1, <2>2, OpByPlace
  <2>4. c \in {3, 4} /\ Applied(m, n)
    BY <2>1, BatchByPlace DEF InBatch
  <2>5. map[t] = MapEntered(m, n, t)
    BY <2>3, <2>4 DEF Applied
  <2>6. map[t] # {}
    BY <1>1 DEF Matches
  <2>7. n > c + 5
    BY <2>1, <2>4, <2>5, <2>6, NoneEnteredYet
  <2>8. mapMask[t] = MsgMask(m, t - 1)
    BY <2>4, <2>7 DEF Applied, Types
  <2>9. map[t] \subseteq Table(m, t - 1)
    BY <2>1, <2>2, <2>5, EnteredWithin
  <2>10. t - 1 \in Zone /\ hash \in Nat
    BY HashIsNat DEF Types, Zone
  <2>11. MsgMask(m, t - 1) \in Nat
    BY <2>1, <2>10, MsgFacts
  <2>12. Masked(hash, MsgMask(m, t - 1)) \in 0..MsgMask(m, t - 1)
    BY <2>10, <2>11, MaskedFits
  <2> DEFINE i == Masked(hash, MsgMask(m, t - 1))
  <2>13. i \in Nat /\ i <= MsgMask(m, t - 1) /\ Matches(map[t], i) # {}
    BY <1>1, <2>8, <2>11, <2>12
  <2>14. MapIndex(map[t], i) = DecodePos(i, m.zone_size[t - 1], m.zone_base[t - 1])
    BY <2>1, <2>9, <2>10, <2>13, PartOfTable
  <2> QED
    BY <2>8, <2>14 DEF IngressIndex, Decoded, ZoneOf
<1>2. ASSUME NEW t \in Types, NEW i \in Hashes
      PROVE  Cardinality(Matches(map[t], i)) <= 1 /\ Cardinality(Matches(remap, i)) <= 1
  <2>1. t - 1 \in Zone /\ 1 \in Zone /\ i \in Nat
    BY HashIsNat DEF Types, Zone
  <2>2. OneMessage
    BY DEF IInv
  <2>3. Cardinality(Matches(map[t], i)) <= 1
    <3>1. CASE map[t] = {}
      <4>1. Matches(map[t], i) = {}
        BY <3>1 DEF Matches
      <4> QED BY <4>1, FS_EmptySet
    <3>2. CASE \E m \in Configs : map[t] \subseteq Table(m, t - 1)
      BY <2>1, <3>2, PartOfTable
    <3> QED BY <2>2, <3>1, <3>2 DEF OneMessage
  <2>4. Cardinality(Matches(remap, i)) <= 1
    <3>1. CASE remap = {}
      <4>1. Matches(remap, i) = {}
        BY <3>1 DEF Matches
      <4> QED BY <4>1, FS_EmptySet
    <3>2. CASE \E m \in Configs : remap \subseteq Table(m, 1)
      BY <2>1, <3>2, PartOfTable
    <3> QED BY <2>2, <3>1, <3>2 DEF OneMessage
  <2> QED BY <2>3, <2>4
<1> QED
  BY <1>1, <1>2 DEF OldAndNewNeverMix

LEMMA CountedRight == IInv => CountedWhereDecoded
<1> SUFFICES ASSUME IInv, Settled, NEW t \in Types, NEW hash \in Hashes
             PROVE  /\ config.zone_size[ZoneOf(t)] > 0 =>
                           IngressIndex(t, hash) = Decoded(ZoneOf(t), hash)
                    /\ config.zone_size[Lesser(ZoneOf(t), 1)] > 0 =>
                           EgressIndex(t, hash) = Decoded(Lesser(ZoneOf(t), 1), hash)
  BY DEF CountedWhereDecoded
<1>1. PICK n \in Nat : config \in Configs /\ InBatch(config, n)
  BY DEF IInv, Settled
<1> DEFINE m == config
           b == Batch(m)
           c == ClearsLen(m)
<1>2. n = Len(b) /\ n \in Nat /\ n >= c + 5 /\ c \in {3, 4}
  BY <1>1, AtEnd DEF Settled
<1>4. Applied(m, Len(b))
  BY <1>1, <1>2 DEF InBatch
<1>5. /\ \A k \in Types : map[k] = Table(m, k - 1) /\ mapMask[k] = MsgMask(m, k - 1)
      /\ remap = Table(m, 1) /\ remapMask = MsgMask(m, 1)
  <2>1. Len(b) >= 2 /\ Len(b) >= 3 /\ Len(b) >= c + 4 /\ \A k \in Types : Len(b) >= c + k
    BY <1>2 DEF Types
  <2> QED
    BY <1>1, <1>4, <2>1, AllEntered DEF Applied
<1>6. hash \in Nat /\ t - 1 \in Zone /\ 1 \in Zone
  BY HashIsNat DEF Types, Zone
<1>7. m.zone_size[ZoneOf(t)] > 0 => IngressIndex(t, hash) = Decoded(ZoneOf(t), hash)
  BY <1>1, <1>5, <1>6, WholeTable DEF IngressIndex, Decoded, ZoneOf
<1>8. m.zone_size[Lesser(ZoneOf(t), 1)] > 0 =>
          EgressIndex(t, hash) = Decoded(Lesser(ZoneOf(t), 1), hash)
  <2>1. CASE t = 3
    <3>1. Lesser(ZoneOf(t), 1) = 1
      BY <2>1 DEF Lesser, ZoneOf
    <3>2. EgressIndex(t, hash) = MapIndex(Table(m, 1), Masked(hash, MsgMask(m, 1)))
      BY <1>5, <2>1 DEF EgressIndex
    <3> QED
      BY <1>1, <1>6, <3>1, <3>2, WholeTable DEF Decoded
  <2>2. CASE t # 3
    <3>1. Lesser(ZoneOf(t), 1) = ZoneOf(t)
      BY <2>2 DEF Lesser, ZoneOf, Types
    <3>2. EgressIndex(t, hash) = IngressIndex(t, hash)
      BY <2>2 DEF EgressIndex
    <3> QED
      BY <1>7, <3>1, <3>2
  <2> QED BY <2>1, <2>2
<1> QED
  BY <1>7, <1>8

-----------------------------------------------------------------------------
(* The ranges of a filter, one by one.                                     *)
ClassRange(lo, hi, type) == [lo |-> lo, hi |-> hi, type |-> type]

LEMMA ClassesAre ==
    ASSUME NEW max \in Nat, NEW th, th[1] \in Nat, th[2] \in Nat
    PROVE  \A e : e \in Classes(max, th) <=>
               \/ th[1] > 0 /\ e = ClassRange(0, UpTo(max - 1, th[1]), 1)
               \/ th[1] <= max - 1 /\ e = ClassRange(th[1], UpTo(max - 1, th[2]), 2)
               \/ e = ClassRange(Lesser(max, th[2]), max, 3)
<1> DEFINE x == ClassRange(0, UpTo(max - 1, th[1]), 1)
           y == ClassRange(th[1], UpTo(max - 1, th[2]), 2)
           z == ClassRange(Lesser(max, th[2]), max, 3)
           a == IF th[1] > 0 THEN << x >> ELSE << >>
           A == IF th[1] > 0 THEN {x} ELSE {}
           b == IF th[1] <= max - 1 THEN << y >> ELSE << >>
           B == IF th[1] <= max - 1 THEN {y} ELSE {}
           s == ClassEntries(max, th[1], th[2])
<1>1. s = (a \o b) \o << z >>
  BY DEF ClassEntries, ClassRange
<1> HIDE DEF x, y, z, s
<1>2. \A e : Lists(<< e >>, {e})
  <2> TAKE e
  <2>1. << e >> \in Seq({e}) /\ Len(<< e >>) = 1 /\ << e >>[1] = e
    OBVIOUS
  <2> QED BY <2>1 DEF Lists
<1>3. Lists(<< >>, {})
  BY EmptySeq DEF Lists
<1>4. Lists(a, A)
  <2>1. CASE th[1] > 0
    BY Zenon, <1>2, <2>1
  <2>2. CASE ~(th[1] > 0)
    BY Zenon, <1>3, <2>2
  <2> QED BY <2>1, <2>2
<1>5. Lists(b, B)
  <2>1. CASE th[1] <= max - 1
    BY Zenon, <1>2, <2>1
  <2>2. CASE ~(th[1] <= max - 1)
    BY Zenon, <1>3, <2>2
  <2> QED BY <2>1, <2>2
<1>6. Lists(a \o b, A \cup B)
  <2> HIDE DEF a, A, b, B
  <2> QED BY <1>4, <1>5, ListsConcat
<1>7. Lists(s, (A \cup B) \cup {z})
  <2>1. Lists(<< z >>, {z})
    BY <1>2
  <2> DEFINE ab == a \o b
             AB == A \cup B
  <2>2. Lists(ab, AB) /\ s = ab \o << z >>
    BY <1>1, <1>6
  <2> HIDE DEF ab, AB, a, b, A, B
  <2>3. Lists(ab \o << z >>, AB \cup {z})
    BY <2>1, <2>2, ListsConcat
  <2> QED BY <2>2, <2>3 DEF AB
<1>8. Classes(max, th) = (A \cup B) \cup {z}
  <2>1. Classes(max, th) = {s[k] : k \in DOMAIN s}
    BY DEF Classes, s
  <2> DEFINE S == (A \cup B) \cup {z}
  <2>2. Lists(s, S)
    BY <1>7
  <2> HIDE DEF S
  <2>3. DOMAIN s = 1..Len(s) /\ \A k \in 1..Len(s) : s[k] \in S
    BY <2>2 DEF Lists
  <2>4. \A o \in S : \E k \in 1..Len(s) : s[k] = o
    BY <2>2 DEF Lists
  <2>5. {s[k] : k \in DOMAIN s} = S
    BY <2>3, <2>4
  <2> QED BY <2>1, <2>5 DEF S
<1> QED
  BY <1>8 DEF x, y, z

(* With thresholds the right way up, every count is in one range.          *)
TypeBy(th, c) == IF c < th[1] THEN 1 ELSE IF c < th[2] THEN 2 ELSE 3

TypesIn(table, c) == {e.type : e \in Matches(table, c)}

LEMMA TypesAt ==
    ASSUME NEW max \in Nat \ {0}, NEW th, th[1] \in Nat, th[2] \in Nat,
           th[1] <= th[2], 0 < th[2], NEW c \in 0..max
    PROVE  TypesIn(Taken(Classes(max, th)), c) = {IF c = max THEN 3 ELSE TypeBy(th, c)}
<1> DEFINE C == Classes(max, th)
           M == Matches(Taken(C), c)
           v == IF c = max THEN 3 ELSE TypeBy(th, c)
           x == ClassRange(0, UpTo(max - 1, th[1]), 1)
           y == ClassRange(th[1], UpTo(max - 1, th[2]), 2)
           z == ClassRange(Lesser(max, th[2]), max, 3)
<1>0. max \in Nat
  OBVIOUS
<1>1. \A e : e \in C <=> \/ th[1] > 0 /\ e = x
                         \/ th[1] <= max - 1 /\ e = y
                         \/ e = z
  BY <1>0, ClassesAre
<1>2. \A e : e \in M <=> e \in C /\ e.lo <= e.hi /\ e.lo <= c /\ c <= e.hi
  <2>1. \A e, d : e \in Accepted(d) <=> e = d /\ d.lo <= d.hi
    BY DEF Accepted
  <2> HIDE DEF C
  <2>2. \A e : e \in Taken(C) <=> e \in C /\ e.lo <= e.hi
    BY <2>1 DEF Taken
  <2> QED BY <2>2 DEF Matches
<1>3. /\ x.lo = 0 /\ x.hi = UpTo(max - 1, th[1]) /\ x.type = 1
      /\ y.lo = th[1] /\ y.hi = UpTo(max - 1, th[2]) /\ y.type = 2
      /\ z.lo = Lesser(max, th[2]) /\ z.hi = max /\ z.type = 3
  BY DEF ClassRange
<1> HIDE DEF C, M, x, y, z
<1>4. c \in Nat /\ c <= max /\ max > 0
  OBVIOUS
<1>5. x \in M <=> th[1] > 0 /\ c < max /\ c < th[1]
  <2>1. th[1] > 0 => (x.hi = IF max - 1 < th[1] - 1 THEN max - 1 ELSE th[1] - 1)
    BY <1>3 DEF UpTo, Lesser
  <2>2. x \in C => th[1] > 0
    BY <1>1, <1>3
  <2>3. th[1] > 0 => x \in C
    BY <1>1
  <2> QED BY <1>2, <1>3, <1>4, <2>1, <2>2, <2>3
<1>6. y \in M <=> c < max /\ th[1] <= c /\ c < th[2]
  <2>1. y.hi = IF max - 1 < th[2] - 1 THEN max - 1 ELSE th[2] - 1
    BY <1>3 DEF UpTo, Lesser
  <2>2. y \in C => th[1] <= max - 1
    BY <1>1, <1>3
  <2>3. th[1] <= max - 1 => y \in C
    BY <1>1
  <2> QED BY <1>2, <1>3, <1>4, <2>1, <2>2, <2>3
<1>7. z \in M <=> c = max \/ th[2] <= c
  <2>1. z.lo = IF max < th[2] THEN max ELSE th[2]
    BY <1>3 DEF Lesser
  <2>2. z \in C
    BY <1>1
  <2> QED BY <1>2, <1>3, <1>4, <2>1, <2>2
<1>8. \A e \in M : e \in {x, y, z}
  BY <1>1, <1>2
<1>9. CASE c = max
  <2>1. M = {z}
    BY <1>4, <1>5, <1>6, <1>7, <1>8, <1>9
  <2> QED BY <1>3, <1>9, <2>1 DEF M, C, TypesIn
<1>10. CASE c # max /\ c < th[1]
  <2>1. M = {x} /\ v = 1
    BY <1>4, <1>5, <1>6, <1>7, <1>8, <1>10 DEF TypeBy
  <2> QED BY <1>3, <2>1 DEF M, C, TypesIn
<1>11. CASE c # max /\ th[1] <= c /\ c < th[2]
  <2>1. M = {y} /\ v = 2
    BY <1>4, <1>5, <1>6, <1>7, <1>8, <1>11 DEF TypeBy
  <2> QED BY <1>3, <2>1 DEF M, C, TypesIn
<1>12. CASE c # max /\ th[2] <= c
  <2>1. M = {z} /\ v = 3
    BY <1>4, <1>5, <1>6, <1>7, <1>8, <1>12 DEF TypeBy
  <2> QED BY <1>3, <2>1 DEF M, C, TypesIn
<1> QED
  BY <1>4, <1>9, <1>10, <1>11, <1>12

LEMMA ClassedRight == IInv => ClassedAndSampled
<1> SUFFICES ASSUME IInv PROVE ClassedAndSampled
  OBVIOUS
<1>1. ASSUME Settled
      PROVE  \E n \in Nat : config \in Configs /\ InBatch(config, n)
                 /\ n >= ClearsLen(config) + 5 /\ (thresh # <<>> => ClassedBy(thresh))
  <2>1. PICK n \in Nat : config \in Configs /\ InBatch(config, n)
    BY <1>1 DEF IInv, Settled
  <2> QED
    BY <1>1, <2>1, AtEnd DEF Settled
<1>2. ASSUME Settled, thresh # <<>>, thresh[1] <= thresh[2], 0 < thresh[2],
             NEW c1 \in 0..Filter1Max, NEW c2 \in 0..Filter2Max
      PROVE  TypeOf(c1, c2) = { IF c1 = Filter1Max
                                THEN IF c2 = Filter2Max THEN 3 ELSE ByThreshold(c2)
                                ELSE ByThreshold(Lesser(c1, c2)) }
  <2>1. ClassedBy(thresh)
    BY <1>1, <1>2
  <2>2. /\ thresh[1] \in Nat /\ thresh[2] \in Nat
        /\ thresh[1] <= Filter2Max /\ thresh[2] <= Filter2Max
        /\ Filter1Max \in Nat \ {0} /\ Filter2Max \in Nat \ {0}
    <3>1. thresh \in (0..Filter2Max) \X (0..Filter2Max)
      BY <1>2 DEF IInv
    <3>2. thresh[1] \in 0..Filter2Max /\ thresh[2] \in 0..Filter2Max
      BY <3>1
    <3> QED BY <3>2, ConfigAssumption
  <2> DEFINE v1 == IF c1 = Filter1Max THEN 3 ELSE TypeBy(thresh, c1)
             v2 == IF c2 = Filter2Max THEN 3 ELSE TypeBy(thresh, c2)
  <2>3. Matches(class1, c1) # {} /\ {e.type : e \in Matches(class1, c1)} = {v1}
    <3>1. class1 = Taken(Classes(Filter1Max, thresh))
      BY <2>1 DEF ClassedBy
    <3>2. TypesIn(Taken(Classes(Filter1Max, thresh)), c1) = {v1}
      BY <1>2, <2>2, TypesAt
    <3> HIDE DEF v1
    <3>3. {e.type : e \in Matches(class1, c1)} = {v1}
      BY <3>1, <3>2 DEF TypesIn
    <3> QED BY <3>3
  <2>4. Matches(class2, c2) # {} /\ {e.type : e \in Matches(class2, c2)} = {v2}
    <3>1. class2 = Taken(Classes(Filter2Max, thresh))
      BY <2>1 DEF ClassedBy
    <3>2. TypesIn(Taken(Classes(Filter2Max, thresh)), c2) = {v2}
      BY <1>2, <2>2, TypesAt
    <3> HIDE DEF v2
    <3>3. {e.type : e \in Matches(class2, c2)} = {v2}
      BY <3>1, <3>2 DEF TypesIn
    <3> QED BY <3>3
  <2>5. TypeOf(c1, c2) = {Lesser(v1, v2)}
    <3> HIDE DEF v1, v2
    <3> QED BY <2>3, <2>4 DEF TypeOf
  <2>6. c1 \in Nat /\ c2 \in Nat /\ c1 <= Filter1Max /\ c2 <= Filter2Max
    BY <2>2
  <2>7. Lesser(v1, v2) = IF c1 = Filter1Max
                         THEN IF c2 = Filter2Max THEN 3 ELSE ByThreshold(c2)
                         ELSE ByThreshold(Lesser(c1, c2))
    <3>1. CASE c1 = Filter1Max
      BY <1>2, <2>2, <2>6, <3>1 DEF Lesser, ByThreshold, TypeBy
    <3>2. CASE c1 # Filter1Max
      BY <1>2, <2>2, <2>6, <3>2 DEF Lesser, ByThreshold, TypeBy
    <3> QED BY <3>1, <3>2
  <2> QED
    BY <2>5, <2>7
<1>3. ASSUME Settled
      PROVE  Cardinality({h \in Hashes : Recorded(1, h)}) = config.drop_rate + 1
  <2>1. PICK n \in Nat : config \in Configs /\ InBatch(config, n) /\ n >= ClearsLen(config) + 5
    BY <1>1, <1>3
  <2>2. dropUp = config.drop_rate
    BY <2>1 DEF InBatch, Applied
  <2>3. config.drop_rate \in 0..(Word - 1) /\ Word \in Nat
    BY <2>1, ConfigAssumption, WordBitsAssumption
  <2>4. {h \in Hashes : Recorded(1, h)} = 0..config.drop_rate
    <3> DEFINE d == config.drop_rate
    <3>1. \A h : h \in {k \in Hashes : Recorded(1, k)} <=> h \in 0..(Word - 1) /\ h <= d
      BY <2>2 DEF Hashes, Recorded
    <3>2. d \in 0..(Word - 1)
      BY <2>3
    <3> HIDE DEF d
    <3>3. \A h : h \in 0..d <=> h \in 0..(Word - 1) /\ h <= d
      BY <2>3, <3>2
    <3>4. {k \in Hashes : Recorded(1, k)} = 0..d
      BY Zenon, <3>1, <3>3
    <3> QED BY <3>4 DEF d
  <2>5. Cardinality(0..config.drop_rate) = config.drop_rate - 0 + 1
    BY <2>3, FS_Interval
  <2>6. config.drop_rate - 0 + 1 = config.drop_rate + 1
    BY <2>3
  <2> QED
    BY Zenon, <2>4, <2>5, <2>6
<1> QED
  BY <1>2, <1>3 DEF ClassedAndSampled

(* In the middle of a batch a packet that finds a range is counted by the  *)
(* new message, and no range table ever matches an index twice, for every  *)
(* word width and whatever messages follow one another.                    *)
THEOREM SwitchNeverMixes == Spec => []OldAndNewNeverMix
<1>1. Spec => []IInv
  BY InitIInv, NextIInv, PTL DEF Spec
<1> QED
  BY <1>1, NeverMixed, PTL

(* A switch that has applied a message counts each packet where the        *)
(* controller looks for its flow: adjust, all entries of all tables, and   *)
(* verify's own computation agree.                                         *)
THEOREM SwitchCountsWhereDecoded == Spec => []CountedWhereDecoded
<1>1. Spec => []IInv
  BY InitIInv, NextIInv, PTL DEF Spec
<1> QED
  BY <1>1, CountedRight, PTL

(* It classes flows by the smaller of their filter counts and records the  *)
(* share of small flows by which the controller scales, for every size of  *)
(* filters, all thresholds, and also when a message leaves the filters'    *)
(* tables as an earlier one made them.                                     *)
THEOREM SwitchClassesAndSamples == Spec => []ClassedAndSampled
<1>1. Spec => []IInv
  BY InitIInv, NextIInv, PTL DEF Spec
<1> QED
  BY <1>1, ClassedRight, PTL
=============================================================================
