------------------------------ MODULE ZoneMap ------------------------------
(***************************************************************************)
(* How a flow's hash becomes a bucket of one memory zone.  The controller  *)
(* computes zone_base + (hash & mask) % zone_size (fermatDecode.h); the    *)
(* switch cannot divide, so its control plane turns zone_base, zone_size   *)
(* and mask into a table of ranges with an offset each                     *)
(* (Hierarchical_Fermat.cpp, adjust) that the data plane adds modulo 2^16. *)
(***************************************************************************)
EXTENDS Integers, FiniteSets

CONSTANT WordBits     \* 16: bits of an index, a mask and an offset

Word == 2^WordBits

ASSUME WordBitsAssumption ==
    /\ WordBits \in Nat /\ WordBits >= 4
    /\ Word \in Nat \ {0}        \* true of every power of two
Powers == {2^k : k \in 0..(WordBits - 1)}

(* calculate_mask: m, the highest power of two not above size, shifted     *)
(* left three times, then all the bits up to and including it.             *)
HighBit(size) == CHOOSE m \in Powers : m <= size /\ size < 2 * m
CalculateMask(size) == IF size = 0 THEN 0 ELSE 16 * HighBit(size) - 1

(* The code asserts this of every size it computes a mask for.             *)
MaskAssert(size) == size # 0 => HighBit(size) <= 2^(WordBits - 4)

(* adjust: entries k = 0..NumEntry-1 cover [k*size, (k+1)*size - 1], the   *)
(* last one cut at the mask.                                               *)
NumEntry(size, mask) == ((mask - (mask % size)) \div size) + 1

Offset(k, size, base) ==
    IF base >= k * size THEN base - k * size ELSE (Word - k * size) + base
RangeEntry(k, size, base, mask) ==
    [lo |-> k * size,
     hi |-> IF k = NumEntry(size, mask) - 1 THEN mask ELSE (k + 1) * size - 1,
     offset |-> Offset(k, size, base)]
RangeTable(size, base, mask) ==
    IF size = 0 THEN {}
    ELSE {RangeEntry(k, size, base, mask) : k \in 0..(NumEntry(size, mask) - 1)}

(* The data plane: the entry that matches adds its offset, none adds 0.    *)
Matches(table, i) == {e \in table : e.lo <= i /\ i <= e.hi}
MapIndex(table, i) ==
    IF Matches(table, i) = {} THEN i
    ELSE (i + (CHOOSE e \in Matches(table, i) : TRUE).offset) % Word

(* The controller: verify and add_flows recompute the bucket.              *)
DecodePos(i, size, base) == (i % size) + base
=============================================================================
