---------------------------- MODULE FermatSketch ----------------------------
(***************************************************************************)
(* The Fermat sketch: rows of buckets, each the number of packets that     *)
(* hashed to it and the sum of their flow IDs modulo a prime.  How the     *)
(* data plane counts a packet (Hierarchical_Fermat.p4), how the controller *)
(* adds and subtracts sketches, and what it reads in a bucket that may     *)
(* hold one flow only (fermatDecode.h).                                    *)
(*                                                                         *)
(* A flow is one residue: the four words of its 5-tuple and fingerprint    *)
(* are summed side by side, and combine and extract only rearrange their   *)
(* bits.  IDs are the residues whose fingerprint is that of the rest.      *)
(* Columns are counted from the zone's base_offset.                        *)
(***************************************************************************)
EXTENDS Integers, Sequences, FiniteSets

CONSTANTS
    Rows,          \* array_num, 3
    Width,         \* sketchWidth: buckets of the zone in a row
    PRIME,         \* 2^32 - 5
    CounterSize,   \* 2^32
    IDs            \* the words of possible flows

ASSUME SketchAssumption ==
    /\ Rows \in Nat \ {0} /\ Width \in Nat \ {0}
    /\ PRIME \in Nat /\ PRIME > 1
    /\ CounterSize \in Nat /\ CounterSize > PRIME /\ CounterSize < 2 * PRIME
    /\ IDs \subseteq 1..(PRIME - 1)

Row == 0..(Rows - 1)
Col == 0..(Width - 1)
Bucket == [ID : 0..(PRIME - 1), counter : 0..(CounterSize - 1)]
Sketch == [Row -> [Col -> Bucket]]

(* poly and mask select a hash function per row. *)
HashFunctions == [Row -> [IDs -> Col]]

EmptyBucket == [ID |-> 0, counter |-> 0]
EmptySketch == [k \in Row |-> [c \in Col |-> EmptyBucket]]
-----------------------------------------------------------------------------
(* The stateful ALU has no remainder: it compares with the distance to the *)
(* prime, meta.dif, and subtracts that instead of adding.                  *)
IDAdd(register_data, id) ==
    LET dif == PRIME - id
    IN  IF register_data < dif THEN register_data + id ELSE register_data - dif

CountPacket(x, h, f) ==
    [k \in Row |->
        [x[k] EXCEPT ![h[k][f]] =
            [ID |-> IDAdd(@.ID, f), counter |-> (@.counter + 1) % CounterSize]]]

(* fermat_add and sub go through the two sketches bucket by bucket.        *)
FermatAdd(a, b) ==
    [k \in Row |-> [c \in Col |->
        [ID |-> (a[k][c].ID + b[k][c].ID) % PRIME,
         counter |-> (a[k][c].counter + b[k][c].counter) % CounterSize]]]

Minus(a, b) ==
    [ID |-> (a.ID + PRIME - b.ID) % PRIME,
     counter |-> (a.counter - b.counter) % CounterSize]

SketchSub(a, b) == [k \in Row |-> [c \in Col |-> Minus(a[k][c], b[k][c])]]

(* One decoded flow put back into a sketch; the counter is unsigned here.  *)
AddFlow(a, h, flow) ==
    [k \in Row |->
        [a[k] EXCEPT ![h[k][flow.id]] =
            [ID |-> (@.ID + ((flow.id * flow.counter) % PRIME)) % PRIME,
             counter |-> (@.counter + flow.counter) % CounterSize]]]
-----------------------------------------------------------------------------
Negative(counter) == 2 * counter >= CounterSize
Signed(counter) == IF Negative(counter) THEN counter - CounterSize ELSE counter
Magnitude(counter) == IF Negative(counter) THEN CounterSize - counter ELSE counter

PowMod(a, e) ==
    LET pow[i \in 0..e] == IF i = 0 THEN 1 ELSE (a * pow[i - 1]) % PRIME
    IN  pow[e]

(* By Fermat's little theorem: the inverse of a is a^(PRIME - 2).          *)
InverseOf(a) == PowMod(a, PRIME - 2)

ASSUME PrimeAssumption == \A a \in 1..(PRIME - 1) : (a * InverseOf(a)) % PRIME = 1

(* Mutant of SoleID: forgets that a negative counter has its ID negated. *)
SoleIDUnsigned(b) == (b.ID * InverseOf(Magnitude(b.counter))) % PRIME

(* The ID the bucket holds if it holds one flow only.                      *)
SoleID(b) ==
    ((IF Negative(b.counter) THEN PRIME - b.ID ELSE b.ID)
        * InverseOf(Magnitude(b.counter))) % PRIME

(* The two tests of verify: the position and the fingerprint.              *)
Verifies(h, r, c, b) ==
    /\ SoleID(b) \in IDs
    /\ h[r][SoleID(b)] = c
=============================================================================
