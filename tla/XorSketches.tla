---------------------------- MODULE XorSketches ----------------------------
(***************************************************************************)
(* FlowRadar (flowradar.h) and LossRadar (lossradar.h): arrays whose cells *)
(* hold the XOR of the items that hash there and their number, and their   *)
(* common decoder, which takes out what cells with a count of 1 hold.      *)
(*                                                                         *)
(* FlowRadar's items are flows, with a count of packets, and a Bloom       *)
(* filter tells a flow's first packet.  LossRadar's are packets: a flow    *)
(* and a sequence number.  An XOR is the set of items it was made of: an   *)
(* item put in twice cancels itself.                                       *)
(***************************************************************************)
EXTENDS Integers, SequencesExt

CONSTANTS C, hash_len      \* rows, and cells of a row (array_len / C)

ASSUME XorAssumption == C \in Nat \ {0} /\ hash_len \in Nat \ {0}

Cell == 0..(C * hash_len - 1)
EmptyArray == [p \in Cell |-> [xor |-> {}, count |-> 0, packets |-> 0]]

(* hashes[j] of item x picks a cell of row j.                              *)
Positions(hashes, x) == {hashes[j][x] + j * hash_len : j \in 0..(C - 1)}

(* Item x put in with d = 1, taken out with d = -1.  packet_count is       *)
(* unsigned and read as int: a negative number here.                       *)
Toggle(a, P, x, d, packets) ==
    [p \in Cell |->
        IF p \notin P THEN a[p]
        ELSE [xor |-> SymDiff(a[p].xor, {x}), count |-> a[p].count + d,
              packets |-> a[p].packets + d * packets]]

AddPackets(a, P, packets) ==
    [p \in Cell |-> IF p \in P THEN [a[p] EXCEPT !.packets = @ + packets] ELSE a[p]]
-----------------------------------------------------------------------------
(* FlowFilter: all bits of the flow are set.                               *)
Query(filter, bits) == bits \subseteq filter

(* FlowRadar::Insert of all packets of a flow: the filter knows the flow   *)
(* from the second on, or takes it for known from the start.               *)
InsertFlow(radar, P, f, bits, packets) ==
    IF packets = 0 THEN radar
    ELSE IF Query(radar.filter, bits)
    THEN [radar EXCEPT !.cells = AddPackets(@, P, packets)]
    ELSE [filter |-> radar.filter \cup bits,
          cells |-> Toggle(radar.cells, P, f, 1, packets)]

(* LossRadar::Insert_range_data: count packets of a flow, each toggled     *)
(* once, so that the XOR takes all of those that hash to a cell together.  *)
InsertRange(a, hashes, id, count) ==
    LET new(p) == {x \in {id} \X (0..(count - 1)) : p \in Positions(hashes, x)}
    IN  [p \in Cell |->
            [xor |-> SymDiff(a[p].xor, new(p)), count |-> a[p].count + Cardinality(new(p)),
             packets |-> a[p].packets + Cardinality(new(p))]]
-----------------------------------------------------------------------------
(* The decoder: cells, the queue, and the result.                          *)

(* Mutant of Pure: any cell that is not empty. *)
PureNonzero(d, p) == d.cells[p].count > 0

Pure(d, p) == d.cells[p].count = 1

(* The item of a cell with a count of 1.                                   *)
Only(d, p) == CHOOSE x \in d.cells[p].xor : TRUE

(* The result is a map from flows to packets: assigned by FlowRadar,       *)
(* counted up by LossRadar.                                                *)
Assign(result, f, packets) ==
    [g \in {f} \cup DOMAIN result |-> IF g = f THEN packets ELSE result[g]]
CountUp(result, f) == Assign(result, f, IF f \in DOMAIN result THEN result[f] + 1 ELSE 1)

(* A set of cells in the order of the rows they are in.                    *)
InOrder(S) ==
    CHOOSE s \in [1..Cardinality(S) -> S] :
        Range(s) = S /\ \A i, j \in DOMAIN s : i < j => s[i] < s[j]

(* The item of cell p taken out of its cells; those of them in watched     *)
(* that have a count of 1 now are looked at again.                         *)
TakeOut(d, p, hashes, watched, result) ==
    LET x == Only(d, p)
        P == Positions(hashes, x)
        after == Toggle(d.cells, P, x, -1, d.cells[p].packets)
    IN  [cells |-> after,
         candidate |-> d.candidate \o InOrder({q \in P \cap watched : after[q].count = 1}),
         result |-> result]

(* The verdict looks at the counts only.                                   *)
Success(d) == \A p \in Cell : d.cells[p].count = 0
=============================================================================
