----------------------------- MODULE MCLossTests -----------------------------
(***************************************************************************)
(* Four flows in the test of the radars, two rows of three cells.  The     *)
(* placements are a chain that comes loose from both ends, a core of two   *)
(* flows beside others, a core of three, and one where the last flow alone *)
(* is found.  The filters tell all flows apart, or flow 3 from the first   *)
(* two together only.                                                      *)
(*                                                                         *)
(* Four flows in the Fermat sketches, three rows of three buckets, the     *)
(* prime 13: there is no core, one of two flows, one of all, and a chain   *)
(* that only the last row loosens, so that the rows before it have to be   *)
(* looked at again; the other residues, for which a mixed bucket may be    *)
(* taken, are spread at random.                                            *)
(***************************************************************************)
EXTENDS LossTests

Rows2(a, b) == [j \in 0..1 |-> IF j = 0 THEN a ELSE b]

MCFlowHashes == {
    Rows2(<<0, 0, 1, 1>>, <<0, 1, 1, 2>>),
    Rows2(<<0, 0, 1, 1>>, <<2, 2, 1, 0>>),
    Rows2(<<1, 1, 1, 0>>, <<2, 2, 2, 2>>),
    Rows2(<<2, 1, 1, 0>>, <<1, 1, 0, 0>>) }

MCPacketHashes == {
    [j \in 0..1 |-> [p \in Flow \X (0..(MaxSize - 1)) |->
        IF j = 0 THEN (p[1] + k * p[2]) % 3 ELSE (p[1] \div 2 + p[2]) % 3]] : k \in 0..1 }

MCFilterHashes == {<<{0}, {1}, {2}, {3}>>, <<{0, 1}, {1, 2}, {0, 2}, {3}>>}
MCGarbage == {{}, {1}}

Residue == 0..(PRIME - 1)
Spread(a, b, c) == [k \in 0..2 |-> [f \in Residue |-> <<a, b, c>>[k + 1][f + 1]]]

MCFlowID == <<2, 3, 5, 1>>
MCHashes == {
    Spread(<<0,0,0,0,1,1,2,1,2,0,1,2,1>>, <<1,0,1,1,2,2,0,2,0,1,2,1,0>>,
           <<2,2,0,2,1,2,0,1,0,2,0,1,1>>),
    Spread(<<0,0,0,0,1,0,2,1,2,0,1,2,1>>, <<1,0,1,1,2,1,0,2,0,1,2,1,0>>,
           <<2,2,1,1,1,2,0,1,0,2,0,1,1>>),
    Spread(<<0,1,1,1,0,0,2,1,2,0,1,2,1>>, <<1,0,2,2,2,2,0,2,0,1,2,1,0>>,
           <<2,2,0,0,1,1,0,1,0,2,0,1,1>>),
    Spread(<<0,0,1,1,1,0,2,1,2,0,1,2,1>>, <<1,0,0,1,2,1,0,2,0,1,2,1,0>>,
           <<2,1,1,1,2,0,0,1,0,2,0,1,1>>) }
MCFings == {[f \in Residue |-> (f * k) % PRIME] : k \in {1, 5}}
=============================================================================
