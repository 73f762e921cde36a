--------------------------- MODULE MCFermatDecode ---------------------------
(***************************************************************************)
(* Three rows of three buckets, four flows of which flow 2 is a heavy      *)
(* hitter, the prime 13 below 2^4 as the code's is below 2^32.  The hash   *)
(* functions are one with no collision, pairs that collide in one, two and *)
(* all rows, cores of two, three and four flows, and chains that come      *)
(* loose only in later passes.                                             *)
(***************************************************************************)
EXTENDS FermatDecode

MCIDs == {2, 3, 7, 12}

(* Positions of flows 2, 3, 7 and 12 in the three rows. *)
Placement(a, b, c) ==
    LET rank == [f \in MCIDs |-> CASE f = 2 -> 1 [] f = 3 -> 2 [] f = 7 -> 3 [] f = 12 -> 4]
        rows == <<a, b, c>>
    IN  [k \in Row |-> [f \in MCIDs |-> rows[k + 1][rank[f]]]]

MCHashes == {
    Placement(<<0, 1, 2, 2>>, <<1, 2, 0, 1>>, <<2, 0, 1, 0>>),
    Placement(<<0, 0, 1, 2>>, <<0, 0, 1, 1>>, <<0, 1, 1, 2>>),
    Placement(<<2, 2, 1, 0>>, <<2, 2, 1, 1>>, <<2, 2, 0, 1>>),
    Placement(<<0, 0, 1, 2>>, <<1, 2, 2, 0>>, <<0, 1, 1, 1>>),
    Placement(<<0, 0, 0, 1>>, <<1, 1, 1, 0>>, <<2, 2, 2, 2>>),
    Placement(<<0, 0, 1, 1>>, <<2, 1, 1, 2>>, <<0, 0, 2, 2>>),
    Placement(<<0, 0, 0, 0>>, <<0, 0, 1, 1>>, <<0, 1, 2, 2>>),
    Placement(<<2, 2, 1, 1>>, <<2, 1, 1, 2>>, <<1, 1, 1, 2>>),
    Placement(<<1, 0, 0, 1>>, <<2, 1, 0, 1>>, <<0, 2, 2, 2>>) }
=============================================================================
