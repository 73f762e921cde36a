----------------------- MODULE MCAttentionController -----------------------
(***************************************************************************)
(* AttentionController on a sketch 256 times smaller than the testbed's,   *)
(* with the testbed's load factors and proportions.                        *)
(***************************************************************************)
EXTENDS AttentionController

\* 1, 2, 4 and 7 packets, read from a file whose first line the second supersedes
MCDist == << [thresh |-> 1, portion |-> 4], [thresh |-> 2, portion |-> 7],
             [thresh |-> 4, portion |-> 9], [thresh |-> 7, portion |-> 10] >>

ASSUME MCDistIsRead ==
    MCDist = ReadDist(<< <<700, 2>>, <<1500, 4>>, <<3000, 7>>, <<6000, 9>>, <<10500, 10>> >>)

\* counts of the sampled small-loss flows: none, few, enough to fill the
\* small-loss zone with one above every threshold
MCSmallCounts == { <<>>, <<1, 3>>, <<1, 2, 4, 9>> }
=============================================================================
