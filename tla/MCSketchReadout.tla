-------------------------- MODULE MCSketchReadout --------------------------
(* Two chains per sketch, two packets per chain.                           *)
EXTENDS SketchReadout

MCPieces == [k \in Kinds |-> 2]
MCCarry == [k \in Kinds |-> CASE k = "clean_1" -> 3 [] k = "clean_2" -> 1 [] k = "fermat" -> 2]
=============================================================================
