--------------------------- MODULE GenerateFlows ---------------------------
(***************************************************************************)
(* struct CDF_flows of generate_flows.h: which flows of a packet trace an  *)
(* experiment on packet loss sends, and how many packets of each it drops. *)
(*                                                                         *)
(* loadCAIDA18_32 sorts the sizes downwards into the map it iterates over, *)
(* so the flows are numbered in that order and data is a sequence of       *)
(* sizes.  A set of flows is a function from flows to numbers of packets.  *)
(***************************************************************************)
EXTENDS Integers, Sequences, FiniteSets

CONSTANTS
    total,         \* flows looked at: 10000
    total_sam,     \* flows to drop packets of: 100
    Window,        \* the 1000 of load_data_flow
    Big            \* what a flow needs to be dropped from: 10 or 100 packets

ASSUME GenerateAssumption ==
    /\ total \in Nat \ {0} /\ total_sam \in Nat /\ Window \in Nat \ {0}
    /\ Big \in Nat /\ Big > 1

(* The result of loadCAIDA18_32 for some trace of n flows of these sizes. *)
LoadCAIDA18_32(n, sizes) ==
    {data \in [1..n -> sizes] : \A i \in 1..(n - 1) : data[i] >= data[i + 1]}

SmallerOf(a, b) == IF a < b THEN a ELSE b

(* A loop that ends when cnt, counted after the body, reaches n.           *)
Through(data, n) == 1..SmallerOf(Len(data), IF n < 1 THEN 1 ELSE n)

FirstOf(S, n) == {i \in S : Cardinality({j \in S : j < i}) < n}

(* Both loops: n flows among candidates first, then, while these are too   *)
(* few, any of fallback.                                                   *)
Sampled(candidates, fallback, n) ==
    LET first == FirstOf(candidates, n)
    IN  first \cup FirstOf(fallback \ first, n - Cardinality(first))

BigOnes(data, S) == {i \in S : data[i] >= Big}

(* ceil of a share of num / den, and floor.                                *)
CeilOf(size, num, den) == (size * num + den - 1) \div den
FloorOf(size, num, den) == (size * num) \div den

Flows(data, sent) == [i \in sent |-> data[i]]
Dropped(data, sampled, num, den) ==
    [i \in {i \in sampled : CeilOf(data[i], num, den) # 0} |-> CeilOf(data[i], num, den)]

(* The second loop goes through the first flows of data, sent or not.      *)
LoadDataFlow(data, flow_cnt) ==
    LET sent == Through(data, flow_cnt)
    IN  [flow_set |-> Flows(data, sent),
         dropped_set |-> Dropped(data,
             Sampled(BigOnes(data, sent) \cap 1..Window, Through(data, Window), total_sam),
             1, 100)]

LoadDataPerc(data, perc) ==
    LET sent == Through(data, total)
    IN  [flow_set |-> Flows(data, sent),
         dropped_set |-> Dropped(data, Sampled(BigOnes(data, sent), sent, total_sam), perc, 100)]

(* The first loop ends when enough are dropped.                            *)
LoadDataCnt(data, flow_cnt) ==
    LET first == FirstOf(BigOnes(data, DOMAIN data \cap 1..flow_cnt), flow_cnt)
        sent == IF Cardinality(first) < flow_cnt THEN DOMAIN data
                ELSE {i \in DOMAIN data : i = 1 \/ \E k \in first : k >= i}
    IN  [flow_set |-> Flows(data, sent),
         dropped_set |-> Dropped(data, Sampled(first, Through(data, flow_cnt), flow_cnt), 1, 10)]

(* The four settings drop 1, 10, 50 and 75 percent; the last rounds down   *)
(* where its first loop does the dropping, of a big flow never to 0.       *)
LoadDataDrop(data, drop, setting) ==
    LET sent == Through(data, total)
        percent == <<1, 10, 50, 75>>[setting + 1]
        first == FirstOf(BigOnes(data, sent), drop)
        loss == Dropped(data, Sampled(first, sent, drop), percent, 100)
    IN  [flow_set |-> Flows(data, sent),
         dropped_set |->
             [i \in DOMAIN loss |-> IF setting = 3 /\ i \in first
                                    THEN FloorOf(data[i], percent, 100) ELSE loss[i]]]
=============================================================================
