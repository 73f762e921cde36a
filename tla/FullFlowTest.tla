---------------------------- MODULE FullFlowTest ----------------------------
(***************************************************************************)
(* One TestFullFlow of full_flow_test.h: every flow of the data is counted *)
(* by FlowRadar 1 with the packets sent, by FlowRadar 2 with those that    *)
(* arrived, and by LossRadar with those lost.  Then the radars are decoded *)
(* one after the other and the differences compared with the truth.        *)
(*                                                                         *)
(* Radar 3 is LossRadar; the test fills it, and has the call of its        *)
(* decoder commented out.  Both FlowRadars hash alike.                     *)
(***************************************************************************)
EXTENDS XorSketches, GenerateFlows

CONSTANTS
    Flow, MaxSize, \* bounds: flows 1..n of the trace, and packets of one
    FlowHashes, PacketHashes, FilterHashes,   \* functions considered
    Garbage        \* what a new bitmap may hold: BitMap does not clear it

ASSUME FullFlowAssumption ==
    /\ IsFiniteSet(Flow) /\ Flow = 1..Cardinality(Flow) /\ MaxSize \in Nat
    /\ FlowHashes \subseteq [0..(C - 1) -> [Flow -> 0..(hash_len - 1)]]
    /\ PacketHashes \subseteq
           [0..(C - 1) -> [Flow \X (0..(MaxSize - 1)) -> 0..(hash_len - 1)]]

VARIABLES
    data,
    hashes,        \* of the FlowRadars, of LossRadar, of the filters
    todo,          \* flows of flow_set not yet inserted
    radar,         \* 1, 2: [filter, cells]; 3: [filter, cells], no filter
    mistaken,      \* history: <<r, f>> taken for known by r's filter at first
    r, phase, at,  \* the radar being decoded, and how far
    dec,           \* per radar: [cells, candidate, result]
    verdict        \* per radar: what its decoder returned

setting == <<data, hashes>>
vars == <<setting, todo, radar, mistaken, r, phase, at, dec, verdict>>

Radar == 1..3
sent == data.flow_set
dropped == [f \in DOMAIN sent |->
               IF f \in DOMAIN data.dropped_set THEN data.dropped_set[f] ELSE 0]

(* Packets of a flow that reach FlowRadar k.                               *)
Count(k, f) == IF k = 1 THEN sent[f] ELSE sent[f] - dropped[f]

(* What test_flow_mem.cc, test_perc_mem.cc and test_dropf_mem.cc load, with *)
(* their arguments.                                                        *)
DataSets(trace) ==
    {LoadDataFlow(trace, flow_cnt) : flow_cnt \in Flow}
    \cup {LoadDataPerc(trace, perc) : perc \in {0, 50, 100}}
    \cup {LoadDataDrop(trace, drop, s) : drop \in Flow, s \in 0..3}

Init ==
    /\ \E trace \in LoadCAIDA18_32(Cardinality(Flow), 1..MaxSize) : data \in DataSets(trace)
    /\ hashes \in [flow : FlowHashes, packet : PacketHashes, filter : FilterHashes]
    /\ todo = DOMAIN data.flow_set
    /\ radar \in {<<[filter |-> g, cells |-> EmptyArray], [filter |-> h, cells |-> EmptyArray],
                    [filter |-> {}, cells |-> EmptyArray]>> : g, h \in Garbage}
    /\ mistaken = {}
    /\ r = 1 /\ phase = "insert" /\ at = 0
    /\ dec = [k \in Radar |-> [cells |-> EmptyArray, candidate |-> <<>>, result |-> <<>>]]
    /\ verdict = [k \in Radar |-> FALSE]

(* One round of insert_flow, in the unspecified order of the map.          *)
Insert(f) ==
    /\ phase = "insert" /\ f \in todo
    /\ todo' = todo \ {f}
    /\ radar' = [k \in Radar |->
           IF k = 3 THEN [radar[3] EXCEPT !.cells = InsertRange(@, hashes.packet, f, dropped[f])]
           ELSE InsertFlow(radar[k], Positions(hashes.flow, f), f, hashes.filter[f], Count(k, f))]
    /\ mistaken' = mistaken \cup
           {<<k, f>> : k \in {k \in 1..2 : /\ Count(k, f) > 0
                                         /\ Query(radar[k].filter, hashes.filter[f])}}
    /\ UNCHANGED <<setting, r, phase, at, dec, verdict>>

BeginDecode ==
    /\ phase = "insert" /\ todo = {}
    /\ phase' = "scan"
    /\ dec' = [k \in Radar |-> [dec[k] EXCEPT !.cells = radar[k].cells]]
    /\ UNCHANGED <<setting, todo, radar, mistaken, r, at, verdict>>

(* "find pure bucket" *)
PureFound(p, watched, d) ==
    LET x == Only(d, p)
    IN  IF r = 3
        THEN TakeOut(d, p, hashes.packet, watched, CountUp(d.result, x[1]))
        ELSE TakeOut(d, p, hashes.flow, watched, Assign(d.result, x, d.cells[p].packets))

LookAt(p, watched, d) == IF Pure(d, p) THEN PureFound(p, watched, d) ELSE d

(* Mutant of ScanCell: the first round does not go back to earlier cells. *)
ScanCellOnly ==
    /\ phase = "scan" /\ at \in Cell
    /\ dec' = [dec EXCEPT ![r] = LookAt(at, {}, @)]
    /\ at' = at + 1
    /\ UNCHANGED <<setting, todo, radar, mistaken, r, phase, verdict>>

(* The first round: later cells are looked at anyway.                      *)
ScanCell ==
    /\ phase = "scan" /\ at \in Cell
    /\ dec' = [dec EXCEPT ![r] = LookAt(at, 0..(at - 1), @)]
    /\ at' = at + 1
    /\ UNCHANGED <<setting, todo, radar, mistaken, r, phase, verdict>>

DrainCandidate ==
    /\ phase = "scan" /\ at \notin Cell
    /\ dec[r].candidate # <<>>
    /\ dec' = [dec EXCEPT ![r] =
           LookAt(Head(dec[r].candidate), Cell, [dec[r] EXCEPT !.candidate = Tail(@)])]
    /\ UNCHANGED <<setting, todo, radar, mistaken, r, phase, at, verdict>>

Return ==
    /\ phase = "scan" /\ at \notin Cell
    /\ dec[r].candidate = <<>>
    /\ verdict' = [verdict EXCEPT ![r] = Success(dec[r])]
    /\ IF r = 3 THEN phase' = "done" /\ UNCHANGED <<r, at>>
       ELSE r' = r + 1 /\ at' = 0 /\ UNCHANGED phase
    /\ UNCHANGED <<setting, todo, radar, mistaken, dec>>

Decode == ScanCell \/ DrainCandidate \/ Return

Next ==
    \/ \E f \in todo : Insert(f)
    \/ BeginDecode
    \/ Decode

Spec == Init /\ [][Next]_vars
-----------------------------------------------------------------------------
(* operator[] of a flow that is not there gives 0.                         *)
Of(result, f) == IF f \in DOMAIN result THEN result[f] ELSE 0

(* Mutant of Credited: what did not arrive at all is not looked for. *)
CreditedDifference(f) ==
    /\ f \in DOMAIN dec[1].result
    /\ f \in DOMAIN dec[2].result
    /\ dec[1].result[f] - dec[2].result[f] = data.dropped_set[f]

(* The comparison of decode, and the one it has commented out.             *)
Credited(f) ==
    \/ f \notin DOMAIN dec[2].result /\ Of(dec[1].result, f) = data.dropped_set[f]
    \/ Of(dec[1].result, f) - Of(dec[2].result, f) = data.dropped_set[f]

CreditedByLossRadar(f) == Of(dec[3].result, f) = data.dropped_set[f]
-----------------------------------------------------------------------------
Ended == phase = "done"

(* What was put into radar k, and where it is.                             *)
Items(k) ==
    IF k = 3 THEN UNION {{f} \X (0..(dropped[f] - 1)) : f \in DOMAIN sent \ todo}
    ELSE {f \in DOMAIN sent \ todo : Count(k, f) > 0}
PlacesOf(k, i) == Positions(IF k = 3 THEN hashes.packet ELSE hashes.flow, i)
Misled(k) == \E f \in DOMAIN sent : <<k, f>> \in mistaken

AllItems(k) == IF k = 3 THEN Flow \X (0..(MaxSize - 1)) ELSE Flow
LeftIn(k) ==
    LET cells == IF phase = "insert" THEN radar[k].cells ELSE dec[k].cells
    IN  {i \in Items(k) : \A p \in PlacesOf(k, i) : i \in cells[p].xor}

Abstract(k) ==
    INSTANCE Peeling WITH Item <- AllItems(k), Bucket <- Cell,
        place <- [i \in AllItems(k) |-> PlacesOf(k, i)],
        put <- Items(k), left <- LeftIn(k),
        closed <- phase # "insert", sound <- ~Misled(k)
Core(k) == Abstract(k)!Core(Items(k))

(* What a decoder returns although it goes back to earlier cells only and  *)
(* queues nothing else in its first round: all items outside the core,     *)
(* with their packets, and success exactly when there is no core.          *)
FoundIsTrue ==
    Ended => \A k \in Radar : Misled(k) \/
        /\ dec[k].result =
             IF k = 3
             THEN LET found == Items(3) \ Core(3)
                  IN  [f \in {i[1] : i \in found} |-> Cardinality({i \in found : i[1] = f})]
             ELSE [f \in Items(k) \ Core(k) |-> Count(k, f)]
        /\ verdict[k] <=> Core(k) = {}

(* Unless a filter was mistaken, the difference of the FlowRadars gives    *)
(* the loss of exactly those flows that are outside the core of all flows  *)
(* sent: what was lost completely counts as found although FlowRadar 2     *)
(* does not hold it, and an entangled flow is not credited by accident.    *)
(* LossRadar has less to disentangle.  A dropped flow that was never sent  *)
(* is never found; load_data_flow drops one when it is asked for fewer     *)
(* flows than it drops packets of, and only then.                          *)
LossesCredited ==
    Ended /\ mistaken = {} =>
        /\ \A f \in DOMAIN data.dropped_set : Credited(f) <=> f \in DOMAIN sent \ Core(1)
        /\ \A f \in DOMAIN data.dropped_set \cap DOMAIN sent :
               Core(3) = {} => CreditedByLossRadar(f)
        /\ Cardinality(DOMAIN sent) >= total_sam => DOMAIN data.dropped_set \subseteq DOMAIN sent
=============================================================================
