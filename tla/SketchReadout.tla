--------------------------- MODULE SketchReadout ---------------------------
(***************************************************************************)
(* How one switch reads a half of its three sketches out to the central    *)
(* controller.  The control plane sends Chains packets per sketch, each    *)
(* with the first index of its share (Hierarchical_Fermat.cpp).  In the    *)
(* data plane such a packet recirculates; every pass puts the value at its *)
(* index in front of the values it already carries, until a table entry    *)
(* (tableinit.py) says to output it and to go on with a fresh mirror copy, *)
(* or to stop (Hierarchical_Fermat.p4).  The controller writes the values  *)
(* back from the packet's index downwards, as many as a packet should      *)
(* carry, and takes the packet with the greatest index for the last        *)
(* (main.c).                                                               *)
(*                                                                         *)
(* The recirculation port and the output port are FIFO queues.             *)
(***************************************************************************)
EXTENDS Integers, Sequences, SequencesExt, FiniteSets, Functions

CONSTANTS
    Chains,        \* 8: packets the control plane sends per sketch
    Pieces,        \* Pieces[k]: output packets per chain: 4, 4 and 32
    Carry,         \* Carry[k]: values in an output packet: 1024, 512 and 16
    MaxRounds,     \* bound: how often the switch flips
    MaxWire        \* bound: packets under way to the controller

Filters == {"clean_1", "clean_2"}
Kinds == Filters \cup {"fermat"}

ASSUME ReadoutAssumption ==
    /\ Chains \in Nat \ {0} /\ MaxRounds \in Nat /\ MaxWire \in Nat \ {0}
    /\ Pieces \in [Kinds -> Nat \ {0}] /\ Carry \in [Kinds -> Nat \ {0}]
    /\ Carry["clean_1"] > 2     \* its first table's entries are 2 too far

Blocks(k) == Chains * Pieces[k]            \* 32, 32, 256
Size(k) == Blocks(k) * Carry[k]            \* 32768, 16384, 4096: a half
EgressSize == (Size("fermat") * 3) \div 4  \* 3072

VARIABLES
    round,     \* how often the switch flipped; flag = round % 2
    tosend,    \* packets the control plane has yet to send
    loop,      \* packets in the recirculation queue
    wire,      \* packets on the way from the output port to the controller
    full,      \* full[k]: the indices of filter k not cleaned since last counted in
    counter,   \* counter[k][i]: what the controller holds, at ingress for fermat
    egress,    \* egress[i]: what it holds of the egress sketch
    avail,     \* the sketches whose availability flag is set
    underrun   \* the controller has written below index 0, or died of assert(i >= 0)

switchVars == <<round, tosend, loop, full>>
ctrlVars == <<counter, egress, avail, underrun>>
vars == <<switchVars, wire, ctrlVars>>

(* Values: what index i held when round r read it, a cleaned filter        *)
(* counter, and bytes that follow the values in a packet.                  *)
Val(r, i) == <<r, i>>
Cleaned == <<0, 0>>
Trailer == <<-1, -1>>

(* The half read in round r, as the index where it begins.  With the flag  *)
(* just set to 1 it is the first.                                          *)
HalfBase(k, r) == IF r % 2 = 1 THEN 0 ELSE Size(k)
Half(k, r) == HalfBase(k, r)..(HalfBase(k, r) + Size(k) - 1)

(* The control plane's packets: chain c starts at c * num / 8.             *)
Starts(k, r) == [c \in 1..Chains |->
    [kind |-> k, index |-> HalfBase(k, r) + ((c - 1) * Size(k)) \div Chains,
     values |-> <<>>, end |-> FALSE]]

Init ==
    /\ round = 0
    /\ tosend = <<>> /\ loop = <<>> /\ wire = <<>>
    /\ full = [k \in Filters |-> {}]
    /\ counter = [k \in Kinds |-> [i \in 0..(Size(k) - 1) |-> Cleaned]]
    /\ egress = [i \in 0..(EgressSize - 1) |-> Cleaned]
    /\ avail = {}
    /\ underrun = FALSE
-----------------------------------------------------------------------------
(* The tables of tableinit.py.  A block of Carry indices ends where its    *)
(* packet is output, a chain with the last of its blocks.  The entries of  *)
(* filter 1 for the first half say (i+1)*1024+1, all others -1.            *)
BlockEnd(k, i) == (i + 1) * Carry[k] - 1

ChainEnds(k) == {i \in 0..(Blocks(k) - 1) : i % Pieces[k] = Pieces[k] - 1}
Inner(k) == (0..(Blocks(k) - 1)) \ ChainEnds(k)

StopAt(k) == {BlockEnd(k, i) + h : i \in ChainEnds(k), h \in {0, Size(k)}}

(* Mutant of MirrorAt: one value too few in every packet but the last. *)
MirrorAtEarly(k) == {BlockEnd(k, i) - 1 + h : i \in Inner(k), h \in {0, Size(k)}}

MirrorAt(k) ==
    {BlockEnd(k, i) + (IF k = "clean_1" THEN 2 ELSE 0) : i \in Inner(k)}
       \cup {BlockEnd(k, i) + Size(k) : i \in Inner(k)}
-----------------------------------------------------------------------------
(* The main loop flips the bit; the other half, which was counted in until *)
(* now, is read.  The previous readout has been processed by then.         *)
Flip ==
    LET r == round + 1
    IN  /\ round < MaxRounds
        /\ round # 0 => avail = Kinds
        /\ round' = r
        /\ full' = [k \in Filters |-> full[k] \cup Half(k, r)]
        /\ tosend' = Starts("clean_1", r) \o Starts("clean_2", r) \o Starts("fermat", r)
        /\ avail' = {}
        /\ UNCHANGED <<loop, wire, counter, egress, underrun>>

(* The control plane's packets come in over the CPU port while others      *)
(* recirculate.                                                            *)
Inject ==
    /\ tosend # <<>>
    /\ Len(wire) < MaxWire
    /\ loop' = Append(loop, Head(tosend))
    /\ tosend' = Tail(tosend)
    /\ UNCHANGED <<round, full, wire, ctrlVars>>

(* The egress rows have 3 buckets for 4 at ingress: index_dec.             *)
EgressIndex(i) == IF i >= Size("fermat") THEN i - (Size("fermat") - EgressSize) ELSE i

(* Mutant of ReadValues: egress values of every index. *)
ReadValuesAll(k, i) ==
    IF k \in Filters THEN << IF i \in full[k] THEN Val(round, i) ELSE Cleaned >>
    ELSE << Val(round, EgressIndex(i)), Val(round, i) >>

(* What a pass puts in front.  A fermat packet goes through ingress and    *)
(* egress; the last quarter of its indices has no egress bucket.           *)
ReadValues(k, i) ==
    IF k \in Filters THEN << IF i \in full[k] THEN Val(round, i) ELSE Cleaned >>
    ELSE IF i % Size(k) < EgressSize THEN << Val(round, EgressIndex(i)), Val(round, i) >>
    ELSE << Val(round, i) >>

(* Mutant of Cleaning: filter 2 is not cleaned. *)
CleaningFirst(k, i) == IF k = "clean_1" THEN [full EXCEPT ![k] = @ \ {i}] ELSE full

(* Reading a filter counter sets it to 0; Fermat buckets are kept.         *)
Cleaning(k, i) == IF k \in Filters THEN [full EXCEPT ![k] = @ \ {i}] ELSE full

(* A filter packet: one pass through the ingress pipeline.                 *)
CleanPass ==
    LET p == Head(loop)
        k == p.kind
        read == [p EXCEPT !.values = ReadValues(k, p.index) \o @]
        on == [p EXCEPT !.index = @ + 1]
    IN  /\ k \in Filters
        /\ full' = Cleaning(k, p.index)
        /\ \/ /\ p.index \in StopAt(k)
              /\ loop' = Tail(loop)
              /\ wire' = Append(wire, read)
           \/ /\ p.index \in MirrorAt(k)
              /\ loop' = Append(Tail(loop), [on EXCEPT !.values = <<>>])
              /\ wire' = Append(wire, read)
           \/ /\ p.index \notin StopAt(k) \cup MirrorAt(k)
              /\ loop' = Append(Tail(loop), [read EXCEPT !.index = @ + 1])
              /\ UNCHANGED wire

(* A fermat packet: ingress and egress pipelines.  A finished one passes   *)
(* once more, with ether type FERMAT_END, to be output; the mirror copy,   *)
(* made at the end of egress, comes after it.                              *)
FermatPass ==
    LET p == Head(loop)
        k == p.kind
        read == [p EXCEPT !.values = ReadValues(k, p.index) \o @]
        done == [read EXCEPT !.end = TRUE]
        on == [p EXCEPT !.index = @ + 1, !.values = <<>>]
    IN  /\ k = "fermat" /\ ~p.end
        /\ \/ p.index \in StopAt(k) /\ loop' = Append(Tail(loop), done)
           \/ /\ p.index \in MirrorAt(k)
              /\ loop' = Tail(loop) \o <<done, on>>
           \/ /\ p.index \notin StopAt(k) \cup MirrorAt(k)
              /\ loop' = Append(Tail(loop), [read EXCEPT !.index = @ + 1])
        /\ UNCHANGED <<wire, full>>

FermatEnd ==
    /\ Head(loop).end
    /\ loop' = Tail(loop)
    /\ wire' = Append(wire, Head(loop))
    /\ UNCHANGED full

Recirculate ==
    /\ loop # <<>>
    /\ Len(wire) < MaxWire
    /\ CleanPass \/ FermatPass \/ FermatEnd
    /\ UNCHANGED <<round, tosend, ctrlVars>>
-----------------------------------------------------------------------------
(* The n-th value of a packet, from 1.                                     *)
Nth(p, n) == IF n <= Len(p.values) THEN p.values[n] ELSE Trailer

(* The indices a packet is written to.                                     *)
Written(k, top) == {i \in 0..(Size(k) - 1) : top - Carry[k] < i /\ i <= top}

(* Where in the packet the entry of index i begins: one value per index,   *)
(* two (egress, then ingress) where there is an egress bucket.             *)
Place(k, top, i) ==
    1 + (top - i) + (IF k = "fermat"
                     THEN Cardinality({j \in (i + 1)..top : j < EgressSize}) ELSE 0)
HasEgress(k, i) == k = "fermat" /\ i < EgressSize

(* Mutant of LastIndex: one too far. *)
LastIndexPast(k) == Size(k)

(* The index of the packet that makes a sketch available.                  *)
LastIndex(k) == Size(k) - 1

(* lcore_main, one packet.                                                 *)
Deliver ==
    LET p == Head(wire)
        k == p.kind
        top == p.index % Size(k)
        w == Written(k, top)
    IN  /\ wire # <<>>
        /\ wire' = Tail(wire)
        /\ counter' = [counter EXCEPT ![k] = [i \in DOMAIN counter[k] |->
              IF i \notin w THEN counter[k][i]
              ELSE Nth(p, Place(k, top, i) + (IF HasEgress(k, i) THEN 1 ELSE 0))]]
        /\ egress' = [i \in DOMAIN egress |->
              IF i \in w /\ HasEgress(k, i) THEN Nth(p, Place(k, top, i)) ELSE egress[i]]
        /\ avail' = IF top = LastIndex(k) THEN avail \cup {k} ELSE avail
        /\ underrun' = (underrun \/ top - Carry[k] < -1)
        /\ UNCHANGED switchVars

Next == Flip \/ Inject \/ Recirculate \/ Deliver

(* Packets recirculate, are sent and received as long as there are any.    *)
Spec == Init /\ [][Next]_vars /\ WF_vars(Inject \/ Recirculate \/ Deliver)
-----------------------------------------------------------------------------
(* What controller index i should hold after round r.                      *)
WholeReadout(k) == \A i \in 0..(Size(k) - 1) : counter[k][i] = Val(round, HalfBase(k, round) + i)

(* A sketch is complete when its flag is set, though only the packet with *)
(* the greatest index sets it and eight chains run at once: filter 2,      *)
(* filter 1 where its table is right, in the rounds that read the second   *)
(* half, and the Fermat sketch at ingress and, for as many buckets as      *)
(* there are, at egress.                                                   *)
WholeWhenAvailable ==
    /\ "clean_2" \in avail => WholeReadout("clean_2")
    /\ ("clean_1" \in avail /\ round % 2 = 0) => WholeReadout("clean_1")
    /\ "fermat" \in avail =>
          /\ WholeReadout("fermat")
          /\ \A i \in DOMAIN egress :
                egress[i] = Val(round, (IF round % 2 = 1 THEN 0 ELSE EgressSize) + i)

(* "if the pkt is the last one, set available" (main.c:578): that filter   *)
(* 1, too, is complete when it is available.                               *)
Filter1WholeWhenAvailable == "clean_1" \in avail => WholeReadout("clean_1")

(* Before the switch counts in a half again, both filters are clean there, *)
(* filter 1 too, whose packets are cut at the wrong places.                *)
CleanBeforeReuse ==
    avail = Kinds => \A k \in Filters : full[k] \cap Half(k, round) = {}

(* No packet is so short that the controller would write below its arrays  *)
(* (the assertion of main.c:559 for fermat).                               *)
NoUnderrun == ~underrun

(* A readout comes to its end: all three sketches become available.        *)
ReadoutEnds == \A r \in 1..MaxRounds : round = r ~> (round = r /\ avail = Kinds)
=============================================================================
