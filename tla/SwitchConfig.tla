---------------------------- MODULE SwitchConfig ----------------------------
(***************************************************************************)
(* What a switch does with the controller's AdjustPkt, and where it counts *)
(* a packet.  The receive callback turns the message into match-action     *)
(* table operations (Hierarchical_Fermat.cpp, adjust), which the data      *)
(* plane sees one by one while traffic goes on.  A packet is classified by *)
(* what the two filters have counted of its flow, its hash is masked and   *)
(* moved into the zone of its class (Hierarchical_Fermat.p4).              *)
(*                                                                         *)
(* The three hash rows have tables of their own with the same content; one *)
(* row is modelled.  Types are numbered as in the data plane: 1 small      *)
(* (zone 0), 2 median (zone 1), 3 heavy hitter (zone 2).                   *)
(***************************************************************************)
EXTENDS ZoneMap, Sequences

CONSTANTS
    Configs,       \* the messages: [zone_size, zone_base, whether_range, thresh, drop_rate]
    Filter1Max,    \* 255: filter 1's counters saturate
    Filter2Max     \* 65535

Zone == 0..2
MsgMask(m, j) == CalculateMask(m.zone_size[j])

ASSUME ConfigAssumption ==
    /\ Filter1Max \in Nat \ {0} /\ Filter2Max \in Nat \ {0}
    /\ \A m \in Configs :
          /\ m.whether_range \in {0, 1} /\ m.drop_rate \in 0..(Word - 1)
          /\ m.thresh \in (0..Filter2Max) \X (0..Filter2Max)
          /\ \A j \in Zone : /\ m.zone_size[j] \in Nat /\ m.zone_base[j] \in Nat
                             /\ MaskAssert(m.zone_size[j]) /\ MsgMask(m, j) \in 0..(Word - 1)
                             /\ m.zone_base[j] + m.zone_size[j] < Word

VARIABLES
    mapMask,       \* get_map_index_t: type -> mask, for the types with an entry
    remapMask,     \* get_remap_index_t's default entry
    map, remap,    \* mem_zone_map_index_t's ranges per type, and the remap table's
    dropUp,        \* get_drop_t's default entry
    class1, class2,    \* the filters' range maps
    todo,          \* operations of the batch not yet carried out
    config,        \* history: the message being or last applied, none at first
    thresh         \* history: the thresholds last asked for

vars == <<mapMask, remapMask, map, remap, dropUp, class1, class2, todo, config, thresh>>

Types == 1..3
NoMask == Word - 1
NoConfig == [zone_size |-> [j \in Zone |-> 0]]

Init ==
    /\ mapMask = [t \in Types |-> NoMask] /\ remapMask = NoMask
    /\ map = [t \in Types |-> {}] /\ remap = {}
    /\ dropUp = NoMask
    /\ class1 = {} /\ class2 = {}
    /\ todo = <<>>
    /\ config = NoConfig
    /\ thresh = <<>>
-----------------------------------------------------------------------------
Op(name, key, entry) == [op |-> name, key |-> key, entry |-> entry]
Nothing == 0
Lesser(a, b) == IF a < b THEN a ELSE b

(* min(a, b - 1) of the code, where b - 1 is negative for b = 0 and then   *)
(* becomes a huge uint64_t.                                                *)
UpTo(a, b) == IF b = 0 THEN a ELSE Lesser(a, b - 1)

(* The ranges of a filter's counter that ask for each type.                *)
ClassEntries(max, hl, hh) ==
    (IF hl > 0 THEN << [lo |-> 0, hi |-> UpTo(max - 1, hl), type |-> 1] >> ELSE <<>>)
    \o (IF hl <= max - 1 THEN << [lo |-> hl, hi |-> UpTo(max - 1, hh), type |-> 2] >> ELSE <<>>)
    \o << [lo |-> Lesser(max, hh), hi |-> max, type |-> 3] >>

(* Mutant of Clears: leaves the ranges of the zones. *)
ClearsNoMap(m) ==
    << Op("clearMask", Nothing, Nothing), Op("clearRemap", Nothing, Nothing) >>
    \o (IF m.whether_range = 1 THEN << Op("clearClasses", Nothing, Nothing) >> ELSE <<>>)

Clears(m) ==
    << Op("clearMask", Nothing, Nothing), Op("clearMap", Nothing, Nothing),
       Op("clearRemap", Nothing, Nothing) >>
    \o (IF m.whether_range = 1 THEN << Op("clearClasses", Nothing, Nothing) >> ELSE <<>>)

Masks(m) ==
    [j \in 1..3 |-> Op("addMask", j, MsgMask(m, j - 1))]
    \o << Op("setRemapMask", Nothing, MsgMask(m, 1)), Op("setDrop", Nothing, m.drop_rate) >>

ZoneRanges(m, j) ==
    LET size == m.zone_size[j]
        num == IF size = 0 THEN 0 ELSE NumEntry(size, MsgMask(m, j))
    IN  [k \in 1..num |-> RangeEntry(k - 1, size, m.zone_base[j], MsgMask(m, j))]

MapEntries(m, j) ==
    LET r == ZoneRanges(m, j)
    IN  [k \in DOMAIN r |-> Op("addMap", j + 1, r[k])]
        \o (IF j = 1 THEN [k \in DOMAIN r |-> Op("addRemap", Nothing, r[k])] ELSE <<>>)

ClassOps(m) ==
    LET e1 == ClassEntries(Filter1Max, m.thresh[1], m.thresh[2])
        e2 == ClassEntries(Filter2Max, m.thresh[1], m.thresh[2])
    IN  IF m.whether_range = 1
        THEN [k \in DOMAIN e1 |-> Op("addClass1", Nothing, e1[k])]
             \o [k \in DOMAIN e2 |-> Op("addClass2", Nothing, e2[k])]
        ELSE <<>>

(* adjust, as the sequence of its table operations.                        *)
Batch(m) == Clears(m) \o Masks(m) \o MapEntries(m, 0) \o MapEntries(m, 1) \o MapEntries(m, 2)
            \o ClassOps(m)

(* rx_packet_callback.  It runs adjust to its end before the next message. *)
Receive ==
    /\ todo = <<>>
    /\ \E m \in Configs :
          /\ config' = m
          /\ thresh' = IF m.whether_range = 1 THEN m.thresh ELSE thresh
          /\ todo' = Batch(m)
    /\ UNCHANGED <<mapMask, remapMask, map, remap, dropUp, class1, class2>>

(* A range whose end is below its beginning is refused; adjust ignores the *)
(* status.                                                                 *)
Accepted(e) == IF e.lo <= e.hi THEN {e} ELSE {}

Apply ==
    LET o == Head(todo)
    IN  /\ todo # <<>>
        /\ todo' = Tail(todo)
        /\ mapMask' = IF o.op = "clearMask" THEN [t \in Types |-> NoMask]
                      ELSE IF o.op = "addMask" THEN [mapMask EXCEPT ![o.key] = o.entry]
                      ELSE mapMask
        /\ remapMask' = IF o.op = "setRemapMask" THEN o.entry ELSE remapMask
        /\ map' = IF o.op = "clearMap" THEN [t \in Types |-> {}]
                  ELSE IF o.op = "addMap" THEN [map EXCEPT ![o.key] = @ \cup {o.entry}]
                  ELSE map
        /\ remap' = IF o.op = "clearRemap" THEN {}
                    ELSE IF o.op = "addRemap" THEN remap \cup {o.entry} ELSE remap
        /\ dropUp' = IF o.op = "setDrop" THEN o.entry ELSE dropUp
        /\ class1' = IF o.op = "clearClasses" THEN {}
                     ELSE IF o.op = "addClass1" THEN class1 \cup Accepted(o.entry) ELSE class1
        /\ class2' = IF o.op = "clearClasses" THEN {}
                     ELSE IF o.op = "addClass2" THEN class2 \cup Accepted(o.entry) ELSE class2
        /\ UNCHANGED <<config, thresh>>

Next == Receive \/ Apply

Spec == Init /\ [][Next]_vars
-----------------------------------------------------------------------------
(* The data plane.  hash & mask, for masks that are one less than a power  *)
(* of two.                                                                 *)
Masked(hash, mask) == hash % (mask + 1)

(* Mutant of TypeOf: the greater of the two. *)
TypeOfGreater(c1, c2) ==
    {IF a > b THEN a ELSE b :
        a \in {e.type : e \in Matches(class1, c1)} \cup (IF Matches(class1, c1) = {} THEN {0} ELSE {}),
        b \in {e.type : e \in Matches(class2, c2)} \cup (IF Matches(class2, c2) = {} THEN {0} ELSE {})}

(* The type of a packet whose flow the filters have counted c1 and c2 of:  *)
(* the lesser of their ranges', 0 for none.  Where ranges overlap, either. *)
TypeOf(c1, c2) ==
    {Lesser(a, b) :
        a \in {e.type : e \in Matches(class1, c1)} \cup (IF Matches(class1, c1) = {} THEN {0} ELSE {}),
        b \in {e.type : e \in Matches(class2, c2)} \cup (IF Matches(class2, c2) = {} THEN {0} ELSE {})}

(* Mutant of Recorded: the difference is not saturated. *)
RecordedWrapped(t, dropHash) == t # 0 /\ (t # 1 \/ dropHash - dropUp = 0)

(* Whether a packet of type t is counted at all: a small flow's only if    *)
(* its hash minus drop_up, saturated, is 0.                                *)
Recorded(t, dropHash) == t # 0 /\ (t # 1 \/ dropHash <= dropUp)

(* Where a packet of type t is counted: at the ingress, and at the egress  *)
(* it leaves through, where heavy hitters are counted as median flows.     *)
IngressIndex(t, hash) == MapIndex(map[t], Masked(hash, mapMask[t]))

(* Mutant of EgressIndex: heavy hitters are counted where they were at ingress. *)
EgressIndexSame(t, hash) == IngressIndex(t, hash)

EgressIndex(t, hash) ==
    IF t = 3 THEN MapIndex(remap, Masked(hash, remapMask)) ELSE IngressIndex(t, hash)
-----------------------------------------------------------------------------
Settled == todo = <<>> /\ config # NoConfig
Hashes == 0..(Word - 1)
ZoneOf(t) == t - 1

(* The bucket in which the controller looks for a flow of zone j.          *)
Decoded(j, hash) ==
    DecodePos(Masked(hash, MsgMask(config, j)), config.zone_size[j], config.zone_base[j])

(* Once a message has been applied the switch counts every packet in the   *)
(* bucket in which the controller will look for its flow: in the zone of   *)
(* its type at ingress, and heavy hitters in the median zone at egress,    *)
(* to which add_flows moves them before the two are compared.              *)
CountedWhereDecoded ==
    Settled =>
        \A t \in Types, hash \in Hashes :
            /\ config.zone_size[ZoneOf(t)] > 0 =>
                   IngressIndex(t, hash) = Decoded(ZoneOf(t), hash)
            /\ config.zone_size[Lesser(ZoneOf(t), 1)] > 0 =>
                   EgressIndex(t, hash) = Decoded(Lesser(ZoneOf(t), 1), hash)

(* In the middle of a batch, once the old entries are cleared, a packet    *)
(* may find no range and stay where its hash puts it, but one that finds a *)
(* range is counted by the new message: ranges never meet masks of another *)
(* message, and no range table ever matches an index twice, whatever has   *)
(* been added yet and whatever was there before.                           *)
OldAndNewNeverMix ==
    /\ \A t \in Types, hash \in Hashes :
        (todo # <<>> /\ Head(todo).op \notin {"clearMask", "clearMap", "clearRemap"}
          /\ Matches(map[t], Masked(hash, mapMask[t])) # {})
        => IngressIndex(t, hash) = Decoded(ZoneOf(t), hash)
    /\ \A t \in Types, i \in Hashes :
           Cardinality(Matches(map[t], i)) <= 1 /\ Cardinality(Matches(remap, i)) <= 1

(* By the lower threshold a flow is small, by the upper one a heavy hitter.*)
ByThreshold(c) == IF c < thresh[1] THEN 1 ELSE IF c < thresh[2] THEN 2 ELSE 3

(* Once a message has been applied, flows are classed by the smaller of    *)
(* their filter counts, a saturated filter leaving it to the other, for    *)
(* thresholds that are the right way up; and of the small flows the switch *)
(* records the drop_rate + 1 of all drop hashes by which the controller    *)
(* scales their number up (AttentionController, Unsample).                 *)
ClassedAndSampled ==
    /\ (Settled /\ thresh # <<>> /\ thresh[1] <= thresh[2] /\ 0 < thresh[2]) =>
          \A c1 \in 0..Filter1Max, c2 \in 0..Filter2Max :
             TypeOf(c1, c2) = { IF c1 = Filter1Max
                                THEN IF c2 = Filter2Max THEN 3 ELSE ByThreshold(c2)
                                ELSE ByThreshold(Lesser(c1, c2)) }
    /\ Settled => Cardinality({h \in Hashes : Recorded(1, h)}) = config.drop_rate + 1
=============================================================================
