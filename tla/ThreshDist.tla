----------------------------- MODULE ThreshDist -----------------------------
(***************************************************************************)
(* The flow-size distribution the controller interpolates in              *)
(* (threshAdjuster.h).  The distribution file is read once into two        *)
(* parallel arrays, dist_thresh (packets per flow) and dist_portion (share *)
(* of flows of at most that many packets).  get_HH_thresh inverts it: the  *)
(* smallest threshold that leaves a given share of flows above it.         *)
(* get_portion evaluates it.                                               *)
(*                                                                         *)
(* The code computes in double.  Here a share is an exact fraction         *)
(* <<num, den>>, with portions of the file in units of 1/PortionScale; the *)
(* infinities and the NaN that dividing by zero yields are kept as cases.  *)
(***************************************************************************)
EXTENDS Integers, Sequences, SequencesExt

CONSTANTS
    Dist,          \* the table: a sequence of [thresh, portion] entries
    PortionScale,  \* portions are in units of 1/PortionScale
    Mtu,           \* bytes per packet (1500)
    WordSize       \* 2^16: thresholds are uint16_t

(* The table read_dist leaves for a file that holds a cumulative           *)
(* distribution up to 1: thresholds increase, portions do not decrease.    *)
ASSUME DistAssumption ==
    /\ PortionScale \in Nat \ {0} /\ Mtu \in Nat \ {0} /\ WordSize \in Nat \ {0}
    /\ Dist \in Seq([thresh : 0..(WordSize - 1), portion : 0..PortionScale])
    /\ Dist # <<>>
    /\ \A i, j \in 1..Len(Dist) : i < j => /\ Dist[i].thresh < Dist[j].thresh
                                           /\ Dist[i].portion <= Dist[j].portion
    /\ Dist[Len(Dist)].portion = PortionScale

CeilDiv(a, b) == -((-a) \div b)

(* read_dist, of the lines <<bytes, portion>> of the file: bytes become    *)
(* packets, rounded up, and a line with as many packets as the last entry  *)
(* replaces that entry's portion.                                          *)
ReadLine(dist, line) ==
    LET t == CeilDiv(line[1], Mtu)
        n == Len(dist)
    IN  IF n # 0 /\ dist[n].thresh = t
        THEN [dist EXCEPT ![n].portion = line[2]]
        ELSE Append(dist, [thresh |-> t, portion |-> line[2]])

ReadDist(lines) == FoldLeft(ReadLine, <<>>, lines)

DistLen == Len(Dist)
TopThresh == Dist[DistLen].thresh

(* Where the loops over the table stop: at the first entry of S, or after  *)
(* the last one.                                                           *)
FirstEntry(S) == Min(S \cup {DistLen + 1})

(* get_portion: the share of flows larger than hh, as <<num, den>>.  Past  *)
(* the last entry the code reads the zero entry after the table; the       *)
(* unsigned difference it divides by is close to 2^64, so the result is    *)
(* the last portion.                                                       *)
GetPortion(hh) ==
    LET i == FirstEntry({k \in 1..DistLen : Dist[k].thresh > hh})
    IN  IF i = 1 THEN <<1, 1>>
        ELSE IF i > DistLen THEN <<PortionScale - Dist[DistLen].portion, PortionScale>>
        ELSE LET lo == Dist[i - 1]
                 hi == Dist[i]
                 dt == hi.thresh - lo.thresh
             IN  << (PortionScale - lo.portion) * dt
                        - (hh - lo.thresh) * (hi.portion - lo.portion),
                    PortionScale * dt >>

(* get_HH_thresh for the finite share a/b, b > 0.                          *)
ThreshOfShare(a, b) ==
    LET rest == (b - a) * PortionScale       \* (1 - portion), times b * PortionScale
        i == FirstEntry({k \in 1..DistLen : Dist[k].portion * b > rest})
    IN  IF i = 1 THEN 0
        ELSE IF i > DistLen THEN TopThresh
        ELSE LET lo == Dist[i - 1]
                 hi == Dist[i]
             IN  lo.thresh + CeilDiv((rest - lo.portion * b) * (hi.thresh - lo.thresh),
                                     (hi.portion - lo.portion) * b)

(* get_HH_thresh(capacity / (flows / share)): the thresholds it may return *)
(* when a zone with room for num/den flows holds `flows` heavy hitters,    *)
(* share = <<sn, sd>> of all flows.  No flow gives +inf, hence threshold   *)
(* 0; share 0 gives portion 0, hence the top of the table; both give NaN,  *)
(* whose conversion to uint16_t is undefined: any value.                   *)
HHThreshes(num, den, flows, share) ==
    IF flows = 0 /\ share[1] = 0 THEN 0..(WordSize - 1)
    ELSE IF flows = 0 THEN {0}
    ELSE {ThreshOfShare(num * share[1], den * flows * share[2]) % WordSize}
=============================================================================
