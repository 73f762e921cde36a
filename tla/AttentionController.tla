------------------------ MODULE AttentionController ------------------------
(***************************************************************************)
(* The adaptive loop of the central controller (main.c).  After every      *)
(* epoch it decodes the collected sketches and, from how many heavy        *)
(* hitters, median losses and small losses there were and whether each     *)
(* zone decoded, moves memory between the zones, moves the thresholds and  *)
(* sets the sampling rate, then sends the result to the switches.          *)
(*                                                                         *)
(* One action is one round of lcore_main from "if (check_all_avail())" to  *)
(* the end; its inputs are what decoding yields.  Zones are numbered as in *)
(* the code: 0 small losses, 1 median losses, 2 heavy hitters.             *)
(***************************************************************************)
EXTENDS Integers, Sequences, FiniteSets, ThreshDist, ThreshCrossing

CONSTANTS
    IngressEntries,        \* ingress_entry_num: buckets per row at ingress
    EgressEntries,         \* egress_entry_num: buckets per row at egress
    MedianFloor,           \* 512: the least median zone AdjustMem_0 shrinks to
    InitMedian,            \* 512: the median zone the controller starts with
    IllZone0, IllZone1, IllZone2,  \* 512, 2560, 1024: the zones of state 1
    RatioNum, RatioDen,    \* ratio = array_num * LOAD_FACTOR = 21/10
    MinNum, MinDen,        \* min_ratio = array_num * MIN_LOAD_FACTOR = 18/10
    SampleScale,           \* 65536: sample_rate r records a share (r+1)/SampleScale
    FlowNums,              \* the flow numbers a round may decode or estimate
    SmallCounts            \* the lists of filter counts of the small-loss flows

ASSUME ControllerAssumption ==
    /\ IngressEntries \in Nat /\ EgressEntries \in Nat
    /\ EgressEntries < IngressEntries
    /\ MedianFloor \in 1..EgressEntries /\ InitMedian \in 1..EgressEntries
    /\ IllZone0 \in Nat \ {0} /\ IllZone1 \in Nat \ {0} /\ IllZone2 \in Nat \ {0}
    /\ IllZone0 + IllZone1 = EgressEntries
    /\ IllZone0 + IllZone1 + IllZone2 = IngressEntries
    /\ RatioNum \in Nat \ {0} /\ RatioDen \in Nat \ {0}
    /\ MinNum \in Nat \ {0} /\ MinDen \in Nat \ {0}
    /\ RatioDen <= RatioNum              \* ratio >= 1
    /\ MinNum * RatioDen <= MinDen * RatioNum    \* min_ratio <= ratio
    /\ SampleScale \in Nat \ {0}
    /\ FlowNums \subseteq Nat
    /\ SmallCounts \subseteq Seq(Nat)

VARIABLES
    state,        \* 0: healthy, attention on heavy hitters; 1: ill, on losses
    zone_size, zone_base,
    sample_rate,
    HH_THRESH, HL_THRESH,
    HH_portion,   \* get_portion of the HH_THRESH that was sent last
    deployed,     \* what a switch that applied every AdjustPkt has configured
    crashed       \* the process died of an integer division by zero

vars == <<state, zone_size, zone_base, sample_rate, HH_THRESH, HL_THRESH,
          HH_portion, deployed, crashed>>

Zone == 0..2
Zones(small, median, large) == [j \in Zone |-> IF j = 0 THEN small
                                               ELSE IF j = 1 THEN median ELSE large]
BasesOf(z) == Zones(0, z[0], z[0] + z[1])

(* Room in a zone: num flows when size * ratio >= num.                     *)
Fits(num, size) == num * RatioDen <= size * RatioNum
Loose(num, size) == num * MinDen < size * MinNum       \* num < size * min_ratio
(* Mutant: divides by min_ratio. *)
SizeForMinRatio(num) == (num * MinDen) \div MinNum
SizeFor(num) == (num * RatioDen) \div RatioNum         \* (uint16_t) (num / ratio)

(* The HH thresholds that would just fill a heavy-hitter zone of `size`.   *)
NewHH(size, flows) == HHThreshes(size * RatioNum, RatioDen, flows, HH_portion)

(* Mutant of AdjustSampling: returns the share itself, not the rate. *)
AdjustSamplingShare(zone0, rate, n) ==
    LET fill == (zone0 * RatioNum * (1 + rate)) \div (RatioDen * n)
    IN  IF n = 0 \/ fill > SampleScale THEN SampleScale ELSE fill

(* adjust_sampling: the new rate from the old one, for n small flows.      *)
AdjustSampling(zone0, rate, n) ==
    LET fill == (zone0 * RatioNum * (1 + rate)) \div (RatioDen * n)
        conf == IF n = 0 \/ fill > SampleScale THEN SampleScale ELSE fill
    IN  IF conf # 0 THEN conf - 1 ELSE conf

(* A count of sampled flows, scaled up to all flows.                       *)
Unsample(cnt, rate) == (cnt * SampleScale) \div (1 + rate)

(* send_adjust_pkts after the fields were set.  A switch takes thresholds  *)
(* only from a packet with whether_range = 1.                              *)
SendAdjust(whether_range, z, rate, hl, hh) ==
    /\ zone_size' = z
    /\ zone_base' = BasesOf(z)
    /\ sample_rate' = rate
    /\ HL_THRESH' = hl
    /\ HH_THRESH' = hh
    /\ HH_portion' = GetPortion(hh)
    /\ deployed' = [zone_base |-> BasesOf(z), zone_size |-> z, drop_rate |-> rate,
                    thresh |-> IF whether_range = 1 THEN <<hl, hh>> ELSE deployed.thresh]

Count(counts, test(_)) == Cardinality({i \in DOMAIN counts : test(counts[i])})
-----------------------------------------------------------------------------
Init ==
    LET z == Zones(0, InitMedian, IngressEntries - InitMedian)
    IN  /\ state = 0
        /\ zone_size = z
        /\ zone_base = BasesOf(z)
        /\ sample_rate = SampleScale - 1
        /\ HH_THRESH = 0 /\ HL_THRESH = 0
        /\ HH_portion = GetPortion(0)
        /\ deployed = [zone_base |-> BasesOf(z), zone_size |-> z,
                       drop_rate |-> SampleScale - 1, thresh |-> <<0, 0>>]
        /\ crashed = FALSE

(* What decoding zone j can yield: an error with the linear-counting       *)
(* estimate of its flows, or their number.  A zone of size 0 holds no      *)
(* counter that could be left over, so it decodes to no flow.              *)
DecodeErrors(j) == IF zone_size[j] = 0 THEN {} ELSE [err : {TRUE}, n : FlowNums]
Decodes(j) == [err : {FALSE}, n : IF zone_size[j] = 0 THEN {0} ELSE FlowNums]
Decoded(j) == DecodeErrors(j) \cup Decodes(j)

(* Mutant of AddFlowsCrashes: reduces modulo zone_size[0]. *)
AddFlowsCrashesZone0(moved) == moved /\ zone_size[0] = 0

(* add_flows moves the heavy hitters of each device into the median zone,  *)
(* reducing a hash modulo zone_size[1].                                    *)
AddFlowsCrashes(moved) == moved /\ zone_size[1] = 0

(* ensureHH: a heavy-hitter zone did not decode.                           *)
EnsureHH(est2) ==
    /\ \E hh \in NewHH(zone_size[2], est2) :
          SendAdjust(1, zone_size, sample_rate, HL_THRESH, hh)
    /\ UNCHANGED state

(* ensureHL_0: healthy, the median zone did not decode.  Grow it, or give  *)
(* up on recording every loss and go to state 1.                           *)
GrowMedian(est1, est2) ==
    LET z == Zones(0, SizeFor(est1), IngressEntries - SizeFor(est1))
    IN  /\ Fits(est1, EgressEntries)
        /\ \E hh \in NewHH(z[2], est2) : SendAdjust(1, z, sample_rate, HL_THRESH, hh)
        /\ UNCHANGED state

TurnIll(est1, est2) ==
    LET z == Zones(IllZone0, IllZone1, IllZone2)
    IN  /\ ~Fits(est1, EgressEntries)
        /\ state' = 1
        /\ \E hh \in NewHH(z[2], est2) :
              SendAdjust(1, z, AdjustSampling(z[0], SampleScale - 1, est1), hh, hh)

EnsureHL0(est1, est2) == GrowMedian(est1, est2) \/ TurnIll(est1, est2)

(* Mutant of AdjustMem0: never leaves the median zone below the floor. *)
AdjustMem0Floor(est1, est2) ==
    LET median == IF zone_size[1] > MedianFloor THEN zone_size[1] ELSE MedianFloor
        z == Zones(zone_size[0], median, IngressEntries - median)
    IN  /\ \E hh \in NewHH(z[2], est2) : SendAdjust(1, z, sample_rate, HL_THRESH, hh)
        /\ UNCHANGED state

(* AdjustMem_0: healthy and everything decoded; shrink a loose median zone *)
AdjustMem0(est1, est2) ==
    LET shrink == est2 # 0 /\ Loose(est1, zone_size[1])
        floor == IF SizeFor(est1) > MedianFloor THEN SizeFor(est1) ELSE MedianFloor
        median == IF shrink THEN floor ELSE zone_size[1]
        z == Zones(zone_size[0], median, IngressEntries - median)
    IN  /\ \E hh \in NewHH(z[2], est2) : SendAdjust(1, z, sample_rate, HL_THRESH, hh)
        /\ UNCHANGED state

(* ensureLL_1: the small-loss zone did not decode; sample fewer flows.     *)
EnsureLL1(est0) ==
    /\ SendAdjust(0, zone_size, AdjustSampling(zone_size[0], sample_rate, est0),
                  HL_THRESH, HH_THRESH)
    /\ UNCHANGED state

(* Mutant of EnsureHL1: searches one threshold too far. *)
EnsureHL1TooFar(est1, small) ==
    LET above(h) == Count(small, LAMBDA c : c > h)
        tooMany(h) == /\ above(HL_THRESH) # 0
                      /\ ~Fits(above(h) * est1, zone_size[1] * above(HL_THRESH))
    IN  /\ \E hl \in HLSearch(HL_THRESH, HH_THRESH + 1, tooMany) :
              SendAdjust(1, zone_size, sample_rate, hl, HH_THRESH)
        /\ UNCHANGED state

(* ensureHL_1: the median zone did not decode; raise HL_THRESH to where    *)
(* the median flows, extrapolated from the small ones, would fit.          *)
EnsureHL1(est1, small) ==
    LET above(h) == Count(small, LAMBDA c : c > h)
        tooMany(h) == /\ above(HL_THRESH) # 0
                      /\ ~Fits(above(h) * est1, zone_size[1] * above(HL_THRESH))
    IN  /\ \E hl \in HLSearch(HL_THRESH, HH_THRESH, tooMany) :
              SendAdjust(1, zone_size, sample_rate, hl, HH_THRESH)
        /\ UNCHANGED state

(* Mutant of TurnHealthy: keeps HL_THRESH. *)
TurnHealthyKeepHL(lossSum, est2) ==
    LET z == Zones(0, SizeFor(lossSum), IngressEntries - SizeFor(lossSum))
    IN  /\ state' = 0
        /\ \E hh \in NewHH(z[2], est2) : SendAdjust(1, z, SampleScale - 1, HL_THRESH, hh)

(* AdjustMem_1: everything decoded in state 1.  Four cases, in order.      *)
TurnHealthy(lossSum, est2) ==
    LET z == Zones(0, SizeFor(lossSum), IngressEntries - SizeFor(lossSum))
    IN  /\ state' = 0
        /\ \E hh \in NewHH(z[2], est2) : SendAdjust(1, z, SampleScale - 1, 0, hh)

LowerHH(est2) ==
    /\ \E hh \in NewHH(zone_size[2], est2) : SendAdjust(1, zone_size, sample_rate, hh, hh)
    /\ UNCHANGED state

(* Mutant of LowerHL: does not ask the switches to take the thresholds. *)
LowerHLUnsent(est1, small) ==
    LET between(h) == Count(small, LAMBDA c : c > h /\ c < HL_THRESH)
        tooMany(h) == ~Fits(Unsample(between(h), sample_rate) + est1, zone_size[1])
        rate == AdjustSampling(zone_size[0], sample_rate, Len(small))
    IN  /\ \E hl \in HLSearch(0, HL_THRESH, tooMany) :
              SendAdjust(0, zone_size, rate, hl, HH_THRESH)
        /\ UNCHANGED state

LowerHL(est1, small) ==
    LET between(h) == Count(small, LAMBDA c : c > h /\ c < HL_THRESH)
        tooMany(h) == ~Fits(Unsample(between(h), sample_rate) + est1, zone_size[1])
        rate == AdjustSampling(zone_size[0], sample_rate, Len(small))
    IN  /\ \E hl \in HLSearch(0, HL_THRESH, tooMany) :
              SendAdjust(1, zone_size, rate, hl, HH_THRESH)
        /\ UNCHANGED state

SampleMore(est0) ==
    /\ SendAdjust(0, zone_size, AdjustSampling(zone_size[0], sample_rate, est0),
                  HL_THRESH, HH_THRESH)
    /\ UNCHANGED state

Unadjusted == UNCHANGED <<state, zone_size, zone_base, sample_rate, HH_THRESH, HL_THRESH,
                          HH_portion, deployed>>

AdjustMem1(est0, est1, est2, small, lossSum) ==
    LET few == lossSum * RatioDen < EgressEntries * RatioNum
        looseHH == est2 # 0 /\ Loose(est2, zone_size[2])
        looseHL == Loose(est1, zone_size[1])
        looseLL == Loose(est0, zone_size[0])
    IN  \/ few /\ TurnHealthy(lossSum, est2)
        \/ ~few /\ looseHH /\ LowerHH(est2)
        \/ ~few /\ ~looseHH /\ looseHL /\ LowerHL(est1, small)
        \/ ~few /\ ~looseHH /\ ~looseHL /\ looseLL /\ SampleMore(est0)
        \/ ~few /\ ~looseHH /\ ~looseHL /\ ~looseLL /\ Unadjusted
-----------------------------------------------------------------------------
(* A round.  `moved` says that some device decoded a heavy hitter: with no *)
(* decode error that is est2 # 0, with one another device still may have.  *)
Crash(heavy, moved) ==
    /\ AddFlowsCrashes(moved)
    /\ heavy.err \/ moved = (heavy.n # 0)
    /\ crashed' = TRUE
    /\ Unadjusted

HealthyRound(heavy) ==
    /\ state = 0
    /\ \/ heavy.err /\ EnsureHH(heavy.n)
       \/ ~heavy.err /\ \E median \in Decoded(1) :
             \/ median.err /\ EnsureHL0(median.n, heavy.n)
             \/ ~median.err /\ AdjustMem0(median.n, heavy.n)

(* When the small-loss zone decodes, counts lists the filter counts of its *)
(* flows, of which `fresh` are not median losses too.                      *)
IllRound(heavy) ==
    /\ state = 1
    /\ \/ heavy.err /\ EnsureHH(heavy.n)
       \/ ~heavy.err /\ \E small \in DecodeErrors(0) : EnsureLL1(small.n)
       \/ ~heavy.err /\ \E counts \in SmallCounts, median \in Decoded(1) :
             \/ median.err /\ EnsureHL1(median.n, counts)
             \/ /\ ~median.err
                /\ \E fresh \in 0..Len(counts) :
                      AdjustMem1(Len(counts), median.n, heavy.n, counts,
                                 Unsample(fresh, sample_rate) + median.n)

Round ==
    /\ ~crashed
    /\ \E heavy \in Decoded(2) :
          \/ \E moved \in BOOLEAN : Crash(heavy, moved)
          \/ /\ ~AddFlowsCrashes(~heavy.err /\ heavy.n # 0)
             /\ UNCHANGED crashed
             /\ HealthyRound(heavy) \/ IllRound(heavy)

(* A crashed controller stays down: nothing in the code restarts it.       *)
Down == crashed /\ UNCHANGED vars

Next == Round \/ Down

Spec == Init /\ [][Next]_vars
-----------------------------------------------------------------------------
(* Types: sizes and bases fit their fields, the rate is a sampling share.  *)
TypeOK ==
    /\ state \in {0, 1}
    /\ zone_size \in [Zone -> 0..IngressEntries]
    /\ zone_base \in [Zone -> 0..IngressEntries]
    /\ sample_rate \in 0..(SampleScale - 1)
    /\ HH_THRESH \in 0..(WordSize - 1) /\ HL_THRESH \in 0..(WordSize - 1)
    /\ HH_portion \in Int \X (Nat \ {0})
    /\ deployed.drop_rate \in 0..(SampleScale - 1)
    /\ crashed \in BOOLEAN

(* The zones are laid side by side and fill the ingress rows exactly, and  *)
(* the two loss zones, which sub() compares with the egress rows, lie      *)
(* within those (main.c, ensureHL_0, AdjustMem_0, AdjustMem_1).            *)
ZonesFit ==
    /\ zone_base = BasesOf(zone_size)
    /\ zone_size[0] + zone_size[1] + zone_size[2] = IngressEntries
    /\ zone_base[2] <= EgressEntries

(* While healthy every loss is recorded: no small-loss zone, no flow below *)
(* the lower threshold, no sampling.  While ill the zones have the fixed   *)
(* sizes ensureHL_0 gives them: no later round moves memory.               *)
HealthyLayout ==
    IF state = 0
    THEN zone_size[0] = 0 /\ HL_THRESH = 0 /\ sample_rate = SampleScale - 1
    ELSE zone_size = Zones(IllZone0, IllZone1, IllZone2)

(* What the switches were last told is what the next epoch is decoded      *)
(* with, thresholds included: every round that moves one sends a packet    *)
(* with whether_range set, and HH_portion belongs to the threshold in use. *)
DeployedInSync ==
    /\ deployed = [zone_base |-> zone_base, zone_size |-> zone_size,
                   drop_rate |-> sample_rate, thresh |-> <<HL_THRESH, HH_THRESH>>]
    /\ HH_portion = GetPortion(HH_THRESH)

(* The only division by zero is add_flows' in a healthy network whose      *)
(* median zone has been shrunk to nothing.                                 *)
CrashOnlyEmptyMedian == crashed => state = 0 /\ zone_size[1] = 0

(* An empty median zone is never given memory back: it always decodes, so  *)
(* ensureHL_0 is never reached, and AdjustMem_0 cannot see a heavy hitter  *)
(* without the controller having crashed.  Losses go unseen from then on.  *)
EmptyMedianIsAbsorbing == [][zone_size[1] = 0 => zone_size'[1] = 0 /\ state' = 0]_vars

(* Thresholds can be turned upside down (HL above HH) only while ill and   *)
(* only by lowering HH after a heavy-hitter zone failed to decode.         *)
OnlyLoweringHHInverts ==
    [][(HL_THRESH <= HH_THRESH /\ HL_THRESH' > HH_THRESH')
          => /\ state = 1 /\ HH_THRESH' < HH_THRESH
             /\ UNCHANGED <<state, zone_size, sample_rate, HL_THRESH>>]_vars
=============================================================================
