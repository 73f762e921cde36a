---------------------- MODULE AttentionController_proofs ----------------------
(***************************************************************************)
(* The invariants and action properties of AttentionController, for every  *)
(* sketch size, table, load factor and flow number.                        *)
(*                                                                         *)
(* Inv is inductive as it stands: the bound on the loss zones needs the    *)
(* healthy layout (AdjustMem_0 keeps zone 0, which must be empty), and the *)
(* types of the next thresholds need the remembered share to be a proper   *)
(* fraction, which DeployedInSync and GetPortionType give.                 *)
(*                                                                         *)
(* The first part is about ThreshDist, for every table: the types of what  *)
(* its interpolation returns, and where it gets stuck.  The loops that     *)
(* search the table stop at a least index; the least element of a set of   *)
(* naturals exists because strict inclusion of the intervals below its     *)
(* elements is well-founded, which needs no induction scheme.              *)
(*                                                                         *)
(* The last part is about ThresholdSearch: what the bisection returns is   *)
(* what the rounds rely on.                                                *)
(***************************************************************************)
EXTENDS AttentionController, ThresholdSearch, FiniteSetTheorems, TLAPS

(* A nonempty set of naturals has a least element, and Min returns it.     *)
LEMMA MinOfNaturals ==
  ASSUME NEW S \in SUBSET Nat, S # {}
  PROVE  Min(S) \in S /\ \A y \in S : Min(S) <= y
<1>. DEFINE Below(x) == 0..(x - 1)
            T == {Below(x) : x \in S}
<1>1. T # {} /\ T \subseteq FiniteSubsetsOf(Nat)
  <2>1. \A x \in S : IsFiniteSet(Below(x))
    BY FS_Interval
  <2>2. \A x \in S : Below(x) \subseteq Nat
    OBVIOUS
  <2> QED BY <2>1, <2>2 DEF FiniteSubsetsOf
<1>2. \E X \in T : \A Y \in T : ~(<<Y, X>> \in StrictSubsetOrdering(Nat))
  <2>. HIDE DEF T
  <2> QED BY <1>1, WFMin, FS_StrictSubsetOrderingWellFounded
<1>3. PICK x \in S : \A y \in S : ~(<<Below(y), Below(x)>> \in StrictSubsetOrdering(Nat))
  BY <1>2
<1>4. \A y \in S : x <= y
  <2>. SUFFICES ASSUME NEW y \in S, y < x PROVE FALSE
    OBVIOUS
  <2>1. Below(y) \subseteq Below(x) /\ y \in Below(x) /\ y \notin Below(y)
    OBVIOUS
  <2>2. Below(x) \in SUBSET Nat /\ Below(y) \in SUBSET Nat
    OBVIOUS
  <2>3. Below(x) # Below(y)
    BY <2>1
  <2>. HIDE DEF Below
  <2> QED BY <1>3, <2>1, <2>2, <2>3 DEF StrictSubsetOrdering
<1> QED BY <1>4 DEF Min

(* The table's entries, as facts about numbers.                            *)
LEMMA DistEntries ==
  /\ DistLen \in Nat \ {0}
  /\ \A i \in 1..DistLen : Dist[i].thresh \in Nat /\ Dist[i].portion \in Nat
  /\ \A i \in 1..DistLen : Dist[i].thresh < WordSize /\ Dist[i].portion <= PortionScale
  /\ \A i, j \in 1..DistLen : i < j => Dist[i].thresh < Dist[j].thresh
<1>1. DistLen = Len(Dist) /\ DistLen \in Nat /\ DistLen # 0
  BY DistAssumption DEF DistLen
<1>2. \A i \in 1..DistLen : Dist[i] \in [thresh : 0..(WordSize - 1), portion : 0..PortionScale]
  <2>. DEFINE R == [thresh : 0..(WordSize - 1), portion : 0..PortionScale]
  <2>1. Dist \in Seq(R)
    BY DistAssumption
  <2>. HIDE DEF R
  <2>2. \A i \in 1..DistLen : Dist[i] \in R
    BY <1>1, <2>1
  <2> QED BY <2>2 DEF R
<1>3. \A i \in 1..DistLen : Dist[i].thresh \in 0..(WordSize - 1) /\ Dist[i].portion \in 0..PortionScale
  BY <1>2
<1>4. WordSize \in Nat /\ PortionScale \in Nat
  BY DistAssumption
<1>5. \A i, j \in 1..DistLen : i < j => Dist[i].thresh < Dist[j].thresh
  BY <1>1, DistAssumption
<1> QED BY <1>1, <1>3, <1>4, <1>5

(* A remainder by a positive number is below it.                           *)
LEMMA ModRange ==
  ASSUME NEW x \in Int, NEW w \in Nat \ {0}
  PROVE  x % w \in 0..(w - 1)
OBVIOUS

(* A search stops inside the table or right after it, and no entry before  *)
(* the one it stops at was looked for.                                     *)
LEMMA FirstEntryFacts ==
  ASSUME NEW S \in SUBSET (1..DistLen)
  PROVE  /\ FirstEntry(S) \in 1..(DistLen + 1)
         /\ FirstEntry(S) \in S \/ FirstEntry(S) = DistLen + 1
         /\ \A k \in 1..DistLen : k < FirstEntry(S) => k \notin S
<1>. DEFINE T == S \cup {DistLen + 1}
<1>0. DistLen \in Nat
  BY DistEntries
<1>1. T \in SUBSET Nat /\ T # {}
  <2>1. 1..DistLen \subseteq Nat /\ DistLen + 1 \in Nat
    BY <1>0
  <2> QED BY <2>1
<1>2. Min(T) \in T /\ \A y \in T : Min(T) <= y
  <2>. HIDE DEF T
  <2> QED BY <1>1, MinOfNaturals
<1>3. FirstEntry(S) = Min(T)
  BY DEF FirstEntry
<1>4. T \subseteq 1..(DistLen + 1)
  BY <1>0
<1>. DEFINE m == FirstEntry(S)
<1>5. m \in T /\ \A y \in T : m <= y
  BY <1>2, <1>3
<1>6. \A k \in 1..DistLen : k < m => k \notin S
  <2>. HIDE DEF m
  <2> QED BY <1>5, <1>4, <1>0
<1> QED BY <1>4, <1>5, <1>6

(* get_portion yields a proper fraction for any threshold.                 *)
LEMMA GetPortionType ==
  ASSUME NEW hh \in Nat
  PROVE  GetPortion(hh) \in Int \X (Nat \ {0})
<1>. DEFINE S == {k \in 1..DistLen : Dist[k].thresh > hh}
            i == FirstEntry(S)
<1>1. i \in 1..(DistLen + 1)
  BY FirstEntryFacts
<1>2. CASE i = 1
  BY <1>2 DEF GetPortion
<1>3. CASE i > DistLen
  BY <1>3, DistEntries, DistAssumption DEF GetPortion
<1>4. CASE i # 1 /\ ~(i > DistLen)
  <2>. DEFINE dt == Dist[i].thresh - Dist[i - 1].thresh
              n == (PortionScale - Dist[i - 1].portion) * dt
                     - (hh - Dist[i - 1].thresh) * (Dist[i].portion - Dist[i - 1].portion)
  <2>1. i \in 1..DistLen /\ i - 1 \in 1..DistLen /\ i - 1 < i
    BY <1>1, <1>4, DistEntries
  <2>2. GetPortion(hh) = <<n, PortionScale * dt>>
    BY <1>4 DEF GetPortion
  <2>. HIDE DEF i
  <2>3. dt \in Nat \ {0}
    BY <2>1, DistEntries
  <2>4. PortionScale * dt \in Nat \ {0}
    BY <2>3, DistAssumption
  <2>5. n \in Int
    <3>. DEFINE lo == Dist[i - 1]
                hi == Dist[i]
    <3>1. lo.thresh \in Int /\ lo.portion \in Int /\ hi.portion \in Int
      BY <2>1, DistEntries
    <3>2. PortionScale \in Int
      BY DistAssumption
    <3>. HIDE DEF dt, lo, hi
    <3>3. (PortionScale - lo.portion) * dt \in Int
      BY <3>1, <3>2, <2>3
    <3>4. (hh - lo.thresh) * (hi.portion - lo.portion) \in Int
      BY <3>1
    <3> QED BY <3>3, <3>4 DEF lo, hi
  <2> QED BY <2>2, <2>4, <2>5
<1> QED BY <1>2, <1>3, <1>4

(* get_HH_thresh yields an integer: it divides by a difference of portions *)
(* that is positive because the search stopped between the two entries.    *)
LEMMA ThreshOfShareType ==
  ASSUME NEW a \in Int, NEW b \in Nat \ {0}
  PROVE  ThreshOfShare(a, b) \in Int
<1>. DEFINE rest == (b - a) * PortionScale
            S == {k \in 1..DistLen : Dist[k].portion * b > rest}
            i == FirstEntry(S)
<1>1. /\ i \in 1..(DistLen + 1)
      /\ i \in S \/ i = DistLen + 1
      /\ \A k \in 1..DistLen : k < i => k \notin S
  <2>1. S \in SUBSET (1..DistLen)
    OBVIOUS
  <2>. HIDE DEF S
  <2> QED BY <2>1, FirstEntryFacts
<1>2. CASE i = 1
  BY <1>2 DEF ThreshOfShare
<1>3. CASE i > DistLen
  BY <1>3, DistEntries DEF ThreshOfShare, TopThresh
<1>4. CASE i # 1 /\ ~(i > DistLen)
  <2>. DEFINE lo == Dist[i - 1]
              hi == Dist[i]
              num == (rest - lo.portion * b) * (hi.thresh - lo.thresh)
              den == (hi.portion - lo.portion) * b
  <2>1. i \in 1..DistLen /\ i - 1 \in 1..DistLen /\ i - 1 < i
    BY <1>1, <1>4, DistEntries
  <2>2. ThreshOfShare(a, b) = lo.thresh + CeilDiv(num, den)
    BY <1>4 DEF ThreshOfShare
  <2>3. i \in S /\ i - 1 \notin S
    <3>1. i # DistLen + 1
      BY <2>1, DistEntries
    <3>. HIDE DEF i, S
    <3> QED BY <1>1, <2>1, <3>1
  <2>4. hi.portion * b > rest /\ ~(lo.portion * b > rest)
    BY <2>1, <2>3
  <2>5. rest \in Int
    BY DistAssumption
  <2>. HIDE DEF i, S, rest
  <2>6. lo.portion \in Nat /\ hi.portion \in Nat /\ lo.thresh \in Nat /\ hi.thresh \in Nat
    BY <2>1, DistEntries
  <2>. HIDE DEF lo, hi
  <2>7. num \in Int
    BY <2>5, <2>6
  <2>8. den \in Int /\ den > 0
    <3>1. hi.portion * b > lo.portion * b
      BY <2>4, <2>5, <2>6
    <3> QED BY <3>1, <2>6
  <2>. HIDE DEF num, den
  <2>9. CeilDiv(num, den) \in Int
    BY <2>7, <2>8 DEF CeilDiv
  <2> QED BY <2>2, <2>6, <2>9
<1> QED BY <1>2, <1>3, <1>4

(* Whatever decoding yields, a new threshold fits its 16-bit field.        *)
THEOREM HHThreshesInWord ==
  ASSUME NEW num \in Nat, NEW den \in Nat \ {0}, NEW flows \in Nat,
         NEW share \in Int \X (Nat \ {0})
  PROVE  /\ HHThreshes(num, den, flows, share) \subseteq 0..(WordSize - 1)
         /\ HHThreshes(num, den, flows, share) # {}
<1>1. CASE flows = 0
  <2>1. 0 \in 0..(WordSize - 1)
    BY DistAssumption
  <2> QED BY <1>1, <2>1 DEF HHThreshes
<1>2. CASE flows # 0
  <2>1. num * share[1] \in Int /\ den * flows * share[2] \in Nat \ {0}
    <3>1. share[1] \in Int /\ share[2] \in Nat \ {0}
      OBVIOUS
    <3>2. den * flows \in Nat \ {0}
      BY <1>2
    <3> QED BY <3>1, <3>2
  <2>2. ThreshOfShare(num * share[1], den * flows * share[2]) \in Int
    BY <2>1, ThreshOfShareType
  <2>. DEFINE t == ThreshOfShare(num * share[1], den * flows * share[2])
  <2>3. HHThreshes(num, den, flows, share) = {t % WordSize}
    BY <1>2 DEF HHThreshes
  <2>4. t % WordSize \in 0..(WordSize - 1)
    <3>. HIDE DEF t
    <3> QED BY <2>2, ModRange, DistAssumption DEF t
  <2> QED BY <2>3, <2>4
<1> QED BY <1>1, <1>2

(* A threshold at the top of the table, where the remembered share is 0,   *)
(* is sticky: as long as any heavy hitter is decoded the next threshold is *)
(* the top again, however much room the zone has.                          *)
THEOREM TopIsSticky ==
  ASSUME NEW num \in Nat, NEW den \in Nat \ {0}, NEW flows \in Nat \ {0},
         NEW share \in Int \X (Nat \ {0}), share[1] = 0
  PROVE  HHThreshes(num, den, flows, share) = {TopThresh}
<1>. DEFINE b == den * flows * share[2]
            S == {k \in 1..DistLen : Dist[k].portion * b > (b - 0) * PortionScale}
<1>1. b \in Nat \ {0}
  <2>1. share[2] \in Nat \ {0} /\ den * flows \in Nat \ {0}
    OBVIOUS
  <2> QED BY <2>1
<1>2. num * share[1] = 0
  OBVIOUS
<1>3. HHThreshes(num, den, flows, share) = {ThreshOfShare(0, b) % WordSize}
  BY <1>2 DEF HHThreshes
<1>. HIDE DEF b
<1>4. S = {}
  <2>. SUFFICES ASSUME NEW k \in 1..DistLen
                PROVE  ~(Dist[k].portion * b > (b - 0) * PortionScale)
    OBVIOUS
  <2>1. Dist[k].portion \in Nat /\ Dist[k].portion <= PortionScale
    BY DistEntries
  <2>. DEFINE p == Dist[k].portion
              c == PortionScale
  <2>2. p \in Nat /\ c \in Nat /\ p <= c
    BY <2>1, DistAssumption
  <2>. HIDE DEF p, c
  <2>3. p * b <= c * b
    BY <2>2, <1>1
  <2>4. ~(p * b > (b - 0) * c)
    BY <2>2, <2>3, <1>1
  <2> QED BY <2>4 DEF p, c
<1>5. FirstEntry(S) = DistLen + 1
  BY <1>4, FirstEntryFacts
<1>6. ThreshOfShare(0, b) = TopThresh
  BY <1>5, DistEntries DEF ThreshOfShare
<1>7. TopThresh \in 0..(WordSize - 1)
  BY DistEntries, DistAssumption DEF TopThresh
<1>8. TopThresh % WordSize = TopThresh
  <2>. DEFINE t == TopThresh
              w == WordSize
  <2>1. t \in 0..(w - 1) /\ w \in Nat \ {0}
    BY <1>7, DistAssumption
  <2>. HIDE DEF t, w
  <2>2. t % w = t
    BY <2>1
  <2> QED BY <2>2 DEF t, w
<1> QED BY <1>3, <1>6, <1>8
-----------------------------------------------------------------------------
Inv == TypeOK /\ ZonesFit /\ HealthyLayout /\ DeployedInSync /\ CrashOnlyEmptyMedian

(* Zones that can be deployed: they fill the rows and the loss zones fit.  *)
GoodZones(z) ==
    /\ z \in [Zone -> 0..IngressEntries]
    /\ z[0] + z[1] + z[2] = IngressEntries
    /\ z[0] + z[1] <= EgressEntries

(* A quotient stays below the bound its operands were compared with.       *)
LEMMA QuotientBound ==
  ASSUME NEW a \in Nat, NEW b \in Nat \ {0}
  PROVE  /\ a \div b \in Nat
         /\ \A e \in Nat : a <= e * b => a \div b <= e
<1>. DEFINE q == a \div b
            r == a % b
<1>1. q \in Nat /\ r \in 0..(b - 1) /\ a = b * q + r
  OBVIOUS
<1>. HIDE DEF q, r
<1>2. ASSUME NEW e \in Nat, a <= e * b, q > e  PROVE FALSE
  <2>1. PICK d \in Nat : q = e + 1 + d
    <3>1. q - e - 1 \in Nat /\ q = e + 1 + (q - e - 1)
      BY <1>1, <1>2
    <3> QED BY <3>1
  <2>2. b * q = b * e + b + b * d
    BY <2>1
  <2>3. b * d \in Nat /\ b * e \in Nat /\ b * e = e * b
    BY <2>1
  <2> QED BY <1>1, <1>2, <2>2, <2>3
<1>3. q \in Nat /\ \A e \in Nat : a <= e * b => q <= e
  BY <1>1, <1>2
<1> QED BY <1>3 DEF q

(* The size computed for a number of flows fits wherever the flows do.     *)
LEMMA SizeForFits ==
  ASSUME NEW n \in Nat
  PROVE  /\ SizeFor(n) \in Nat
         /\ \A e \in Nat : Fits(n, e) => SizeFor(n) <= e
<1>1. RatioDen \in Nat \ {0} /\ RatioNum \in Nat \ {0}
  BY ControllerAssumption
<1>2. n * RatioDen \in Nat
  BY <1>1
<1> QED BY <1>1, <1>2, QuotientBound DEF SizeFor, Fits

(* A loose zone has room for its flows at the full load factor.            *)
LEMMA LooseFits ==
  ASSUME NEW n \in Nat, NEW e \in Nat, Loose(n, e)
  PROVE  Fits(n, e)
<1>. DEFINE rn == RatioNum
            rd == RatioDen
            mn == MinNum
            md == MinDen
<1>1. rn \in Nat \ {0} /\ rd \in Nat \ {0} /\ mn \in Nat \ {0} /\ md \in Nat \ {0}
      /\ mn * rd <= md * rn
  BY ControllerAssumption
<1>2. n * md < e * mn
  BY DEF Loose
<1>. HIDE DEF rn, rd, mn, md
<1>3. (n * md) * rd <= (e * mn) * rd
  BY <1>1, <1>2
<1>4. (e * mn) * rd = e * (mn * rd) /\ e * (mn * rd) <= e * (md * rn)
  BY <1>1
<1>5. (n * md) * rd = md * (n * rd) /\ e * (md * rn) = md * (e * rn)
  BY <1>1
<1>6. md * (n * rd) <= md * (e * rn)
  BY <1>1, <1>3, <1>4, <1>5
<1>7. n * rd <= e * rn
  <2>1. n * rd \in Nat /\ e * rn \in Nat
    BY <1>1
  <2>. DEFINE x == n * rd
              y == e * rn
  <2>2. x \in Nat /\ y \in Nat /\ md * x <= md * y
    BY <2>1, <1>6
  <2>. HIDE DEF x, y
  <2>3. x <= y
    <3>1. ASSUME x > y PROVE FALSE
      <4>1. x - y \in Nat \ {0} /\ md * x = md * y + md * (x - y)
        BY <3>1, <2>2, <1>1
      <4>2. md * (x - y) \in Nat \ {0} /\ md * y \in Nat
        BY <4>1, <2>2, <1>1
      <4> QED BY <4>1, <4>2, <2>2
    <3> QED BY <3>1, <2>2
  <2> QED BY <2>3 DEF x, y
<1> QED BY <1>7 DEF Fits, rn, rd

(* A new threshold fits its field.                                         *)
LEMMA NewHHType ==
  ASSUME NEW size \in Nat, NEW flows \in Nat, TypeOK
  PROVE  NewHH(size, flows) \subseteq 0..(WordSize - 1)
<1>1. size * RatioNum \in Nat /\ RatioDen \in Nat \ {0}
  BY ControllerAssumption
<1>2. HH_portion \in Int \X (Nat \ {0})
  BY DEF TypeOK
<1> QED BY <1>1, <1>2, HHThreshesInWord DEF NewHH

(* adjust_sampling yields a rate whatever it divides by.                   *)
LEMMA AdjustSamplingType ==
  ASSUME NEW zone0 \in Nat, NEW rate \in 0..(SampleScale - 1), NEW n \in Nat
  PROVE  AdjustSampling(zone0, rate, n) \in 0..(SampleScale - 1)
<1>. DEFINE fill == (zone0 * RatioNum * (1 + rate)) \div (RatioDen * n)
            conf == IF n = 0 \/ fill > SampleScale THEN SampleScale ELSE fill
<1>1. SampleScale \in Nat \ {0} /\ RatioNum \in Nat /\ RatioDen \in Nat \ {0}
  BY ControllerAssumption
<1>2. n # 0 => fill \in Nat
  <2>1. zone0 * RatioNum * (1 + rate) \in Nat
    <3>1. zone0 * RatioNum \in Nat /\ 1 + rate \in Nat
      BY <1>1
    <3> QED BY <3>1
  <2>2. n # 0 => RatioDen * n \in Nat \ {0}
    BY <1>1
  <2> QED BY <2>1, <2>2, QuotientBound
<1>3. AdjustSampling(zone0, rate, n) = IF conf # 0 THEN conf - 1 ELSE conf
  BY DEF AdjustSampling
<1>. HIDE DEF fill
<1>4. conf \in 0..SampleScale
  BY <1>1, <1>2
<1>. HIDE DEF conf
<1> QED BY <1>1, <1>3, <1>4

(* The number of small flows scaled up to all flows is a number.           *)
LEMMA UnsampleType ==
  ASSUME NEW cnt \in Nat, NEW rate \in 0..(SampleScale - 1)
  PROVE  Unsample(cnt, rate) \in Nat
<1>1. cnt * SampleScale \in Nat /\ 1 + rate \in Nat \ {0}
  BY ControllerAssumption
<1> QED BY <1>1, QuotientBound DEF Unsample

(* The sizes a triple of zones lists.                                      *)
LEMMA ZonesFacts ==
  ASSUME NEW a \in Nat, NEW b \in Nat, NEW c \in Nat
  PROVE  /\ Zones(a, b, c) \in [Zone -> Nat]
         /\ Zones(a, b, c)[0] = a /\ Zones(a, b, c)[1] = b /\ Zones(a, b, c)[2] = c
BY DEF Zones, Zone

(* Zones that share the rows between a median and a heavy-hitter zone.     *)
LEMMA TwoZonesGood ==
  ASSUME NEW m \in 0..EgressEntries
  PROVE  /\ GoodZones(Zones(0, m, IngressEntries - m))
         /\ Zones(0, m, IngressEntries - m)[0] = 0
         /\ Zones(0, m, IngressEntries - m)[1] = m
         /\ Zones(0, m, IngressEntries - m)[2] \in Nat
<1>1. IngressEntries \in Nat /\ EgressEntries \in Nat /\ EgressEntries < IngressEntries
  BY ControllerAssumption
<1>2. IngressEntries - m \in Nat
  BY <1>1
<1> QED BY <1>1, <1>2, ZonesFacts DEF GoodZones, Zones, Zone

LEMMA IllZonesGood ==
  /\ GoodZones(Zones(IllZone0, IllZone1, IllZone2))
  /\ Zones(IllZone0, IllZone1, IllZone2)[0] = IllZone0
  /\ Zones(IllZone0, IllZone1, IllZone2)[1] = IllZone1
  /\ Zones(IllZone0, IllZone1, IllZone2)[2] = IllZone2
  /\ IllZone0 \in Nat /\ IllZone1 \in Nat \ {0} /\ IllZone2 \in Nat
BY ControllerAssumption, ZonesFacts DEF GoodZones, Zones, Zone

(* send_adjust_pkts of deployable zones, a rate and thresholds in range    *)
(* re-establishes types, zones and agreement with the switches, provided   *)
(* thresholds that changed are sent with whether_range.                    *)
LEMMA SendKeeps ==
  ASSUME TypeOK, ZonesFit, DeployedInSync,
         NEW flag \in {0, 1}, NEW z, GoodZones(z),
         NEW rate \in 0..(SampleScale - 1),
         NEW hl \in 0..(WordSize - 1), NEW hh \in 0..(WordSize - 1),
         flag = 1 \/ (hl = HL_THRESH /\ hh = HH_THRESH),
         SendAdjust(flag, z, rate, hl, hh),
         state' \in {0, 1}, crashed' = crashed
  PROVE  TypeOK' /\ ZonesFit' /\ DeployedInSync'
<1>0. IngressEntries \in Nat /\ EgressEntries \in Nat /\ EgressEntries < IngressEntries
  BY ControllerAssumption
<1>1. /\ z \in [Zone -> 0..IngressEntries]
      /\ z[0] \in 0..IngressEntries /\ z[1] \in 0..IngressEntries /\ z[2] \in 0..IngressEntries
      /\ z[0] + z[1] + z[2] = IngressEntries /\ z[0] + z[1] <= EgressEntries
  BY DEF GoodZones, Zone
<1>2. /\ BasesOf(z) \in [Zone -> 0..IngressEntries]
      /\ BasesOf(z)[2] = z[0] + z[1]
  BY <1>0, <1>1 DEF BasesOf, Zones, Zone
<1>3. GetPortion(hh) \in Int \X (Nat \ {0})
  BY GetPortionType
<1>4. /\ zone_size' = z /\ zone_base' = BasesOf(z) /\ sample_rate' = rate
      /\ HL_THRESH' = hl /\ HH_THRESH' = hh /\ HH_portion' = GetPortion(hh)
      /\ deployed' = [zone_base |-> BasesOf(z), zone_size |-> z, drop_rate |-> rate,
                      thresh |-> IF flag = 1 THEN <<hl, hh>> ELSE deployed.thresh]
  BY DEF SendAdjust
<1>5. DeployedInSync'
  <2>1. deployed.thresh = <<HL_THRESH, HH_THRESH>>
    BY DEF DeployedInSync
  <2>2. deployed'.thresh = <<hl, hh>>
    BY <1>4, <2>1
  <2> QED BY <1>4, <2>2, <2>1 DEF DeployedInSync
<1>6. TypeOK'
  BY <1>1, <1>2, <1>3, <1>4, <1>5 DEF TypeOK, DeployedInSync
<1>7. ZonesFit'
  BY <1>1, <1>2, <1>4 DEF ZonesFit
<1> QED BY <1>5, <1>6, <1>7

(* What Inv says of the zones in use.                                      *)
LEMMA ZonesInUse ==
  ASSUME Inv
  PROVE  /\ GoodZones(zone_size)
         /\ zone_size[0] \in Nat /\ zone_size[1] \in 0..EgressEntries /\ zone_size[2] \in Nat
<1>0. IngressEntries \in Nat /\ EgressEntries \in Nat
  BY ControllerAssumption
<1>1. zone_size \in [Zone -> 0..IngressEntries]
  BY DEF Inv, TypeOK
<1>2. zone_size[0] \in Nat /\ zone_size[1] \in Nat /\ zone_size[2] \in Nat
  BY <1>0, <1>1 DEF Zone
<1>3. zone_base[2] = zone_size[0] + zone_size[1]
  BY DEF Inv, ZonesFit, BasesOf, Zones, Zone
<1> QED BY <1>0, <1>1, <1>2, <1>3 DEF Inv, ZonesFit, GoodZones

(* The invariant that a handler keeps while the controller runs.           *)
Kept == TypeOK /\ ZonesFit /\ HealthyLayout /\ DeployedInSync

LEMMA EnsureHHKeeps ==
  ASSUME Inv, crashed' = crashed, NEW est2 \in Nat, EnsureHH(est2)
  PROVE  Kept'
<1>1. PICK hh \in NewHH(zone_size[2], est2) :
         SendAdjust(1, zone_size, sample_rate, HL_THRESH, hh)
  BY DEF EnsureHH
<1>2. hh \in 0..(WordSize - 1)
  BY NewHHType, ZonesInUse DEF Inv
<1>3. state' = state
  BY DEF EnsureHH
<1>4. TypeOK' /\ ZonesFit' /\ DeployedInSync'
  BY <1>1, <1>2, <1>3, SendKeeps, ZonesInUse DEF Inv, TypeOK
<1>5. HealthyLayout'
  BY <1>1, <1>3 DEF Inv, HealthyLayout, SendAdjust
<1> QED BY <1>4, <1>5 DEF Kept

(* A round that stays or becomes healthy with m buckets for median losses. *)
LEMMA HealthyKeeps ==
  ASSUME Inv, crashed' = crashed, NEW est2 \in Nat, NEW m \in 0..EgressEntries,
         NEW hh \in NewHH(Zones(0, m, IngressEntries - m)[2], est2),
         SendAdjust(1, Zones(0, m, IngressEntries - m), SampleScale - 1, 0, hh),
         state' = 0
  PROVE  Kept'
<1>. DEFINE z == Zones(0, m, IngressEntries - m)
<1>1. GoodZones(z) /\ z[0] = 0 /\ z[2] \in Nat
  BY TwoZonesGood
<1>2. SendAdjust(1, z, SampleScale - 1, 0, hh) /\ hh \in NewHH(z[2], est2)
  OBVIOUS
<1>. HIDE DEF z
<1>3. hh \in 0..(WordSize - 1)
  BY <1>1, <1>2, NewHHType DEF Inv
<1>4. 0 \in 0..(WordSize - 1) /\ SampleScale - 1 \in 0..(SampleScale - 1)
  BY DistAssumption, ControllerAssumption
<1>5. TypeOK' /\ ZonesFit' /\ DeployedInSync'
  BY <1>1, <1>2, <1>3, <1>4, SendKeeps DEF Inv
<1>6. HealthyLayout'
  BY <1>1, <1>2 DEF HealthyLayout, SendAdjust
<1> QED BY <1>5, <1>6 DEF Kept

LEMMA GrowMedianKeeps ==
  ASSUME Inv, state = 0, crashed' = crashed, NEW est1 \in Nat, NEW est2 \in Nat,
         GrowMedian(est1, est2)
  PROVE  Kept'
<1>1. SizeFor(est1) \in 0..EgressEntries
  BY SizeForFits, ControllerAssumption DEF GrowMedian
<1>2. HL_THRESH = 0 /\ sample_rate = SampleScale - 1
  BY DEF Inv, HealthyLayout
<1> QED BY <1>1, <1>2, HealthyKeeps DEF GrowMedian

LEMMA TurnIllKeeps ==
  ASSUME Inv, crashed' = crashed, NEW est1 \in Nat, NEW est2 \in Nat,
         TurnIll(est1, est2)
  PROVE  Kept'
<1>. DEFINE z == Zones(IllZone0, IllZone1, IllZone2)
            rate == AdjustSampling(z[0], SampleScale - 1, est1)
<1>1. PICK hh \in NewHH(z[2], est2) : SendAdjust(1, z, rate, hh, hh)
  BY DEF TurnIll
<1>2. GoodZones(z) /\ z[0] \in Nat /\ z[2] \in Nat
  BY IllZonesGood
<1>3. state' = 1
  BY DEF TurnIll
<1>. HIDE DEF z
<1>4. rate \in 0..(SampleScale - 1)
  <2>1. SampleScale - 1 \in 0..(SampleScale - 1)
    BY ControllerAssumption
  <2> QED BY <1>2, <2>1, AdjustSamplingType
<1>. HIDE DEF rate
<1>5. hh \in 0..(WordSize - 1)
  BY <1>1, <1>2, NewHHType DEF Inv
<1>6. TypeOK' /\ ZonesFit' /\ DeployedInSync'
  BY <1>1, <1>2, <1>3, <1>4, <1>5, SendKeeps DEF Inv
<1>7. HealthyLayout'
  BY <1>1, <1>3 DEF HealthyLayout, SendAdjust, z
<1> QED BY <1>6, <1>7 DEF Kept

LEMMA AdjustMem0Keeps ==
  ASSUME Inv, state = 0, crashed' = crashed, NEW est1 \in Nat, NEW est2 \in Nat,
         AdjustMem0(est1, est2)
  PROVE  Kept'
<1>. DEFINE shrink == est2 # 0 /\ Loose(est1, zone_size[1])
            floor == IF SizeFor(est1) > MedianFloor THEN SizeFor(est1) ELSE MedianFloor
            median == IF shrink THEN floor ELSE zone_size[1]
<1>1. zone_size[1] \in 0..EgressEntries /\ EgressEntries \in Nat
  BY ZonesInUse, ControllerAssumption
<1>2. shrink => SizeFor(est1) \in 0..EgressEntries
  BY <1>1, LooseFits, SizeForFits
<1>3. MedianFloor \in 0..EgressEntries
  BY ControllerAssumption
<1>4. median \in 0..EgressEntries
  BY <1>1, <1>2, <1>3
<1>5. zone_size[0] = 0 /\ HL_THRESH = 0 /\ sample_rate = SampleScale - 1
  BY DEF Inv, HealthyLayout
<1>6. PICK hh \in NewHH(Zones(0, median, IngressEntries - median)[2], est2) :
         SendAdjust(1, Zones(0, median, IngressEntries - median), SampleScale - 1, 0, hh)
  BY <1>5 DEF AdjustMem0
<1>7. state' = 0
  BY DEF AdjustMem0
<1>. HIDE DEF median
<1> QED BY <1>4, <1>6, <1>7, HealthyKeeps

(* A round that stays ill keeps the zones.                                 *)
LEMMA IllKeeps ==
  ASSUME Inv, state = 1, state' = state, crashed' = crashed,
         NEW flag \in {0, 1}, NEW rate \in 0..(SampleScale - 1),
         NEW hl \in 0..(WordSize - 1), NEW hh \in 0..(WordSize - 1),
         flag = 1 \/ (hl = HL_THRESH /\ hh = HH_THRESH),
         SendAdjust(flag, zone_size, rate, hl, hh)
  PROVE  Kept'
<1>1. TypeOK' /\ ZonesFit' /\ DeployedInSync'
  BY SendKeeps, ZonesInUse DEF Inv
<1>2. HealthyLayout'
  BY DEF Inv, HealthyLayout, SendAdjust
<1> QED BY <1>1, <1>2 DEF Kept

(* The handlers that only change the sampling rate.                        *)
LEMMA SamplingKeeps ==
  ASSUME Inv, state = 1, state' = state, crashed' = crashed, NEW est0 \in Nat,
         SendAdjust(0, zone_size, AdjustSampling(zone_size[0], sample_rate, est0),
                    HL_THRESH, HH_THRESH)
  PROVE  Kept'
<1>1. AdjustSampling(zone_size[0], sample_rate, est0) \in 0..(SampleScale - 1)
  BY AdjustSamplingType, ZonesInUse DEF Inv, TypeOK
<1>2. HL_THRESH \in 0..(WordSize - 1) /\ HH_THRESH \in 0..(WordSize - 1)
  BY DEF Inv, TypeOK
<1> QED BY <1>1, <1>2, IllKeeps

(* Every threshold a search of [l, r] ends in lies in it.                  *)
LEMMA EnsureHL1Bounds ==
  ASSUME Inv, NEW est1, NEW small, EnsureHL1(est1, small)
  PROVE  \E hl \in 0..(WordSize - 1) :
            /\ SendAdjust(1, zone_size, sample_rate, hl, HH_THRESH)
            /\ hl <= HH_THRESH
<1>. DEFINE above(h) == Count(small, LAMBDA c : c > h)
            tooMany(h) == /\ above(HL_THRESH) # 0
                          /\ ~Fits(above(h) * est1, zone_size[1] * above(HL_THRESH))
<1>1. HL_THRESH \in 0..(WordSize - 1) /\ HH_THRESH \in 0..(WordSize - 1) /\ WordSize \in Nat
  BY DistAssumption DEF Inv, TypeOK
<1>2. PICK hl \in HLSearch(HL_THRESH, HH_THRESH, tooMany) :
         SendAdjust(1, zone_size, sample_rate, hl, HH_THRESH)
  BY DEF EnsureHL1
<1>. HIDE DEF tooMany
<1>3. hl = HH_THRESH \/ hl \in (HL_THRESH + 1)..HH_THRESH
  BY DEF HLSearch
<1> QED BY <1>1, <1>2, <1>3

LEMMA LowerHLBounds ==
  ASSUME Inv, NEW est1, NEW small, LowerHL(est1, small)
  PROVE  \E hl \in 0..(WordSize - 1) :
            /\ SendAdjust(1, zone_size, AdjustSampling(zone_size[0], sample_rate, Len(small)),
                          hl, HH_THRESH)
            /\ hl <= HL_THRESH
<1>. DEFINE between(h) == Count(small, LAMBDA c : c > h /\ c < HL_THRESH)
            tooMany(h) == ~Fits(Unsample(between(h), sample_rate) + est1, zone_size[1])
            rate == AdjustSampling(zone_size[0], sample_rate, Len(small))
<1>1. HL_THRESH \in 0..(WordSize - 1) /\ WordSize \in Nat
  BY DistAssumption DEF Inv, TypeOK
<1>2. PICK hl \in HLSearch(0, HL_THRESH, tooMany) :
         SendAdjust(1, zone_size, rate, hl, HH_THRESH)
  BY DEF LowerHL
<1>. HIDE DEF tooMany
<1>3. hl = HL_THRESH \/ hl \in (0 + 1)..HL_THRESH
  BY DEF HLSearch
<1> QED BY <1>1, <1>2, <1>3

LEMMA AdjustMem1Keeps ==
  ASSUME Inv, state = 1, crashed' = crashed,
         NEW est0 \in Nat, NEW est1 \in Nat, NEW est2 \in Nat,
         NEW small \in Seq(Nat), NEW lossSum \in Nat,
         AdjustMem1(est0, est1, est2, small, lossSum)
  PROVE  Kept'
<1>1. CASE /\ lossSum * RatioDen < EgressEntries * RatioNum
           /\ TurnHealthy(lossSum, est2)
  <2>1. Fits(lossSum, EgressEntries)
    <3>1. lossSum * RatioDen \in Nat /\ EgressEntries * RatioNum \in Nat
      BY ControllerAssumption
    <3> QED BY <1>1, <3>1 DEF Fits
  <2>2. SizeFor(lossSum) \in 0..EgressEntries
    BY <2>1, SizeForFits, ControllerAssumption
  <2> QED BY <1>1, <2>2, HealthyKeeps DEF TurnHealthy
<1>2. CASE LowerHH(est2)
  <2>1. PICK hh \in NewHH(zone_size[2], est2) :
           SendAdjust(1, zone_size, sample_rate, hh, hh)
    BY <1>2 DEF LowerHH
  <2>2. hh \in 0..(WordSize - 1)
    BY <2>1, NewHHType, ZonesInUse DEF Inv
  <2>3. sample_rate \in 0..(SampleScale - 1)
    BY DEF Inv, TypeOK
  <2> QED BY <1>2, <2>1, <2>2, <2>3, IllKeeps DEF LowerHH
<1>3. CASE LowerHL(est1, small)
  <2>1. PICK hl \in 0..(WordSize - 1) :
           SendAdjust(1, zone_size, AdjustSampling(zone_size[0], sample_rate, Len(small)),
                      hl, HH_THRESH)
    BY <1>3, LowerHLBounds
  <2>2. AdjustSampling(zone_size[0], sample_rate, Len(small)) \in 0..(SampleScale - 1)
    <3>1. Len(small) \in Nat /\ zone_size[0] \in Nat
      BY ZonesInUse
    <3>2. sample_rate \in 0..(SampleScale - 1)
      BY DEF Inv, TypeOK
    <3> QED BY <3>1, <3>2, AdjustSamplingType
  <2>3. HH_THRESH \in 0..(WordSize - 1) /\ state' = state
    BY <1>3 DEF Inv, TypeOK, LowerHL
  <2> QED BY <2>1, <2>2, <2>3, IllKeeps
<1>4. CASE SampleMore(est0)
  BY <1>4, SamplingKeeps DEF SampleMore
<1>5. CASE Unadjusted
  BY <1>5 DEF Unadjusted, Kept, Inv, TypeOK, ZonesFit, HealthyLayout, DeployedInSync
<1> QED BY <1>1, <1>2, <1>3, <1>4, <1>5 DEF AdjustMem1

(* What decoding yields are numbers of flows.                              *)
LEMMA DecodedType ==
  ASSUME NEW j \in Zone, NEW d \in Decoded(j)
  PROVE  /\ d.n \in Nat
         /\ zone_size[j] = 0 => ~d.err /\ d.n = 0
<1>1. FlowNums \subseteq Nat
  BY ControllerAssumption
<1>2. CASE zone_size[j] = 0
  <2>1. d \in [err : {FALSE}, n : {0}]
    BY <1>2 DEF Decoded, DecodeErrors, Decodes
  <2>2. d.n = 0 /\ d.err = FALSE
    BY <2>1
  <2>3. d.n \in Nat
    BY <2>2
  <2> QED BY <2>2, <2>3, Zenon
<1>3. CASE zone_size[j] # 0
  <2>1. d \in [err : {TRUE}, n : FlowNums] \cup [err : {FALSE}, n : FlowNums]
    BY <1>3 DEF Decoded, DecodeErrors, Decodes
  <2>2. d.n \in FlowNums
    BY <2>1
  <2> QED BY <1>1, <1>3, <2>2
<1> QED BY <1>2, <1>3

LEMMA HealthyRoundKeeps ==
  ASSUME Inv, crashed' = crashed, NEW heavy \in Decoded(2), HealthyRound(heavy)
  PROVE  Kept'
<1>0. heavy.n \in Nat /\ state = 0
  BY DecodedType DEF Zone, HealthyRound
<1>1. CASE EnsureHH(heavy.n)
  BY <1>0, <1>1, EnsureHHKeeps
<1>2. ASSUME NEW median \in Decoded(1), EnsureHL0(median.n, heavy.n)  PROVE Kept'
  <2>1. median.n \in Nat
    BY DecodedType DEF Zone
  <2> QED BY <1>0, <1>2, <2>1, GrowMedianKeeps, TurnIllKeeps DEF EnsureHL0
<1>3. ASSUME NEW median \in Decoded(1), AdjustMem0(median.n, heavy.n)  PROVE Kept'
  <2>1. median.n \in Nat
    BY DecodedType DEF Zone
  <2> QED BY <1>0, <1>3, <2>1, AdjustMem0Keeps
<1> QED BY <1>1, <1>2, <1>3 DEF HealthyRound

LEMMA IllRoundKeeps ==
  ASSUME Inv, crashed' = crashed, NEW heavy \in Decoded(2), IllRound(heavy)
  PROVE  Kept'
<1>0. heavy.n \in Nat /\ state = 1
  BY DecodedType DEF Zone, IllRound
<1>1. CASE EnsureHH(heavy.n)
  BY <1>0, <1>1, EnsureHHKeeps
<1>2. ASSUME NEW small \in DecodeErrors(0), EnsureLL1(small.n)  PROVE Kept'
  <2>1. small.n \in Nat
    BY DecodedType DEF Zone, Decoded
  <2> QED BY <1>0, <1>2, <2>1, SamplingKeeps DEF EnsureLL1
<1>3. ASSUME NEW counts \in SmallCounts, NEW median \in Decoded(1), EnsureHL1(median.n, counts)
      PROVE  Kept'
  <2>1. PICK hl \in 0..(WordSize - 1) : SendAdjust(1, zone_size, sample_rate, hl, HH_THRESH)
    BY <1>3, EnsureHL1Bounds
  <2>2. /\ sample_rate \in 0..(SampleScale - 1) /\ HH_THRESH \in 0..(WordSize - 1)
        /\ state' = state
    BY <1>3 DEF Inv, TypeOK, EnsureHL1
  <2> QED BY <1>0, <2>1, <2>2, IllKeeps
<1>4. ASSUME NEW counts \in SmallCounts, NEW median \in Decoded(1), NEW fresh \in 0..Len(counts),
             AdjustMem1(Len(counts), median.n, heavy.n, counts,
                        Unsample(fresh, sample_rate) + median.n)
      PROVE  Kept'
  <2>1. counts \in Seq(Nat) /\ Len(counts) \in Nat /\ fresh \in Nat
    BY ControllerAssumption
  <2>2. median.n \in Nat
    BY DecodedType DEF Zone
  <2>3. Unsample(fresh, sample_rate) \in Nat
    BY <2>1, UnsampleType DEF Inv, TypeOK
  <2>4. Unsample(fresh, sample_rate) + median.n \in Nat
    BY <2>2, <2>3
  <2> QED BY <1>0, <1>4, <2>1, <2>2, <2>4, AdjustMem1Keeps
<1> QED BY <1>1, <1>2, <1>3, <1>4 DEF IllRound

(* The controller starts with the invariant.                               *)
LEMMA InitInv == Init => Inv
<1>. SUFFICES ASSUME Init PROVE Inv
  OBVIOUS
<1>. DEFINE z == Zones(0, InitMedian, IngressEntries - InitMedian)
<1>1. IngressEntries \in Nat /\ EgressEntries \in Nat /\ EgressEntries < IngressEntries
      /\ InitMedian \in 0..EgressEntries /\ SampleScale \in Nat \ {0} /\ WordSize \in Nat \ {0}
  BY ControllerAssumption, DistAssumption
<1>2. /\ GoodZones(z) /\ z[0] = 0 /\ z[1] = InitMedian /\ z[2] \in Nat
  BY <1>1, TwoZonesGood
<1>3. /\ state = 0 /\ zone_size = z /\ zone_base = BasesOf(z) /\ sample_rate = SampleScale - 1
      /\ HH_THRESH = 0 /\ HL_THRESH = 0 /\ HH_portion = GetPortion(0) /\ crashed = FALSE
      /\ deployed = [zone_base |-> BasesOf(z), zone_size |-> z,
                     drop_rate |-> SampleScale - 1, thresh |-> <<0, 0>>]
  BY DEF Init
<1>. HIDE DEF z
<1>4. z \in [Zone -> 0..IngressEntries] /\ z[0] + z[1] + z[2] = IngressEntries
  BY <1>2 DEF GoodZones
<1>5. BasesOf(z) \in [Zone -> 0..IngressEntries] /\ BasesOf(z)[2] = InitMedian
  BY <1>1, <1>2, <1>4 DEF BasesOf, Zones, Zone
<1>6. GetPortion(0) \in Int \X (Nat \ {0})
  BY GetPortionType
<1>7. DeployedInSync
  BY <1>3 DEF DeployedInSync
<1>8. TypeOK
  <2>1. 0 \in 0..(WordSize - 1) /\ SampleScale - 1 \in 0..(SampleScale - 1)
    BY <1>1
  <2>2. deployed.drop_rate = SampleScale - 1
    BY <1>3
  <2> QED BY <2>1, <2>2, <1>3, <1>4, <1>5, <1>6 DEF TypeOK
<1>9. ZonesFit /\ HealthyLayout /\ CrashOnlyEmptyMedian
  BY <1>1, <1>2, <1>3, <1>4, <1>5 DEF ZonesFit, HealthyLayout, CrashOnlyEmptyMedian
<1> QED BY <1>7, <1>8, <1>9 DEF Inv

(* Every step keeps it.                                                    *)
LEMMA StepInv == Inv /\ [Next]_vars => Inv'
<1>. SUFFICES ASSUME Inv, [Next]_vars PROVE Inv'
  OBVIOUS
<1>1. CASE UNCHANGED vars
  BY <1>1 DEF vars, Inv, TypeOK, ZonesFit, HealthyLayout, DeployedInSync, CrashOnlyEmptyMedian
<1>2. CASE Down
  BY <1>1, <1>2 DEF Down, vars, Inv, TypeOK, ZonesFit, HealthyLayout, DeployedInSync,
                    CrashOnlyEmptyMedian
<1>3. CASE Round
  <2>1. ASSUME NEW heavy \in Decoded(2), NEW moved \in BOOLEAN, Crash(heavy, moved)
        PROVE  Inv'
    <3>1. zone_size[1] = 0
      BY <2>1 DEF Crash, AddFlowsCrashes
    <3>2. state = 0
      BY <3>1, IllZonesGood DEF Inv, TypeOK, HealthyLayout
    <3> QED BY <2>1, <3>1, <3>2 DEF Crash, Unadjusted, Inv, TypeOK, ZonesFit, HealthyLayout,
                                    DeployedInSync, CrashOnlyEmptyMedian
  <2>2. ASSUME NEW heavy \in Decoded(2), crashed' = crashed, ~crashed,
               HealthyRound(heavy) \/ IllRound(heavy)
        PROVE  Inv'
    <3>1. Kept'
      BY <2>2, HealthyRoundKeeps, IllRoundKeeps
    <3> QED BY <2>2, <3>1 DEF Kept, Inv, CrashOnlyEmptyMedian
  <2> QED BY <1>3, <2>1, <2>2 DEF Round
<1> QED BY <1>1, <1>2, <1>3 DEF Next

(* The invariants of the controller, for every sketch, table and workload. *)
THEOREM ControllerInvariant == Spec => []Inv
BY InitInv, StepInv, PTL DEF Spec

THEOREM ControllerTypes == Spec => []TypeOK
<1>1. Inv => TypeOK
  BY DEF Inv
<1> QED BY <1>1, ControllerInvariant, PTL

(* The loss zones always lie inside the rows both sketches have.           *)
THEOREM ControllerZonesFit == Spec => []ZonesFit
<1>1. Inv => ZonesFit
  BY DEF Inv
<1> QED BY <1>1, ControllerInvariant, PTL

(* A healthy controller records every loss; an ill one keeps its layout.   *)
THEOREM ControllerHealthyLayout == Spec => []HealthyLayout
<1>1. Inv => HealthyLayout
  BY DEF Inv
<1> QED BY <1>1, ControllerInvariant, PTL

(* The next epoch is decoded with what the switches were last told.        *)
THEOREM ControllerDeployedInSync == Spec => []DeployedInSync
<1>1. Inv => DeployedInSync
  BY DEF Inv
<1> QED BY <1>1, ControllerInvariant, PTL

(* The controller divides by zero only with an empty median zone.          *)
THEOREM ControllerCrashOnlyEmptyMedian == Spec => []CrashOnlyEmptyMedian
<1>1. Inv => CrashOnlyEmptyMedian
  BY DEF Inv
<1> QED BY <1>1, ControllerInvariant, PTL

(* From an empty median zone the only ways on keep it empty and healthy.   *)
THEOREM ControllerEmptyMedianIsAbsorbing == Spec => EmptyMedianIsAbsorbing
<1>1. ASSUME Inv, [Next]_vars, zone_size[1] = 0
      PROVE  (zone_size'[1] = 0 /\ state' = 0) \/ UNCHANGED vars
  <2>1. state = 0
    BY <1>1, IllZonesGood DEF Inv, TypeOK, HealthyLayout
  <2>2. ASSUME NEW heavy \in Decoded(2), NEW moved \in BOOLEAN, Crash(heavy, moved)
        PROVE  zone_size'[1] = 0 /\ state' = 0
    BY <1>1, <2>1, <2>2 DEF Crash, Unadjusted
  <2>3. ASSUME NEW heavy \in Decoded(2), ~AddFlowsCrashes(~heavy.err /\ heavy.n # 0),
               HealthyRound(heavy)
        PROVE  zone_size'[1] = 0 /\ state' = 0
    <3>1. ~heavy.err => heavy.n = 0
      BY <1>1, <2>3, DecodedType DEF AddFlowsCrashes
    <3>2. CASE EnsureHH(heavy.n)
      BY <1>1, <2>1, <3>2 DEF EnsureHH, SendAdjust
    <3>3. ASSUME NEW median \in Decoded(1)
          PROVE  ~median.err /\ median.n = 0
      BY <1>1, DecodedType DEF Zone
    <3>4. ASSUME ~heavy.err, NEW median \in Decoded(1), AdjustMem0(median.n, heavy.n)
          PROVE  zone_size'[1] = 0 /\ state' = 0
      <4>1. PICK hh : SendAdjust(1, Zones(zone_size[0], zone_size[1],
                                          IngressEntries - zone_size[1]),
                                 sample_rate, HL_THRESH, hh)
        BY <3>1, <3>4 DEF AdjustMem0
      <4>2. zone_size'[1] = 0
        BY <1>1, <4>1 DEF SendAdjust, Zones, Zone
      <4> QED BY <2>1, <3>4, <4>2 DEF AdjustMem0
    <3> QED BY <2>3, <3>2, <3>3, <3>4 DEF HealthyRound
  <2>4. ASSUME NEW heavy \in Decoded(2), IllRound(heavy)  PROVE FALSE
    BY <2>1, <2>4 DEF IllRound
  <2> QED BY <1>1, <2>2, <2>3, <2>4 DEF Next, Round, Down
<1>2. Inv /\ [Next]_vars => [zone_size[1] = 0 => zone_size'[1] = 0 /\ state' = 0]_vars
  BY <1>1
<1> QED BY <1>2, ControllerInvariant, PTL DEF Spec, EmptyMedianIsAbsorbing

(* Apart from a failed heavy-hitter zone no round lifts HL above HH.       *)
THEOREM ControllerOnlyLoweringHHInverts == Spec => OnlyLoweringHHInverts
<1>. DEFINE Inverts == HL_THRESH <= HH_THRESH /\ HL_THRESH' > HH_THRESH'
            Lowers == /\ state = 1 /\ HH_THRESH' < HH_THRESH
                      /\ UNCHANGED <<state, zone_size, sample_rate, HL_THRESH>>
<1>1. ASSUME Inv, Next, Inverts  PROVE Lowers
  <2>0. HL_THRESH \in Nat /\ HH_THRESH \in Nat
    BY <1>1, DistAssumption DEF Inv, TypeOK
  <2>1. Inv'
    BY <1>1, StepInv
  <2>2. HL_THRESH' \in Nat /\ HH_THRESH' \in Nat
    BY <2>1, DistAssumption DEF Inv, TypeOK
  <2>3. state' = 1
    BY <1>1, <2>1, <2>2 DEF Inv, HealthyLayout, TypeOK
  <2>4. CASE Down \/ Unadjusted
    BY <1>1, <2>0, <2>4 DEF Down, vars, Unadjusted
  <2>5. ASSUME NEW heavy \in Decoded(2), HealthyRound(heavy)  PROVE FALSE
    <3>1. ASSUME NEW est1, NEW est2, TurnIll(est1, est2)  PROVE HL_THRESH' = HH_THRESH'
      BY <3>1 DEF TurnIll, SendAdjust
    <3>2. CASE \E est1, est2 : TurnIll(est1, est2)
      BY <1>1, <2>2, <3>1, <3>2
    <3>3. CASE state' = state
      BY <2>3, <2>5, <3>3 DEF HealthyRound
    <3> QED BY <2>5, <3>2, <3>3 DEF HealthyRound, EnsureHH, EnsureHL0, GrowMedian, AdjustMem0
  <2>6. ASSUME NEW heavy \in Decoded(2), IllRound(heavy)  PROVE Lowers
    <3>1. CASE EnsureHH(heavy.n)
      <4>1. HL_THRESH' = HL_THRESH
        BY <3>1 DEF EnsureHH, SendAdjust
      <4>2. HH_THRESH' < HH_THRESH
        BY <1>1, <2>0, <2>2, <4>1
      <4> QED BY <2>6, <3>1, <4>1, <4>2 DEF EnsureHH, SendAdjust, IllRound
    <3>2. ASSUME NEW est0, SendAdjust(0, zone_size,
                                      AdjustSampling(zone_size[0], sample_rate, est0),
                                      HL_THRESH, HH_THRESH)
          PROVE  FALSE
      BY <1>1, <2>0, <3>2 DEF SendAdjust
    <3>3. ASSUME NEW est1, NEW small, EnsureHL1(est1, small)  PROVE FALSE
      <4>1. PICK hl \in 0..(WordSize - 1) :
               SendAdjust(1, zone_size, sample_rate, hl, HH_THRESH) /\ hl <= HH_THRESH
        BY <1>1, <3>3, EnsureHL1Bounds
      <4> QED BY <1>1, <2>0, <2>2, <4>1 DEF SendAdjust
    <3>4. ASSUME NEW est1, NEW small, LowerHL(est1, small)  PROVE FALSE
      <4>1. PICK hl \in 0..(WordSize - 1) :
               /\ SendAdjust(1, zone_size,
                             AdjustSampling(zone_size[0], sample_rate, Len(small)),
                             hl, HH_THRESH)
               /\ hl <= HL_THRESH
        BY <1>1, <3>4, LowerHLBounds
      <4> QED BY <1>1, <2>0, <2>2, <4>1 DEF SendAdjust
    <3>5. ASSUME NEW est2, LowerHH(est2)  PROVE FALSE
      <4>1. HL_THRESH' = HH_THRESH'
        BY <3>5 DEF LowerHH, SendAdjust
      <4> QED BY <1>1, <2>2, <4>1
    <3>6. ASSUME NEW lossSum, NEW est2, TurnHealthy(lossSum, est2)  PROVE FALSE
      BY <2>3, <3>6 DEF TurnHealthy
    <3>7. ASSUME NEW est0, NEW est1, NEW est2, NEW small, NEW lossSum,
                 AdjustMem1(est0, est1, est2, small, lossSum)
          PROVE  Lowers
      BY <2>4, <3>2, <3>4, <3>5, <3>6, <3>7 DEF AdjustMem1, SampleMore
    <3> QED BY <2>6, <3>1, <3>2, <3>3, <3>7 DEF IllRound, EnsureLL1
  <2>7. ASSUME NEW heavy \in Decoded(2), NEW moved \in BOOLEAN, Crash(heavy, moved)
        PROVE  Lowers
    BY <2>4, <2>7 DEF Crash
  <2> QED BY <1>1, <2>4, <2>5, <2>6, <2>7 DEF Next, Round
<1>2. Inv /\ [Next]_vars => [Inverts => Lowers]_vars
  BY <1>1
<1> QED BY <1>2, ControllerInvariant, PTL DEF Spec, OnlyLoweringHHInverts
-----------------------------------------------------------------------------
(* The bisection that the rounds rely on, between any two thresholds and   *)
(* for every set of thresholds with too many flows.                        *)

(* The lower end was tested and found too low, the upper end tested and    *)
(* found high enough, unless they are still where the search began; the    *)
(* ends never meet.                                                        *)
Bracket ==
    /\ HL_l = lower \/ HL_l \in over
    /\ HL_r = upper \/ HL_r \notin over
    /\ lower < upper => lower <= HL_l /\ HL_l < HL_r /\ HL_r <= upper
    /\ upper <= lower => HL_l = lower /\ HL_r = upper

SearchInv == SearchTypeOK /\ Bracket

LEMMA MidFacts ==
  ASSUME SearchTypeOK, Searching
  PROVE  Mid \in Thresh /\ HL_l < Mid /\ Mid < HL_r
<1>1. HL_l \in Nat /\ HL_r \in Nat /\ HL_r <= MaxThresh
  BY SearchAssumption DEF SearchTypeOK, Thresh
<1>2. HL_r - HL_l >= 2
  BY DEF Searching
<1>3. Mid \in Nat /\ HL_l < Mid /\ Mid < HL_r
  BY <1>1, <1>2 DEF Mid
<1> QED
  BY <1>1, <1>3, SearchAssumption DEF Thresh

LEMMA SearchInvInit == SearchInit => SearchInv
BY SearchAssumption DEF SearchInit, SearchInv, SearchTypeOK, Bracket, Thresh

LEMMA SearchInvStep == SearchInv /\ [SearchNext]_search_vars => SearchInv'
<1> SUFFICES ASSUME SearchInv, [SearchNext]_search_vars PROVE SearchInv'
  OBVIOUS
<1> USE SearchAssumption
<1>0. lower \in Nat /\ upper \in Nat /\ HL_l \in Nat /\ HL_r \in Nat
  BY DEF SearchInv, SearchTypeOK, Thresh
<1>1. CASE Raise
  <2>1. Mid \in Thresh /\ HL_l < Mid /\ Mid < HL_r
    BY <1>1, MidFacts DEF SearchInv, Raise
  <2>2. Mid \in over /\ HL_l' = Mid /\ UNCHANGED <<over, lower, upper, HL_r>>
    BY <1>1 DEF Raise
  <2>3. SearchTypeOK'
    BY <2>1, <2>2 DEF SearchInv, SearchTypeOK
  <2>4. Bracket'
    BY <1>0, <2>1, <2>2 DEF SearchInv, Bracket, Thresh
  <2> QED BY <2>3, <2>4 DEF SearchInv
<1>2. CASE Sink
  <2>1. Mid \in Thresh /\ HL_l < Mid /\ Mid < HL_r
    BY <1>2, MidFacts DEF SearchInv, Sink
  <2>2. Mid \notin over /\ HL_r' = Mid /\ UNCHANGED <<over, lower, upper, HL_l>>
    BY <1>2 DEF Sink
  <2>3. SearchTypeOK'
    BY <2>1, <2>2 DEF SearchInv, SearchTypeOK
  <2>4. Bracket'
    BY <1>0, <2>1, <2>2 DEF SearchInv, Bracket, Thresh
  <2> QED BY <2>3, <2>4 DEF SearchInv
<1>3. CASE UNCHANGED search_vars
  BY <1>3 DEF SearchInv, SearchTypeOK, Bracket, search_vars
<1> QED
  BY <1>1, <1>2, <1>3 DEF SearchNext

LEMMA BracketFinds == SearchInv => FindsCrossing
<1> SUFFICES ASSUME SearchInv, ~Searching
             PROVE  HL_r \in HLSearch(lower, upper, LAMBDA h : h \in over)
  BY DEF FindsCrossing
<1>0. lower \in Nat /\ upper \in Nat /\ HL_l \in Nat /\ HL_r \in Nat
  BY SearchAssumption DEF SearchInv, SearchTypeOK, Thresh
<1>1. HL_r - HL_l < 2
  BY <1>0 DEF Searching
<1>2. CASE upper - lower < 2
  <2>1. HL_r = upper
    BY <1>0, <1>1, <1>2 DEF SearchInv, Bracket
  <2> QED BY <2>1, <1>2 DEF HLSearch
<1>3. CASE ~(upper - lower < 2)
  <2>1. lower < upper
    BY <1>0, <1>3
  <2>2. HL_r = HL_l + 1 /\ lower <= HL_l /\ HL_r <= upper
    BY <1>0, <1>1, <2>1 DEF SearchInv, Bracket
  <2>3. HL_r \in (lower + 1)..upper /\ HL_r - 1 = HL_l
    BY <1>0, <2>2
  <2>4. HL_r = lower + 1 \/ HL_r - 1 \in over
    BY <1>0, <2>2, <2>3 DEF SearchInv, Bracket
  <2>5. HL_r = upper \/ HL_r \notin over
    BY DEF SearchInv, Bracket
  <2> QED BY <1>3, <2>3, <2>4, <2>5 DEF HLSearch
<1> QED BY <1>2, <1>3

(* The two loops of main.c that bisect the thresholds end, if they end, in *)
(* a crossing: the set AttentionController lets its rounds choose from.    *)
THEOREM SearchFindsCrossing == SearchSpec => []FindsCrossing
<1>1. SearchSpec => []SearchInv
  BY SearchInvInit, SearchInvStep, PTL DEF SearchSpec
<1> QED
  BY <1>1, BracketFinds, PTL

(* If counts only fall as the threshold rises, all thresholds between the  *)
(* lower bound and the one found leave too many flows: no lower one would  *)
(* have done.                                                              *)
THEOREM SearchFindsLowest == SearchSpec => []FindsLowest
<1>1. SearchInv => FindsLowest
  <2> SUFFICES ASSUME SearchInv, ~Searching, Falling,
                      NEW h \in Thresh, lower < h, h < HL_r
               PROVE  h \in over
    BY DEF FindsLowest
  <2>0. lower \in Nat /\ upper \in Nat /\ HL_l \in Thresh /\ HL_r \in Nat /\ h \in Nat
    BY SearchAssumption DEF SearchInv, SearchTypeOK, Thresh
  <2>1. HL_r - HL_l < 2 /\ HL_l \in Nat
    BY <2>0, SearchAssumption DEF Searching, Thresh
  <2>2. lower < upper
    BY <2>0 DEF SearchInv, Bracket
  <2>3. h <= HL_l /\ HL_l # lower
    BY <2>0, <2>1, <2>2 DEF SearchInv, Bracket
  <2>4. HL_l \in over
    BY <2>3 DEF SearchInv, Bracket
  <2> QED
    BY <2>0, <2>3, <2>4 DEF Falling
<1>2. SearchSpec => []SearchInv
  BY SearchInvInit, SearchInvStep, PTL DEF SearchSpec
<1> QED
  BY <1>1, <1>2, PTL

(* The bounds of a search stay thresholds: no step leaves 0..MaxThresh.    *)
THEOREM SearchTypes == SearchSpec => []SearchTypeOK
<1>1. SearchSpec => []SearchInv
  BY SearchInvInit, SearchInvStep, PTL DEF SearchSpec
<1>2. SearchInv => SearchTypeOK
  BY DEF SearchInv
<1> QED
  BY <1>1, <1>2, PTL
=============================================================================
