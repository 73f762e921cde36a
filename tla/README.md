# ChameleMon in TLA+

ChameleMon measures a network with sketches in programmable switches and, every
epoch, moves its attention between heavy hitters and lost packets by what the
last epoch showed. These modules model the testbed: the data plane
(`src/Testbed/Tofino switch/Hierarchical_Fermat.p4`), the switch's control plane
(`Hierarchical_Fermat.cpp`, `tableinit.py`) and the central controller
(`src/Testbed/Central controller`); and the two simulators that compare the
sketches with others: the tests of `src/CPU/Packet_loss_detection` and the trace
programs of `src/CPU/Heavy-hitter_detection_and_others`. TLC checks them on small
instances, TLAPS proves what holds for every value of the constants.

## The system

| Part | State | Operations |
|---|---|---|
| Data plane (P4) | two halves of a Fermat sketch at ingress (2 x 4096) and egress (2 x 3072), two filters (2 x 32768 of 8 bits, 2 x 16384 of 16 bits), the bit `ts_reg`, range tables, masks, the sampling bound | count an entering packet in both filters, classify it, count it in its zone, carry the bit and the class along, count it where it leaves; recirculate a readout packet |
| Switch control plane | `flag`, the sessions with the tables | every 50 ms flip the bit and send 8 packets per sketch that read the other half out; on an AdjustPkt rewrite masks, ranges, sampling bound, thresholds |
| Collection (`lcore_main`) | one sketch per switch as received, the one saved two epochs before per half, `time_flag`, an availability flag per stream | store the packets of a burst; once every stream of every switch is available: subtract, decode, adapt, save, clear the flags, flip `time_flag` |
| Adaptation (`ensure*`, `AdjustMem_*`) | `state`, zone sizes and bases, thresholds, sampling rate | after each decoding one of seven adjustments, then AdjustPkts to all switches |
| Decoding (`fermatDecode.h`) | two sketches subtracted, one candidate queue per row | peel buckets that hold one flow until none is left |
| Distribution (`threshAdjuster.h`) | a table of a flow-size distribution | interpolate a share of flows for a threshold and back |
| Loss tests (`Packet_loss_detection`) | flows sent and packets of them dropped, two FlowRadars, a LossRadar, or Fermat sketches in three variants | generate both sets from a trace, insert, take the difference, decode by peeling, compare with the truth |
| Trace programs (`Heavy-hitter_detection_and_others`) | a trace of one or two windows, one of eleven sketches per program, the true sizes | insert packet by packet, query, report heavy hitters and changes, estimate the flow-size distribution, repeat with other hash functions |

Switch and controller share no state: they meet in readout packets (switch to
controller, many per epoch, no acknowledgement, no sequence check but the index
they carry) and AdjustPkts (controller to switch, one per round). The two
one-bit clocks, the switches' `flag` and the controller's `time_flag`, are never
compared. The simulators are sequential programs (the estimator's threads
work on copies of their object with vectors of their own) and share nothing with
the testbed but the idea of the Fermat sketch, written a second time. Both
directories hold copies of the same sketch files; the map names one of them.

What is hard to test is listed at its line under "hazards" in PROJECT.json. In
short: what a lost, late or early readout packet does to the reports; whether
"the last packet came" means "all came" with eight chains recirculating at once;
whether a switch in the middle of a reconfiguration mixes two layouts; whether
the switch, which cannot divide, counts where the controller, which can, looks;
and where a long sequence of adaptations may lead (empty zones, inverted
thresholds). In the simulators: whether the order in which buckets are peeled, a
filter's false positive or a mixed bucket that `verify` accepts changes what is
found; whether a wrapped or negative counter still adds up; whether what a
sketch records twice stays in agreement (a heap and its index, a table of counts
and the counters); whether packets get lost or doubled where a key is thrown out of
the heavy part, a counter saturates, or a carry goes up a tree; and whether the estimator
comes to every split of a counter once.

## Modules

| Module | Models | Composes |
|---|---|---|
| `ThreshDist` | `read_dist`, `get_portion`, `get_HH_thresh` | |
| `ThreshCrossing` | what the threshold searches may return | |
| `ThresholdSearch` | the bisection loop of `ensureHL_1`, `AdjustMem_1` | implements `ThreshCrossing` |
| `AttentionController` | a round of `lcore_main` after decoding, all adjustments | `ThreshDist`, `ThreshCrossing` |
| `RoundReports` | abstract: report k is what entered in epoch k | |
| `EpochRounds` | flips, counting, readout packets, bursts, flags, subtraction | implements `RoundReports` |
| `SketchReadout` | recirculating chains, the tables that cut them, writing back | |
| `ZoneMap` | mask, ranges and offsets against `%` and `+` | |
| `SwitchConfig` | `adjust` as table operations, classification and placement | `ZoneMap` |
| `FermatSketch` | counting, adding, subtracting, and what a bucket of one flow says | |
| `FermatDecode` | `decode` and how its input is put together | `FermatSketch` |
| `Peeling` | abstract: items alone in a bucket are taken out, in any order | |
| `XorSketches` | the cells of FlowRadar and LossRadar, the filter, what a decoder takes out | |
| `GenerateFlows` | `generate_flows.h`: what is sent and what of it is dropped | |
| `FullFlowTest` | `full_flow_test.h`: both ends of FlowRadar and LossRadar | `XorSketches`, `GenerateFlows`; each sketch implements `Peeling` |
| `CpuFermat` | `fermat.h`, `fermat_level.h`, `fermat_8bit.h` under `full_flow_test_level.h` | `FermatSketch`, `GenerateFlows`; implements `Peeling` |
| `LossTests` | the programs of the loss tests | `FullFlowTest`, `CpuFermat` |
| `CounterSketches` | CM, CU, MRAC, the tower with Fermat behind it, the pyramid | |
| `HeavyTables` | Count sketch with a heap, UnivMon, HashPipe, Coco | |
| `ElasticSketches` | Elastic and FCM+TopK: the heavy part, the light part, the trees | |
| `HeavyReports` | queries, reports, errors, entropy's packet counts, the heavy part of a distribution | the three above |
| `FlowSplits` | how `EMFSD.h`, `EMFSD1.h`, `EM_FCM.h` take a counter apart | |
| `TraceExperiment` | the trace programs: insertion, windows, repetitions, estimation | `HeavyReports`, `FlowSplits` |
| `SumLemmas` | lemmas about sums over finite sets and about residues | |
| `CpuSketches_proofs` | theorems about `CounterSketches` and `Peeling` | |
| `AttentionController_proofs` | theorems about that module and `ThresholdSearch` | |
| other `*_proofs` | theorems about the module they name | |
| `MC*` | values for TLC | |

How state corresponds to code, where the names differ:

- `AttentionController`: names are the code's. `deployed` is what a switch that
  applied all AdjustPkts holds; `crashed` that the process died of SIGFPE. Doubles
  are exact fractions (`ratio` 21/10, `min_ratio` 18/10); a NaN converted to
  `uint16_t` is any value. What decoding yields is nondeterministic, but for an
  empty zone, which decodes to nothing. The floating-point searches are replaced
  by `HLSearch`, the set of crossings, which `ThresholdSearch` justifies.
- `EpochRounds`: `flips[d]` is the switch's epoch, its parity the bit;
  `held` is `ingress_sketch`/`egress_sketch`, `old` is `old_*_sketch`, `avail` the
  three flag arrays. `entered`, `dropped`, `settled`, `lost`, `overrun` and the epochs
  in packets are history. A bucket is one counter: the four ID fields follow the
  same additions and subtractions modulo a prime.
- `SketchReadout`: a value is a pair (round, index), so that a stale, shifted or
  foreign value is told apart. Three rows are read in the same pass; one is
  modelled. The recirculation port and the output port are FIFO queues, as a
  Tofino port is for one queue and priority.
- `SwitchConfig`: `todo` is the rest of the batch. The code brackets the operations
  with `beginBatch`/`endBatch`, which makes them one transfer to the driver, not
  one step of the data plane (only a transaction would). The three rows have
  equal tables; one is modelled.
- `FermatDecode`: `x` is the zone that `decode` takes apart, `candidate` its queues
  (circular arrays in the code, sequences here), `row` and `col` the loop counters
  `i` and `j`, `phase` where in `decode` it is. The states before `scan` follow one loss
  zone: packets counted at ingress and egress, heavy flows of the third zone put
  back (or not, if those could not be decoded), the two sums subtracted. `misled`
  records that `verify` accepted a bucket that held several flows, `dropped` that a
  queue was full. A flow is one residue; the code sums four words side by side, of
  which the last holds the fingerprint. `IDs` are the residues with a right
  fingerprint.
- `FullFlowTest`: the XOR of a cell is the set of items that it was made of. `r` is the radar
  being decoded, `at` the cell the first round looks at, `dec[r]` the decoder's arrays, queue
  and result. `mistaken` is history: a flow whose first packet a filter took for a
  later one. `Garbage` is what a new bitmap holds: `BitMap` allocates it without
  clearing it.
- `CpuFermat`: as in `FermatDecode`, a flow is one residue, but fingerprints are summed
  beside it, since their prime (`PRIME_FING`) or their place (`IDSpace`) is what tells the
  three variants apart. `pause` and `acc` are the code's; `step` says where in `Decode` it
  is. `Erase` keeps any subset of the entries that became 0, because the code
  erases from the map that it iterates over.
- `TraceExperiment`: `kind` is the program; `sketch` has the shape of that program's
  sketch. `hc_candidates` is the candidates for changes by window, with their counts:
  `elasticp4.cpp` and `fcmelastic.cpp` (and its copy `fcm.cpp`) keep them over the
  repetitions, the others clear them (`Cleared`). `given` is what a light part was given of each flow; `seen` the splits of the
  current counter; `mass` the packets that an epoch distributes; `stray` what of it was
  read behind an array's end, where `Garbage` lies. The weights of an
  estimator are floating point: what it adds for a counter is a weighted mean of its
  splits, here one split, any, which is enough for properties that are linear in
  it. Coco's takeover with a random probability is a nondeterministic choice. Flow 0 is the key
  of an empty bucket: the code cannot tell them apart. `countheap.cpp` queries
  with the bytes of a string object: some flow, chosen once for each loop.
  Windows follow one another in the programs that have two, each with a sketch
  of its own; `before` is the first, of which `countheap.cpp` forgets the true sizes.

## Runs

| Run | Shows | Bounds |
|---|---|---|
| `controller` | zones fill the rows and lie in the egress rows, layout by state, switches in sync, the only crash, the absorbing empty median zone, the only step that inverts thresholds | a sketch 256 times smaller in the same proportions; flow numbers below, at and above every zone's room; thresholds of 3 bits with a table whose top is within; counts below, between and above the thresholds. No bound on the number of rounds |
| `threshold_search` | the loop ends at a crossing, the lowest if counts fall | thresholds 0..8, all 512 sets of too low ones, all pairs of bounds |
| `epochs_prompt` | reports are whole and exact, late packets settle, every closed epoch is reported | two switches, three epochs (a half is reused), one packet that enters anywhere, leaves at any time or is dropped; counters wrap at 3; bursts of at most two |
| `epochs_lossy` | what the loss of one readout packet costs | one switch, five epochs so that two later rounds of the same half are seen, two buckets so that a packet may be inner or last |
| `epochs_overrun` | reports mix epochs only after an overrun, no epoch twice | two symmetric switches, bursts of three, no traffic |
| `sketch_readout` | complete readouts, clean filters, no write below an array | two chains of two packets with 3, 1 and 2 values; both halves; one packet on the wire |
| `switch_config` | counted where decoded, no mixed layouts, classes by thresholds and the share that is sampled | 5-bit indices, nine messages in any order, filters that saturate at 3 and 7 |
| `fermat_decode` | packet counts are kept through subtraction, peeling and merging; no decodable bucket is overlooked and no queue overflows; unless `verify` was misled the flows found are exactly those outside the largest entangled set, and the verdict on the counters is right; `decode` ends | three rows of three buckets, four flows, the prime 13 below 2^4; nine families of hash functions (no collision, pairs that collide in one, two and all rows, entangled sets of two to four flows, flows that come loose only in later passes); up to five packets, two in and one out per flow |
| `loss_tests` | each decoder finds what `Peeling` finds, with the right packets, whatever its order; a loss is credited to a flow exactly if it is outside the core; what is in the buckets and what was found add up to what was put in, negative and wrapped counters included; every decoder ends | four flows of up to two packets in two rows of three cells, four placements (a chain, cores of two and three, one that leaves a single flow), filters that tell flows apart or take one for two others; four flows in three rows of three buckets (no core, one of two or of all, a chain that comes loose from the last row backwards), prime 13, two fingerprints or a prime of 5 for them, packets lost up to half of what a counter holds, so that a mixed bucket taken for a flow makes counters negative; 4 passes and 3 verifications of a flow instead of 10000 and 1000, so that both limits are reached |
| `trace_experiment` | estimates stay on their side of the truth after every packet, records kept twice agree, packets are kept from the trace to the distribution, splits are complete and without repetition, reports err no more than the estimates they are made of | every trace of six or seven packets of three flows (of up to eight for the heap), for FCM runs of packets that make paths meet in one node, in several and on two layers; two windows of four packets of two flows each, some of up to six packets of three, in the programs that take two; two repetitions, which in Elastic and FCM+TopK find candidates of the first one that they no longer hold; saturation at 3 and 6, thresholds 2 for the tower and for changes (equal in the code, too) and 3 for heavy flows |
| `filter1_readout` | a disagreement of code and comment, see below | as `sketch_readout` |
| `same_trace` | another one | as `trace_experiment`, Elastic and FCM+TopK |

`sketch_readout` has one packet on the wire because what the controller does with
it touches no state of the switch: with more, the deliveries only commute with
the passes; the theorems hold for any number of packets, chains and rounds. `switch_config` checks deadlock; the other runs with `CHECK_DEADLOCK
FALSE` stop where the bound on flips, the search or the decoding ends. A prime as
small as 13 makes `verify` accept wrong buckets often, which the code's 32 bits and
20-bit fingerprint make rare: the run reaches misled decodings that succeed, that fail
and that stop only at the limit. In `loss_tests` the same prime shows what a mixed bucket does
to each variant. `trace_experiment` covers eleven programs that do not interact:
its next-state relation is the disjunction of their steps, and `kind` never changes.

**Fairness.** `lcore_main` polls in a loop and never blocks: weak fairness of
`RxBurst`. Recirculation is hardware: weak fairness of each stream's `Send`, and
of the readout's steps in `SketchReadout`. `decode` is a
sequential loop: weak fairness of `Decode`. The loss tests run in one thread that
nothing stops: weak fairness of the next step. Nothing is assumed of packets entering
or leaving, of losses, or of flips.

**Assumption of promptness.** `Prompt` in `EpochRounds` says that an epoch's readout
is handled before the next epoch ends. The code has no such guard: it relies on
its interval (50 ms, or 15 s without a start time). `epochs_overrun` shows what is
left without it. That a switch does not flip before its own readout has ended is
taken for granted in all runs.

**Findings.** `filter1_readout` fails: `tableinit.py:191` has `+1` where the other
eleven lines have `-1`. Filter 1's packets from the first half are two values too
long or too short and four counters per chain are wrong in the controller, though
it takes the filter to be complete. `tower_query` reads these counters when it
sets the lower threshold. `CleanBeforeReuse` shows that the filter is nevertheless
cleaned completely, and `WholeWhenAvailable` that the second half is right.

`same_trace` fails: `Elastic_P4.h:61` and `FCMelastic.h:57` copy the key that the
heavy part threw out over the caller's key, and the callers pass a pointer into the
trace. The next repetition measures another trace, though `common_func.h:30` says that
each algorithm measures the same one, and `fcmelastic.cpp:35` counts the thrown-out
flow instead of the one that arrived.

**Behaviour worth knowing** that the passing runs establish: with an empty median
zone (a round with next to no loss in the ill state) the controller never
measures a median loss again, and dies of a division by zero when the first heavy
hitter is decoded (`EmptyMedianIsAbsorbing`, `CrashOnlyEmptyMedian`); after a lost
last packet the two one-bit clocks disagree for good (`LostLastDesyncs`). A wrongly
accepted bucket can send `decode` back and forth between two buckets until it has
recorded as many flows as the result holds; nothing is written beyond it. A flow that
shares all its buckets with another is never found, and neither are flows entangled
with it in every row, but all others are (`PeelsToCore`).

Of the simulators, where a property's wording depends on it:

- `load_data_flow` may drop packets of a flow that is never sent, if it is asked for fewer
  flows than it drops packets of; no sketch can find it (`LossesCredited`).
- `verify` computes the fingerprint of a negative counter from the unsigned word in
  `fermat.h`, from its magnitude in `fermat_level.h`; the sums of fingerprints hold until a
  mixed bucket was accepted only (`CpuConserved`).
- The heap of `CountHeap.h` sifts up to place 1 at most, so its root need not be the
  smallest (`HeapAgrees`).
- FCM+TopK counts an arriving flow by one where Elastic counts what the thrown-out flow had.
  `EM_FCM.h:599` adds up arrays one element longer than those of its threads (`stray`), and
  its virtual counters of a high degree may lose packets (`PacketsKept`).
- Fermat_tower's entropy counts packets between the tower's threshold and its
  saturation twice. `elasticp4.cpp:186` adds to a distribution that may be too short,
  which `fermat.cpp:181` makes longer first.
- Empty buckets of HashPipe and Coco are reported as the flow 0. `countheap.cpp:120` and
  `:129` pass a string object where its bytes are meant, and subtract unsigned:
  reported changes are only known to be among the candidates (`ReportsRight`). They are
  compared with what the second window has alone, since `:172` clears the first one's
  true sizes before.
- `elasticp4.cpp:12` and `fcmelastic.cpp:15` declare `hc_candidates` outside the loop over
  repetitions and never clear it, as `coco.cpp:24`, `countheap.cpp:25` and `univmon.cpp:27`
  do. From the second repetition on they also report flows that only an earlier
  repetition's sketch held. Elastic queries them anew; FCM+TopK compares the count that
  the earlier sketch gave (`f.second`), so that the scores it averages are not each that
  of one choice of hash functions. `ReportsRight` holds with these candidates: the changes of
  the flows held are all reported, and those reported differ by the counts compared.
- `ReadTraces` drops a trace's first packet. F1 without a heavy hitter on either side is 0/0.
  `Insert_one` of `fermat_level.h` and `fermat_8bit.h` would index by the wrong row, but
  nothing calls it; `hashpipe.cpp:90` deletes a pointer that was never set. Of
  these only the first has a part in the models (a trace is what remains).

## Proofs

- `AttentionController_proofs`: all seven properties of the run `controller`, for
  every geometry, distribution table, flow number and count that
  `ControllerAssumption` and `DistAssumption` allow. The inductive invariant joins
  the five safety invariants with what they rest on. The bound of the bases rests on
  the size `ensureHL_0` or `AdjustMem_1` computes being at most the egress width,
  hence on `RatioDen <= RatioNum` and the comparison before it; that `AdjustMem_0`
  only shrinks rests on `min_ratio <= ratio`. The empty zone's absorption needs
  that an empty zone cannot fail to decode and that a heavy hitter crashes first.
  The module begins with the distribution: thresholds are 16-bit values; with a
  share of zero the table returns its top whatever the load (`TopIsSticky`).
  It ends with the bisection, which ends only at a crossing, for every width.
  The invariant: the left end is the lower bound or too low, the right end the
  upper bound or not too low, and the order of the bounds is that of the call. If
  counts only fall as the threshold rises, the crossing is the lowest
  (`SearchFindsLowest`): the left end, being too low, makes all below it so.
- `EpochRounds_proofs`: all safety properties of the three `epochs_*` runs
  and the refinement of `RoundReports` (`CollectionImplemented`), for any
  number of switches, streams, buckets, flips and losses, any counter width and burst
  size. The inductive invariant `IInv` begins with the way of each bucket of each stream
  (`Transit`): what the queue still holds of it is newer than what the controller holds
  and in the order it was read (`Ordered`), not newer than what the switch has read
  (`Sent`), and, but for losses, everything in between (`Complete`); so who has the last
  bucket of an epoch that lost nothing has the others (`HeldWhole`). On that rest the
  rounds: as long as the last packets come and no report is overrun, there are as many
  rounds as epochs whose last packets are all there, and a flag is set exactly for the
  streams that are one ahead (`InStep`). `Prompt` then gives `InTime`: when a switch may
  flip, the round before has been done, because otherwise all its flags would be set
  (`HandledReported`), so no switch is more than one epoch ahead of the reports. Then
  each half counts, from its last readout without a gap, exactly the epoch that is
  counted in it (`Counted`); the differences are right because subtracting modulo the
  width cancels what was there before (`MinusResidue`). Two parts assume nothing of time
  and losses: every report takes a last packet of every stream that none before it took
  (`Advancing`), so no switch's readout of an epoch is complete in two reports; and a
  stream that has lost the last packet of epoch e has, once it is beyond e, been ahead
  of the rounds by one packet less (`Skips`), so no later report can be of its own epoch
  (`Desynced`). `ReportsOneEpoch`, `LostBucketHeals` and the refinement have `Prompt` as a
  hypothesis, the first and the last that nothing is lost, as in the runs.
  `LossSettles` has both too. It relates sums over all switches to sums over epochs
  (`LossInv`): in each half the switches counted as many packets in as out, but for those on
  their way or dropped (`Balanced`), and nothing enters an epoch that all switches have
  left, so what was drained stays drained (`StaysDrained`). The readouts of a settled
  epoch are those of the registers until it is reported (`Fresh`). As each report
  subtracts what the previous one of its half saved, the losses reported add up
  to the last readout alone (`Telescopes`), which for a settled epoch is what was dropped.
- `SketchReadout_proofs`: the three safety properties of the run `sketch_readout`, for
  any number of chains and rounds, of packets per chain and values per packet. The
  hazard is that only the packet with the greatest index sets the flag while eight chains
  per sketch run at once. The inductive invariant says first that chains stay in step
  (`InStep`): of two live packets of a sketch the one of the earlier chain is as far as
  the other, and farther once it is behind it in the loop; so the packet with the
  greatest index leaves when no other of its sketch is left, and arrives after all of
  them (`LastAlone`), which needs both queues to be FIFO. Then it follows an index from
  the chain to the controller: a filter counter is uncleaned exactly as long as it is
  ahead of a packet of its chain (`Uncleaned`); a packet's values are those of the indices
  behind its own, two for each with an egress bucket, in the places where the
  controller looks for them (`Fill`, from `PlaceNext`: a pass moves every entry by what
  it puts in front); and each index of the half is ahead of a packet, in one, or
  written (`Data`). Filter 1's entries are two too far in one half, so `Fill` and
  `Data` leave it out there; that it is clean and underruns nothing holds nevertheless
  (`Entries`: an entry two too far is still within the chain, as a packet carries more
  than two values).
- `SwitchConfig_proofs`: all three properties of the run `switch_config`, for every
  word width, all messages and any order of them. The inductive invariant: what is
  still to do is the rest of the last message's batch, and each table holds what the operations
  before that rest have put there since they cleared it; the filters' tables, if
  the message leaves them alone, hold the ranges of the last thresholds
  (`Applied`). A range table never has entries of two messages, which keeps ranges
  disjoint even before it is cleared (`OneMessage`). That a range found belongs to a
  mask of the same message rests on the order in `adjust`: clear, masks, ranges. To
  read a batch, a concatenation of pieces of any length, by its places, the
  first lemmas say where each operation is and that no entry is missing; then
  `RangesMapAsDecoded` says where the ranges put a hash: for every width, zone and mask
  where the controller computes it, because the ranges are disjoint (multiples of the
  size) and the wrapped offset cancels modulo the width.
- `CpuSketches_proofs`: Count-Min, conservative update and the tower, fed packet by
  packet as the programs do, never answer with less than they counted, for every
  number and size of rows, all hash functions and traces. The invariant is stronger than
  the query: each counter of a flow, not only the smallest, has at least the flow's
  packets; conservative update keeps it because a counter it leaves alone is
  already larger than the query. The tower's counters, both of a flow, have at
  least what the tower kept of it, which is at most `ELE_THRESHOLD`: none saturates
  below that, and the Fermat sketch was given the rest. Needs the masks in the
  order of the code's, 255 to 65535, and the stand-in for a saturated counter above them. The theorems are about the operators
  of `CounterSketches`, under a next-state relation of its own: `TraceExperiment`, whose
  `EstimatesBounded` says this of its traces, reaches recursive operators.
  Its second part is about `Peeling`: for all items, buckets and placements, what stays
  when no item is alone in a bucket is the largest set without such an item, in whatever
  order the others were taken out (`PeelingOrder`). The inductive invariant: what was put in
  and is gone never belonged to a set of items that are all entangled; the argument is that
  an item of such a set shares its buckets in every larger set too, and that the union of
  such sets is one. By `PeelingImplemented` each sketch of the loss tests is an instance.
- `FermatDecode_proofs`: all four safety properties of the run `fermat_decode`, and its
  types, for every geometry, prime, hash functions and traffic. First, whatever `verify`
  accepts, no decodable bucket is overlooked and the arrays are large enough. The inductive
  invariant `IInv` bounds each queue by the rows
  looked through since its own turn: looking through a row never fills a bucket of that
  row and empties one for every flow it decodes, so a row adds at most `Width` entries
  to another row's queue, and each queue has its turn before `Rows` of them. In the
  middle of a row, the bound is what the row's empty buckets allow (`Spare`). That the
  first round queues earlier rows only is what keeps it within the same bound. With
  room in the queues, each bucket a decoding changes is queued or still ahead
  (`AllPending`). `FullInv` adds three parts. `Balance`: in every row, a bucket holds, modulo
  the counter's size and modulo the prime, the sums over the flows hashed there of what the
  decoded counts left, through counting, putting back, adding and subtracting (`Conserved`);
  `merge_flows` adds counters modulo their size, so that after merging wrong entries the IDs
  no longer follow. `Exact`: until `verify` was misled the result names different flows
  with their true counts, none of the core, and at most one for each bucket in whose
  flows nothing remains, so it never reaches its limit; at the end no bucket of one
  flow is left, because `verify` accepts such a bucket (the inverse of the
  count recovers the ID, also of a negative one), so what remains is the core (`PeelsToCore`).
  `Verdict`: the return value says whether all counters are 0, and `fake_num` counts the
  entries that merging has set to 0. A sum that is 0 in every bucket of a row is no proof that
  nothing is left, unless all differences have one sign: flows that only lost packets
  (`VerdictIsRight`). `IDAddIsModular` is the switch's addition without a remainder.
- `LossTests_proofs`: what the XOR sketches find, and that all sketches of the loss tests
  implement `Peeling`, for every trace, way to drop packets, number and size of rows, hash
  functions, filters and garbage in them. The invariant of the radars (`RadarInv`): as long
  as its filter has not mistaken a flow, a radar's cells hold the XOR, the number and the
  packets of the items that are left, these contain the core, and the result is what was
  taken out with its packets (`Decoding`). The hazard is that the first round queues only
  cells behind it; so the invariant says that every cell with a count of 1 is queued or still
  to be scanned. When a decoder returns none is, so no item that is left is alone in a cell, and the
  rest is the core (`StoppedAtCore`). From that `LossesCredited`: FlowRadar 2 holds
  a part of FlowRadar 1's flows, all with the same cells, so its core is part of the
  other's, and a flow outside is credited with the difference of two true counts. For the refinement,
  `LeftKnown` says that the items that are left can be read in the cells. The Fermat sketches
  need less, since the history variable `misled` compares each bucket with the truth when `verify` accepts it: until it
  is set the result names dropped flows only (`OnlyDropped`), and a flow that is found is alone in its
  bucket (`FoundAlone`) and settled by the signed sum (`SettledBy`).

`WordBitsAssumption` states that `2^WordBits` is a positive natural,
`CounterAssumption` that `2^30` is one, and `ConfigAssumption` that masks fit in a
word (they do for all sizes that pass `MaskAssert`): facts about powers that no
backend derives. `ConfigAssumption` also says what the types of AdjustPkt's
fields do, that sizes, bases and the sampling bound are words. `ReadoutAssumption` says that a
packet of filter 1 carries more than two values (1024 in `tableinit.py`).

`SketchAssumption` has `CounterSize` between the prime and its double (2^32 - 5 and 2^32),
`PrimeAssumption` states Fermat's little theorem for the powers that the code
computes, which is what its constant being prime means. `DecodeAssumption` has more than one
row, and fewer packets in an epoch than the prime and than half of what a counter counts:
otherwise a count is not known from its residue, here or in the code. `CpuFermatAssumption`
has different IDs for different flows and a loss of each that a counter can
count; `FullFlowAssumption` types the hash functions.

The proofs about sums do not use the library's induction, whose argument is an operator:
`SumLemmas` takes, of the set of subsets for which a fact fails, a smallest one
(`SubsetInduction`), and where a proof goes along a sequence of rounds, entries or powers,
it takes a least counterexample among the natural numbers (`LeastNat`).

Only model-checked:

- everything temporal beyond `[]` (liveness and fairness are out of the prover's reach);
- `FermatFindsAll`: that the simulator's Fermat sketches find all that peeling can. It holds
  under the bounds of the run, but not for all constants: a bucket whose count the
  fingerprints' prime divides is never accepted, and the limits on passes and on how
  often a flow is verified end a decoding early;
- `SumsConserved`: the result adds up in a signed integer what the sketch subtracts
  modulo the prime, which agree only while the packets taken out of a flow by
  mistake do not wrap it;
- `TraceExperiment` and what it composes, but for the operators of `CounterSketches`
  above: its heaps and splits are RECURSIVE operators, which no proof can reach.

## Not modelled

- Linear counting, the weights of the estimators, relative errors, the distance
  of distributions (WMRD), entropy and cardinality: logarithms and quotients in
  floating point. The packet counts that go into them are modelled.
- Wrongly accepted buckets in the Fermat sketch behind the tower: with `USE_FING` 0
  (`common_func.h:97`) `verify` takes a mixed bucket for a flow once in `entry_num`, and
  `Decode` may leave flows in `Eleresult` that the trace does not have. `CpuFermat` models
  that for the loss tests, bucket by bucket; in `TraceExperiment` any flows may fail to
  be decoded, but those in `Eleresult` are the trace's, with their counts. What is said
  of Fermat_tower there is said of decodings that nothing misled.
- Hash functions: any function of the small sets that a run gives; CRC tables are data.
- Files of the simulators that no program runs: `CMHeap.h`, which nothing includes and which
  does not compile, `entropy_ams.h`, `Hll`, the deletion of the pyramid, `inserthalf_CU` of
  the tower.
- Forwarding (ARP, ECMP), the setup of ports, sessions and memory pools, the build, and log
  output do not touch the sketches.
- A reconfiguration in the middle of an epoch, whose packets are counted in two
  layouts, needs `SwitchConfig` and `EpochRounds` in one model.
- Real time: how late a switch flips after an overrun (`Hierarchical_Fermat.cpp:697`).

## Plan

1. A composition of reconfiguration and collection: which report is the first one
   counted in the new layout by all switches, and what is decoded before; what it
   promises follows from the invariants of its two parts.
2. `TraceExperiment` with recursive functions in the place of its RECURSIVE operators, so
   that `EstimatesBounded` can be stated of the programs and not only of the sketches.
