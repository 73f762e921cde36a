---------------------------- MODULE EpochRounds ----------------------------
(***************************************************************************)
(* Collecting the sketches, epoch by epoch.  A switch keeps every sketch   *)
(* twice; its control plane flips a bit that says which half new packets   *)
(* are counted in, then reads out the other half (Hierarchical_Fermat.cpp, *)
(* main loop).  A packet carries the bit of the switch it entered at, so   *)
(* that it is counted in the same half where it leaves.  The Fermat        *)
(* registers are never cleared: the controller subtracts what it saw two   *)
(* epochs before (main.c, old_ingress_sketch[time_flag]), and time_flag    *)
(* flips once per processed report.                                        *)
(*                                                                         *)
(* A bucket is one counter here (its IDs follow the same arithmetic modulo *)
(* a prime) and one packet of a readout carries one bucket.                *)
(***************************************************************************)
EXTENDS Integers, Sequences, FiniteSets, FiniteSetsExt, Functions

CONSTANTS
    Dev,           \* the switches
    Filters,       \* the filter readouts ("filter1", "filter2"); Fermat's comes on top
    LastBucket,    \* buckets are 0..LastBucket, read out in this order
    CounterSize,   \* 2^32: counters wrap
    BurstSize,     \* BURST_SIZE: packets rte_eth_rx_burst returns at most
    Prompt,        \* an epoch's readout is handled before the next epoch ends
    MaxFlips,      \* bound: how often a switch flips
    MaxPackets,    \* bound: packets that enter the network
    MaxLost        \* bound: readout packets that are lost

ASSUME EpochAssumption ==
    /\ IsFiniteSet(Dev) /\ Dev # {}
    /\ LastBucket \in Nat /\ CounterSize \in Nat \ {0} /\ BurstSize \in Nat \ {0}
    /\ Prompt \in BOOLEAN
    /\ MaxFlips \in Nat /\ MaxPackets \in Nat /\ MaxLost \in Nat

Fermat == "fermat"
Kinds == Filters \cup {Fermat}
Streams == Dev \X Kinds
Bucket == 0..LastBucket
Halves == {0, 1}
Half(e) == e % 2
Epochs == 0..MaxFlips

VARIABLES
    flips,         \* flips[d]: times d flipped, the epoch it is in; flag = Half(flips[d])
    next,          \* next[d][k]: bucket that stream k reads out next
    ingress, egress,   \* [d][h][b]: packets counted where they enter and leave
    queue,         \* packets on the way to the controller and in its rx ring
    held,          \* held[d][k][b]: the buckets the controller holds
    avail,         \* the streams whose availability flag is set
    old,           \* old[h][d][b]: the fermat readouts subtracted from half h's next
    time_flag,
    reports,       \* history: what each processing round computed
    entered,       \* history: entered[e][d][b]
    flight,        \* flight[e][b]: packets of epoch e inside the network
    dropped,       \* history: dropped[e][b]
    settled,       \* history: epochs read out with no packet of their half in flight
    lost,          \* history: the readout packets lost
    overrun        \* history: the next epoch's packets came before a report was made

switchVars == <<flips, next, ingress, egress>>
ctrlVars == <<held, avail, old, time_flag, reports, overrun>>
netVars == <<entered, flight, dropped>>
vars == <<switchVars, queue, ctrlVars, netVars, settled, lost>>

Incr(c) == (c + 1) % CounterSize
Minus(a, b) == (a + CounterSize - b) % CounterSize
Done == LastBucket + 1
Blank == [epoch |-> -1, in |-> 0, out |-> 0]
PerBucket(x) == [b \in Bucket |-> x]

Init ==
    /\ flips = [d \in Dev |-> 0]
    /\ next = [d \in Dev |-> [k \in Kinds |-> Done]]
    /\ ingress = [d \in Dev |-> [h \in Halves |-> PerBucket(0)]]
    /\ egress = [d \in Dev |-> [h \in Halves |-> PerBucket(0)]]
    /\ queue = <<>>
    /\ held = [d \in Dev |-> [k \in Kinds |-> PerBucket(Blank)]]
    /\ avail = {}
    /\ old = [h \in Halves |-> [d \in Dev |-> PerBucket(Blank)]]
    /\ time_flag = 0
    /\ reports = <<>>
    /\ entered = [e \in Epochs |-> [d \in Dev |-> PerBucket(0)]]
    /\ flight = [e \in Epochs |-> PerBucket(0)]
    /\ dropped = [e \in Epochs |-> PerBucket(0)]
    /\ settled = {}
    /\ lost = {}
    /\ overrun = FALSE
-----------------------------------------------------------------------------
Population == MapThenSumSet(LAMBDA x : entered[x[1]][x[2]][x[3]], Epochs \X Dev \X Bucket)

(* A packet enters at switch d: it is counted in d's current half, whose   *)
(* bit it carries on.                                                      *)
Enter(d, b) ==
    /\ Population < MaxPackets
    /\ ingress' = [ingress EXCEPT ![d][Half(flips[d])][b] = Incr(@)]
    /\ entered' = [entered EXCEPT ![flips[d]][d][b] = @ + 1]
    /\ flight' = [flight EXCEPT ![flips[d]][b] = @ + 1]
    /\ UNCHANGED <<flips, next, egress, queue, ctrlVars, dropped, settled, lost>>

(* It leaves at some switch, which counts it in the half it was marked     *)
(* with, however late it is.                                               *)
Leave(d, e, b) ==
    /\ flight[e][b] > 0
    /\ flight' = [flight EXCEPT ![e][b] = @ - 1]
    /\ egress' = [egress EXCEPT ![d][Half(e)][b] = Incr(@)]
    /\ UNCHANGED <<flips, next, ingress, queue, ctrlVars, entered, dropped, settled, lost>>

(* Or it is lost on the way.                                               *)
Drop(e, b) ==
    /\ flight[e][b] > 0
    /\ flight' = [flight EXCEPT ![e][b] = @ - 1]
    /\ dropped' = [dropped EXCEPT ![e][b] = @ + 1]
    /\ UNCHANGED <<switchVars, queue, ctrlVars, entered, settled, lost>>

(* The main loop: flip the bit, then start the streams that read the half  *)
(* just left.  The switches flip by the clock, so none is a whole epoch    *)
(* ahead of another, and the interval is long enough for the readout; it   *)
(* is Prompt when it is long enough for the controller's work too.         *)
ReadOut(d) == \A k \in Kinds : next[d][k] = Done
Handled(e) == /\ \A c \in Dev : flips[c] > e + 1 \/ ReadOut(c)
              /\ \A i \in DOMAIN queue : queue[i].body.epoch > e

Flip(d) ==
    /\ flips[d] < MaxFlips
    /\ ReadOut(d)
    /\ \A c \in Dev : flips[c] >= flips[d]
    /\ Prompt => Handled(flips[d] - 1)
    /\ flips' = [flips EXCEPT ![d] = @ + 1]
    /\ next' = [next EXCEPT ![d] = [k \in Kinds |-> 0]]
    /\ UNCHANGED <<ingress, egress, queue, ctrlVars, netVars, settled, lost>>

(* Mutant of ReadHalf: the half the switch counts in. *)
ActiveHalf(d) == Half(flips[d])

(* The half a switch reads out: not the one it counts in.                  *)
ReadHalf(d) == 1 - Half(flips[d])

(* No packet that is counted in epoch e's half is on its way any more.     *)
Drained(e) == /\ \A d \in Dev : flips[d] > e
              /\ \A f \in 0..e, b \in Bucket : Half(f) = Half(e) => flight[f][b] = 0
FirstToRead(e) == \A d \in Dev : flips[d] = e + 1 /\ next[d][Fermat] = 0

(* A stream reads out its next bucket.  The streams recirculate            *)
(* concurrently, each sends its packets in order.                          *)
Send(d, k) ==
    LET b == next[d][k]
        e == flips[d] - 1
        body == IF k = Fermat
                THEN [epoch |-> e, in |-> ingress[d][ReadHalf(d)][b],
                                   out |-> egress[d][ReadHalf(d)][b]]
                ELSE [epoch |-> e, in |-> 0, out |-> 0]
    IN  /\ b # Done
        /\ next' = [next EXCEPT ![d][k] = b + 1]
        /\ queue' = Append(queue, [dev |-> d, kind |-> k, bucket |-> b, body |-> body])
        /\ settled' = IF k = Fermat /\ FirstToRead(e) /\ Drained(e)
                      THEN settled \cup {e} ELSE settled
        /\ UNCHANGED <<flips, ingress, egress, ctrlVars, netVars, lost>>

(* A packet of the readout is lost between switch and controller.          *)
Lose(d, k) ==
    /\ next[d][k] # Done
    /\ Cardinality(lost) < MaxLost
    /\ next' = [next EXCEPT ![d][k] = @ + 1]
    /\ lost' = lost \cup {[epoch |-> flips[d] - 1, last |-> next[d][k] = LastBucket]}
    /\ UNCHANGED <<flips, ingress, egress, queue, ctrlVars, netVars, settled>>
-----------------------------------------------------------------------------
(* What is held after the first n packets of the queue were stored.        *)
Stored(n) ==
    [d \in Dev |-> [k \in Kinds |-> [b \in Bucket |->
        LET of == {i \in 1..n : <<queue[i].dev, queue[i].kind, queue[i].bucket>> = <<d, k, b>>}
        IN  IF of = {} THEN held[d][k][b] ELSE queue[Max(of)].body]]]

(* Mutant of FlagsAfter: any packet of a stream makes it available. *)
FlagsAfterAny(n) == avail \cup {<<queue[i].dev, queue[i].kind>> : i \in 1..n}

(* Mutant of FlagsAfter: waits for the packet after the last. *)
FlagsAfterPast(n) ==
    avail \cup {<<queue[i].dev, queue[i].kind>> :
                   i \in {j \in 1..n : queue[j].bucket = LastBucket + 1}}

(* A stream is available once its last packet came.                        *)
FlagsAfter(n) ==
    avail \cup {<<queue[i].dev, queue[i].kind>> :
                   i \in {j \in 1..n : queue[j].bucket = LastBucket}}

(* Mutant of Saved: saves the other half's. *)
SavedOther(now) == [old EXCEPT ![1 - time_flag] = [d \in Dev |-> now[d][Fermat]]]

(* The readouts a round subtracted from are kept for the same half's next. *)
Saved(now) == [old EXCEPT ![time_flag] = [d \in Dev |-> now[d][Fermat]]]

(* Mutant of FlagsCleared: the flags are left set. *)
FlagsKept == Streams

(* After a round no stream is available.                                   *)
FlagsCleared == {}

(* Mutant of NextHalf: does not flip. *)
NextHalfSame == time_flag

(* The half the next round is about.                                       *)
NextHalf == 1 - time_flag

(* calculate_cur_sketch, and what the report is made of.                   *)
ReportOf(now) ==
    [half |-> time_flag,
     epochs |-> [d \in Dev |-> {now[d][k][b].epoch : k \in Kinds, b \in Bucket}],
     in |-> [d \in Dev |-> [b \in Bucket |->
                Minus(now[d][Fermat][b].in, old[time_flag][d][b].in)]],
     out |-> [d \in Dev |-> [b \in Bucket |->
                Minus(now[d][Fermat][b].out, old[time_flag][d][b].out)]]]

(* A turn of lcore_main: store the n packets of a burst, then process if   *)
(* all streams of all switches are available.                              *)
Receive(n) ==
    /\ queue' = SubSeq(queue, n + 1, Len(queue))
    /\ held' = Stored(n)
    /\ overrun' = (overrun \/ \E i \in 1..n : queue[i].body.epoch > Len(reports))
    /\ UNCHANGED <<switchVars, netVars, settled, lost>>

Wait(n) ==
    /\ FlagsAfter(n) # Streams
    /\ avail' = FlagsAfter(n)
    /\ UNCHANGED <<old, time_flag, reports>>

Process(n) ==
    /\ FlagsAfter(n) = Streams
    /\ reports' = Append(reports, ReportOf(Stored(n)))
    /\ old' = Saved(Stored(n))
    /\ avail' = FlagsCleared
    /\ time_flag' = NextHalf

RxBurst == \E n \in 1..Min({BurstSize, Len(queue)}) : Receive(n) /\ (Wait(n) \/ Process(n))

Next ==
    \/ \E d \in Dev, b \in Bucket : Enter(d, b)
    \/ \E d \in Dev, e \in Epochs, b \in Bucket : Leave(d, e, b)
    \/ \E e \in Epochs, b \in Bucket : Drop(e, b)
    \/ \E d \in Dev : Flip(d)
    \/ \E d \in Dev, k \in Kinds : Send(d, k) \/ Lose(d, k)
    \/ RxBurst

(* The switch's pipeline keeps recirculating and lcore_main polls forever. *)
Fairness == WF_vars(RxBurst) /\ \A d \in Dev, k \in Kinds : WF_vars(Send(d, k))

Spec == Init /\ [][Next]_vars /\ Fairness
-----------------------------------------------------------------------------
(* Report k is made of epoch k - 1's packets only, from every switch and   *)
(* every stream, and subtracts that epoch's half.                          *)
OfOneEpoch(k) ==
    /\ reports[k].half = Half(k - 1)
    /\ \A d \in Dev : reports[k].epochs[d] = {k - 1}

ReportsOneEpoch == \A k \in DOMAIN reports : OfOneEpoch(k)

(* Collecting implements its abstract specification: report k counts, at   *)
(* every switch, just what entered there in epoch k - 1, though the        *)
(* registers are never cleared and two halves are read in turn.            *)
Collection == INSTANCE RoundReports WITH
    epoch <- flips,
    reports <- [k \in DOMAIN reports |-> reports[k].in]

ImplementsCollection == Collection!Spec

(* A packet still inside the network when its epoch is read out is first   *)
(* reported lost and then, when it has arrived, as lost minus once in a    *)
(* later report of the same half: once none is left the losses reported    *)
(* for a half add up to the packets really dropped.                        *)
LossOf(k, b) == Minus(SumFunction([d \in Dev |-> reports[k].in[d][b]]) % CounterSize,
                      SumFunction([d \in Dev |-> reports[k].out[d][b]]) % CounterSize)

LossSettles ==
    \A e \in settled, b \in Bucket :
        LET same == {f \in 0..e : Half(f) = Half(e)}
        IN  Len(reports) > e =>
              SumFunction([f \in same |-> LossOf(f + 1, b)]) % CounterSize
                 = SumFunction([f \in same |-> dropped[f][b]]) % CounterSize

(* Every epoch that all switches have closed is reported in the end.       *)
EveryEpochReported ==
    \A e \in 0..(MaxFlips - 1) :
        (\A d \in Dev : flips[d] > e) ~> Len(reports) > e

(* The loss of a packet other than a stream's last goes unnoticed, spoils  *)
(* the report of its epoch and the next one of the same half, whose        *)
(* subtrahend is stale, and no other.                                      *)
Right(k) == reports[k].in = [d \in Dev |-> [b \in Bucket |->
                                entered[k - 1][d][b] % CounterSize]]

LostBucketHeals ==
    (\A x \in lost : ~x.last) =>
        \A k \in DOMAIN reports :
            Right(k) \/ \E x \in lost : k - 1 \in {x.epoch, x.epoch + 2}

(* The loss of one last packet is never recovered from: its epoch is not   *)
(* reported, time_flag does not follow the switches' bit any more, and     *)
(* every report from then on mixes epochs or subtracts the wrong half.     *)
LostLastDesyncs ==
    \A x \in lost : x.last =>
        \A k \in DOMAIN reports : k - 1 < x.epoch \/ ~OfOneEpoch(k)

(* Reports stay whole as long as no packet of the next epoch is handled    *)
(* before the report of the last: it is the only way, besides loss, for a  *)
(* report to be made of two epochs.                                        *)
WholeUntilOverrun == overrun \/ ReportsOneEpoch

(* No epoch is made up: a switch's readout of an epoch is complete in at   *)
(* most one report, even when reports are overrun.                         *)
NoEpochReportedTwice ==
    \A j, k \in DOMAIN reports : \A d \in Dev :
        /\ j < k
        /\ reports[j].epochs[d] = reports[k].epochs[d]
        => Cardinality(reports[j].epochs[d]) > 1
=============================================================================
