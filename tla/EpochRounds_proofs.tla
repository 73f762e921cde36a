------------------------- MODULE EpochRounds_proofs -------------------------
(***************************************************************************)
(* For any number of switches, streams, buckets and flips, any counter     *)
(* width and any loss: which reports are whole, and what they count.       *)
(*                                                                         *)
(* The inductive invariant follows each bucket of each stream from the     *)
(* switch through the queue to the controller: what the queue still holds  *)
(* of it comes after what the controller holds (Ordered), is not newer     *)
(* than what was read (Sent), and is all there is but for losses           *)
(* (Complete).  The rounds are then in step with the epochs as long as     *)
(* every stream's last packets come and no report is overrun (InStep).     *)
(*                                                                         *)
(* What the reports count then rests on a balance: what entered in a half  *)
(* and has not left is on its way or was dropped (Balanced).  The readouts *)
(* of a settled epoch differ by what was dropped since counting began, and *)
(* the losses already reported by as much as the readouts did the last     *)
(* time (Telescopes).                                                      *)
(***************************************************************************)
EXTENDS EpochRounds, SequenceTheorems, SumLemmas

Turns == -1..MaxFlips
Value == 0..(CounterSize - 1)
Body == [epoch : Turns, in : Value, out : Value]
Packet == [dev : Dev, kind : Kinds, bucket : Bucket, body : Body]
Report == [half : Halves, epochs : [Dev -> SUBSET Turns],
           in : [Dev -> [Bucket -> Value]], out : [Dev -> [Bucket -> Value]]]

TypeOK ==
    /\ flips \in [Dev -> Epochs]
    /\ next \in [Dev -> [Kinds -> 0..Done]]
    /\ ingress \in [Dev -> [Halves -> [Bucket -> Value]]]
    /\ egress \in [Dev -> [Halves -> [Bucket -> Value]]]
    /\ queue \in Seq(Packet)
    /\ held \in [Dev -> [Kinds -> [Bucket -> Body]]]
    /\ avail \subseteq Streams
    /\ old \in [Halves -> [Dev -> [Bucket -> Body]]]
    /\ time_flag \in Halves
    /\ reports \in Seq(Report)
    /\ entered \in [Epochs -> [Dev -> [Bucket -> Nat]]]
    /\ flight \in [Epochs -> [Bucket -> Nat]]
    /\ dropped \in [Epochs -> [Bucket -> Nat]]
    /\ settled \subseteq Epochs
    /\ lost \subseteq [epoch : Epochs, last : BOOLEAN]
    /\ overrun \in BOOLEAN
-----------------------------------------------------------------------------
(* Queue position i carries bucket b of stream <<d, k>>, read in epoch     *)
(* Ep(i).                                                                  *)
Ep(i) == queue[i].body.epoch
Carries(i, d, k, b) == queue[i].dev = d /\ queue[i].kind = k /\ queue[i].bucket = b
SameStream(i, j) == queue[i].dev = queue[j].dev /\ queue[i].kind = queue[j].kind

(* The epoch in which the switch last read the bucket, -1 if never.        *)
Latest(d, k, b) == IF b < next[d][k] THEN flips[d] - 1 ELSE flips[d] - 2

(* A packet, or a last packet, of epoch e was lost.                        *)
Gap(e) == \E x \in lost : x.epoch = e
GapLast(e) == \E x \in lost : x.last /\ x.epoch = e

(* A switch that has not flipped reads nothing out.                        *)
Idle == \A d \in Dev : flips[d] = 0 => ReadOut(d)

(* A stream's packets are queued in the order they were read, after those  *)
(* that the controller has.                                                *)
Ordered ==
    /\ \A i, j \in DOMAIN queue :
          (i < j /\ SameStream(i, j)) =>
              (Ep(i) < Ep(j) \/ (Ep(i) = Ep(j) /\ queue[i].bucket < queue[j].bucket))
    /\ \A i \in DOMAIN queue, d \in Dev, k \in Kinds, b \in Bucket :
          Carries(i, d, k, b) => held[d][k][b].epoch < Ep(i)

Sent ==
    \A d \in Dev, k \in Kinds, b \in Bucket :
        /\ held[d][k][b].epoch <= Latest(d, k, b)
        /\ \A i \in DOMAIN queue : Carries(i, d, k, b) => Ep(i) <= Latest(d, k, b)

Complete ==
    \A d \in Dev, k \in Kinds, b \in Bucket, e \in Epochs :
        (e <= Latest(d, k, b) /\ (~Gap(e) \/ (b = LastBucket /\ ~GapLast(e)))) =>
            \/ e <= held[d][k][b].epoch
            \/ \E i \in DOMAIN queue : Carries(i, d, k, b) /\ Ep(i) = e

(* Who has the last bucket of an epoch has the others too.                 *)
HeldWhole ==
    \A d \in Dev, k \in Kinds, b \in Bucket :
        ~Gap(held[d][k][LastBucket].epoch) =>
            held[d][k][LastBucket].epoch <= held[d][k][b].epoch

Transit == Idle /\ Ordered /\ Sent /\ Complete /\ HeldWhole
-----------------------------------------------------------------------------
(* A round begins as soon as it can.                                       *)
NotAll == avail # Streams

(* The controller has done as many rounds as there are epochs of which it  *)
(* has all last packets, and holds nothing of the epoch after the next.    *)
LastsArrive == \A x \in lost : ~x.last
Reported == Len(reports)

InStep ==
    (LastsArrive /\ ~overrun) =>
        /\ time_flag = Half(Reported)
        /\ \A d \in Dev, k \in Kinds :
              /\ held[d][k][LastBucket].epoch \in {Reported - 1, Reported}
              /\ <<d, k>> \in avail <=> held[d][k][LastBucket].epoch = Reported
        /\ \A d \in Dev, k \in Kinds, b \in Bucket : held[d][k][b].epoch <= Reported
        /\ \A j \in DOMAIN reports : Gap(j - 1) \/ OfOneEpoch(j)

(* With time for the controller's work, no report is overrun.              *)
InTime ==
    (Prompt /\ LastsArrive) =>
        /\ ~overrun
        /\ \A d \in Dev : flips[d] - 1 <= Reported

(* A half holds what it held when it was last read without a gap, and the  *)
(* packets that entered since.                                             *)
Unentered == \A e \in Epochs, d \in Dev, b \in Bucket : flips[d] < e => entered[e][d][b] = 0

Counted ==
    (Prompt /\ LastsArrive) =>
        /\ \A x \in {Reported, Reported + 1} \cap Epochs, d \in Dev, b \in Bucket :
              Gap(x - 2) \/ ingress[d][Half(x)][b]
                               = (old[Half(x)][d][b].in + entered[x][d][b]) % CounterSize
        /\ \A i \in DOMAIN queue, d \in Dev, b \in Bucket :
              (Carries(i, d, Fermat, b) /\ Ep(i) = Reported) =>
                  queue[i].body.in = ingress[d][Half(Reported)][b]
        /\ \A d \in Dev, b \in Bucket :
              held[d][Fermat][b].epoch = Reported =>
                  held[d][Fermat][b].in = ingress[d][Half(Reported)][b]
        /\ \A j \in DOMAIN reports : Gap(j - 1) \/ Gap(j - 3) \/ Right(j)
-----------------------------------------------------------------------------
(* Without any assumption on losses and time: every report takes a last    *)
(* packet of every stream that no report before it took.                   *)
Bit(x) == IF x THEN 1 ELSE 0

Advancing ==
    /\ \A d \in Dev, k \in Kinds :
          Reported + Bit(<<d, k>> \in avail) <= held[d][k][LastBucket].epoch + 1
    /\ \A j \in DOMAIN reports, d \in Dev :
          /\ reports[j].epochs[d] # {}
          /\ \A e \in Turns : reports[j].epochs[d] = {e} =>
                \A k \in Kinds : e + Bit(<<d, k>> \in avail) <= held[d][k][LastBucket].epoch
    /\ NoEpochReportedTwice

(* A stream that has lost the last packet of x skips that epoch.           *)
Skips(d, k, e) ==
    /\ e <= Latest(d, k, LastBucket)
    /\ held[d][k][LastBucket].epoch # e
    /\ \A i \in DOMAIN queue : Carries(i, d, k, LastBucket) => Ep(i) # e
    /\ Reported + Bit(<<d, k>> \in avail) + Bit(e < held[d][k][LastBucket].epoch)
          <= held[d][k][LastBucket].epoch + 1

Desynced ==
    \A x \in lost : x.last =>
        /\ \E d \in Dev, k \in Kinds : Skips(d, k, x.epoch)
        /\ \A j \in DOMAIN reports : j - 1 < x.epoch \/ ~OfOneEpoch(j)

IInv == /\ TypeOK /\ Transit /\ NotAll /\ InStep /\ InTime /\ Unentered /\ Counted
        /\ Advancing /\ Desynced
-----------------------------------------------------------------------------
(* A set of queue positions has a last one: the intervals above its        *)
(* elements are finite, and strict inclusion among them is well-founded.   *)
LEMMA MaxIsGreatest ==
  ASSUME NEW n \in Nat, NEW S \in SUBSET (1..n), S # {}
  PROVE  Max(S) \in S /\ \A y \in S : y <= Max(S)
<1>. DEFINE Above(x) == (x + 1)..n
            T == {Above(x) : x \in S}
<1>1. T # {} /\ T \subseteq FiniteSubsetsOf(Nat)
  <2>1. \A x \in S : IsFiniteSet(Above(x))
    BY FS_Interval
  <2>2. \A x \in S : Above(x) \subseteq Nat
    OBVIOUS
  <2> QED BY <2>1, <2>2 DEF FiniteSubsetsOf
<1>2. \E X \in T : \A Y \in T : ~(<<Y, X>> \in StrictSubsetOrdering(Nat))
  <2>. HIDE DEF T
  <2> QED BY <1>1, WFMin, FS_StrictSubsetOrderingWellFounded
<1>3. PICK x \in S : \A y \in S : ~(<<Above(y), Above(x)>> \in StrictSubsetOrdering(Nat))
  BY <1>2
<1>4. \A y \in S : x >= y
  <2>. SUFFICES ASSUME NEW y \in S, x < y PROVE FALSE
    OBVIOUS
  <2>1. Above(y) \subseteq Above(x) /\ y \in Above(x) /\ y \notin Above(y)
    OBVIOUS
  <2>2. Above(x) \in SUBSET Nat /\ Above(y) \in SUBSET Nat
    OBVIOUS
  <2>3. Above(x) # Above(y)
    BY <2>1
  <2>. HIDE DEF Above
  <2> QED BY <1>3, <2>1, <2>2, <2>3 DEF StrictSubsetOrdering
<1> QED BY <1>4 DEF Max

(* Constants, as the steps need them.                                      *)
LEMMA Constants ==
  /\ LastBucket \in Nat /\ Done = LastBucket + 1 /\ Bucket = 0..LastBucket
  /\ LastBucket \in Bucket /\ Fermat \in Kinds /\ MaxFlips \in Nat
  /\ CounterSize \in Nat \ {0} /\ 0 \in Value /\ -1 \in Turns /\ 0 \in Epochs
  /\ Epochs = 0..MaxFlips /\ Dev # {}
BY EpochAssumption DEF Done, Bucket, Kinds, Value, Turns, Epochs

(* What the controller holds of a bucket after n packets of the queue: the *)
(* last of them that carries it, or what it held.                          *)
LEMMA StoredIs ==
  ASSUME TypeOK, NEW n \in 0..Len(queue), NEW d \in Dev, NEW k \in Kinds, NEW b \in Bucket
  PROVE  \/ /\ \A i \in 1..n : ~Carries(i, d, k, b)
            /\ Stored(n)[d][k][b] = held[d][k][b]
         \/ \E i \in 1..n : /\ Carries(i, d, k, b)
                            /\ \A j \in 1..n : Carries(j, d, k, b) => j <= i
                            /\ Stored(n)[d][k][b] = queue[i].body
<1>. DEFINE of == {i \in 1..n : <<queue[i].dev, queue[i].kind, queue[i].bucket>> = <<d, k, b>>}
<1>1. Stored(n)[d][k][b] = IF of = {} THEN held[d][k][b] ELSE queue[Max(of)].body
  BY DEF Stored
<1>2. \A i \in 1..n : i \in of <=> Carries(i, d, k, b)
  BY DEF Carries
<1>3. of \in SUBSET (1..n) /\ n \in Nat
  BY DEF TypeOK
<1>. HIDE DEF of
<1>4. CASE of = {}
  BY <1>1, <1>2, <1>4
<1>5. CASE of # {}
  <2>1. Max(of) \in of /\ \A y \in of : y <= Max(of)
    BY <1>3, <1>5, MaxIsGreatest
  <2> QED
    BY <1>1, <1>2, <1>3, <1>5, <2>1
<1> QED
  BY <1>4, <1>5

LEMMA QueueTyped ==
  ASSUME TypeOK
  PROVE  /\ Len(queue) \in Nat /\ DOMAIN queue = 1..Len(queue)
         /\ \A i \in 1..Len(queue) :
               /\ queue[i] \in Packet
               /\ queue[i].dev \in Dev /\ queue[i].kind \in Kinds /\ queue[i].bucket \in Bucket
               /\ queue[i].body \in Body /\ Ep(i) \in Turns /\ Ep(i) \in Int
<1>1. Len(queue) \in Nat /\ DOMAIN queue = 1..Len(queue) /\ queue \in Seq(Packet)
  BY DEF TypeOK
<1>2. \A i \in 1..Len(queue) : queue[i] \in Packet
  BY <1>1, ElementOfSeq
<1>3. Turns \subseteq Int
  BY DEF Turns
<1> QED
  BY <1>1, <1>2, <1>3 DEF Packet, Body, Ep

(* What is held grows newer, and stays older than what is still queued.    *)
LEMMA StoredBounds ==
  ASSUME TypeOK, Ordered, Sent, NEW n \in 0..Len(queue),
         NEW d \in Dev, NEW k \in Kinds, NEW b \in Bucket
  PROVE  /\ Stored(n)[d][k][b] \in Body
         /\ held[d][k][b].epoch <= Stored(n)[d][k][b].epoch
         /\ Stored(n)[d][k][b].epoch <= Latest(d, k, b)
         /\ \A i \in 1..n : Carries(i, d, k, b) => Ep(i) <= Stored(n)[d][k][b].epoch
         /\ \A i \in (n + 1)..Len(queue) :
               Carries(i, d, k, b) => Stored(n)[d][k][b].epoch < Ep(i)
<1>1. /\ Len(queue) \in Nat /\ DOMAIN queue = 1..Len(queue)
      /\ \A i \in 1..Len(queue) : queue[i].body \in Body /\ Ep(i) \in Int
  BY QueueTyped
<1>2. held[d][k][b] \in Body /\ held[d][k][b].epoch \in Int
  BY DEF TypeOK, Body, Turns
<1>3. /\ \A i, j \in 1..Len(queue) :
            (Carries(i, d, k, b) /\ Carries(j, d, k, b) /\ i < j) => Ep(i) < Ep(j)
      /\ \A i \in 1..Len(queue) : Carries(i, d, k, b) => held[d][k][b].epoch < Ep(i)
  <2>1. \A i \in 1..Len(queue) : Carries(i, d, k, b) => queue[i].bucket = b
    BY DEF Carries
  <2>2. \A i, j \in 1..Len(queue) :
            (Carries(i, d, k, b) /\ Carries(j, d, k, b)) => SameStream(i, j)
    BY DEF Carries, SameStream
  <2>3. b \in Int
    BY Constants
  <2>4. ASSUME NEW i \in 1..Len(queue), NEW j \in 1..Len(queue),
               Carries(i, d, k, b), Carries(j, d, k, b), i < j
        PROVE  Ep(i) < Ep(j)
    <3>1. Ep(i) < Ep(j) \/ (Ep(i) = Ep(j) /\ queue[i].bucket < queue[j].bucket)
      BY <1>1, <2>2, <2>4 DEF Ordered
    <3>2. queue[i].bucket = b /\ queue[j].bucket = b
      BY <2>1, <2>4
    <3> QED
      BY <2>3, <3>1, <3>2
  <2>5. \A i \in 1..Len(queue) : Carries(i, d, k, b) => held[d][k][b].epoch < Ep(i)
    BY <1>1 DEF Ordered
  <2> QED
    BY <2>4, <2>5
<1>4. /\ held[d][k][b].epoch <= Latest(d, k, b)
      /\ \A i \in 1..Len(queue) : Carries(i, d, k, b) => Ep(i) <= Latest(d, k, b)
  BY <1>1 DEF Sent
<1>5. CASE /\ \A i \in 1..n : ~Carries(i, d, k, b)
           /\ Stored(n)[d][k][b] = held[d][k][b]
  BY <1>1, <1>2, <1>3, <1>4, <1>5
<1>6. CASE \E i \in 1..n : /\ Carries(i, d, k, b)
                           /\ \A j \in 1..n : Carries(j, d, k, b) => j <= i
                           /\ Stored(n)[d][k][b] = queue[i].body
  <2>1. PICK i \in 1..n : /\ Carries(i, d, k, b)
                          /\ \A j \in 1..n : Carries(j, d, k, b) => j <= i
                          /\ Stored(n)[d][k][b] = queue[i].body
    BY <1>6
  <2>2. i \in 1..Len(queue) /\ Stored(n)[d][k][b].epoch = Ep(i)
    BY <1>1, <2>1 DEF Ep
  <2> QED
    BY <1>1, <1>2, <1>3, <1>4, <2>1, <2>2
<1> QED
  BY <1>5, <1>6, StoredIs

LEMMA StoredType ==
  ASSUME TypeOK, Ordered, Sent, NEW n \in 0..Len(queue)
  PROVE  Stored(n) \in [Dev -> [Kinds -> [Bucket -> Body]]]
<1>1. \A d \in Dev, k \in Kinds, b \in Bucket : Stored(n)[d][k][b] \in Body
  BY StoredBounds
<1> QED
  BY <1>1, Zenon DEF Stored
-----------------------------------------------------------------------------
(* The queue after a step, place by place.                                 *)
LEMMA BurstPlaces ==
  ASSUME TypeOK, RxBurst
  PROVE  \E n \in 1..Len(queue) :
            /\ Receive(n) /\ (Wait(n) \/ Process(n))
            /\ Len(queue') = Len(queue) - n /\ queue' \in Seq(Packet)
            /\ \A i \in 1..(Len(queue) - n) : queue'[i] = queue[n + i]
<1>1. Len(queue) \in Nat /\ \A i \in 1..Len(queue) : queue[i] \in Packet
  BY DEF TypeOK
<1>2. PICK n \in 1..Min({BurstSize, Len(queue)}) : Receive(n) /\ (Wait(n) \/ Process(n))
  BY DEF RxBurst
<1>3. Min({BurstSize, Len(queue)}) \in Nat /\ Min({BurstSize, Len(queue)}) <= Len(queue)
  BY <1>1, EpochAssumption DEF Min
<1>4. n \in 1..Len(queue)
  BY <1>1, <1>2, <1>3
<1>5. queue' = SubSeq(queue, n + 1, Len(queue))
  BY <1>2 DEF Receive
<1>6. /\ queue' \in Seq(Packet)
      /\ Len(queue') = IF n + 1 <= Len(queue) THEN Len(queue) - (n + 1) + 1 ELSE 0
      /\ \A i \in 1..(Len(queue) - (n + 1) + 1) : queue'[i] = queue[(n + 1) + i - 1]
  <2>1. \A i \in (n + 1)..Len(queue) : queue[i] \in Packet
    BY <1>1, <1>4
  <2>2. n + 1 \in Int /\ Len(queue) \in Int
    BY <1>1, <1>4
  <2> QED
    BY <1>5, <2>1, <2>2, SubSeqProperties
<1>7. Len(queue') = Len(queue) - n /\ \A i \in 1..(Len(queue) - n) : queue'[i] = queue[n + i]
  BY <1>1, <1>4, <1>6
<1> QED
  BY <1>2, <1>4, <1>6, <1>7

(* The packet that a stream sends next.                                    *)
Sending(d, k) ==
    [dev |-> d, kind |-> k, bucket |-> next[d][k],
     body |-> [epoch |-> flips[d] - 1,
               in |-> IF k = Fermat THEN ingress[d][ReadHalf(d)][next[d][k]] ELSE 0,
               out |-> IF k = Fermat THEN egress[d][ReadHalf(d)][next[d][k]] ELSE 0]]

LEMMA SendPlaces ==
  ASSUME TypeOK, Idle, NEW d \in Dev, NEW k \in Kinds, Send(d, k)
  PROVE  /\ next[d][k] \in Bucket /\ flips[d] >= 1 /\ flips[d] \in Epochs
         /\ Sending(d, k) \in Packet
         /\ Len(queue') = Len(queue) + 1 /\ queue' \in Seq(Packet)
         /\ \A i \in 1..Len(queue) : queue'[i] = queue[i]
         /\ queue'[Len(queue) + 1] = Sending(d, k)
<1>0. next[d][k] \in 0..Done /\ next[d][k] # Done /\ flips[d] \in Epochs
  BY DEF TypeOK, Send
<1>1. next[d][k] \in Bucket /\ next[d][k] # Done /\ flips[d] \in Epochs
  BY <1>0, Constants
<1>2. flips[d] >= 1
  BY <1>1, Constants DEF Idle, ReadOut
<1>3. flips[d] - 1 \in Turns
  BY <1>1, <1>2, Constants DEF Turns
<1>4. ReadHalf(d) \in Halves
  BY <1>1, Constants DEF ReadHalf, Half, Halves
<1>5. ingress[d][ReadHalf(d)][next[d][k]] \in Value /\ egress[d][ReadHalf(d)][next[d][k]] \in Value
  BY <1>1, <1>4 DEF TypeOK
<1>6. Sending(d, k) \in Packet
  BY <1>1, <1>3, <1>5, Constants DEF Sending, Packet, Body
<1>7. queue' = Append(queue, Sending(d, k))
  BY Zenon DEF Send, Sending
<1> QED
  BY <1>1, <1>2, <1>6, <1>7 DEF TypeOK
-----------------------------------------------------------------------------
LEMMA Modular ==
  ASSUME NEW a \in Int
  PROVE  a % CounterSize \in Value
BY Constants DEF Value

LEMMA ReportType ==
  ASSUME TypeOK, NEW now \in [Dev -> [Kinds -> [Bucket -> Body]]]
  PROVE  ReportOf(now) \in Report
<1>1. \A d \in Dev, k \in Kinds, b \in Bucket :
         now[d][k][b].epoch \in Turns /\ now[d][k][b].in \in Int /\ now[d][k][b].out \in Int
  BY DEF Body, Value
<1>2. \A d \in Dev, b \in Bucket :
         old[time_flag][d][b].in \in Int /\ old[time_flag][d][b].out \in Int
  BY DEF TypeOK, Body, Value
<1>3. \A x, y \in Int : Minus(x, y) \in Value
  <2> SUFFICES ASSUME NEW x \in Int, NEW y \in Int PROVE Minus(x, y) \in Value
    OBVIOUS
  <2>1. x + CounterSize - y \in Int
    BY Constants
  <2> QED
    BY <2>1, Modular DEF Minus
<1>4. \A d \in Dev, b \in Bucket :
         /\ Minus(now[d][Fermat][b].in, old[time_flag][d][b].in) \in Value
         /\ Minus(now[d][Fermat][b].out, old[time_flag][d][b].out) \in Value
  BY <1>1, <1>2, <1>3, Constants
<1>5. time_flag \in Halves
  BY DEF TypeOK
<1> HIDE DEF Minus
<1>6. ReportOf(now).half \in Halves
  BY <1>5 DEF ReportOf
<1>7. \A d \in Dev : {now[d][k][b].epoch : k \in Kinds, b \in Bucket} \in SUBSET Turns
  BY <1>1
<1> QED
  BY <1>4, <1>5, <1>7 DEF ReportOf, Report

LEMMA FlagsType ==
  ASSUME TypeOK, NEW n \in 0..Len(queue)
  PROVE  /\ FlagsAfter(n) \subseteq Streams
         /\ \A d \in Dev, k \in Kinds :
               <<d, k>> \in FlagsAfter(n) <=>
                   \/ <<d, k>> \in avail
                   \/ \E i \in 1..n : Carries(i, d, k, LastBucket)
<1>1. \A i \in 1..n : i \in 1..Len(queue)
  BY QueueTyped
<1>2. \A i \in 1..n : <<queue[i].dev, queue[i].kind>> \in Streams
  BY <1>1, QueueTyped DEF Streams
<1>3. avail \subseteq Streams
  BY DEF TypeOK
<1>4. FlagsAfter(n) \subseteq Streams
  BY <1>2, <1>3 DEF FlagsAfter
<1>5. ASSUME NEW d \in Dev, NEW k \in Kinds
      PROVE  <<d, k>> \in FlagsAfter(n) <=>
                \/ <<d, k>> \in avail
                \/ \E i \in 1..n : Carries(i, d, k, LastBucket)
  BY DEF FlagsAfter, Carries
<1> QED
  BY <1>4, <1>5

LEMMA InitType == Init => TypeOK
<1> SUFFICES ASSUME Init PROVE TypeOK
  OBVIOUS
<1>1. Blank \in Body
  BY Constants DEF Blank, Body
<1>2. PerBucket(0) \in [Bucket -> Value] /\ PerBucket(0) \in [Bucket -> Nat]
  BY Constants DEF PerBucket
<1>3. PerBucket(Blank) \in [Bucket -> Body]
  BY <1>1 DEF PerBucket
<1>4. 0 \in Halves /\ Done \in 0..Done /\ 0 \in Epochs
  BY Constants DEF Halves
<1>5. /\ ingress \in [Dev -> [Halves -> [Bucket -> Value]]]
      /\ egress \in [Dev -> [Halves -> [Bucket -> Value]]]
      /\ entered \in [Epochs -> [Dev -> [Bucket -> Nat]]]
      /\ flight \in [Epochs -> [Bucket -> Nat]] /\ dropped \in [Epochs -> [Bucket -> Nat]]
  BY <1>2, Zenon DEF Init
<1>6. /\ held \in [Dev -> [Kinds -> [Bucket -> Body]]]
      /\ old \in [Halves -> [Dev -> [Bucket -> Body]]]
  BY <1>3, Zenon DEF Init
<1>7. /\ flips \in [Dev -> Epochs] /\ next \in [Dev -> [Kinds -> 0..Done]]
      /\ time_flag \in Halves
  BY <1>4, Zenon DEF Init
<1>8. queue \in Seq(Packet) /\ reports \in Seq(Report)
  BY DEF Init
<1> QED
  BY <1>5, <1>6, <1>7, <1>8 DEF Init, TypeOK

LEMMA IncrType == \A x \in Value : Incr(x) \in Value
BY Constants DEF Incr, Value

LEMMA HalfType == \A e \in Int : Half(e) \in Halves
BY DEF Half, Halves

LEMMA EnterType ==
  ASSUME TypeOK, NEW d \in Dev, NEW b \in Bucket, Enter(d, b)
  PROVE  TypeOK'
<1>1. flips[d] \in Epochs /\ Half(flips[d]) \in Halves
  BY Constants, HalfType DEF TypeOK
<1>2. ingress' \in [Dev -> [Halves -> [Bucket -> Value]]]
  BY <1>1, IncrType DEF TypeOK, Enter
<1>3. entered' \in [Epochs -> [Dev -> [Bucket -> Nat]]]
  BY <1>1 DEF TypeOK, Enter
<1>4. flight' \in [Epochs -> [Bucket -> Nat]]
  BY <1>1 DEF TypeOK, Enter
<1> QED
  BY <1>2, <1>3, <1>4 DEF TypeOK, Enter, ctrlVars

LEMMA LeaveType ==
  ASSUME TypeOK, NEW d \in Dev, NEW e \in Epochs, NEW b \in Bucket, Leave(d, e, b)
  PROVE  TypeOK'
<1>1. Half(e) \in Halves
  BY Constants, HalfType
<1>2. egress' \in [Dev -> [Halves -> [Bucket -> Value]]]
  BY <1>1, IncrType DEF TypeOK, Leave
<1>3. flight' \in [Epochs -> [Bucket -> Nat]]
  BY DEF TypeOK, Leave
<1> QED
  BY <1>2, <1>3 DEF TypeOK, Leave, ctrlVars

LEMMA DropType ==
  ASSUME TypeOK, NEW e \in Epochs, NEW b \in Bucket, Drop(e, b)
  PROVE  TypeOK'
<1>1. flight' \in [Epochs -> [Bucket -> Nat]]
  BY DEF TypeOK, Drop
<1>2. dropped' \in [Epochs -> [Bucket -> Nat]]
  BY DEF TypeOK, Drop
<1> QED
  BY <1>1, <1>2 DEF TypeOK, Drop, switchVars, ctrlVars

LEMMA FlipType ==
  ASSUME TypeOK, NEW d \in Dev, Flip(d)
  PROVE  TypeOK'
<1>0. flips[d] + 1 \in Epochs /\ flips' = [flips EXCEPT ![d] = flips[d] + 1]
  <2>1. flips[d] \in Epochs /\ flips[d] < MaxFlips
    BY DEF TypeOK, Flip
  <2> QED
    BY <2>1, Constants DEF Flip
<1>1. flips' \in [Dev -> Epochs]
  BY <1>0 DEF TypeOK
<1>2. next' \in [Dev -> [Kinds -> 0..Done]]
  BY Constants DEF TypeOK, Flip
<1> QED
  BY <1>1, <1>2 DEF TypeOK, Flip, ctrlVars, netVars

LEMMA SendType ==
  ASSUME TypeOK, Idle, NEW d \in Dev, NEW k \in Kinds, Send(d, k)
  PROVE  TypeOK'
<1>1. next[d][k] + 1 \in 0..Done /\ flips[d] - 1 \in Epochs
  BY SendPlaces, Constants
<1>2. next' = [next EXCEPT ![d][k] = next[d][k] + 1]
  BY DEF Send
<1>3. next' \in [Dev -> [Kinds -> 0..Done]]
  BY <1>1, <1>2 DEF TypeOK
<1>4. settled' \subseteq Epochs
  BY <1>1 DEF TypeOK, Send
<1>5. queue' \in Seq(Packet)
  BY SendPlaces
<1>6. UNCHANGED <<flips, ingress, egress, ctrlVars, netVars, lost>>
  BY DEF Send
<1> QED
  BY <1>3, <1>4, <1>5, <1>6 DEF TypeOK, ctrlVars, netVars

LEMMA LosePlaces ==
  ASSUME TypeOK, Idle, NEW d \in Dev, NEW k \in Kinds, Lose(d, k)
  PROVE  /\ next[d][k] \in Bucket /\ flips[d] >= 1 /\ flips[d] \in Epochs
         /\ next' = [next EXCEPT ![d][k] = next[d][k] + 1]
         /\ lost' = lost \cup {[epoch |-> flips[d] - 1, last |-> next[d][k] = LastBucket]}
         /\ UNCHANGED <<flips, ingress, egress, queue, ctrlVars, netVars, settled>>
<1>0. next[d][k] \in 0..Done /\ next[d][k] # Done /\ flips[d] \in Epochs
  BY DEF TypeOK, Lose
<1>1. next[d][k] \in Bucket
  BY <1>0, Constants
<1>2. flips[d] >= 1
  BY <1>0, Constants DEF Idle, ReadOut
<1> QED
  BY <1>0, <1>1, <1>2 DEF Lose

LEMMA LoseType ==
  ASSUME TypeOK, Idle, NEW d \in Dev, NEW k \in Kinds, Lose(d, k)
  PROVE  TypeOK'
<1>1. next[d][k] + 1 \in 0..Done /\ flips[d] - 1 \in Epochs
  BY LosePlaces, Constants
<1>2. /\ next' = [next EXCEPT ![d][k] = next[d][k] + 1]
      /\ lost' = lost \cup {[epoch |-> flips[d] - 1, last |-> next[d][k] = LastBucket]}
      /\ UNCHANGED <<flips, ingress, egress, queue, ctrlVars, netVars, settled>>
  BY LosePlaces
<1>3. next' \in [Dev -> [Kinds -> 0..Done]]
  BY <1>1, <1>2 DEF TypeOK
<1>4. lost' \subseteq [epoch : Epochs, last : BOOLEAN]
  <2>1. (next[d][k] = LastBucket) \in BOOLEAN
    OBVIOUS
  <2>2. [epoch |-> flips[d] - 1, last |-> (next[d][k] = LastBucket)]
           \in [epoch : Epochs, last : BOOLEAN]
    BY <1>1, <2>1, Zenon
  <2> QED
    BY <1>2, <2>2, Zenon DEF TypeOK
<1> QED
  BY <1>2, <1>3, <1>4 DEF TypeOK, ctrlVars, netVars

LEMMA BurstType ==
  ASSUME TypeOK, Ordered, Sent, RxBurst
  PROVE  TypeOK'
<1>1. PICK n \in 1..Len(queue) : /\ Receive(n) /\ (Wait(n) \/ Process(n))
                                 /\ queue' \in Seq(Packet)
  BY BurstPlaces
<1>2. n \in 0..Len(queue)
  BY QueueTyped
<1>3. held' \in [Dev -> [Kinds -> [Bucket -> Body]]]
  BY <1>1, <1>2, StoredType DEF Receive
<1>4. overrun' \in BOOLEAN
  BY <1>1 DEF Receive, TypeOK
<1>5. /\ avail' \subseteq Streams /\ old' \in [Halves -> [Dev -> [Bucket -> Body]]]
      /\ time_flag' \in Halves /\ reports' \in Seq(Report)
  <2>1. CASE Wait(n)
    BY <1>2, <2>1, FlagsType DEF Wait, TypeOK
  <2>2. CASE Process(n)
    <3>1. Stored(n) \in [Dev -> [Kinds -> [Bucket -> Body]]]
      BY <1>2, StoredType
    <3>2. [d \in Dev |-> Stored(n)[d][Fermat]] \in [Dev -> [Bucket -> Body]]
      BY <3>1, Constants
    <3>3. old' \in [Halves -> [Dev -> [Bucket -> Body]]]
      BY <2>2, <3>2 DEF Process, Saved, TypeOK
    <3>4. reports' \in Seq(Report)
      <4>1. ReportOf(Stored(n)) \in Report
        BY <3>1, ReportType
      <4> QED
        BY <2>2, <4>1 DEF Process, TypeOK
    <3>5. avail' \subseteq Streams /\ time_flag' \in Halves
      BY <2>2 DEF Process, FlagsCleared, NextHalf, TypeOK, Halves
    <3> QED
      BY <3>3, <3>4, <3>5
  <2> QED
    BY <1>1, <2>1, <2>2
<1>6. UNCHANGED <<switchVars, netVars, settled, lost>>
  BY <1>1 DEF Receive
<1> QED
  BY <1>1, <1>3, <1>4, <1>5, <1>6 DEF TypeOK, switchVars, netVars
-----------------------------------------------------------------------------
(* A stream goes on to its next bucket.                                    *)
LEMMA LatestAfterRead ==
  ASSUME TypeOK, NEW d \in Dev, NEW k \in Kinds, NEW s \in Bucket, s = next[d][k],
         flips' = flips, next' = [next EXCEPT ![d][k] = s + 1]
  PROVE  /\ Latest(d, k, s) = flips[d] - 2
         /\ Latest(d, k, s)' = flips[d] - 1
         /\ \A c \in Dev, j \in Kinds, b \in Bucket :
               <<c, j, b>> # <<d, k, s>> => Latest(c, j, b)' = Latest(c, j, b)
<1>1. flips[d] \in Int /\ s \in Int /\ next'[d][k] = s + 1 /\ flips'[d] = flips[d]
  BY Constants DEF TypeOK
<1>2. Latest(d, k, s) = flips[d] - 2
  BY <1>1 DEF Latest
<1>3. Latest(d, k, s)' = flips[d] - 1
  BY <1>1 DEF Latest
<1>4. ASSUME NEW c \in Dev, NEW j \in Kinds, NEW b \in Bucket, <<c, j, b>> # <<d, k, s>>
      PROVE  Latest(c, j, b)' = Latest(c, j, b)
  <2>1. b \in Int /\ next[c][j] \in Int
    BY Constants DEF TypeOK
  <2>2. CASE c = d /\ j = k
    BY <1>1, <1>4, <2>1, <2>2 DEF Latest
  <2>3. CASE ~(c = d /\ j = k)
    <3>1. next'[c][j] = next[c][j]
      BY <2>3 DEF TypeOK
    <3> QED
      BY <3>1 DEF Latest
  <2> QED
    BY <2>2, <2>3
<1> QED
  BY <1>2, <1>3, <1>4

LEMMA LatestType ==
  ASSUME TypeOK, NEW d \in Dev, NEW k \in Kinds, NEW b \in Bucket
  PROVE  /\ Latest(d, k, b) \in Int
         /\ Latest(d, k, b) <= flips[d] - 1
         /\ held[d][k][b].epoch \in Turns /\ held[d][k][b].epoch \in Int
<1>1. flips[d] \in Int
  BY Constants DEF TypeOK
<1>2. held[d][k][b] \in Body
  BY DEF TypeOK
<1> QED
  BY <1>1, <1>2 DEF Latest, Body, Turns

LEMMA FlipsTyped ==
  ASSUME TypeOK
  PROVE  \A d \in Dev : flips[d] \in Int /\ flips[d] \in 0..MaxFlips
BY Constants DEF TypeOK

LEMMA SendTransit ==
  ASSUME TypeOK, Transit, NEW d \in Dev, NEW k \in Kinds, Send(d, k)
  PROVE  Transit'
<1>0. Idle /\ Ordered /\ Sent /\ Complete /\ HeldWhole
  BY DEF Transit
<1>a. PICK N, s, f : N = Len(queue) /\ s = next[d][k] /\ f = flips[d]
  OBVIOUS
<1>1. /\ s \in Bucket /\ s \in Int /\ f >= 1 /\ f \in Int
      /\ N \in Nat /\ Len(queue') = N + 1
      /\ DOMAIN queue = 1..N /\ DOMAIN queue' = 1..(N + 1)
      /\ \A i \in 1..N : queue'[i] = queue[i]
      /\ queue'[N + 1].dev = d /\ queue'[N + 1].kind = k /\ queue'[N + 1].bucket = s
      /\ queue'[N + 1].body.epoch = f - 1
  <2>1. /\ queue' \in Seq(Packet) /\ Len(queue') = N + 1
        /\ s \in Bucket /\ f >= 1 /\ f \in Epochs
        /\ \A i \in 1..N : queue'[i] = queue[i]
        /\ queue'[N + 1] = Sending(d, k)
    BY <1>a, <1>0, SendPlaces
  <2>2. N \in Nat /\ DOMAIN queue = 1..N
    BY <1>a, QueueTyped
  <2> QED
    BY <1>a, <2>1, <2>2, Constants DEF Sending
<1>2. /\ flips' = flips /\ held' = held /\ lost' = lost
      /\ next' = [next EXCEPT ![d][k] = s + 1]
  BY <1>a DEF Send, ctrlVars
<1>3. /\ Latest(d, k, s) = f - 2 /\ Latest(d, k, s)' = f - 1
      /\ \A c \in Dev, j \in Kinds, b \in Bucket :
            <<c, j, b>> # <<d, k, s>> => Latest(c, j, b)' = Latest(c, j, b)
  <2>1. /\ Latest(d, k, s) = flips[d] - 2 /\ Latest(d, k, s)' = flips[d] - 1
        /\ \A c \in Dev, j \in Kinds, b \in Bucket :
              <<c, j, b>> # <<d, k, s>> => Latest(c, j, b)' = Latest(c, j, b)
    <3>1. s \in Bucket /\ s = next[d][k]
      BY <1>a, <1>1
    <3>2. flips' = flips /\ next' = [next EXCEPT ![d][k] = s + 1]
      BY <1>2
    <3> QED
      BY <3>1, <3>2, LatestAfterRead, Zenon
  <2> QED
    BY <1>a, <2>1
<1>4. /\ \A i \in 1..N, c \in Dev, j \in Kinds, b \in Bucket :
            Carries(i, c, j, b)' <=> Carries(i, c, j, b)
      /\ \A i \in 1..N : Ep(i)' = Ep(i) /\ Ep(i) \in Int
      /\ \A c \in Dev, j \in Kinds, b \in Bucket :
            Carries(N + 1, c, j, b)' <=> (c = d /\ j = k /\ b = s)
      /\ Ep(N + 1)' = f - 1
  BY <1>1, QueueTyped DEF Carries, Ep
<1>5. Idle'
  <2> SUFFICES ASSUME NEW c \in Dev, flips'[c] = 0, NEW j \in Kinds PROVE next'[c][j] = Done
    BY DEF Idle, ReadOut
  <2>1. c # d
    BY <1>a, <1>1, <1>2
  <2>2. next'[c] = next[c]
    BY <1>2, <2>1 DEF TypeOK
  <2> QED
    BY <1>0, <1>2, <2>2 DEF Idle, ReadOut
<1>6. Ordered'
  <2>1. ASSUME NEW i \in 1..(N + 1), NEW j \in 1..(N + 1), i < j, SameStream(i, j)'
        PROVE  (Ep(i) < Ep(j) \/ (Ep(i) = Ep(j) /\ queue[i].bucket < queue[j].bucket))'
    <3>1. CASE j \in 1..N
      <4>1. i \in 1..N /\ SameStream(i, j)
        BY <1>1, <2>1, <3>1 DEF SameStream
      <4>2. Ep(i) < Ep(j) \/ (Ep(i) = Ep(j) /\ queue[i].bucket < queue[j].bucket)
        BY <1>0, <1>1, <2>1, <3>1, <4>1 DEF Ordered
      <4> QED
        BY <1>1, <1>4, <3>1, <4>1, <4>2
    <3>2. CASE j = N + 1
      <4>1. i \in 1..N
        BY <1>1, <2>1, <3>2
      <4>2. queue[i].dev = d /\ queue[i].kind = k
        BY <1>1, <2>1, <3>2, <4>1 DEF SameStream
      <4>3. queue[i].bucket \in Bucket /\ queue[i].bucket \in Int
        BY <1>1, <4>1, QueueTyped, Constants
      <4>4. Ep(i) <= Latest(d, k, queue[i].bucket)
        BY <1>0, <1>1, <4>1, <4>2, <4>3 DEF Sent, Carries
      <4>5. Latest(d, k, queue[i].bucket) = IF queue[i].bucket < s THEN f - 1 ELSE f - 2
        BY <1>a DEF Latest
      <4> QED
        BY <1>1, <1>4, <3>2, <4>1, <4>3, <4>4, <4>5
    <3> QED
      BY <1>1, <3>1, <3>2
  <2>2. ASSUME NEW i \in 1..(N + 1), NEW c \in Dev, NEW j \in Kinds, NEW b \in Bucket,
               Carries(i, c, j, b)'
        PROVE  held'[c][j][b].epoch < Ep(i)'
    <3>1. CASE i \in 1..N
      BY <1>0, <1>1, <1>2, <1>4, <2>2, <3>1 DEF Ordered
    <3>2. CASE i = N + 1
      <4>1. held[d][k][s].epoch <= f - 2 /\ held[d][k][s].epoch \in Int
        BY <1>0, <1>1, <1>3, LatestType DEF Sent
      <4> QED
        BY <1>1, <1>2, <1>4, <2>2, <3>2, <4>1
    <3> QED
      BY <1>1, <3>1, <3>2
  <2> QED
    BY <1>1, <2>1, <2>2 DEF Ordered
<1>7. \A c \in Dev, j \in Kinds, b \in Bucket :
         Latest(c, j, b) \in Int /\ Latest(c, j, b)' \in Int /\ Latest(c, j, b) <= Latest(c, j, b)'
  BY <1>1, <1>3, LatestType
<1>8. Sent'
  <2> SUFFICES ASSUME NEW c \in Dev, NEW j \in Kinds, NEW b \in Bucket
               PROVE  /\ held'[c][j][b].epoch <= Latest(c, j, b)'
                      /\ \A i \in 1..(N + 1) : Carries(i, c, j, b)' => Ep(i)' <= Latest(c, j, b)'
    BY <1>1 DEF Sent
  <2>1. /\ held[c][j][b].epoch <= Latest(c, j, b)
        /\ \A i \in 1..N : Carries(i, c, j, b) => Ep(i) <= Latest(c, j, b)
    BY <1>0, <1>1 DEF Sent
  <2>2. held[c][j][b].epoch \in Int
    BY LatestType
  <2>3. ASSUME NEW i \in 1..(N + 1), Carries(i, c, j, b)'
        PROVE  Ep(i)' <= Latest(c, j, b)'
    <3>1. CASE i \in 1..N
      BY <1>4, <1>7, <2>1, <2>3, <3>1
    <3>2. CASE i = N + 1
      BY <1>1, <1>3, <1>4, <2>3, <3>2
    <3> QED
      BY <1>1, <3>1, <3>2
  <2> QED
    BY <1>2, <1>7, <2>1, <2>2, <2>3
<1>9. Complete'
  <2> SUFFICES ASSUME NEW c \in Dev, NEW j \in Kinds, NEW b \in Bucket, NEW e \in Epochs,
                      e <= Latest(c, j, b)', ~Gap(e) \/ (b = LastBucket /\ ~GapLast(e))
               PROVE  \/ e <= held[c][j][b].epoch
                      \/ \E i \in 1..(N + 1) : Carries(i, c, j, b)' /\ Ep(i)' = e
    BY <1>1, <1>2 DEF Complete, Gap, GapLast
  <2>1. CASE e <= Latest(c, j, b)
    <3>1. \/ e <= held[c][j][b].epoch
          \/ \E i \in 1..N : Carries(i, c, j, b) /\ Ep(i) = e
      BY <1>0, <1>1, <2>1 DEF Complete
    <3>2. 1..N \subseteq 1..(N + 1)
      BY <1>1
    <3> QED
      BY <1>4, <3>1, <3>2
  <2>2. CASE ~(e <= Latest(c, j, b))
    <3>1. c = d /\ j = k /\ b = s
      BY <1>3, <1>7, <2>2
    <3>2. e = f - 1
      BY <1>1, <1>3, <2>2, <3>1, Constants
    <3> QED
      BY <1>1, <1>4, <3>1, <3>2
  <2> QED
    BY <2>1, <2>2
<1>10. HeldWhole'
  BY <1>0, <1>2 DEF HeldWhole, Gap
<1> QED
  BY <1>5, <1>6, <1>8, <1>9, <1>10 DEF Transit

LEMMA LoseTransit ==
  ASSUME TypeOK, Transit, NEW d \in Dev, NEW k \in Kinds, Lose(d, k)
  PROVE  Transit'
<1>0. Idle /\ Ordered /\ Sent /\ Complete /\ HeldWhole
  BY DEF Transit
<1>a. PICK s, f : s = next[d][k] /\ f = flips[d]
  OBVIOUS
<1>1. /\ s \in Bucket /\ s \in Int /\ f >= 1 /\ f \in Int
      /\ flips' = flips /\ held' = held /\ queue' = queue
      /\ next' = [next EXCEPT ![d][k] = s + 1]
      /\ lost' = lost \cup {[epoch |-> f - 1, last |-> s = LastBucket]}
  BY <1>0, <1>a, LosePlaces, Constants DEF ctrlVars
<1>2. /\ Latest(d, k, s) = f - 2 /\ Latest(d, k, s)' = f - 1
      /\ \A c \in Dev, j \in Kinds, b \in Bucket :
            <<c, j, b>> # <<d, k, s>> => Latest(c, j, b)' = Latest(c, j, b)
  <2>1. s \in Bucket /\ s = next[d][k]
    BY <1>a, <1>1
  <2>2. flips' = flips /\ next' = [next EXCEPT ![d][k] = s + 1]
    BY <1>1
  <2>3. /\ Latest(d, k, s) = flips[d] - 2 /\ Latest(d, k, s)' = flips[d] - 1
        /\ \A c \in Dev, j \in Kinds, b \in Bucket :
              <<c, j, b>> # <<d, k, s>> => Latest(c, j, b)' = Latest(c, j, b)
    BY <2>1, <2>2, LatestAfterRead, Zenon
  <2> QED
    BY <1>a, <2>3
<1>3. \A c \in Dev, j \in Kinds, b \in Bucket :
         Latest(c, j, b) \in Int /\ Latest(c, j, b)' \in Int /\ Latest(c, j, b) <= Latest(c, j, b)'
  BY <1>1, <1>2, LatestType
<1>4. /\ \A e : Gap(e) => Gap(e)'
      /\ \A e : GapLast(e) => GapLast(e)'
      /\ Gap(f - 1)' /\ (s = LastBucket => GapLast(f - 1)')
  <2>1. [epoch |-> f - 1, last |-> s = LastBucket] \in lost'
    BY <1>1
  <2>2. \A x \in lost : x \in lost'
    BY <1>1
  <2>3. Gap(f - 1)'
    BY <2>1 DEF Gap
  <2>4. ASSUME s = LastBucket PROVE GapLast(f - 1)'
    BY <2>1, <2>4 DEF GapLast
  <2> QED
    BY <2>2, <2>3, <2>4, Zenon DEF Gap, GapLast
<1>5. /\ \A i, c, j, b : Carries(i, c, j, b)' <=> Carries(i, c, j, b)
      /\ \A i : Ep(i)' = Ep(i)
      /\ \A i, j : SameStream(i, j)' <=> SameStream(i, j)
  BY <1>1 DEF Carries, Ep, SameStream
<1>6. Idle'
  <2> SUFFICES ASSUME NEW c \in Dev, flips'[c] = 0, NEW j \in Kinds PROVE next'[c][j] = Done
    BY DEF Idle, ReadOut
  <2>1. c # d
    BY <1>a, <1>1
  <2>2. next'[c] = next[c]
    BY <1>1, <2>1 DEF TypeOK
  <2> QED
    BY <1>0, <1>1, <2>2 DEF Idle, ReadOut
<1>7. Ordered'
  BY <1>0, <1>1 DEF Ordered, Carries, Ep, SameStream
<1>8. Sent'
  <2> SUFFICES ASSUME NEW c \in Dev, NEW j \in Kinds, NEW b \in Bucket
               PROVE  /\ held[c][j][b].epoch <= Latest(c, j, b)'
                      /\ \A i \in DOMAIN queue : Carries(i, c, j, b) => Ep(i) <= Latest(c, j, b)'
    BY <1>1, <1>5 DEF Sent
  <2>1. /\ held[c][j][b].epoch <= Latest(c, j, b)
        /\ \A i \in DOMAIN queue : Carries(i, c, j, b) => Ep(i) <= Latest(c, j, b)
    BY <1>0 DEF Sent
  <2>2. held[c][j][b].epoch \in Int /\ \A i \in DOMAIN queue : Ep(i) \in Int
    BY LatestType, QueueTyped
  <2> QED
    BY <1>3, <2>1, <2>2
<1>9. Complete'
  <2> SUFFICES ASSUME NEW c \in Dev, NEW j \in Kinds, NEW b \in Bucket, NEW e \in Epochs,
                      e <= Latest(c, j, b)', ~Gap(e)' \/ (b = LastBucket /\ ~GapLast(e)')
               PROVE  \/ e <= held[c][j][b].epoch
                      \/ \E i \in DOMAIN queue : Carries(i, c, j, b) /\ Ep(i) = e
    BY <1>1, <1>5 DEF Complete
  <2>1. CASE e <= Latest(c, j, b)
    BY <1>0, <1>4, <2>1 DEF Complete
  <2>2. CASE ~(e <= Latest(c, j, b))
    <3>1. c = d /\ j = k /\ b = s
      BY <1>2, <1>3, <2>2
    <3>2. e = f - 1
      BY <1>1, <1>2, <2>2, <3>1, Constants
    <3> QED
      BY <1>4, <3>1, <3>2
  <2> QED
    BY <2>1, <2>2
<1>10. HeldWhole'
  <2> SUFFICES ASSUME NEW c \in Dev, NEW j \in Kinds, NEW b \in Bucket,
                      ~Gap(held[c][j][LastBucket].epoch)'
               PROVE  held[c][j][LastBucket].epoch <= held[c][j][b].epoch
    BY <1>1 DEF HeldWhole, Gap
  <2>1. ~Gap(held[c][j][LastBucket].epoch)
    BY <1>1 DEF Gap
  <2> QED
    BY <1>0, <2>1 DEF HeldWhole
<1> QED
  BY <1>6, <1>7, <1>8, <1>9, <1>10 DEF Transit

(* A switch begins to read out when it has read out everything before.     *)
LEMMA LatestAfterFlip ==
  ASSUME TypeOK, NEW d \in Dev, Flip(d), NEW c \in Dev, NEW j \in Kinds, NEW b \in Bucket
  PROVE  Latest(c, j, b)' = Latest(c, j, b)
<1>1. /\ flips' = [flips EXCEPT ![d] = flips[d] + 1] /\ flips[d] \in Int
      /\ next' = [next EXCEPT ![d] = [k \in Kinds |-> 0]] /\ next[d][j] = Done
  BY Constants DEF Flip, ReadOut, TypeOK
<1>2. b < Done /\ ~(b < 0) /\ b \in Int
  BY Constants
<1>3. CASE c = d
  <2>1. flips'[c] = flips[d] + 1 /\ next'[c][j] = 0
    BY <1>1, <1>3 DEF TypeOK
  <2>2. next[c][j] = Done
    BY <1>1, <1>3
  <2> QED
    BY <1>1, <1>2, <1>3, <2>1, <2>2 DEF Latest
<1>4. CASE c # d
  <2>1. flips'[c] = flips[c] /\ next'[c] = next[c]
    BY <1>1, <1>4 DEF TypeOK
  <2> QED
    BY <2>1 DEF Latest
<1> QED
  BY <1>3, <1>4

LEMMA FlipTransit ==
  ASSUME TypeOK, Transit, NEW d \in Dev, Flip(d)
  PROVE  Transit'
<1>0. Idle /\ Ordered /\ Sent /\ Complete /\ HeldWhole
  BY DEF Transit
<1>1. queue' = queue /\ held' = held /\ lost' = lost
  BY DEF Flip, ctrlVars
<1>2. \A c \in Dev, j \in Kinds, b \in Bucket : Latest(c, j, b)' = Latest(c, j, b)
  BY LatestAfterFlip
<1>3. Idle'
  <2> SUFFICES ASSUME NEW c \in Dev, flips'[c] = 0 PROVE ReadOut(c)'
    BY DEF Idle
  <2>1. c # d
    <3>1. flips[d] \in 0..MaxFlips /\ flips'[d] = flips[d] + 1
      BY Constants DEF Flip, TypeOK
    <3> QED
      BY <3>1, Constants
  <2>2. next'[c] = next[c] /\ flips'[c] = flips[c]
    BY <2>1 DEF Flip, TypeOK
  <2> QED
    BY <1>0, <2>2 DEF Idle, ReadOut
<1>4. Ordered'
  BY <1>0, <1>1 DEF Ordered, Carries, Ep, SameStream
<1>5. Sent'
  BY <1>0, <1>1, <1>2 DEF Sent, Carries, Ep
<1>6. Complete'
  BY <1>0, <1>1, <1>2 DEF Complete, Carries, Ep, Gap, GapLast
<1>7. HeldWhole'
  BY <1>0, <1>1, Zenon DEF HeldWhole, Gap
<1> QED
  BY <1>3, <1>4, <1>5, <1>6, <1>7 DEF Transit

(* Packets inside the network do not touch the readout.                    *)
LEMMA StillTransit ==
  ASSUME Transit, UNCHANGED <<flips, next, queue, held, lost>>
  PROVE  Transit'
<1>1. Idle /\ Ordered /\ Sent /\ Complete /\ HeldWhole
  BY DEF Transit
<1>2. Idle'
  BY <1>1, Zenon DEF Idle, ReadOut
<1>3. Ordered'
  BY <1>1 DEF Ordered, Carries, Ep, SameStream
<1>4. Sent'
  BY <1>1 DEF Sent, Carries, Ep, Latest
<1>5. Complete'
  BY <1>1 DEF Complete, Carries, Ep, Latest, Gap, GapLast
<1>6. HeldWhole'
  BY <1>1, Zenon DEF HeldWhole, Gap
<1> QED
  BY <1>2, <1>3, <1>4, <1>5, <1>6 DEF Transit

(* The controller takes n packets: what it holds of a bucket afterwards.   *)
LEMMA BurstHeld ==
  ASSUME TypeOK, Transit, NEW n \in 1..Len(queue), Receive(n)
  PROVE  \A d \in Dev, k \in Kinds, b \in Bucket :
            /\ held'[d][k][b] \in Body /\ held'[d][k][b].epoch \in Int
            /\ held[d][k][b].epoch <= held'[d][k][b].epoch
            /\ held'[d][k][b].epoch <= Latest(d, k, b)
            /\ \A i \in 1..n : Carries(i, d, k, b) => Ep(i) <= held'[d][k][b].epoch
            /\ \A i \in (n + 1)..Len(queue) :
                  Carries(i, d, k, b) => held'[d][k][b].epoch < Ep(i)
            /\ \/ /\ \A i \in 1..n : ~Carries(i, d, k, b)
                  /\ held'[d][k][b] = held[d][k][b]
               \/ \E i \in 1..n : Carries(i, d, k, b) /\ held'[d][k][b] = queue[i].body
<1>1. n \in 0..Len(queue) /\ held' = Stored(n) /\ Ordered /\ Sent
  BY QueueTyped DEF Receive, Transit
<1> SUFFICES ASSUME NEW d \in Dev, NEW k \in Kinds, NEW b \in Bucket
             PROVE  /\ Stored(n)[d][k][b] \in Body /\ Stored(n)[d][k][b].epoch \in Int
                    /\ held[d][k][b].epoch <= Stored(n)[d][k][b].epoch
                    /\ Stored(n)[d][k][b].epoch <= Latest(d, k, b)
                    /\ \A i \in 1..n : Carries(i, d, k, b) => Ep(i) <= Stored(n)[d][k][b].epoch
                    /\ \A i \in (n + 1)..Len(queue) :
                          Carries(i, d, k, b) => Stored(n)[d][k][b].epoch < Ep(i)
                    /\ \/ /\ \A i \in 1..n : ~Carries(i, d, k, b)
                          /\ Stored(n)[d][k][b] = held[d][k][b]
                       \/ \E i \in 1..n : Carries(i, d, k, b) /\ Stored(n)[d][k][b] = queue[i].body
  BY <1>1
<1>2. /\ Stored(n)[d][k][b] \in Body
      /\ held[d][k][b].epoch <= Stored(n)[d][k][b].epoch
      /\ Stored(n)[d][k][b].epoch <= Latest(d, k, b)
      /\ \A i \in 1..n : Carries(i, d, k, b) => Ep(i) <= Stored(n)[d][k][b].epoch
      /\ \A i \in (n + 1)..Len(queue) :
            Carries(i, d, k, b) => Stored(n)[d][k][b].epoch < Ep(i)
  BY <1>1, StoredBounds
<1>3. Stored(n)[d][k][b].epoch \in Int
  BY <1>2 DEF Body, Turns
<1>4. \/ /\ \A i \in 1..n : ~Carries(i, d, k, b)
         /\ Stored(n)[d][k][b] = held[d][k][b]
      \/ \E i \in 1..n : Carries(i, d, k, b) /\ Stored(n)[d][k][b] = queue[i].body
  BY <1>1, StoredIs
<1> QED
  BY <1>2, <1>3, <1>4

LEMMA BurstTransit ==
  ASSUME TypeOK, Transit, RxBurst
  PROVE  Transit'
<1>0. Idle /\ Ordered /\ Sent /\ Complete /\ HeldWhole
  BY DEF Transit
<1>1. PICK n \in 1..Len(queue) :
         /\ Receive(n)
         /\ Len(queue') = Len(queue) - n /\ queue' \in Seq(Packet)
         /\ \A i \in 1..(Len(queue) - n) : queue'[i] = queue[n + i]
  BY BurstPlaces
<1>a. PICK N : N = Len(queue)
  OBVIOUS
<1>2. /\ N \in Nat /\ n \in 1..N /\ DOMAIN queue = 1..N /\ DOMAIN queue' = 1..(N - n)
      /\ \A i \in 1..(N - n) : queue'[i] = queue[n + i] /\ n + i \in 1..N
      /\ \A i \in 1..N : Ep(i) \in Int /\ queue[i].bucket \in Int
  <2>1. N \in Nat /\ DOMAIN queue = 1..N /\ n \in 1..N
    BY <1>1, <1>a, QueueTyped
  <2>2. DOMAIN queue' = 1..(N - n)
    BY <1>1, <1>a, LenProperties
  <2>3. \A i \in 1..N : Ep(i) \in Int /\ queue[i].bucket \in Int
    BY <1>a, QueueTyped, Constants
  <2> QED
    BY <1>1, <1>a, <2>1, <2>2, <2>3
<1>3. flips' = flips /\ next' = next /\ lost' = lost
  BY <1>1 DEF Receive, switchVars
<1>4. \A d \in Dev, k \in Kinds, b \in Bucket :
         /\ held'[d][k][b] \in Body /\ held'[d][k][b].epoch \in Int
         /\ held[d][k][b].epoch <= held'[d][k][b].epoch
         /\ held'[d][k][b].epoch <= Latest(d, k, b)
         /\ \A i \in 1..n : Carries(i, d, k, b) => Ep(i) <= held'[d][k][b].epoch
         /\ \A i \in (n + 1)..N : Carries(i, d, k, b) => held'[d][k][b].epoch < Ep(i)
         /\ \/ /\ \A i \in 1..n : ~Carries(i, d, k, b)
               /\ held'[d][k][b] = held[d][k][b]
            \/ \E i \in 1..n : Carries(i, d, k, b) /\ held'[d][k][b] = queue[i].body
  BY <1>1, <1>a, BurstHeld
<1>5. /\ \A i \in 1..(N - n) : \A d, k, b : Carries(i, d, k, b)' <=> Carries(n + i, d, k, b)
      /\ \A i \in 1..(N - n) : Ep(i)' = Ep(n + i)
      /\ \A i, j \in 1..(N - n) : SameStream(i, j)' <=> SameStream(n + i, n + j)
  BY <1>2 DEF Carries, Ep, SameStream
<1>6. \A d, k, b : Latest(d, k, b)' = Latest(d, k, b)
  BY <1>3, Zenon DEF Latest
<1>7. \A d \in Dev, k \in Kinds, b \in Bucket :
         held[d][k][b].epoch \in Int /\ held[d][k][b].epoch \in Turns /\ Latest(d, k, b) \in Int
  BY LatestType
<1>8. Idle'
  BY <1>0, <1>3 DEF Idle, ReadOut
<1>9. Ordered'
  <2>1. ASSUME NEW i \in 1..(N - n), NEW j \in 1..(N - n), i < j, SameStream(i, j)'
        PROVE  (Ep(i) < Ep(j) \/ (Ep(i) = Ep(j) /\ queue[i].bucket < queue[j].bucket))'
    <3>1. n + i \in 1..N /\ n + j \in 1..N /\ n + i < n + j /\ SameStream(n + i, n + j)
      BY <1>2, <1>5, <2>1
    <3>2. Ep(n + i) < Ep(n + j)
             \/ (Ep(n + i) = Ep(n + j) /\ queue[n + i].bucket < queue[n + j].bucket)
      BY <1>0, <1>2, <3>1 DEF Ordered
    <3> QED
      BY <1>2, <1>5, <3>2
  <2>2. ASSUME NEW i \in 1..(N - n), NEW d \in Dev, NEW k \in Kinds, NEW b \in Bucket,
               Carries(i, d, k, b)'
        PROVE  held'[d][k][b].epoch < Ep(i)'
    <3>1. n + i \in (n + 1)..N
      BY <1>2
    <3> QED
      BY <1>4, <1>5, <2>2, <3>1
  <2> QED
    BY <1>2, <2>1, <2>2 DEF Ordered
<1>10. Sent'
  <2> SUFFICES ASSUME NEW d \in Dev, NEW k \in Kinds, NEW b \in Bucket
               PROVE  /\ held'[d][k][b].epoch <= Latest(d, k, b)
                      /\ \A i \in 1..(N - n) : Carries(i, d, k, b)' => Ep(i)' <= Latest(d, k, b)
    BY <1>2, <1>6 DEF Sent
  <2>1. \A i \in 1..N : Carries(i, d, k, b) => Ep(i) <= Latest(d, k, b)
    BY <1>0, <1>2 DEF Sent
  <2> QED
    BY <1>2, <1>4, <1>5, <2>1
<1>11. Complete'
  <2>a. /\ \A e : (Gap(e)' <=> Gap(e)) /\ (GapLast(e)' <=> GapLast(e))
        /\ DOMAIN queue' = 1..(N - n)
    BY <1>2, <1>3 DEF Gap, GapLast
  <2> SUFFICES ASSUME NEW d \in Dev, NEW k \in Kinds, NEW b \in Bucket, NEW e \in Epochs,
                      e <= Latest(d, k, b)', ~Gap(e)' \/ (b = LastBucket /\ ~GapLast(e)')
               PROVE  \/ e <= held'[d][k][b].epoch
                      \/ \E i \in DOMAIN queue' : Carries(i, d, k, b)' /\ Ep(i)' = e
    BY DEF Complete
  <2>b. e <= Latest(d, k, b) /\ (~Gap(e) \/ (b = LastBucket /\ ~GapLast(e)))
    BY <1>6, <2>a
  <2>1. \/ e <= held[d][k][b].epoch
        \/ \E i \in 1..N : Carries(i, d, k, b) /\ Ep(i) = e
    BY <1>0, <1>2, <2>b DEF Complete
  <2>2. CASE e <= held[d][k][b].epoch
    <3>1. e \in Int
      BY Constants
    <3> QED
      BY <1>4, <1>7, <2>2, <3>1
  <2>3. CASE \E i \in 1..N : Carries(i, d, k, b) /\ Ep(i) = e
    <3>1. PICK i \in 1..N : Carries(i, d, k, b) /\ Ep(i) = e
      BY <2>3
    <3>2. CASE i <= n
      <4>1. i \in 1..n
        BY <1>2, <3>2
      <4> QED
        BY <1>4, <3>1, <4>1
    <3>3. CASE ~(i <= n)
      <4>1. i - n \in 1..(N - n) /\ n + (i - n) = i
        BY <1>2, <3>3
      <4> QED
        BY <1>5, <2>a, <3>1, <4>1
    <3> QED
      BY <3>2, <3>3
  <2> QED
    BY <2>1, <2>2, <2>3
<1>12. HeldWhole'
  <2> SUFFICES ASSUME NEW d \in Dev, NEW k \in Kinds, NEW b \in Bucket,
                      ~Gap(held'[d][k][LastBucket].epoch)
               PROVE  held'[d][k][LastBucket].epoch <= held'[d][k][b].epoch
    BY <1>3 DEF HeldWhole, Gap
  <2>a. PICK m : m = held'[d][k][LastBucket].epoch
    OBVIOUS
  <2>0. m \in Int /\ LastBucket \in Bucket /\ b \in 0..LastBucket
    BY <1>4, <2>a, Constants
  <2>1. CASE held'[d][k][LastBucket] = held[d][k][LastBucket]
    <3>1. held[d][k][LastBucket].epoch <= held[d][k][b].epoch
      BY <1>0, <2>1 DEF HeldWhole
    <3> QED
      BY <1>4, <1>7, <2>0, <2>1, <3>1
  <2>2. CASE \E i \in 1..n : /\ Carries(i, d, k, LastBucket)
                             /\ held'[d][k][LastBucket] = queue[i].body
    <3>1. PICK j \in 1..n : /\ Carries(j, d, k, LastBucket)
                            /\ held'[d][k][LastBucket] = queue[j].body
      BY <2>2
    <3>2. j \in 1..N /\ Ep(j) = m
      BY <1>2, <2>a, <3>1 DEF Ep
    <3>3. m \in Epochs
      <4>1. held[d][k][LastBucket].epoch < m /\ held[d][k][LastBucket].epoch \in Turns
        BY <1>0, <1>2, <1>7, <2>0, <3>1, <3>2 DEF Ordered
      <4>2. m \in Turns
        BY <1>4, <2>a, <2>0 DEF Body
      <4> QED
        BY <4>1, <4>2, Constants DEF Turns
    <3>4. m <= Latest(d, k, b)
      <4>1. m <= Latest(d, k, LastBucket)
        BY <1>4, <2>a, <2>0
      <4>2. next[d][k] \in Int /\ flips[d] \in Int
        BY Constants DEF TypeOK
      <4> QED
        BY <2>0, <4>1, <4>2, Constants DEF Latest
    <3>5. \/ m <= held[d][k][b].epoch
          \/ \E i \in 1..N : Carries(i, d, k, b) /\ Ep(i) = m
      BY <1>0, <1>2, <2>a, <3>3, <3>4 DEF Complete
    <3>6. CASE m <= held[d][k][b].epoch
      BY <1>4, <1>7, <2>a, <2>0, <3>6
    <3>7. CASE \E i \in 1..N : Carries(i, d, k, b) /\ Ep(i) = m
      <4>1. PICK i \in 1..N : Carries(i, d, k, b) /\ Ep(i) = m
        BY <3>7
      <4>2. CASE b = LastBucket
        BY <1>4, <2>0, <4>2
      <4>3. CASE b < LastBucket
        <5>1. queue[i].bucket = b /\ queue[j].bucket = LastBucket
              /\ SameStream(j, i) /\ Ep(j) = m /\ Ep(i) = m
          BY <3>1, <3>2, <4>1 DEF Carries, SameStream
        <5>2. ~(j < i)
          <6> SUFFICES ASSUME j < i PROVE FALSE
            OBVIOUS
          <6>1. Ep(j) < Ep(i) \/ (Ep(j) = Ep(i) /\ queue[j].bucket < queue[i].bucket)
            BY <1>0, <1>2, <3>2, <4>1, <5>1 DEF Ordered
          <6> QED
            BY <2>0, <4>3, <5>1, <6>1, Constants
        <5>3. i \in 1..n
          BY <1>2, <3>1, <4>1, <5>2
        <5> QED
          BY <1>4, <2>a, <4>1, <5>3
      <4> QED
        BY <2>0, <4>2, <4>3, Constants
    <3> QED
      BY <3>5, <3>6, <3>7
  <2> QED
    BY <1>4, <2>0, <2>1, <2>2
<1> QED
  BY <1>8, <1>9, <1>10, <1>11, <1>12 DEF Transit
-----------------------------------------------------------------------------
LEMMA HalfFlips == \A e \in Int : Half(e + 1) = 1 - Half(e) /\ Half(e + 2) = Half(e)
BY DEF Half

LEMMA ReportsTyped ==
  ASSUME TypeOK
  PROVE  /\ Reported \in Nat /\ DOMAIN reports = 1..Reported
         /\ \A j \in 1..Reported : reports[j] \in Report
<1>1. reports \in Seq(Report)
  BY DEF TypeOK
<1> QED
  BY <1>1, ElementOfSeq, LenProperties DEF Reported

(* The epochs that a switch's readout is made of.                          *)
EpochsHeld(d) == {held[d][k][b].epoch : k \in Kinds, b \in Bucket}

(* What a processing round appends.                                        *)
LEMMA ProcessPlaces ==
  ASSUME TypeOK, Ordered, Sent, NEW n \in 1..Len(queue), Receive(n), Process(n)
  PROVE  /\ Reported' = Reported + 1 /\ DOMAIN reports' = 1..(Reported + 1)
         /\ \A j \in 1..Reported : reports'[j] = reports[j]
         /\ reports'[Reported + 1] = ReportOf(held')
         /\ ReportOf(held') \in Report
         /\ \A d \in Dev, k \in Kinds : <<d, k>> \in FlagsAfter(n)
         /\ avail' = {} /\ time_flag' = 1 - time_flag
<1>1. n \in 0..Len(queue) /\ held' = Stored(n)
  BY QueueTyped DEF Receive
<1>2. ReportOf(Stored(n)) \in Report
  BY <1>1, StoredType, ReportType
<1>3. reports \in Seq(Report) /\ reports' = Append(reports, ReportOf(Stored(n)))
  BY DEF TypeOK, Process
<1>4. Reported \in Nat
  BY ReportsTyped
<1>5. /\ Len(reports') = Len(reports) + 1 /\ DOMAIN reports' = 1..(Len(reports) + 1)
      /\ \A j \in 1..Len(reports) : reports'[j] = reports[j]
      /\ reports'[Len(reports) + 1] = ReportOf(Stored(n))
  BY <1>2, <1>3
<1>6. \A d \in Dev, k \in Kinds : <<d, k>> \in FlagsAfter(n)
  BY DEF Process, Streams
<1> QED
  BY <1>1, <1>2, <1>4, <1>5, <1>6 DEF Process, FlagsCleared, NextHalf, Reported

(* A stream whose flag comes up, or stays up.                              *)
LEMMA BurstFlags ==
  ASSUME TypeOK, Transit, NEW n \in 1..Len(queue), Receive(n)
  PROVE  \A d \in Dev, k \in Kinds :
            <<d, k>> \in FlagsAfter(n) =>
               \/ <<d, k>> \in avail
               \/ held[d][k][LastBucket].epoch < held'[d][k][LastBucket].epoch
<1>1. n \in 0..Len(queue) /\ Ordered
  BY QueueTyped DEF Transit
<1> SUFFICES ASSUME NEW d \in Dev, NEW k \in Kinds, <<d, k>> \in FlagsAfter(n), <<d, k>> \notin avail
             PROVE  held[d][k][LastBucket].epoch < held'[d][k][LastBucket].epoch
  OBVIOUS
<1>2. PICK i \in 1..n : Carries(i, d, k, LastBucket)
  BY <1>1, FlagsType
<1>3. i \in DOMAIN queue /\ Ep(i) \in Int
  BY <1>1, QueueTyped
<1>4. held[d][k][LastBucket].epoch < Ep(i)
  BY <1>1, <1>2, <1>3, Constants DEF Ordered
<1>5. /\ held'[d][k][LastBucket].epoch \in Int
      /\ Ep(i) <= held'[d][k][LastBucket].epoch
  BY <1>2, BurstHeld, Constants
<1>6. held[d][k][LastBucket].epoch \in Int
  BY LatestType, Constants
<1> QED
  BY <1>3, <1>4, <1>5, <1>6

LEMMA InStepStill ==
  ASSUME InStep, UNCHANGED ctrlVars, lost \subseteq lost'
  PROVE  InStep'
<1>1. LastsArrive' => LastsArrive
  BY DEF LastsArrive
<1>2. \A e : Gap(e) => Gap(e)'
  BY DEF Gap
<1>3. /\ reports' = reports /\ overrun' = overrun /\ time_flag' = time_flag
      /\ held' = held /\ avail' = avail
  BY DEF ctrlVars
<1>4. \A j : OfOneEpoch(j)' <=> OfOneEpoch(j)
  BY <1>3 DEF OfOneEpoch
<1> QED
  BY <1>1, <1>2, <1>3, <1>4 DEF InStep, Reported

LEMMA BurstInStep ==
  ASSUME TypeOK, Transit, InStep, RxBurst
  PROVE  InStep'
<1>0. Transit' /\ Ordered /\ Sent
  BY BurstTransit DEF Transit
<1>1. PICK n \in 1..Len(queue) : Receive(n) /\ (Wait(n) \/ Process(n))
  BY BurstPlaces
<1>a. PICK R \in Nat : R = Reported
  BY ReportsTyped
<1> SUFFICES ASSUME LastsArrive', ~overrun'
             PROVE  /\ time_flag' = Half(Reported')
                    /\ \A d \in Dev, k \in Kinds :
                          /\ held'[d][k][LastBucket].epoch \in {Reported' - 1, Reported'}
                          /\ <<d, k>> \in avail' <=> held'[d][k][LastBucket].epoch = Reported'
                    /\ \A d \in Dev, k \in Kinds, b \in Bucket : held'[d][k][b].epoch <= Reported'
                    /\ \A j \in DOMAIN reports' : Gap(j - 1)' \/ OfOneEpoch(j)'
  BY DEF InStep
<1>2. /\ LastsArrive /\ ~overrun /\ \A i \in 1..n : Ep(i) <= R
      /\ \A e : Gap(e)' <=> Gap(e)
  <2>1. lost' = lost /\ ~overrun /\ \A i \in 1..n : ~(queue[i].body.epoch > Len(reports))
    BY <1>1 DEF Receive
  <2>2. \A i \in 1..n : Ep(i) \in Int
    BY QueueTyped
  <2> QED
    BY <1>a, <2>1, <2>2 DEF LastsArrive, Gap, Ep, Reported
<1>3. /\ time_flag = Half(R)
      /\ \A d \in Dev, k \in Kinds :
            /\ held[d][k][LastBucket].epoch \in {R - 1, R}
            /\ <<d, k>> \in avail <=> held[d][k][LastBucket].epoch = R
      /\ \A d \in Dev, k \in Kinds, b \in Bucket : held[d][k][b].epoch <= R
      /\ \A j \in 1..R : Gap(j - 1) \/ OfOneEpoch(j)
  BY <1>a, <1>2, ReportsTyped DEF InStep
<1>4. \A d \in Dev, k \in Kinds, b \in Bucket :
         /\ held'[d][k][b].epoch \in Int /\ held[d][k][b].epoch <= held'[d][k][b].epoch
         /\ held'[d][k][b].epoch <= R
  <2> SUFFICES ASSUME NEW d \in Dev, NEW k \in Kinds, NEW b \in Bucket
               PROVE  /\ held'[d][k][b].epoch \in Int
                      /\ held[d][k][b].epoch <= held'[d][k][b].epoch
                      /\ held'[d][k][b].epoch <= R
    OBVIOUS
  <2>1. /\ held'[d][k][b].epoch \in Int /\ held[d][k][b].epoch <= held'[d][k][b].epoch
        /\ \/ held'[d][k][b] = held[d][k][b]
           \/ \E i \in 1..n : held'[d][k][b] = queue[i].body
    BY <1>1, BurstHeld
  <2> QED
    BY <1>2, <1>3, <2>1 DEF Ep
<1>5. \A d \in Dev, k \in Kinds :
         /\ held'[d][k][LastBucket].epoch \in {R - 1, R}
         /\ <<d, k>> \in FlagsAfter(n) <=> held'[d][k][LastBucket].epoch = R
  <2> SUFFICES ASSUME NEW d \in Dev, NEW k \in Kinds
               PROVE  /\ held'[d][k][LastBucket].epoch \in {R - 1, R}
                      /\ <<d, k>> \in FlagsAfter(n) <=> held'[d][k][LastBucket].epoch = R
    OBVIOUS
  <2>1. held'[d][k][LastBucket].epoch \in {R - 1, R}
    <3>1. held[d][k][LastBucket].epoch \in {R - 1, R}
      BY <1>3
    <3>2. /\ held'[d][k][LastBucket].epoch \in Int
          /\ held[d][k][LastBucket].epoch <= held'[d][k][LastBucket].epoch
          /\ held'[d][k][LastBucket].epoch <= R
      BY <1>4, Constants
    <3> QED
      BY <3>1, <3>2
  <2>2. ASSUME <<d, k>> \in FlagsAfter(n) PROVE held'[d][k][LastBucket].epoch = R
    BY <1>1, <1>3, <1>4, <2>1, <2>2, BurstFlags, Constants
  <2>3. ASSUME held'[d][k][LastBucket].epoch = R PROVE <<d, k>> \in FlagsAfter(n)
    <3>1. n \in 0..Len(queue)
      BY QueueTyped
    <3>2. CASE held'[d][k][LastBucket] = held[d][k][LastBucket]
      BY <1>3, <2>3, <3>1, <3>2, FlagsType
    <3>3. CASE \E i \in 1..n : Carries(i, d, k, LastBucket)
      BY <3>1, <3>3, FlagsType
    <3> QED
      BY <1>1, <3>2, <3>3, BurstHeld, Constants
  <2> QED
    BY <2>1, <2>2, <2>3
<1>6. CASE Wait(n)
  <2>1. avail' = FlagsAfter(n) /\ time_flag' = time_flag /\ reports' = reports
    BY <1>6 DEF Wait
  <2>2. Reported' = R /\ DOMAIN reports' = 1..R
    BY <1>a, <2>1, ReportsTyped DEF Reported
  <2>3. \A j : OfOneEpoch(j)' <=> OfOneEpoch(j)
    BY <2>1 DEF OfOneEpoch
  <2> QED
    BY <1>2, <1>3, <1>4, <1>5, <2>1, <2>2, <2>3
<1>7. CASE Process(n)
  <2>1. /\ Reported' = R + 1 /\ DOMAIN reports' = 1..(R + 1)
        /\ \A j \in 1..R : reports'[j] = reports[j]
        /\ reports'[R + 1] = ReportOf(held')
        /\ \A d \in Dev, k \in Kinds : <<d, k>> \in FlagsAfter(n)
        /\ avail' = {} /\ time_flag' = 1 - time_flag
    BY <1>a, <1>0, <1>1, <1>7, ProcessPlaces
  <2>2. time_flag' = Half(R + 1) /\ Reported' - 1 = R
    BY <1>3, <2>1, HalfFlips
  <2>3. \A d \in Dev, k \in Kinds : held'[d][k][LastBucket].epoch = R
    BY <1>5, <2>1
  <2>4. ASSUME ~Gap(R)
        PROVE  \A d \in Dev, k \in Kinds, b \in Bucket : held'[d][k][b].epoch = R
    <3> SUFFICES ASSUME NEW d \in Dev, NEW k \in Kinds, NEW b \in Bucket
                 PROVE  held'[d][k][b].epoch = R
      OBVIOUS
    <3>1. ~Gap(held[d][k][LastBucket].epoch)'
      <4>1. \A e : e = R => ~Gap(e)'
        BY <1>2, <2>4
      <4> QED
        BY <2>3, <4>1 DEF Gap
    <3>2. held'[d][k][LastBucket].epoch <= held'[d][k][b].epoch
      BY <1>0, <3>1 DEF Transit, HeldWhole
    <3> QED
      BY <1>4, <2>3, <3>2
  <2>5. Gap(R) \/ OfOneEpoch(R + 1)'
    <3> SUFFICES ASSUME ~Gap(R) PROVE OfOneEpoch(R + 1)'
      OBVIOUS
    <3>1. \A d \in Dev : EpochsHeld(d)' = {R}
      BY <2>4, Constants DEF EpochsHeld
    <3>2. reports'[R + 1].half = Half(R)
      BY <1>3, <2>1 DEF ReportOf
    <3>3. reports'[R + 1].epochs = [d \in Dev |-> EpochsHeld(d)']
      BY <2>1 DEF ReportOf, EpochsHeld
    <3>4. \A d \in Dev : reports'[R + 1].epochs[d] = {R}
      BY <3>1, <3>3
    <3> QED
      BY <3>2, <3>4 DEF OfOneEpoch
  <2>6. \A j \in 1..R : OfOneEpoch(j)' <=> OfOneEpoch(j)
    BY <2>1 DEF OfOneEpoch
  <2>7. ASSUME NEW j \in 1..(R + 1) PROVE Gap(j - 1)' \/ OfOneEpoch(j)'
    <3>1. CASE j = R + 1
      BY <1>2, <2>5, <3>1
    <3>2. CASE j \in 1..R
      BY <1>2, <1>3, <2>6, <3>2
    <3> QED
      BY <3>1, <3>2
  <2>8. \A d \in Dev, k \in Kinds, b \in Bucket : held'[d][k][b].epoch <= R + 1
    BY <1>4
  <2>9. \A d \in Dev, k \in Kinds :
           /\ held'[d][k][LastBucket].epoch \in {R + 1 - 1, R + 1}
           /\ <<d, k>> \in avail' <=> held'[d][k][LastBucket].epoch = R + 1
    BY <2>1, <2>3
  <2> QED
    BY <2>1, <2>2, <2>7, <2>8, <2>9
<1> QED
  BY <1>1, <1>6, <1>7
-----------------------------------------------------------------------------
LEMMA BurstNotAll ==
  ASSUME RxBurst
  PROVE  NotAll'
<1>1. PICK n : Wait(n) \/ Process(n)
  BY DEF RxBurst
<1>2. CASE Wait(n)
  BY <1>2 DEF Wait, NotAll, Streams
<1>3. CASE Process(n)
  <2>1. PICK d : d \in Dev
    BY Constants
  <2>2. <<d, Fermat>> \in Streams
    BY <2>1, Constants DEF Streams
  <2>3. avail' = {}
    BY <1>3 DEF Process, FlagsCleared
  <2> QED
    BY <2>2, <2>3 DEF NotAll, Streams
<1> QED
  BY <1>1, <1>2, <1>3

LEMMA InTimeStill ==
  ASSUME InTime, UNCHANGED ctrlVars, UNCHANGED flips, lost \subseteq lost'
  PROVE  InTime'
<1>1. LastsArrive' => LastsArrive
  BY DEF LastsArrive
<1>2. reports' = reports /\ overrun' = overrun
  BY DEF ctrlVars
<1> QED
  BY <1>1, <1>2 DEF InTime, Reported

(* A packet that is handled was sent, so of an epoch that is closed.       *)
LEMMA BurstInTime ==
  ASSUME TypeOK, Transit, InTime, RxBurst
  PROVE  InTime'
<1> SUFFICES ASSUME Prompt, LastsArrive'
             PROVE  ~overrun' /\ \A d \in Dev : flips'[d] - 1 <= Reported'
  BY DEF InTime
<1>1. PICK n \in 1..Len(queue) : Receive(n) /\ (Wait(n) \/ Process(n))
  BY BurstPlaces
<1>2. Ordered /\ Sent
  BY DEF Transit
<1>3. LastsArrive /\ flips' = flips
  BY <1>1 DEF Receive, LastsArrive, switchVars
<1>4. ~overrun /\ \A d \in Dev : flips[d] - 1 <= Reported
  BY <1>3 DEF InTime
<1>5. ASSUME NEW i \in 1..n
      PROVE  ~(queue[i].body.epoch > Len(reports))
  <2>1. i \in 1..Len(queue) /\ i \in DOMAIN queue
    BY QueueTyped
  <2>2. PICK d \in Dev, k \in Kinds, b \in Bucket : Carries(i, d, k, b)
    BY <2>1, QueueTyped DEF Carries
  <2>3. Ep(i) <= Latest(d, k, b) /\ Ep(i) \in Int
    BY <1>2, <2>1, <2>2, QueueTyped DEF Sent
  <2>4. Latest(d, k, b) \in Int /\ Latest(d, k, b) <= flips[d] - 1
    BY LatestType
  <2>5. Reported \in Nat /\ flips[d] \in Int
    BY ReportsTyped, FlipsTyped
  <2> QED
    BY <1>4, <2>3, <2>4, <2>5 DEF Ep, Reported
<1>6. ~overrun'
  BY <1>1, <1>4, <1>5 DEF Receive
<1>7. Reported' \in Int /\ Reported \in Int /\ Reported <= Reported'
  <2>1. CASE Wait(n)
    BY <2>1, ReportsTyped DEF Wait, Reported
  <2>2. CASE Process(n)
    BY <1>1, <1>2, <2>2, ProcessPlaces, ReportsTyped
  <2> QED
    BY <1>1, <2>1, <2>2
<1>8. \A d \in Dev : flips[d] \in Int
  BY Constants DEF TypeOK
<1> QED
  BY <1>3, <1>4, <1>6, <1>7, <1>8

(* Once all switches have read out epoch e and none of its packets is      *)
(* queued any more, all flags of the round would be set: it has been done. *)
LEMMA HandledReported ==
  ASSUME TypeOK, Transit, NotAll, InStep, ~overrun, LastsArrive,
         NEW e \in Epochs, Handled(e), \A c \in Dev : flips[c] > e, e <= Reported
  PROVE  e < Reported
<1>1. Idle /\ Ordered /\ Sent /\ Complete
  BY DEF Transit
<1>2. e \in Int /\ Reported \in Nat
  BY ReportsTyped, Constants
<1> SUFFICES ASSUME e = Reported PROVE FALSE
  BY <1>2
<1>3. ASSUME NEW d \in Dev, NEW k \in Kinds
      PROVE  <<d, k>> \in avail
  <2>1. e <= Latest(d, k, LastBucket)
    <3>1. flips[d] \in Int /\ next[d][k] \in Int /\ flips[d] > e
      BY Constants DEF TypeOK
    <3>2. CASE flips[d] > e + 1
      BY <1>2, <3>1, <3>2 DEF Latest
    <3>3. CASE ~(flips[d] > e + 1)
      <4>1. next[d][k] = Done
        BY <3>3 DEF Handled, ReadOut
      <4> QED
        BY <1>2, <3>1, <4>1, Constants DEF Latest
    <3> QED
      BY <3>2, <3>3
  <2>2. ~GapLast(e)
    BY DEF LastsArrive, GapLast
  <2>3. ~ \E i \in DOMAIN queue : Carries(i, d, k, LastBucket) /\ Ep(i) = e
    <3>1. \A i \in DOMAIN queue : Ep(i) > e
      BY DEF Handled, Ep
    <3> QED
      BY <1>2, <3>1
  <2>4. e <= held[d][k][LastBucket].epoch
    BY <1>1, <2>1, <2>2, <2>3, Constants DEF Complete
  <2>5. /\ held[d][k][LastBucket].epoch \in {Reported - 1, Reported}
        /\ <<d, k>> \in avail <=> held[d][k][LastBucket].epoch = Reported
    BY DEF InStep
  <2> QED
    BY <1>2, <2>4, <2>5
<1>4. Streams \subseteq avail
  BY <1>3 DEF Streams
<1> QED
  BY <1>4 DEF NotAll, TypeOK

LEMMA FlipInTime ==
  ASSUME TypeOK, Transit, NotAll, InStep, InTime, NEW d \in Dev, Flip(d)
  PROVE  InTime'
<1> SUFFICES ASSUME Prompt, LastsArrive'
             PROVE  ~overrun' /\ \A c \in Dev : flips'[c] - 1 <= Reported'
  BY DEF InTime
<1>1. LastsArrive /\ reports' = reports /\ overrun' = overrun
  BY DEF Flip, LastsArrive, ctrlVars
<1>2. ~overrun /\ \A c \in Dev : flips[c] - 1 <= Reported
  BY <1>1 DEF InTime
<1>3. /\ \A c \in Dev : flips[c] >= flips[d] /\ flips[c] \in Int
      /\ flips[d] \in 0..MaxFlips /\ Handled(flips[d] - 1)
      /\ flips'[d] = flips[d] + 1
      /\ \A c \in Dev : c # d => flips'[c] = flips[c]
  BY Constants DEF Flip, TypeOK
<1>4. Reported \in Nat
  BY ReportsTyped
<1>5. flips[d] <= Reported
  <2>1. CASE flips[d] = 0
    BY <1>4, <2>1
  <2>2. CASE flips[d] > 0
    <3>1. PICK e : e = flips[d] - 1
      OBVIOUS
    <3>2. e \in Epochs /\ Handled(e) /\ \A c \in Dev : flips[c] > e
      BY <1>3, <2>2, <3>1, Constants
    <3>3. e <= Reported
      BY <1>2, <3>1
    <3>4. e < Reported
      BY <1>1, <1>2, <3>2, <3>3, HandledReported
    <3> QED
      BY <1>3, <1>4, <3>1, <3>4
  <2> QED
    BY <1>3, <2>1, <2>2
<1> QED
  BY <1>1, <1>2, <1>3, <1>4, <1>5 DEF Reported
-----------------------------------------------------------------------------
(* Counters wrap: what is said of residues.                                *)
LEMMA Residue ==
  ASSUME NEW C \in Nat \ {0}, NEW x \in Int
  PROVE  \E q \in Int, r \in 0..(C - 1) : x = q * C + r /\ r = x % C
<1> DEFINE p == x \div C
           s == x % C
<1>1. s \in 0..(C - 1)
  OBVIOUS
<1>2. x = C * p + s
  OBVIOUS
<1>3. p \in Int
  OBVIOUS
<1>4. s = x % C
  OBVIOUS
<1> HIDE DEF p, s
<1>5. x = p * C + s
  BY <1>1, <1>2, <1>3
<1> QED
  BY <1>1, <1>3, <1>4, <1>5

LEMMA ResidueUnique ==
  ASSUME NEW C \in Nat \ {0}, NEW x \in Int, NEW q \in Int, NEW r \in 0..(C - 1), x = q * C + r
  PROVE  x % C = r
<1>1. PICK p \in Int, s \in 0..(C - 1) : x = p * C + s /\ s = x % C
  BY Residue
<1>2. CASE q = p
  BY <1>1, <1>2
<1>3. CASE q > p
  <2>1. PICK m \in Nat : q = p + 1 + m
    <3>1. q - p - 1 \in Nat /\ q = p + 1 + (q - p - 1)
      BY <1>3
    <3> QED
      BY <3>1
  <2>2. q * C = p * C + C + m * C /\ m * C >= 0
    BY <2>1
  <2> QED
    BY <1>1, <2>2
<1>4. CASE q < p
  <2>1. PICK m \in Nat : p = q + 1 + m
    <3>1. p - q - 1 \in Nat /\ p = q + 1 + (p - q - 1)
      BY <1>4
    <3> QED
      BY <3>1
  <2>2. p * C = q * C + C + m * C /\ m * C >= 0
    BY <2>1
  <2> QED
    BY <1>1, <2>2
<1> QED
  BY <1>2, <1>3, <1>4

LEMMA IncrResidue ==
  ASSUME NEW a \in Int
  PROVE  Incr(a % CounterSize) = (a + 1) % CounterSize
<1>a. PICK C \in Nat \ {0} : C = CounterSize
  BY Constants
<1>1. PICK q \in Int, r \in 0..(C - 1) : a = q * C + r /\ r = a % C
  BY Residue
<1>2. (r + 1) % C = (a + 1) % C
  <2>0. a + 1 \in Int /\ q + 1 \in Int /\ r + 1 \in Int
    OBVIOUS
  <2>1. CASE r + 1 < C
    <3>1. r + 1 \in 0..(C - 1) /\ a + 1 = q * C + (r + 1) /\ r + 1 = 0 * C + (r + 1)
      BY <1>1, <2>1
    <3>2. (a + 1) % C = r + 1
      BY <2>0, <3>1, ResidueUnique
    <3>3. (r + 1) % C = r + 1
      BY <2>0, <3>1, ResidueUnique
    <3> QED
      BY <3>2, <3>3
  <2>2. CASE r + 1 = C
    <3>1. 0 \in 0..(C - 1) /\ a + 1 = (q + 1) * C + 0 /\ r + 1 = 1 * C + 0
      <4>1. (q + 1) * C = q * C + C
        OBVIOUS
      <4> QED
        BY <1>1, <2>2, <4>1
    <3>2. (a + 1) % C = 0
      BY <2>0, <3>1, ResidueUnique
    <3>3. (r + 1) % C = 0
      BY <2>0, <3>1, ResidueUnique
    <3> QED
      BY <3>2, <3>3
  <2> QED
    BY <2>1, <2>2
<1> QED
  BY <1>a, <1>1, <1>2 DEF Incr

(* Subtracting what was there before leaves what was added.                *)
LEMMA MinusResidue ==
  ASSUME NEW o \in Value, NEW m \in Int
  PROVE  Minus((o + m) % CounterSize, o) = m % CounterSize
<1>a. PICK C \in Nat \ {0} : C = CounterSize /\ o \in 0..(C - 1)
  BY Constants DEF Value
<1>1. PICK q \in Int, r \in 0..(C - 1) : o + m = q * C + r /\ r = (o + m) % C
  <2>1. o + m \in Int
    BY <1>a
  <2> QED
    BY <2>1, Residue
<1>2. PICK p \in Int, s \in 0..(C - 1) : m = p * C + s /\ s = m % C
  BY Residue
<1>3. r + C - o = (p - q + 1) * C + s
  <2>1. r = o + p * C + s - q * C
    BY <1>a, <1>1, <1>2
  <2>2. (p - q + 1) * C = p * C - q * C + C
    OBVIOUS
  <2> QED
    BY <1>a, <2>1, <2>2
<1>4. (r + C - o) % C = s
  <2>1. r + C - o \in Int /\ p - q + 1 \in Int
    BY <1>a
  <2> QED
    BY <1>3, <2>1, ResidueUnique
<1> QED
  BY <1>a, <1>1, <1>2, <1>4 DEF Minus

LEMMA SmallResidue ==
  ASSUME NEW v \in Value
  PROVE  v % CounterSize = v
<1>1. PICK C \in Nat \ {0} : C = CounterSize /\ v \in 0..(C - 1) /\ v = 0 * C + v
  BY Constants DEF Value
<1>2. v % C = v
  BY <1>1, ResidueUnique
<1> QED
  BY <1>1, <1>2
-----------------------------------------------------------------------------
LEMMA UnenteredStill ==
  ASSUME TypeOK, TypeOK', Unentered, entered' = entered,
         \A d \in Dev : flips[d] <= flips'[d]
  PROVE  Unentered'
<1>1. \A d \in Dev : flips[d] \in Int /\ flips'[d] \in Int
  BY Constants DEF TypeOK
<1>2. Epochs \subseteq Int
  BY Constants
<1>3. ASSUME NEW e \in Epochs, NEW d \in Dev, flips'[d] < e
      PROVE  flips[d] < e
  <2>1. flips[d] \in Int /\ flips'[d] \in Int /\ e \in Int /\ flips[d] <= flips'[d]
    BY <1>1, <1>2
  <2>2. \A x, y, z \in Int : x <= y /\ y < z => x < z
    OBVIOUS
  <2> QED
    BY <1>3, <2>1, <2>2
<1>4. \A e \in Epochs, d \in Dev, b \in Bucket : flips'[d] < e => entered'[e][d][b] = 0
  BY <1>3 DEF Unentered
<1> QED
  BY <1>4, Zenon DEF Unentered

LEMMA EnterUnentered ==
  ASSUME TypeOK, Unentered, NEW d \in Dev, NEW b \in Bucket, Enter(d, b)
  PROVE  Unentered'
<1>a. PICK f : f = flips[d]
  OBVIOUS
<1>1. f \in Epochs /\ flips' = flips /\ Epochs \subseteq Int
  BY <1>a, Constants DEF TypeOK, Enter
<1> SUFFICES ASSUME NEW e \in Epochs, NEW c \in Dev, NEW a \in Bucket, flips[c] < e
             PROVE  entered'[e][c][a] = 0
  BY <1>1 DEF Unentered
<1>2. entered[e][c][a] = 0
  BY DEF Unentered
<1>3. ~(e = f /\ c = d)
  BY <1>a, <1>1
<1>4. entered' = [entered EXCEPT ![f][d][b] = @ + 1]
  BY <1>a DEF Enter
<1>5. entered'[e][c][a] = entered[e][c][a]
  BY <1>1, <1>3, <1>4 DEF TypeOK
<1> QED
  BY <1>2, <1>5
-----------------------------------------------------------------------------
(* With time and last packets, every switch is in the epoch the next round *)
(* is about or the one after it.                                           *)
LEMMA NearEpoch ==
  ASSUME TypeOK, Transit, InStep, InTime, Prompt, LastsArrive, NEW d \in Dev
  PROVE  flips[d] \in {Reported, Reported + 1}
<1>1. Reported \in Nat /\ flips[d] \in Int
  BY ReportsTyped, FlipsTyped
<1>2. flips[d] - 1 <= Reported /\ ~overrun
  BY DEF InTime
<1>3. held[d][Fermat][LastBucket].epoch \in {Reported - 1, Reported}
  BY <1>2, Constants DEF InStep
<1>4. held[d][Fermat][LastBucket].epoch <= flips[d] - 1
  <2>1. held[d][Fermat][LastBucket].epoch <= Latest(d, Fermat, LastBucket)
    BY Constants DEF Transit, Sent
  <2>2. /\ Latest(d, Fermat, LastBucket) \in Int /\ Latest(d, Fermat, LastBucket) <= flips[d] - 1
        /\ held[d][Fermat][LastBucket].epoch \in Int
    BY LatestType, Constants
  <2> QED
    BY <1>1, <2>1, <2>2
<1> QED
  BY <1>1, <1>2, <1>3, <1>4

LEMMA CountedStill ==
  ASSUME Counted, UNCHANGED <<ingress, queue, held, old, reports, entered>>, lost \subseteq lost'
  PROVE  Counted'
<1>1. LastsArrive' => LastsArrive
  BY DEF LastsArrive
<1>2. \A e : Gap(e) => Gap(e)'
  BY DEF Gap
<1>3. \A j : Right(j)' <=> Right(j)
  BY DEF Right
<1>4. \A i, d, b : /\ Carries(i, d, Fermat, b)' <=> Carries(i, d, Fermat, b)
                   /\ Ep(i)' = Ep(i)
  BY DEF Carries, Ep
<1>5. Reported' = Reported
  BY DEF Reported
<1> QED
  BY <1>1, <1>2, <1>3, <1>4, <1>5 DEF Counted

LEMMA EnterCounted ==
  ASSUME TypeOK, Transit, InStep, InTime, Counted,
         NEW d \in Dev, NEW b \in Bucket, Enter(d, b)
  PROVE  Counted'
<1>a. PICK f, R : f = flips[d] /\ R = Reported
  OBVIOUS
<1>0. SUFFICES ASSUME Prompt, LastsArrive'
             PROVE  /\ \A x \in {Reported', Reported' + 1} \cap Epochs, c \in Dev, a \in Bucket :
                          Gap(x - 2)' \/ ingress'[c][Half(x)][a]
                             = (old'[Half(x)][c][a].in + entered'[x][c][a]) % CounterSize
                    /\ \A i \in DOMAIN queue', c \in Dev, a \in Bucket :
                          (Carries(i, c, Fermat, a)' /\ Ep(i)' = Reported') =>
                              queue'[i].body.in = ingress'[c][Half(Reported')][a]
                    /\ \A c \in Dev, a \in Bucket :
                          held'[c][Fermat][a].epoch = Reported' =>
                              held'[c][Fermat][a].in = ingress'[c][Half(Reported')][a]
                    /\ \A j \in DOMAIN reports' : Gap(j - 1)' \/ Gap(j - 3)' \/ Right(j)'
  BY DEF Counted
<1>1. /\ lost' = lost /\ queue' = queue /\ held' = held /\ old' = old /\ reports' = reports
      /\ flips' = flips
      /\ ingress' = [ingress EXCEPT ![d][Half(f)][b] = Incr(@)]
      /\ entered' = [entered EXCEPT ![f][d][b] = @ + 1]
  BY <1>a DEF Enter, ctrlVars
<1>2. /\ LastsArrive /\ Reported' = R /\ \A e : Gap(e)' <=> Gap(e)
      /\ \A i, c, a : /\ Carries(i, c, Fermat, a)' <=> Carries(i, c, Fermat, a)
                      /\ Ep(i)' = Ep(i)
  BY <1>0, <1>1, <1>a DEF LastsArrive, Gap, Reported, Carries, Ep
<1>3. /\ f \in {R, R + 1} /\ R \in Nat /\ f \in Epochs /\ f \in Int
  BY <1>0, <1>2, <1>a, NearEpoch, ReportsTyped, FlipsTyped DEF TypeOK
<1>4. Half(f) \in Halves /\ Half(R) \in Halves /\ (f = R + 1 => Half(f) # Half(R))
  BY <1>3, HalfType, HalfFlips DEF Halves
<1>5. /\ \A c \in Dev, a \in Bucket, h \in Halves :
            <<c, h, a>> # <<d, Half(f), b>> => ingress'[c][h][a] = ingress[c][h][a]
      /\ ingress'[d][Half(f)][b] = Incr(ingress[d][Half(f)][b])
  BY <1>1, <1>4 DEF TypeOK
<1>6. /\ \A c \in Dev, a \in Bucket, x \in Epochs :
            <<c, x, a>> # <<d, f, b>> => entered'[x][c][a] = entered[x][c][a]
      /\ entered'[f][d][b] = entered[f][d][b] + 1
  BY <1>1, <1>3 DEF TypeOK
<1>7. ASSUME NEW x \in {R, R + 1} \cap Epochs, NEW c \in Dev, NEW a \in Bucket, ~Gap(x - 2)
      PROVE  ingress'[c][Half(x)][a]
                = (old[Half(x)][c][a].in + entered'[x][c][a]) % CounterSize
  <2>0. x \in Int /\ x \in Epochs /\ Half(x) \in Halves
    BY <1>3, HalfType
  <2>1. ingress[c][Half(x)][a] = (old[Half(x)][c][a].in + entered[x][c][a]) % CounterSize
    BY <1>0, <1>2, <1>7, <1>a DEF Counted
  <2>2. CASE <<c, x, a>> = <<d, f, b>>
    <3>1. /\ ingress'[c][Half(x)][a] = Incr(ingress[c][Half(x)][a])
          /\ entered'[x][c][a] = entered[x][c][a] + 1
      BY <1>5, <1>6, <2>2
    <3>2. old[Half(x)][c][a].in \in Int /\ entered[x][c][a] \in Int
      <4>1. old[Half(x)][c][a] \in Body /\ entered[x][c][a] \in Nat
        BY <2>0 DEF TypeOK
      <4>2. \A v \in Value : v \in Int
        BY Constants DEF Value
      <4>3. \A y \in Body : y.in \in Value
        BY DEF Body
      <4>4. \A m \in Nat : m \in Int
        OBVIOUS
      <4> QED
        BY <4>1, <4>2, <4>3, <4>4, Zenon
    <3>3. old[Half(x)][c][a].in + entered[x][c][a] \in Int
      BY <3>2
    <3>4. Incr(ingress[c][Half(x)][a]) = (old[Half(x)][c][a].in + entered[x][c][a] + 1) % CounterSize
      BY <2>1, <3>3, IncrResidue
    <3> QED
      BY <3>1, <3>2, <3>4
  <2>3. CASE <<c, x, a>> # <<d, f, b>>
    <3>1. <<c, Half(x), a>> # <<d, Half(f), b>>
      <4>1. x = f \/ Half(x) # Half(f)
        BY <1>3, <1>4, HalfFlips DEF Halves
      <4> QED
        BY <2>3, <4>1
    <3>2. ingress'[c][Half(x)][a] = ingress[c][Half(x)][a]
      BY <1>5, <2>0, <3>1
    <3>3. entered'[x][c][a] = entered[x][c][a]
      BY <1>6, <2>0, <2>3
    <3> QED
      BY <2>1, <3>2, <3>3
  <2> QED
    BY <2>2, <2>3
<1>8. ASSUME NEW a \in Bucket, f = R + 1
      PROVE  \A c \in Dev : ingress'[c][Half(R)][a] = ingress[c][Half(R)][a]
  BY <1>4, <1>5, <1>8
<1>9. ASSUME NEW c \in Dev, NEW a \in Bucket, R <= Latest(c, Fermat, a)
      PROVE  ingress'[c][Half(R)][a] = ingress[c][Half(R)][a]
  <2>1. Latest(c, Fermat, a) \in Int /\ Latest(c, Fermat, a) <= flips[c] - 1 /\ flips[c] \in Int
    BY LatestType, FlipsTyped, Constants
  <2>2. CASE c = d
    <3>1. f = R + 1
      BY <1>3, <1>9, <1>a, <2>1, <2>2
    <3> QED
      BY <1>8, <3>1
  <2>3. CASE c # d
    BY <1>4, <1>5, <2>3
  <2> QED
    BY <2>2, <2>3
<1>10. ASSUME NEW i \in DOMAIN queue, NEW c \in Dev, NEW a \in Bucket,
              Carries(i, c, Fermat, a), Ep(i) = R
       PROVE  queue[i].body.in = ingress'[c][Half(R)][a]
  <2>1. queue[i].body.in = ingress[c][Half(R)][a]
    BY <1>0, <1>2, <1>10, <1>a DEF Counted
  <2>2. R <= Latest(c, Fermat, a)
    BY <1>10, Constants DEF Transit, Sent
  <2> QED
    BY <1>9, <2>1, <2>2
<1>11. ASSUME NEW c \in Dev, NEW a \in Bucket, held[c][Fermat][a].epoch = R
       PROVE  held[c][Fermat][a].in = ingress'[c][Half(R)][a]
  <2>1. held[c][Fermat][a].in = ingress[c][Half(R)][a]
    BY <1>0, <1>2, <1>11, <1>a DEF Counted
  <2>2. R <= Latest(c, Fermat, a)
    BY <1>11, Constants DEF Transit, Sent
  <2> QED
    BY <1>9, <2>1, <2>2
<1>12. ASSUME NEW j \in DOMAIN reports, ~Gap(j - 1), ~Gap(j - 3)
       PROVE  Right(j)'
  <2>1. Right(j)
    BY <1>0, <1>2, <1>12 DEF Counted
  <2>2. j \in 1..R
    BY <1>a, ReportsTyped
  <2>3. j - 1 # f
    BY <1>3, <2>2
  <2>4. entered'[j - 1] = entered[j - 1]
    BY <1>1, <2>3 DEF TypeOK
  <2> QED
    BY <1>1, <2>1, <2>4 DEF Right
<1>13. \A j \in DOMAIN reports : Gap(j - 1)' \/ Gap(j - 3)' \/ Right(j)'
  BY <1>2, <1>12
<1> QED
  BY <1>1, <1>2, <1>7, <1>10, <1>11, <1>13

(* The half that is read out is the one of the epoch just left.            *)
LEMMA SendCounted ==
  ASSUME TypeOK, Transit, Counted, NEW d \in Dev, NEW k \in Kinds, Send(d, k)
  PROVE  Counted'
<1>a. PICK f, R, N, s : f = flips[d] /\ R = Reported /\ N = Len(queue) /\ s = next[d][k]
  OBVIOUS
<1>1. /\ lost' = lost /\ held' = held /\ old' = old /\ reports' = reports
      /\ ingress' = ingress /\ entered' = entered
  BY DEF Send, ctrlVars, netVars
<1>2. /\ LastsArrive' <=> LastsArrive
      /\ Reported' = R /\ \A e : Gap(e)' <=> Gap(e)
      /\ \A j : Right(j)' <=> Right(j)
  BY <1>1, <1>a DEF LastsArrive, Gap, Reported, Right
<1>3. /\ N \in Nat /\ Len(queue') = N + 1 /\ \A i \in 1..N : queue'[i] = queue[i]
      /\ queue'[N + 1] = Sending(d, k) /\ f \in Int
      /\ DOMAIN queue = 1..N /\ DOMAIN queue' = 1..(N + 1)
  <2>1. Idle
    BY DEF Transit
  <2>2. queue' \in Seq(Packet) /\ Len(queue') = N + 1
    BY <2>1, <1>a, SendPlaces
  <2> QED
    BY <1>a, <2>1, <2>2, SendPlaces, QueueTyped, FlipsTyped
<1>4. ASSUME Prompt, LastsArrive, NEW i \in 1..(N + 1), NEW c \in Dev, NEW a \in Bucket,
             Carries(i, c, Fermat, a)', Ep(i)' = R
      PROVE  queue'[i].body.in = ingress[c][Half(R)][a]
  <2>1. CASE i \in 1..N
    <3>1. queue'[i] = queue[i]
      BY <1>3, <2>1
    <3>2. Carries(i, c, Fermat, a) /\ Ep(i) = R
      BY <1>4, <3>1 DEF Carries, Ep
    <3>3. queue[i].body.in = ingress[c][Half(R)][a]
      BY <1>3, <1>4, <1>a, <2>1, <3>2 DEF Counted
    <3> QED
      BY <3>1, <3>3
  <2>2. CASE i = N + 1
    <3>1. queue'[i] = Sending(d, k)
      BY <1>3, <2>2
    <3>2. c = d /\ k = Fermat /\ s = a /\ f - 1 = R
      BY <1>4, <1>a, <3>1 DEF Carries, Ep, Sending
    <3>3. queue'[i].body.in = ingress[c][ReadHalf(d)][a]
      BY <1>a, <3>1, <3>2 DEF Sending
    <3>4. ReadHalf(d) = Half(R)
      <4>1. f = R + 1 /\ R \in Int
        BY <1>3, <1>a, <3>2, ReportsTyped
      <4> QED
        BY <1>a, <4>1, HalfFlips DEF ReadHalf, Half
    <3> QED
      BY <3>3, <3>4
  <2> QED
    BY <1>3, <2>1, <2>2
<1> QED
  BY <1>1, <1>2, <1>3, <1>4, <1>a DEF Counted

(* A burst that brings a bucket of the epoch to be reported brings what    *)
(* the half still holds.                                                   *)
LEMMA BurstReads ==
  ASSUME TypeOK, Transit, Counted, Prompt, LastsArrive, NEW n \in 1..Len(queue), Receive(n),
         NEW d \in Dev, NEW b \in Bucket, held'[d][Fermat][b].epoch = Reported
  PROVE  held'[d][Fermat][b].in = ingress[d][Half(Reported)][b]
<1>1. \/ held'[d][Fermat][b] = held[d][Fermat][b]
      \/ \E i \in 1..n : Carries(i, d, Fermat, b) /\ held'[d][Fermat][b] = queue[i].body
  BY BurstHeld, Constants
<1>2. CASE held'[d][Fermat][b] = held[d][Fermat][b]
  BY <1>2 DEF Counted
<1>3. CASE \E i \in 1..n : Carries(i, d, Fermat, b) /\ held'[d][Fermat][b] = queue[i].body
  <2>1. PICK i \in 1..n : Carries(i, d, Fermat, b) /\ held'[d][Fermat][b] = queue[i].body
    BY <1>3
  <2>2. i \in DOMAIN queue /\ Ep(i) = Reported
    BY <2>1, QueueTyped DEF Ep
  <2> QED
    BY <2>1, <2>2 DEF Counted
<1> QED
  BY <1>1, <1>2, <1>3

LEMMA BurstCounted ==
  ASSUME TypeOK, Transit, InStep, InTime, Unentered, Counted, RxBurst
  PROVE  Counted'
<1>0. Transit' /\ InStep' /\ InTime' /\ Ordered /\ Sent
  BY BurstTransit, BurstInStep, BurstInTime DEF Transit
<1>1. PICK n \in 1..Len(queue) :
         /\ Receive(n) /\ (Wait(n) \/ Process(n))
         /\ Len(queue') = Len(queue) - n /\ queue' \in Seq(Packet)
         /\ \A i \in 1..(Len(queue) - n) : queue'[i] = queue[n + i]
  BY BurstPlaces
<1>a. PICK R, N : R = Reported /\ N = Len(queue)
  OBVIOUS
<1>2. /\ lost' = lost /\ ingress' = ingress /\ entered' = entered /\ flips' = flips
  BY <1>1 DEF Receive, switchVars, netVars
<1>3. SUFFICES ASSUME Prompt, LastsArrive'
               PROVE  /\ \A x \in {Reported', Reported' + 1} \cap Epochs, c \in Dev, a \in Bucket :
                            Gap(x - 2)' \/ ingress'[c][Half(x)][a]
                               = (old'[Half(x)][c][a].in + entered'[x][c][a]) % CounterSize
                      /\ \A i \in DOMAIN queue', c \in Dev, a \in Bucket :
                            (Carries(i, c, Fermat, a)' /\ Ep(i)' = Reported') =>
                                queue'[i].body.in = ingress'[c][Half(Reported')][a]
                      /\ \A c \in Dev, a \in Bucket :
                            held'[c][Fermat][a].epoch = Reported' =>
                                held'[c][Fermat][a].in = ingress'[c][Half(Reported')][a]
                      /\ \A j \in DOMAIN reports' : Gap(j - 1)' \/ Gap(j - 3)' \/ Right(j)'
  BY DEF Counted
<1>4. LastsArrive /\ \A e : Gap(e)' <=> Gap(e)
  BY <1>2, <1>3 DEF LastsArrive, Gap
<1>5. /\ R \in Nat /\ N \in Nat /\ DOMAIN reports = 1..R
      /\ DOMAIN queue = 1..N /\ DOMAIN queue' = 1..(N - n)
      /\ n \in 1..N /\ \A i \in 1..(N - n) : queue'[i] = queue[n + i]
  BY <1>1, <1>a, ReportsTyped, QueueTyped
<1>6. /\ \A x \in {R, R + 1} \cap Epochs, c \in Dev, a \in Bucket :
            Gap(x - 2) \/ ingress[c][Half(x)][a]
                             = (old[Half(x)][c][a].in + entered[x][c][a]) % CounterSize
      /\ \A i \in 1..N, c \in Dev, a \in Bucket :
            (Carries(i, c, Fermat, a) /\ Ep(i) = R) =>
                queue[i].body.in = ingress[c][Half(R)][a]
      /\ \A j \in 1..R : Gap(j - 1) \/ Gap(j - 3) \/ Right(j)
      /\ \A c \in Dev, a \in Bucket :
            held'[c][Fermat][a].epoch = R => held'[c][Fermat][a].in = ingress[c][Half(R)][a]
  <2>1. \A c \in Dev, a \in Bucket :
            held'[c][Fermat][a].epoch = R => held'[c][Fermat][a].in = ingress[c][Half(R)][a]
    BY <1>1, <1>3, <1>4, <1>a, BurstReads
  <2> QED
    BY <1>3, <1>4, <1>5, <1>a, <2>1 DEF Counted
<1>7. CASE Wait(n)
  <2>1. old' = old /\ reports' = reports /\ Reported' = R
    BY <1>7, <1>a DEF Wait, Reported
  <2>2. \A j : Right(j)' <=> Right(j)
    BY <1>2, <2>1 DEF Right
  <2>3. ASSUME NEW i \in 1..(N - n), NEW c \in Dev, NEW a \in Bucket,
               Carries(i, c, Fermat, a)', Ep(i)' = R
        PROVE  queue'[i].body.in = ingress[c][Half(R)][a]
    <3>1. queue'[i] = queue[n + i] /\ n + i \in 1..N
      BY <1>5
    <3>2. Carries(n + i, c, Fermat, a) /\ Ep(n + i) = R
      BY <2>3, <3>1 DEF Carries, Ep
    <3> QED
      BY <1>6, <3>1, <3>2
  <2> QED
    BY <1>2, <1>4, <1>5, <1>6, <2>1, <2>2, <2>3
<1>8. CASE Process(n)
  <2>1. /\ Reported' = R + 1 /\ DOMAIN reports' = 1..(R + 1)
        /\ \A j \in 1..R : reports'[j] = reports[j]
        /\ reports'[R + 1] = ReportOf(held')
    BY <1>0, <1>1, <1>8, <1>a, ProcessPlaces
  <2>2. /\ time_flag = Half(R) /\ ~overrun' /\ ~overrun
        /\ \A c \in Dev : flips[c] - 1 <= R /\ flips[c] \in Int
    <3>1. ~overrun /\ \A c \in Dev : flips[c] - 1 <= R
      BY <1>3, <1>4, <1>a DEF InTime
    <3>2. ~overrun'
      BY <1>0, <1>3 DEF InTime
    <3> QED
      BY <1>4, <1>a, <3>1, <3>2, FlipsTyped DEF InStep
  <2>3. /\ \A c \in Dev, a \in Bucket : old'[Half(R)][c][a] = held'[c][Fermat][a]
        /\ \A c \in Dev, a \in Bucket : old'[Half(R + 1)][c][a] = old[Half(R + 1)][c][a]
    <3>1. old' = [old EXCEPT ![Half(R)] = [c \in Dev |-> held'[c][Fermat]]]
      BY <1>1, <1>8, <2>2 DEF Process, Saved, Receive
    <3>2. Half(R) \in Halves /\ Half(R + 1) # Half(R) /\ Half(R + 1) \in Halves
      <4>1. R \in Int /\ R + 1 \in Int
        BY <1>5
      <4>2. Half(R) \in {0, 1} /\ Half(R + 1) = 1 - Half(R)
        BY <4>1, HalfType, HalfFlips DEF Halves
      <4> QED
        BY <4>2 DEF Halves
    <3> QED
      BY <3>1, <3>2 DEF TypeOK
  <2>4. ASSUME ~Gap(R)
        PROVE  \A c \in Dev, a \in Bucket :
                  /\ held'[c][Fermat][a].epoch = R
                  /\ held'[c][Fermat][a].in = ingress[c][Half(R)][a]
    <3>1. OfOneEpoch(R + 1)'
      <4>1. PICK j : j = R + 1
        OBVIOUS
      <4>2. j \in DOMAIN reports' /\ j - 1 = R
        BY <1>5, <2>1, <4>1
      <4>3. Gap(j - 1)' \/ OfOneEpoch(j)'
        BY <1>0, <1>3, <2>2, <4>2 DEF InStep
      <4>4. ~Gap(j - 1)'
        BY <1>4, <2>4, <4>2
      <4> QED
        BY <4>1, <4>3, <4>4
    <3>2. \A c \in Dev : EpochsHeld(c)' = {R}
      <4>1. \A c \in Dev : reports'[R + 1].epochs[c] = {R}
        BY <1>5, <3>1 DEF OfOneEpoch
      <4>2. \A c \in Dev : reports'[R + 1].epochs[c] = EpochsHeld(c)'
        BY <2>1 DEF ReportOf, EpochsHeld
      <4> QED
        BY <4>1, <4>2
    <3>3. \A c \in Dev, a \in Bucket : held'[c][Fermat][a].epoch \in EpochsHeld(c)'
      BY Constants DEF EpochsHeld
    <3> QED
      BY <1>6, <3>2, <3>3
  <2>5. ASSUME NEW c \in Dev
        PROVE  R \in Epochs
    <3>1. held'[c][Fermat][LastBucket].epoch \in {R, R + 1}
      <4>1. held'[c][Fermat][LastBucket].epoch \in {Reported' - 1, Reported'}
        BY <1>0, <1>3, <2>2, Constants DEF InStep
      <4>2. Reported' - 1 = R
        BY <1>5, <2>1
      <4> QED
        BY <2>1, <4>1, <4>2
    <3>2. held'[c][Fermat][LastBucket].epoch <= Latest(c, Fermat, LastBucket)
      BY <1>1, BurstHeld, Constants
    <3>3. Latest(c, Fermat, LastBucket) \in Int /\ Latest(c, Fermat, LastBucket) <= flips[c] - 1
      BY LatestType, Constants
    <3>4. flips[c] \in 0..MaxFlips
      BY FlipsTyped
    <3> QED
      BY <1>5, <2>2, <3>1, <3>2, <3>3, <3>4, Constants
  <2>6. ASSUME NEW x \in {R + 1, R + 2} \cap Epochs, NEW c \in Dev, NEW a \in Bucket, ~Gap(x - 2)
        PROVE  ingress[c][Half(x)][a] = (old'[Half(x)][c][a].in + entered[x][c][a]) % CounterSize
    <3>1. CASE x = R + 1
      BY <1>6, <2>3, <2>6, <3>1
    <3>2. CASE x = R + 2
      <4>1. x - 2 = R /\ Half(x) = Half(R) /\ x \in Epochs
        BY <1>5, <3>2, HalfFlips
      <4>2. ~Gap(R)
        BY <2>6, <4>1
      <4>3. old'[Half(x)][c][a].in = ingress[c][Half(R)][a]
        BY <2>3, <2>4, <4>1, <4>2
      <4>4. entered[x][c][a] = 0
        BY <1>5, <2>2, <3>2, <4>1 DEF Unentered
      <4>5. ingress[c][Half(R)][a] \in Value /\ ingress[c][Half(R)][a] \in Int
        <5>1. Half(R) \in Halves
          BY <1>5, HalfType
        <5>2. ingress[c][Half(R)][a] \in Value
          BY <5>1 DEF TypeOK
        <5> QED
          BY <5>2, Constants DEF Value
      <4>6. ingress[c][Half(R)][a] + 0 = ingress[c][Half(R)][a]
        BY <4>5
      <4>7. ingress[c][Half(R)][a] % CounterSize = ingress[c][Half(R)][a]
        BY <4>5, SmallResidue
      <4> QED
        BY <4>1, <4>3, <4>4, <4>6, <4>7
    <3> QED
      BY <3>1, <3>2
  <2>7. ASSUME NEW i \in 1..(N - n), NEW c \in Dev, NEW a \in Bucket, Carries(i, c, Fermat, a)'
        PROVE  Ep(i)' # R + 1
    <3>1. queue'[i] = queue[n + i] /\ n + i \in 1..N
      BY <1>5
    <3>2. Carries(n + i, c, Fermat, a) /\ Ep(i)' = Ep(n + i)
      BY <2>7, <3>1 DEF Carries, Ep
    <3>3. Ep(n + i) <= Latest(c, Fermat, a) /\ Ep(n + i) \in Int
      BY <1>0, <1>5, <1>a, <3>1, <3>2, QueueTyped, Constants DEF Sent
    <3>4. Latest(c, Fermat, a) \in Int /\ Latest(c, Fermat, a) <= flips[c] - 1
      BY LatestType, Constants
    <3> QED
      BY <1>5, <2>2, <3>2, <3>3, <3>4
  <2>8. ASSUME NEW c \in Dev, NEW a \in Bucket
        PROVE  held'[c][Fermat][a].epoch # R + 1
    <3>1. held'[c][Fermat][a].epoch <= Latest(c, Fermat, a) /\ held'[c][Fermat][a].epoch \in Int
      BY <1>1, BurstHeld, Constants
    <3>2. Latest(c, Fermat, a) \in Int /\ Latest(c, Fermat, a) <= flips[c] - 1
      BY LatestType, Constants
    <3> QED
      BY <1>5, <2>2, <3>1, <3>2
  <2>9. ASSUME ~Gap(R), ~Gap(R - 2)
        PROVE  Right(R + 1)'
    <3>1. ASSUME NEW c \in Dev, NEW a \in Bucket
          PROVE  Minus(held'[c][Fermat][a].in, old[Half(R)][c][a].in)
                    = entered[R][c][a] % CounterSize
      <4>1. R \in Epochs /\ Half(R) \in Halves
        BY <1>5, <2>5, HalfType
      <4>2. held'[c][Fermat][a].in = (old[Half(R)][c][a].in + entered[R][c][a]) % CounterSize
        <5>1. ingress[c][Half(R)][a] = (old[Half(R)][c][a].in + entered[R][c][a]) % CounterSize
          BY <1>6, <2>9, <4>1
        <5> QED
          BY <2>4, <2>9, <5>1
      <4>3. old[Half(R)][c][a].in \in Value /\ entered[R][c][a] \in Int
        <5>1. old[Half(R)][c][a] \in Body /\ entered[R][c][a] \in Nat
          BY <4>1 DEF TypeOK
        <5>2. \A y \in Body : y.in \in Value
          BY DEF Body
        <5>3. \A m \in Nat : m \in Int
          OBVIOUS
        <5> QED
          BY <5>1, <5>2, <5>3, Zenon
      <4> QED
        BY <4>2, <4>3, MinusResidue
    <3>2. reports'[R + 1].in = [c \in Dev |-> [a \in Bucket |->
                                   Minus(held'[c][Fermat][a].in, old[Half(R)][c][a].in)]]
      BY <2>1, <2>2 DEF ReportOf
    <3>3. PICK j : j = R + 1
      OBVIOUS
    <3>4. entered'[j - 1] = entered[R]
      BY <1>2, <1>5, <3>3
    <3>5. \A c \in Dev : [a \in Bucket |-> Minus(held'[c][Fermat][a].in, old[Half(R)][c][a].in)]
                            = [a \in Bucket |-> entered'[j - 1][c][a] % CounterSize]
      BY <3>1, <3>4
    <3>6. reports'[j].in = [d \in Dev |-> [b \in Bucket |-> entered'[j - 1][d][b] % CounterSize]]
      BY <3>2, <3>3, <3>5, Zenon
    <3>7. Right(j)'
      BY <3>6 DEF Right
    <3> QED
      BY <3>3, <3>7
  <2>10. ASSUME NEW j \in 1..(R + 1) PROVE Gap(j - 1)' \/ Gap(j - 3)' \/ Right(j)'
    <3>1. CASE j = R + 1
      <4>1. j - 1 = R /\ j - 3 = R - 2
        BY <1>5, <3>1
      <4>2. Gap(R)' \/ Gap(R - 2)' \/ Right(R + 1)'
        BY <1>4, <2>9
      <4> QED
        BY <3>1, <4>1, <4>2
    <3>2. CASE j \in 1..R
      <4>1. Right(j)' <=> Right(j)
        BY <1>2, <2>1, <3>2 DEF Right
      <4> QED
        BY <1>4, <1>6, <3>2, <4>1
    <3> QED
      BY <1>5, <3>1, <3>2
  <2>11. Reported' + 1 = R + 2
    BY <1>5, <2>1
  <2> QED
    BY <1>2, <1>4, <1>5, <2>1, <2>6, <2>7, <2>8, <2>10, <2>11
<1> QED
  BY <1>1, <1>7, <1>8
-----------------------------------------------------------------------------
(* Whatever is lost or late.                                               *)
LEMMA Several ==
  ASSUME NEW S \in SUBSET Turns, S # {}, \A e \in Turns : S # {e}
  PROVE  Cardinality(S) > 1
<1>1. IsFiniteSet(Turns)
  BY FS_Interval, Constants DEF Turns
<1>2. IsFiniteSet(S)
  BY <1>1, FS_Subset
<1>3. Cardinality(S) \in Nat
  BY <1>2, FS_CardinalityType
<1>4. Cardinality(S) # 0
  BY <1>2, FS_EmptySet
<1>5. Cardinality(S) # 1
  <2>1. \A x : S = {x} => x \in Turns
    OBVIOUS
  <2> QED
    BY <1>2, <2>1, FS_Singleton
<1> QED
  BY <1>3, <1>4, <1>5

LEMMA AdvancingStill ==
  ASSUME Advancing, UNCHANGED ctrlVars
  PROVE  Advancing'
<1>1. held' = held /\ avail' = avail /\ reports' = reports
  BY DEF ctrlVars
<1> QED
  BY <1>1 DEF Advancing, NoEpochReportedTwice, Reported

LEMMA BurstAdvancing ==
  ASSUME TypeOK, Transit, Advancing, RxBurst
  PROVE  Advancing'
<1>1. PICK n \in 1..Len(queue) : Receive(n) /\ (Wait(n) \/ Process(n))
  BY BurstPlaces
<1>a. PICK R : R = Reported
  OBVIOUS
<1>2. R \in Nat /\ DOMAIN reports = 1..R /\ \A j \in 1..R : reports[j] \in Report
  BY <1>a, ReportsTyped
<1>3. \A d \in Dev, k \in Kinds :
         /\ held[d][k][LastBucket].epoch \in Int /\ held'[d][k][LastBucket].epoch \in Int
         /\ held[d][k][LastBucket].epoch <= held'[d][k][LastBucket].epoch
         /\ <<d, k>> \in FlagsAfter(n) =>
               \/ <<d, k>> \in avail
               \/ held[d][k][LastBucket].epoch < held'[d][k][LastBucket].epoch
  BY <1>1, BurstHeld, BurstFlags, LatestType, Constants
<1>4. ASSUME NEW d \in Dev, NEW k \in Kinds
      PROVE  R + Bit(<<d, k>> \in FlagsAfter(n)) <= held'[d][k][LastBucket].epoch + 1
  <2>1. R + Bit(<<d, k>> \in avail) <= held[d][k][LastBucket].epoch + 1
    BY <1>a DEF Advancing
  <2> QED
    BY <1>2, <1>3, <2>1 DEF Bit
<1>5. ASSUME NEW j \in 1..R, NEW d \in Dev, NEW e \in Turns, reports[j].epochs[d] = {e},
             NEW k \in Kinds
      PROVE  e + Bit(<<d, k>> \in FlagsAfter(n)) <= held'[d][k][LastBucket].epoch
  <2>1. e + Bit(<<d, k>> \in avail) <= held[d][k][LastBucket].epoch
    BY <1>2, <1>5 DEF Advancing
  <2>2. e \in Int
    BY DEF Turns
  <2> QED
    BY <1>3, <2>1, <2>2 DEF Bit
<1>6. /\ \A j \in 1..R, d \in Dev : reports[j].epochs[d] # {} /\ reports[j].epochs[d] \subseteq Turns
      /\ \A j, k \in 1..R : \A d \in Dev :
            (j < k /\ reports[j].epochs[d] = reports[k].epochs[d])
               => Cardinality(reports[j].epochs[d]) > 1
  <2>1. \A j \in 1..R, d \in Dev : reports[j].epochs[d] # {}
    BY <1>2 DEF Advancing
  <2>2. \A j \in 1..R, d \in Dev : reports[j].epochs[d] \subseteq Turns
    BY <1>2 DEF Report
  <2>3. NoEpochReportedTwice
    BY DEF Advancing
  <2> QED
    BY <1>2, <2>1, <2>2, <2>3 DEF NoEpochReportedTwice
<1>7. CASE Wait(n)
  <2>1. avail' = FlagsAfter(n) /\ reports' = reports /\ Reported' = R
    BY <1>7, <1>a DEF Wait, Reported
  <2>2. NoEpochReportedTwice'
    BY <1>2, <1>6, <2>1 DEF NoEpochReportedTwice
  <2> QED
    BY <1>2, <1>4, <1>5, <1>6, <2>1, <2>2 DEF Advancing
<1>8. CASE Process(n)
  <2>1. /\ Reported' = R + 1 /\ DOMAIN reports' = 1..(R + 1)
        /\ \A j \in 1..R : reports'[j] = reports[j]
        /\ reports'[R + 1] = ReportOf(held')
        /\ ReportOf(held') \in Report
        /\ \A d \in Dev, k \in Kinds : <<d, k>> \in FlagsAfter(n)
        /\ avail' = {}
    BY <1>1, <1>8, <1>a, ProcessPlaces DEF Transit
  <2>2. \A d \in Dev : /\ reports'[R + 1].epochs[d] = EpochsHeld(d)'
                       /\ EpochsHeld(d)' \in SUBSET Turns
                       /\ \A k \in Kinds : held'[d][k][LastBucket].epoch \in EpochsHeld(d)'
    <3>1. \A d \in Dev : reports'[R + 1].epochs[d] = EpochsHeld(d)'
      BY <2>1 DEF ReportOf, EpochsHeld
    <3>2. \A d \in Dev : reports'[R + 1].epochs[d] \in SUBSET Turns
      BY <2>1 DEF Report
    <3>3. \A d \in Dev, k \in Kinds : held'[d][k][LastBucket].epoch \in EpochsHeld(d)'
      BY Constants DEF EpochsHeld
    <3> QED
      BY <3>1, <3>2, <3>3
  <2>3. \A d \in Dev, k \in Kinds : R + 1 <= held'[d][k][LastBucket].epoch + 1
    BY <1>2, <1>3, <1>4, <2>1 DEF Bit
  <2>4. \A j \in 1..R, d \in Dev, e \in Turns :
           reports[j].epochs[d] = {e} => \A k \in Kinds : e + 1 <= held'[d][k][LastBucket].epoch
    BY <1>5, <2>1 DEF Bit
  <2>5. ASSUME NEW j \in 1..(R + 1), NEW d \in Dev
        PROVE  /\ reports'[j].epochs[d] # {}
               /\ \A e \in Turns : reports'[j].epochs[d] = {e} =>
                     \A k \in Kinds : e <= held'[d][k][LastBucket].epoch
    <3>0. \A e \in Turns : e \in Int
      BY DEF Turns
    <3>1. CASE j \in 1..R
      <4>1. reports'[j] = reports[j]
        BY <2>1, <3>1
      <4>2. ASSUME NEW e \in Turns, NEW k \in Kinds, e + 1 <= held'[d][k][LastBucket].epoch
            PROVE  e <= held'[d][k][LastBucket].epoch
        <5>1. e \in Int /\ held'[d][k][LastBucket].epoch \in Int
          BY <1>3, <3>0
        <5> QED
          BY <4>2, <5>1
      <4> QED
        BY <1>6, <2>4, <3>1, <4>1, <4>2
    <3>2. CASE j = R + 1
      <4>1. \A e \in Turns : reports'[j].epochs[d] = {e} =>
               \A k \in Kinds : e = held'[d][k][LastBucket].epoch
        BY <2>2, <3>2
      <4>2. reports'[j].epochs[d] # {}
        BY <2>2, <3>2, Constants
      <4>3. \A e \in Turns : e <= e
        BY <3>0
      <4> QED
        BY <4>1, <4>2, <4>3
    <3> QED
      BY <1>2, <3>1, <3>2
  <2>6. ASSUME NEW j \in 1..(R + 1), NEW k \in 1..(R + 1), NEW d \in Dev,
               j < k, reports'[j].epochs[d] = reports'[k].epochs[d]
        PROVE  Cardinality(reports'[j].epochs[d]) > 1
    <3>1. CASE k \in 1..R
      <4>1. j \in 1..R /\ reports'[j] = reports[j] /\ reports'[k] = reports[k]
        BY <1>2, <2>1, <2>6, <3>1
      <4> QED
        BY <1>6, <2>6, <3>1, <4>1
    <3>2. CASE k = R + 1
      <4>1. j \in 1..R /\ reports'[j] = reports[j]
        BY <1>2, <2>1, <2>6, <3>2
      <4>2. reports[j].epochs[d] = EpochsHeld(d)'
        BY <2>2, <2>6, <3>2, <4>1
      <4>3. ASSUME NEW e \in Turns, EpochsHeld(d)' = {e} PROVE FALSE
        <5>1. e + 1 <= held'[d][Fermat][LastBucket].epoch
          BY <2>4, <4>1, <4>2, <4>3, Constants
        <5>2. held'[d][Fermat][LastBucket].epoch = e /\ e \in Int
          BY <2>2, <4>3, Constants DEF Turns
        <5> QED
          BY <5>1, <5>2
      <4>4. EpochsHeld(d)' # {} /\ EpochsHeld(d)' \in SUBSET Turns
        BY <1>6, <2>2, <4>1, <4>2
      <4>5. Cardinality(EpochsHeld(d)') > 1
        BY <4>3, <4>4, Several
      <4> QED
        BY <4>1, <4>2, <4>5
    <3> QED
      BY <1>2, <3>1, <3>2
  <2>7. NoEpochReportedTwice'
    BY <2>1, <2>6 DEF NoEpochReportedTwice
  <2>8. \A d \in Dev, k \in Kinds : Bit(<<d, k>> \in avail') = 0
    BY <2>1 DEF Bit
  <2>9. /\ R + 1 + 0 = R + 1
        /\ \A e \in Turns : e + 0 = e
    BY <1>2 DEF Turns
  <2> QED
    BY <2>1, <2>3, <2>5, <2>7, <2>8, <2>9 DEF Advancing
<1> QED
  BY <1>1, <1>7, <1>8
-----------------------------------------------------------------------------
(* A skipped epoch stays skipped.                                          *)
Grown == \A c \in Dev, j \in Kinds :
             /\ Latest(c, j, LastBucket) \in Int /\ Latest(c, j, LastBucket)' \in Int
             /\ Latest(c, j, LastBucket) <= Latest(c, j, LastBucket)'

LEMMA SkipsStill ==
  ASSUME UNCHANGED <<queue, held, avail, reports>>, Grown,
         NEW c \in Dev, NEW j \in Kinds, NEW e \in Int, Skips(c, j, e)
  PROVE  Skips(c, j, e)'
<1>1. e <= Latest(c, j, LastBucket)'
  BY DEF Grown, Skips
<1>2. \A i : /\ Carries(i, c, j, LastBucket)' <=> Carries(i, c, j, LastBucket)
             /\ Ep(i)' = Ep(i)
  BY DEF Carries, Ep
<1>3. Reported' = Reported
  BY DEF Reported
<1> QED
  BY <1>1, <1>2, <1>3 DEF Skips

LEMMA DesyncedStill ==
  ASSUME TypeOK, Desynced, UNCHANGED <<queue, held, avail, reports, lost>>, Grown
  PROVE  Desynced'
<1> SUFFICES ASSUME NEW x \in lost, x.last
             PROVE  /\ \E d \in Dev, k \in Kinds : Skips(d, k, x.epoch)'
                    /\ \A j \in DOMAIN reports : j - 1 < x.epoch \/ ~OfOneEpoch(j)'
  BY DEF Desynced
<1>1. x.epoch \in Int
  BY Constants DEF TypeOK
<1>2. \A j : OfOneEpoch(j)' <=> OfOneEpoch(j)
  BY DEF OfOneEpoch
<1>3. PICK d \in Dev, k \in Kinds : Skips(d, k, x.epoch)
  BY DEF Desynced
<1>4. Skips(d, k, x.epoch)'
  BY <1>1, <1>3, SkipsStill
<1> QED
  BY <1>2, <1>4 DEF Desynced

LEMMA GrownStill ==
  ASSUME TypeOK, UNCHANGED <<flips, next>>
  PROVE  Grown
BY LatestType, Constants DEF Grown, Latest

LEMMA GrownFlip ==
  ASSUME TypeOK, NEW d \in Dev, Flip(d)
  PROVE  Grown
BY LatestAfterFlip, LatestType, Constants DEF Grown

LEMMA GrownRead ==
  ASSUME TypeOK, NEW d \in Dev, NEW k \in Kinds, NEW s \in Bucket, s = next[d][k],
         flips' = flips, next' = [next EXCEPT ![d][k] = s + 1]
  PROVE  Grown
<1>1. /\ Latest(d, k, s) = flips[d] - 2
      /\ Latest(d, k, s)' = flips[d] - 1
      /\ \A c \in Dev, j \in Kinds, b \in Bucket :
            <<c, j, b>> # <<d, k, s>> => Latest(c, j, b)' = Latest(c, j, b)
  BY LatestAfterRead
<1>2. flips[d] \in Int
  BY FlipsTyped
<1> SUFFICES ASSUME NEW c \in Dev, NEW j \in Kinds
             PROVE  /\ Latest(c, j, LastBucket) \in Int /\ Latest(c, j, LastBucket)' \in Int
                    /\ Latest(c, j, LastBucket) <= Latest(c, j, LastBucket)'
  BY DEF Grown
<1>3. CASE <<c, j, LastBucket>> = <<d, k, s>>
  BY <1>1, <1>2, <1>3
<1>4. CASE <<c, j, LastBucket>> # <<d, k, s>>
  <2>1. Latest(c, j, LastBucket)' = Latest(c, j, LastBucket)
    BY <1>1, <1>4, Constants
  <2> QED
    BY <2>1, LatestType, Constants
<1> QED
  BY <1>3, <1>4

(* The stream whose last packet is lost skips that epoch.                  *)
LEMMA LoseDesynced ==
  ASSUME TypeOK, Transit, Advancing, Desynced, NEW d \in Dev, NEW k \in Kinds, Lose(d, k)
  PROVE  Desynced'
<1>a. PICK f, s, R : f = flips[d] /\ s = next[d][k] /\ R = Reported
  OBVIOUS
<1>1. /\ s \in Bucket /\ f \in Int /\ flips' = flips
      /\ next' = [next EXCEPT ![d][k] = s + 1]
      /\ lost' = lost \cup {[epoch |-> f - 1, last |-> s = LastBucket]}
      /\ UNCHANGED <<queue, held, avail, reports>>
  <2>1. Idle
    BY DEF Transit
  <2> QED
    BY <1>a, <2>1, LosePlaces, FlipsTyped DEF ctrlVars
<1>2. Grown
  BY <1>1, <1>a, GrownRead
<1>3. \A j : OfOneEpoch(j)' <=> OfOneEpoch(j)
  BY <1>1 DEF OfOneEpoch
<1> SUFFICES ASSUME NEW x \in lost', x.last
             PROVE  /\ \E c \in Dev, j \in Kinds : Skips(c, j, x.epoch)'
                    /\ \A j \in DOMAIN reports' : j - 1 < x.epoch \/ ~OfOneEpoch(j)'
  BY DEF Desynced
<1>4. CASE x \in lost
  <2>1. x.epoch \in Int
    BY <1>4, Constants DEF TypeOK
  <2>2. PICK c \in Dev, j \in Kinds : Skips(c, j, x.epoch)
    BY <1>4 DEF Desynced
  <2>3. Skips(c, j, x.epoch)'
    BY <1>1, <1>2, <2>1, <2>2, SkipsStill
  <2>4. \A i \in DOMAIN reports : i - 1 < x.epoch \/ ~OfOneEpoch(i)
    BY <1>4 DEF Desynced
  <2> QED
    BY <1>1, <1>3, <2>3, <2>4
<1>5. CASE x = [epoch |-> f - 1, last |-> s = LastBucket]
  <2>1. s = LastBucket /\ x.epoch = f - 1
    BY <1>5
  <2>2. Latest(d, k, LastBucket) = f - 2 /\ Latest(d, k, LastBucket)' = f - 1
    BY <1>1, <1>a, <2>1, LatestAfterRead
  <2>3. /\ held[d][k][LastBucket].epoch \in Int
        /\ held[d][k][LastBucket].epoch <= f - 2
        /\ \A i \in DOMAIN queue : Carries(i, d, k, LastBucket) => Ep(i) <= f - 2
    BY <2>2, LatestType, Constants DEF Transit, Sent
  <2>4. R \in Nat /\ R + Bit(<<d, k>> \in avail) <= held[d][k][LastBucket].epoch + 1
    BY <1>a, ReportsTyped DEF Advancing
  <2>5. Skips(d, k, f - 1)'
    <3>1. f - 1 <= Latest(d, k, LastBucket)'
      BY <1>1, <2>2
    <3>2. held'[d][k][LastBucket].epoch # f - 1
      BY <1>1, <2>3
    <3>3. \A i \in DOMAIN queue' : Carries(i, d, k, LastBucket)' => Ep(i)' # f - 1
      <4>1. \A i \in DOMAIN queue : Carries(i, d, k, LastBucket) => Ep(i) # f - 1
        BY <1>1, <2>3, QueueTyped
      <4>2. \A i : /\ Carries(i, d, k, LastBucket)' <=> Carries(i, d, k, LastBucket)
                   /\ Ep(i)' = Ep(i)
        BY <1>1 DEF Carries, Ep
      <4> QED
        BY <1>1, <4>1, <4>2
    <3>4. Reported' + Bit(<<d, k>> \in avail') + Bit(f - 1 < held'[d][k][LastBucket].epoch)
             <= held'[d][k][LastBucket].epoch + 1
      <4>1. Bit(f - 1 < held[d][k][LastBucket].epoch) = 0
        BY <1>1, <2>3 DEF Bit
      <4>2. R + Bit(<<d, k>> \in avail) + 0 <= held[d][k][LastBucket].epoch + 1
        BY <2>3, <2>4 DEF Bit
      <4>3. Reported' = R
        BY <1>1, <1>a DEF Reported
      <4> QED
        BY <1>1, <4>1, <4>2, <4>3
    <3> QED
      BY <3>1, <3>2, <3>3, <3>4 DEF Skips
  <2>6. ASSUME NEW j \in DOMAIN reports PROVE j - 1 < f - 1
    <3>1. j \in 1..R
      BY <1>a, ReportsTyped
    <3>2. R <= held[d][k][LastBucket].epoch + 1
      BY <2>3, <2>4 DEF Bit
    <3> QED
      BY <1>1, <2>3, <2>4, <3>1, <3>2
  <2> QED
    BY <1>1, <2>1, <2>5, <2>6
<1> QED
  BY <1>1, <1>4, <1>5

LEMMA SendDesynced ==
  ASSUME TypeOK, Transit, Desynced, NEW d \in Dev, NEW k \in Kinds, Send(d, k)
  PROVE  Desynced'
<1>a. PICK f, s, N : f = flips[d] /\ s = next[d][k] /\ N = Len(queue)
  OBVIOUS
<1>1. /\ s \in Bucket /\ f \in Int /\ flips' = flips
      /\ next' = [next EXCEPT ![d][k] = s + 1]
      /\ UNCHANGED <<held, avail, reports, lost>>
      /\ N \in Nat /\ DOMAIN queue = 1..N /\ DOMAIN queue' = 1..(N + 1)
      /\ \A i \in 1..N : queue'[i] = queue[i]
      /\ queue'[N + 1] = Sending(d, k)
  <2>1. Idle
    BY DEF Transit
  <2>2. queue' \in Seq(Packet) /\ Len(queue') = N + 1
    BY <1>a, <2>1, SendPlaces
  <2>3. DOMAIN queue' = 1..(N + 1)
    BY <2>2
  <2>4. flips' = flips /\ next' = [next EXCEPT ![d][k] = s + 1]
    BY <1>a DEF Send
  <2>5. UNCHANGED <<held, avail, reports, lost>>
    BY DEF Send, ctrlVars
  <2> QED
    BY <1>a, <2>1, <2>3, <2>4, <2>5, SendPlaces, QueueTyped, FlipsTyped
<1>2. Grown
  BY <1>1, <1>a, GrownRead
<1>3. \A j : OfOneEpoch(j)' <=> OfOneEpoch(j)
  BY <1>1 DEF OfOneEpoch
<1>4. Reported' = Reported
  BY <1>1 DEF Reported
<1> SUFFICES ASSUME NEW x \in lost, x.last
             PROVE  /\ \E c \in Dev, j \in Kinds : Skips(c, j, x.epoch)'
                    /\ \A j \in DOMAIN reports : j - 1 < x.epoch \/ ~OfOneEpoch(j)'
  BY <1>1 DEF Desynced
<1>5. x.epoch \in Int
  BY Constants DEF TypeOK
<1>6. PICK c \in Dev, j \in Kinds : Skips(c, j, x.epoch)
  BY DEF Desynced
<1>7. x.epoch <= Latest(c, j, LastBucket)'
  BY <1>2, <1>5, <1>6 DEF Grown, Skips
<1>8. ASSUME NEW i \in 1..(N + 1), Carries(i, c, j, LastBucket)'
      PROVE  Ep(i)' # x.epoch
  <2>1. CASE i \in 1..N
    <3>1. queue'[i] = queue[i]
      BY <1>1, <2>1
    <3>2. Carries(i, c, j, LastBucket) /\ Ep(i)' = Ep(i)
      BY <1>8, <3>1 DEF Carries, Ep
    <3> QED
      BY <1>1, <1>6, <2>1, <3>2 DEF Skips
  <2>2. CASE i = N + 1
    <3>1. queue'[i] = Sending(d, k)
      BY <1>1, <2>2
    <3>2. c = d /\ j = k /\ s = LastBucket /\ Ep(i)' = f - 1
      BY <1>8, <1>a, <3>1 DEF Carries, Ep, Sending
    <3>3. Latest(c, j, LastBucket) = f - 2
      <4>1. Latest(d, k, s) = flips[d] - 2
        BY <1>1, <1>a, LatestAfterRead
      <4> QED
        BY <1>a, <3>2, <4>1
    <3>4. x.epoch <= f - 2
      BY <1>6, <3>3 DEF Skips
    <3> QED
      BY <1>1, <1>5, <3>2, <3>4
  <2> QED
    BY <1>1, <2>1, <2>2
<1>9. Skips(c, j, x.epoch)'
  BY <1>1, <1>4, <1>6, <1>7, <1>8 DEF Skips
<1>10. \A i \in DOMAIN reports : i - 1 < x.epoch \/ ~OfOneEpoch(i)
  BY DEF Desynced
<1> QED
  BY <1>3, <1>9, <1>10

LEMMA BurstSkips ==
  ASSUME TypeOK, Transit, RxBurst,
         NEW d \in Dev, NEW k \in Kinds, NEW e \in Int, Skips(d, k, e)
  PROVE  Skips(d, k, e)'
<1>1. PICK n \in 1..Len(queue) :
         /\ Receive(n) /\ (Wait(n) \/ Process(n))
         /\ Len(queue') = Len(queue) - n /\ queue' \in Seq(Packet)
         /\ \A i \in 1..(Len(queue) - n) : queue'[i] = queue[n + i]
  BY BurstPlaces
<1>a. PICK R, N, h, g : /\ R = Reported /\ N = Len(queue)
                        /\ h = held[d][k][LastBucket].epoch
                        /\ g = held'[d][k][LastBucket].epoch
  OBVIOUS
<1>2. /\ R \in Nat /\ N \in Nat /\ n \in 1..N
      /\ DOMAIN queue = 1..N /\ DOMAIN queue' = 1..(N - n)
      /\ \A i \in 1..(N - n) : queue'[i] = queue[n + i]
  BY <1>1, <1>a, ReportsTyped, QueueTyped
<1>3. /\ h \in Int /\ g \in Int /\ h <= g
      /\ <<d, k>> \in FlagsAfter(n) => (<<d, k>> \in avail \/ h < g)
  BY <1>1, <1>a, BurstHeld, BurstFlags, LatestType, Constants
<1>4. /\ e <= Latest(d, k, LastBucket) /\ h # e
      /\ \A i \in 1..N : Carries(i, d, k, LastBucket) => Ep(i) # e
      /\ R + Bit(<<d, k>> \in avail) + Bit(e < h) <= h + 1
  BY <1>2, <1>a DEF Skips
<1>5. g # e
  <2>1. \/ held'[d][k][LastBucket] = held[d][k][LastBucket]
        \/ \E i \in 1..n : /\ Carries(i, d, k, LastBucket)
                           /\ held'[d][k][LastBucket] = queue[i].body
    BY <1>1, BurstHeld, Constants
  <2> QED
    BY <1>2, <1>4, <1>a, <2>1 DEF Ep
<1>6. e <= Latest(d, k, LastBucket)'
  BY <1>1, <1>4 DEF Receive, switchVars, Latest
<1>7. ASSUME NEW i \in 1..(N - n), Carries(i, d, k, LastBucket)'
      PROVE  Ep(i)' # e
  <2>1. queue'[i] = queue[n + i] /\ n + i \in 1..N
    BY <1>2
  <2>2. Carries(n + i, d, k, LastBucket) /\ Ep(i)' = Ep(n + i)
    BY <1>7, <2>1 DEF Carries, Ep
  <2> QED
    BY <1>4, <2>1, <2>2
<1>8. R + Bit(<<d, k>> \in FlagsAfter(n)) + Bit(e < g) <= g + 1
  <2>1. CASE h = g
    BY <1>2, <1>3, <1>4, <2>1 DEF Bit
  <2>2. CASE h < g
    <3>1. /\ R + Bit(e < h) <= h + 1 /\ R <= h + 1
          /\ <<d, k>> \in avail => R + 1 + Bit(e < h) <= h + 1
      BY <1>2, <1>3, <1>4 DEF Bit
    <3>2. CASE e < h
      BY <1>2, <1>3, <2>2, <3>1, <3>2 DEF Bit
    <3>3. CASE ~(e < h)
      <4>1. e < g => h + 2 <= g
        BY <1>3, <1>4, <3>3
      <4> QED
        BY <1>2, <1>3, <2>2, <3>1, <4>1 DEF Bit
    <3> QED
      BY <3>2, <3>3
  <2> QED
    BY <1>3, <2>1, <2>2
<1>9. Reported' + Bit(<<d, k>> \in avail') + Bit(e < g) <= g + 1
  <2>1. CASE Wait(n)
    <3>1. avail' = FlagsAfter(n) /\ Reported' = R
      BY <1>a, <2>1 DEF Wait, Reported
    <3> QED
      BY <1>8, <3>1
  <2>2. CASE Process(n)
    <3>1. Reported' = R + 1 /\ <<d, k>> \in FlagsAfter(n) /\ avail' = {}
      BY <1>1, <1>a, <2>2, ProcessPlaces DEF Transit
    <3>2. R + 1 + Bit(e < g) <= g + 1
      BY <1>8, <3>1 DEF Bit
    <3> QED
      BY <1>2, <1>3, <3>1, <3>2 DEF Bit
  <2> QED
    BY <1>1, <2>1, <2>2
<1> QED
  BY <1>2, <1>5, <1>6, <1>7, <1>9, <1>a DEF Skips

LEMMA BurstDesynced ==
  ASSUME TypeOK, Transit, Desynced, RxBurst
  PROVE  Desynced'
<1>1. PICK n \in 1..Len(queue) : Receive(n) /\ (Wait(n) \/ Process(n))
  BY BurstPlaces
<1>a. PICK R : R = Reported
  OBVIOUS
<1>2. R \in Nat /\ DOMAIN reports = 1..R /\ lost' = lost
  BY <1>1, <1>a, ReportsTyped DEF Receive
<1> SUFFICES ASSUME NEW x \in lost, x.last
             PROVE  /\ \E c \in Dev, k \in Kinds : Skips(c, k, x.epoch)'
                    /\ \A j \in DOMAIN reports' : j - 1 < x.epoch \/ ~OfOneEpoch(j)'
  BY <1>2 DEF Desynced
<1>3. x.epoch \in Int
  BY Constants DEF TypeOK
<1>4. PICK d \in Dev, k \in Kinds : Skips(d, k, x.epoch)
  BY DEF Desynced
<1>5. Skips(d, k, x.epoch)'
  BY <1>3, <1>4, BurstSkips
<1>6. \A j \in 1..R : j - 1 < x.epoch \/ ~OfOneEpoch(j)
  BY <1>2 DEF Desynced
<1>7. CASE Wait(n)
  <2>1. reports' = reports /\ \A j : OfOneEpoch(j)' <=> OfOneEpoch(j)
    BY <1>7 DEF Wait, OfOneEpoch
  <2> QED
    BY <1>2, <1>5, <1>6, <2>1
<1>8. CASE Process(n)
  <2>1. /\ Reported' = R + 1 /\ DOMAIN reports' = 1..(R + 1)
        /\ \A j \in 1..R : reports'[j] = reports[j]
        /\ reports'[R + 1] = ReportOf(held')
        /\ avail' = {}
    BY <1>1, <1>8, <1>a, ProcessPlaces DEF Transit
  <2>2. ASSUME OfOneEpoch(R + 1)' PROVE R < x.epoch
    <3>a. PICK g : g = held'[d][k][LastBucket].epoch
      OBVIOUS
    <3>1. g = R
      <4>1. reports'[R + 1].epochs[d] = {R}
        <5>1. PICK j : j = R + 1
          OBVIOUS
        <5>2. OfOneEpoch(j)'
          BY <2>2, <5>1
        <5>3. reports'[j].epochs[d] = {j - 1}
          BY <5>2 DEF OfOneEpoch
        <5>4. j - 1 = R
          BY <1>2, <5>1
        <5> QED
          BY <5>1, <5>3, <5>4
      <4>2. reports'[R + 1].epochs[d] = EpochsHeld(d)'
        BY <2>1 DEF ReportOf, EpochsHeld
      <4>3. g \in EpochsHeld(d)'
        BY <3>a, Constants DEF EpochsHeld
      <4> QED
        BY <4>1, <4>2, <4>3
    <3>2. /\ g # x.epoch
          /\ R + 1 + Bit(<<d, k>> \in avail') + Bit(x.epoch < g) <= g + 1
      BY <1>5, <2>1, <3>a DEF Skips
    <3>3. ~(x.epoch < g)
      BY <1>2, <1>3, <2>1, <3>1, <3>2 DEF Bit
    <3> QED
      BY <1>2, <1>3, <3>1, <3>2, <3>3
  <2>3. ASSUME NEW j \in 1..(R + 1) PROVE j - 1 < x.epoch \/ ~OfOneEpoch(j)'
    <3>1. CASE j = R + 1
      <4>1. j - 1 = R
        BY <1>2, <3>1
      <4> QED
        BY <2>2, <3>1, <4>1
    <3>2. CASE j \in 1..R
      <4>1. OfOneEpoch(j)' <=> OfOneEpoch(j)
        BY <2>1, <3>2 DEF OfOneEpoch
      <4> QED
        BY <1>6, <3>2, <4>1
    <3> QED
      BY <1>2, <3>1, <3>2
  <2> QED
    BY <1>5, <2>1, <2>3
<1> QED
  BY <1>1, <1>7, <1>8
-----------------------------------------------------------------------------
LEMMA InitInvariant == Init => IInv
<1> SUFFICES ASSUME Init PROVE IInv
  OBVIOUS
<1>1. TypeOK
  BY InitType
<1>2. /\ \A d \in Dev : flips[d] = 0
      /\ \A d \in Dev, k \in Kinds : next[d][k] = Done
      /\ \A d \in Dev, k \in Kinds, b \in Bucket : held[d][k][b].epoch = -1
      /\ \A d \in Dev, h \in Halves, b \in Bucket : ingress[d][h][b] = 0 /\ old[h][d][b].in = 0
      /\ \A e \in Epochs, d \in Dev, b \in Bucket : entered[e][d][b] = 0
  BY DEF Init, PerBucket, Blank
<1>3. /\ queue = <<>> /\ avail = {} /\ time_flag = 0 /\ reports = <<>> /\ lost = {}
      /\ overrun = FALSE
      /\ DOMAIN queue = {} /\ DOMAIN reports = {} /\ Reported = 0
  BY DEF Init, Reported
<1>4. \A e : ~Gap(e)
  BY <1>3 DEF Gap
<1>5. ASSUME NEW d \in Dev, NEW k \in Kinds, NEW b \in Bucket
      PROVE  Latest(d, k, b) = -1
  <2>1. flips[d] = 0 /\ next[d][k] = Done /\ b < Done
    BY <1>2, Constants
  <2> QED
    BY <2>1 DEF Latest
<1>6. Transit
  <2>1. Idle
    BY <1>2 DEF Idle, ReadOut
  <2>2. Ordered
    BY <1>3 DEF Ordered
  <2>3. Sent
    BY <1>2, <1>3, <1>5 DEF Sent
  <2>4. Complete
    <3>1. \A e \in Epochs : ~(e <= -1)
      BY Constants
    <3> QED
      BY <1>5, <3>1 DEF Complete
  <2>5. HeldWhole
    BY <1>2, Constants DEF HeldWhole
  <2> QED
    BY <2>1, <2>2, <2>3, <2>4, <2>5 DEF Transit
<1>7. NotAll
  <2>1. PICK d : d \in Dev
    BY Constants
  <2>2. <<d, Fermat>> \in Streams
    BY <2>1, Constants DEF Streams
  <2> QED
    BY <1>3, <2>2 DEF NotAll
<1>8. InStep
  BY <1>2, <1>3, Constants DEF InStep, Half
<1>9. InTime
  BY <1>2, <1>3 DEF InTime
<1>10. Unentered
  BY <1>2 DEF Unentered
<1>11. Counted
  <2>1. \A x \in {0, 0 + 1} \cap Epochs, d \in Dev, b \in Bucket :
           ingress[d][Half(x)][b] = (old[Half(x)][d][b].in + entered[x][d][b]) % CounterSize
    <3>1. (0 + 0) % CounterSize = 0
      BY Constants, SmallResidue
    <3>2. \A x \in {0, 0 + 1} : Half(x) \in Halves
      BY HalfType
    <3> QED
      BY <1>2, <3>1, <3>2
  <2>2. \A d \in Dev, b \in Bucket : held[d][Fermat][b].epoch # 0
    BY <1>2, Constants
  <2> QED
    BY <1>3, <2>1, <2>2 DEF Counted
<1>12. Advancing
  <2>1. \A d \in Dev, k \in Kinds : Bit(<<d, k>> \in avail) = 0
    BY <1>3 DEF Bit
  <2>2. NoEpochReportedTwice
    BY <1>3 DEF NoEpochReportedTwice
  <2> QED
    BY <1>2, <1>3, <2>1, <2>2, Constants DEF Advancing
<1>13. Desynced
  BY <1>3 DEF Desynced
<1> QED
  BY <1>1, <1>6, <1>7, <1>8, <1>9, <1>10, <1>11, <1>12, <1>13 DEF IInv

(* Every step keeps the invariant: one lemma per action.                   *)
LEMMA EnterInvariant ==
  ASSUME IInv, NEW d \in Dev, NEW b \in Bucket, Enter(d, b)
  PROVE  IInv'
<1>0. TypeOK /\ Transit /\ NotAll /\ InStep /\ InTime /\ Unentered /\ Counted
      /\ Advancing /\ Desynced
  BY DEF IInv
<1>1. /\ UNCHANGED <<flips, next, queue, lost>> /\ UNCHANGED ctrlVars
      /\ UNCHANGED <<held, avail, reports>>
  BY DEF Enter, ctrlVars
<1>2. TypeOK'
  BY <1>0, EnterType
<1>3. Transit' /\ NotAll'
  BY <1>0, <1>1, StillTransit DEF NotAll
<1>4. InStep' /\ InTime'
  BY <1>0, <1>1, InStepStill, InTimeStill
<1>5. Unentered' /\ Counted'
  BY <1>0, EnterUnentered, EnterCounted
<1>6. Advancing' /\ Desynced'
  BY <1>0, <1>1, AdvancingStill, DesyncedStill, GrownStill
<1> QED
  BY <1>2, <1>3, <1>4, <1>5, <1>6 DEF IInv

(* Packets that move on inside the network.                                *)
LEMMA MoveInvariant ==
  ASSUME IInv, TypeOK',
         UNCHANGED <<flips, next, ingress, queue, held, avail, old, reports, entered, lost>>,
         UNCHANGED ctrlVars
  PROVE  IInv'
<1>0. TypeOK /\ Transit /\ NotAll /\ InStep /\ InTime /\ Unentered /\ Counted
      /\ Advancing /\ Desynced
  BY DEF IInv
<1>1. Transit' /\ NotAll'
  BY <1>0, StillTransit DEF NotAll
<1>2. InStep' /\ InTime'
  BY <1>0, InStepStill, InTimeStill
<1>3. Unentered' /\ Counted'
  <2>1. \A d \in Dev : flips[d] <= flips'[d]
    BY <1>0, FlipsTyped
  <2> QED
    BY <1>0, <2>1, UnenteredStill, CountedStill
<1>4. Advancing' /\ Desynced'
  BY <1>0, AdvancingStill, DesyncedStill, GrownStill
<1> QED
  BY <1>1, <1>2, <1>3, <1>4 DEF IInv

LEMMA FlipInvariant ==
  ASSUME IInv, NEW d \in Dev, Flip(d)
  PROVE  IInv'
<1>0. TypeOK /\ Transit /\ NotAll /\ InStep /\ InTime /\ Unentered /\ Counted
      /\ Advancing /\ Desynced
  BY DEF IInv
<1>1. /\ UNCHANGED <<ingress, queue, lost>> /\ UNCHANGED ctrlVars
      /\ UNCHANGED <<held, avail, old, reports>> /\ entered' = entered
      /\ flips' = [flips EXCEPT ![d] = @ + 1]
  BY DEF Flip, ctrlVars, netVars
<1>2. TypeOK'
  BY <1>0, FlipType
<1>3. Transit' /\ NotAll'
  BY <1>0, <1>1, FlipTransit DEF NotAll
<1>4. InStep' /\ InTime'
  BY <1>0, <1>1, InStepStill, FlipInTime
<1>5. Unentered' /\ Counted'
  <2>1. \A c \in Dev : flips[c] <= flips'[c]
    <3>1. \A c \in Dev : flips[c] \in Int /\ (flips'[c] = flips[c] \/ flips'[c] = flips[c] + 1)
      BY <1>0, <1>1, FlipsTyped DEF TypeOK
    <3> QED
      BY <3>1
  <2> QED
    BY <1>0, <1>1, <1>2, <2>1, UnenteredStill, CountedStill
<1>6. Advancing' /\ Desynced'
  BY <1>0, <1>1, AdvancingStill, DesyncedStill, GrownFlip
<1> QED
  BY <1>2, <1>3, <1>4, <1>5, <1>6 DEF IInv

LEMMA SendInvariant ==
  ASSUME IInv, NEW d \in Dev, NEW k \in Kinds, Send(d, k)
  PROVE  IInv'
<1>0. TypeOK /\ Transit /\ NotAll /\ InStep /\ InTime /\ Unentered /\ Counted
      /\ Advancing /\ Desynced
  BY DEF IInv
<1>1. UNCHANGED flips /\ UNCHANGED ctrlVars /\ lost' = lost /\ avail' = avail /\ entered' = entered
  BY DEF Send, ctrlVars, netVars
<1>2. TypeOK'
  BY <1>0, SendType DEF Transit
<1>3. Transit' /\ NotAll'
  BY <1>0, <1>1, SendTransit DEF NotAll
<1>4. InStep' /\ InTime'
  BY <1>0, <1>1, InStepStill, InTimeStill
<1>5. Unentered' /\ Counted'
  <2>1. \A c \in Dev : flips[c] <= flips'[c]
    BY <1>0, <1>1, FlipsTyped
  <2> QED
    BY <1>0, <1>1, <1>2, <2>1, UnenteredStill, SendCounted
<1>6. Advancing' /\ Desynced'
  BY <1>0, <1>1, AdvancingStill, SendDesynced
<1> QED
  BY <1>2, <1>3, <1>4, <1>5, <1>6 DEF IInv

LEMMA LoseInvariant ==
  ASSUME IInv, NEW d \in Dev, NEW k \in Kinds, Lose(d, k)
  PROVE  IInv'
<1>0. TypeOK /\ Transit /\ NotAll /\ InStep /\ InTime /\ Unentered /\ Counted
      /\ Advancing /\ Desynced
  BY DEF IInv
<1>1. /\ UNCHANGED flips /\ UNCHANGED ctrlVars /\ UNCHANGED <<ingress, queue, held, old, reports>>
      /\ avail' = avail /\ entered' = entered /\ lost \subseteq lost'
  BY DEF Lose, ctrlVars, netVars
<1>2. TypeOK'
  BY <1>0, LoseType DEF Transit
<1>3. Transit' /\ NotAll'
  BY <1>0, <1>1, LoseTransit DEF NotAll
<1>4. InStep' /\ InTime'
  BY <1>0, <1>1, InStepStill, InTimeStill
<1>5. Unentered' /\ Counted'
  <2>1. \A c \in Dev : flips[c] <= flips'[c]
    BY <1>0, <1>1, FlipsTyped
  <2> QED
    BY <1>0, <1>1, <1>2, <2>1, UnenteredStill, CountedStill
<1>6. Advancing' /\ Desynced'
  BY <1>0, <1>1, AdvancingStill, LoseDesynced
<1> QED
  BY <1>2, <1>3, <1>4, <1>5, <1>6 DEF IInv

LEMMA BurstInvariant ==
  ASSUME IInv, RxBurst
  PROVE  IInv'
<1>0. TypeOK /\ Transit /\ NotAll /\ InStep /\ InTime /\ Unentered /\ Counted
      /\ Advancing /\ Desynced
  BY DEF IInv
<1>1. flips' = flips /\ entered' = entered
  BY DEF RxBurst, Receive, switchVars, netVars
<1>2. TypeOK'
  BY <1>0, BurstType DEF Transit
<1>3. Transit' /\ NotAll'
  BY <1>0, BurstTransit, BurstNotAll
<1>4. InStep' /\ InTime'
  BY <1>0, BurstInStep, BurstInTime
<1>5. Unentered' /\ Counted'
  <2>1. \A c \in Dev : flips[c] <= flips'[c]
    BY <1>0, <1>1, FlipsTyped
  <2> QED
    BY <1>0, <1>1, <1>2, <2>1, UnenteredStill, BurstCounted
<1>6. Advancing' /\ Desynced'
  BY <1>0, BurstAdvancing, BurstDesynced
<1> QED
  BY <1>2, <1>3, <1>4, <1>5, <1>6 DEF IInv

LEMMA NextInvariant == IInv /\ [Next]_vars => IInv'
<1> SUFFICES ASSUME IInv, [Next]_vars PROVE IInv'
  OBVIOUS
<1>1. TypeOK
  BY DEF IInv
<1>2. ASSUME NEW d \in Dev, NEW b \in Bucket, Enter(d, b) PROVE IInv'
  BY <1>2, EnterInvariant
<1>3. ASSUME NEW d \in Dev, NEW e \in Epochs, NEW b \in Bucket, Leave(d, e, b) PROVE IInv'
  <2>1. TypeOK'
    BY <1>1, <1>3, LeaveType
  <2>2. /\ UNCHANGED <<flips, next, ingress, queue, held, avail, old, reports, entered, lost>>
        /\ UNCHANGED ctrlVars
    BY <1>3 DEF Leave, ctrlVars
  <2> QED
    BY <2>1, <2>2, MoveInvariant
<1>4. ASSUME NEW e \in Epochs, NEW b \in Bucket, Drop(e, b) PROVE IInv'
  <2>1. TypeOK'
    BY <1>1, <1>4, DropType
  <2>2. /\ UNCHANGED <<flips, next, ingress, queue, held, avail, old, reports, entered, lost>>
        /\ UNCHANGED ctrlVars
    BY <1>4 DEF Drop, ctrlVars, switchVars
  <2> QED
    BY <2>1, <2>2, MoveInvariant
<1>5. ASSUME NEW d \in Dev, Flip(d) PROVE IInv'
  BY <1>5, FlipInvariant
<1>6. ASSUME NEW d \in Dev, NEW k \in Kinds, Send(d, k) PROVE IInv'
  BY <1>6, SendInvariant
<1>7. ASSUME NEW d \in Dev, NEW k \in Kinds, Lose(d, k) PROVE IInv'
  BY <1>7, LoseInvariant
<1>8. CASE RxBurst
  BY <1>8, BurstInvariant
<1>9. CASE UNCHANGED vars
  <2>1. /\ UNCHANGED <<flips, next, ingress, queue, held, avail, old, reports, entered, lost>>
        /\ UNCHANGED ctrlVars
    BY <1>9 DEF vars, ctrlVars, switchVars, netVars
  <2>2. TypeOK'
    BY <1>1, <1>9 DEF vars, ctrlVars, switchVars, netVars, TypeOK
  <2> QED
    BY <2>1, <2>2, MoveInvariant
<1> QED
  BY <1>2, <1>3, <1>4, <1>5, <1>6, <1>7, <1>8, <1>9 DEF Next
-----------------------------------------------------------------------------
(* What the reports are made of, at every step of every run.               *)
LEMMA InvariantHolds == Spec => []IInv
<1>1. Init => IInv
  BY InitInvariant
<1>2. IInv /\ [Next]_vars => IInv'
  BY NextInvariant
<1> QED
  BY <1>1, <1>2, PTL DEF Spec

(* The state of switches and controller keeps its type.                    *)
THEOREM EpochRoundsTypeCorrect == Spec => []TypeOK
<1>1. IInv => TypeOK
  BY DEF IInv
<1> QED
  BY <1>1, InvariantHolds, PTL

(* Unless a packet of a readout is lost, a report that mixes two epochs,   *)
(* or subtracts the wrong half, comes after the controller handled a       *)
(* packet of the next epoch before it had processed the last               *)
(* (main.c, calculate_cur_sketch with time_flag).                          *)
THEOREM WholeUntilOverrunHolds == Spec => [](lost = {} => WholeUntilOverrun)
<1>1. IInv => (lost = {} => WholeUntilOverrun)
  <2> SUFFICES ASSUME IInv, lost = {}, ~overrun
               PROVE  ReportsOneEpoch
    BY DEF WholeUntilOverrun
  <2>1. LastsArrive /\ \A e : ~Gap(e)
    BY DEF LastsArrive, Gap
  <2> QED
    BY <2>1 DEF IInv, InStep, ReportsOneEpoch
<1> QED
  BY <1>1, InvariantHolds, PTL

(* With time for the controller's work and no loss, every report is of one *)
(* epoch, of every switch, and subtracts that epoch's half.                *)
THEOREM ReportsOneEpochHolds == Prompt => (Spec => [](lost = {} => ReportsOneEpoch))
<1> SUFFICES ASSUME Prompt PROVE Spec => [](lost = {} => ReportsOneEpoch)
  OBVIOUS
<1>1. IInv => (lost = {} => ReportsOneEpoch)
  <2> SUFFICES ASSUME IInv, lost = {}
               PROVE  ReportsOneEpoch
    OBVIOUS
  <2>1. LastsArrive /\ \A e : ~Gap(e)
    BY DEF LastsArrive, Gap
  <2>2. ~overrun
    BY <2>1 DEF IInv, InTime
  <2> QED
    BY <2>1, <2>2 DEF IInv, InStep, ReportsOneEpoch
<1> QED
  BY <1>1, InvariantHolds, PTL

(* With time for the controller's work, however many packets of a readout  *)
(* are lost that are not the last of their stream, a report is wrong only  *)
(* if its epoch or the one before it of the same half lost a packet.       *)
THEOREM LostBucketHealsHolds == Prompt => (Spec => []LostBucketHeals)
<1> SUFFICES ASSUME Prompt PROVE Spec => []LostBucketHeals
  OBVIOUS
<1>1. IInv => LostBucketHeals
  <2> SUFFICES ASSUME IInv, \A x \in lost : ~x.last, NEW k \in DOMAIN reports, ~Right(k)
               PROVE  \E x \in lost : k - 1 \in {x.epoch, x.epoch + 2}
    BY DEF LostBucketHeals
  <2>1. Gap(k - 1) \/ Gap(k - 3)
    BY DEF IInv, Counted, LastsArrive
  <2>2. PICK x \in lost : x.epoch = k - 1 \/ x.epoch = k - 3
    BY <2>1 DEF Gap
  <2>3. k \in Int
    BY ReportsTyped DEF IInv
  <2>4. k - 1 \in {x.epoch, x.epoch + 2}
    BY <2>2, <2>3
  <2> QED
    BY <2>4
<1> QED
  BY <1>1, InvariantHolds, PTL

(* After the last packet of a stream is lost, no report of that epoch or   *)
(* after it is of one epoch and the half it belongs to, whatever else is   *)
(* lost or late: nothing brings time_flag and the streams back in step.    *)
THEOREM LostLastDesyncsHolds == Spec => []LostLastDesyncs
<1>1. IInv => LostLastDesyncs
  BY DEF IInv, Desynced, LostLastDesyncs
<1> QED
  BY <1>1, InvariantHolds, PTL

(* A switch's readout of an epoch is complete in at most one report,       *)
(* whatever is lost and however late the controller is.                    *)
THEOREM NoEpochReportedTwiceHolds == Spec => []NoEpochReportedTwice
<1>1. IInv => NoEpochReportedTwice
  BY DEF IInv, Advancing
<1> QED
  BY <1>1, InvariantHolds, PTL
-----------------------------------------------------------------------------
(* The reports as the abstract specification sees them.                    *)
Read == [k \in DOMAIN reports |-> reports[k].in]
Reading == [Dev -> [Bucket -> Value]]

ReadIs ==
    /\ Read \in Seq(Reading) /\ Len(Read) = Reported
    /\ \A k \in 1..Reported : Read[k] = reports[k].in

LEMMA ReadTyped == TypeOK => ReadIs
<1> SUFFICES ASSUME TypeOK PROVE ReadIs
  OBVIOUS
<1>1. Reported \in Nat /\ DOMAIN reports = 1..Reported /\ \A k \in 1..Reported : reports[k] \in Report
  BY ReportsTyped
<1>2. \A k \in 1..Reported : reports[k].in \in Reading
  BY <1>1 DEF Report, Reading
<1>3. Read \in [1..Reported -> Reading] /\ \A k \in 1..Reported : Read[k] = reports[k].in
  BY <1>1, <1>2 DEF Read
<1>4. Read \in Seq(Reading)
  BY <1>1, <1>3
<1>5. DOMAIN Read = 1..Len(Read) /\ Len(Read) \in Nat /\ DOMAIN Read = 1..Reported
  BY <1>3, <1>4, LenProperties
<1>6. PICK m, r : m = Len(Read) /\ r = Reported
  OBVIOUS
<1>7. m \in Nat /\ r \in Nat /\ 1..m = 1..r
  BY <1>1, <1>5, <1>6
<1>8. ~(m < r) /\ ~(r < m)
  <2>1. \A x : x \in 1..m <=> x \in 1..r
    BY <1>7
  <2>2. m < r => (r \in 1..r /\ r \notin 1..m)
    BY <1>7
  <2>3. r < m => (m \in 1..m /\ m \notin 1..r)
    BY <1>7
  <2> QED
    BY <2>1, <2>2, <2>3
<1>9. Len(Read) = Reported
  BY <1>6, <1>7, <1>8
<1> QED
  BY <1>3, <1>4, <1>9 DEF ReadIs

NoneLost == lost = {}

LEMMA NothingLost == MaxLost = 0 => (Spec => []NoneLost)
<1> SUFFICES ASSUME MaxLost = 0 PROVE Spec => []NoneLost
  OBVIOUS
<1>1. Init => NoneLost
  BY DEF Init, NoneLost
<1>2. NoneLost /\ [Next]_vars => NoneLost'
  <2> SUFFICES ASSUME lost = {}, [Next]_vars PROVE lost' = {}
    BY DEF NoneLost
  <2>1. ASSUME NEW d \in Dev, NEW k \in Kinds, Lose(d, k) PROVE FALSE
    <3>1. Cardinality({}) < 0
      BY <2>1 DEF Lose
    <3> QED
      BY <3>1, FS_EmptySet
  <2> QED
    BY <2>1 DEF Next, vars, Enter, Leave, Drop, Flip, Send, RxBurst, Receive
<1> QED
  BY <1>1, <1>2, PTL DEF Spec

(* A round that processes appends what entered in the epoch it is about.   *)
LEMMA ProcessReports ==
  ASSUME Prompt, IInv, lost = {}, NEW n \in 1..Len(queue), RxBurst, Receive(n), Process(n)
  PROVE  Collection!Report
<1>a. PICK R : R = Reported
  OBVIOUS
<1>0. TypeOK /\ Transit /\ TypeOK' /\ InStep' /\ InTime' /\ Counted' /\ Ordered /\ Sent
  <2>1. IInv'
    BY BurstInvariant
  <2> QED
    BY <2>1 DEF IInv, Transit
<1>1. /\ lost' = {} /\ flips' = flips /\ entered' = entered
      /\ LastsArrive' /\ \A e : ~Gap(e)'
  BY DEF Receive, switchVars, netVars, LastsArrive, Gap
<1>2. /\ R \in Nat /\ Reported' = R + 1 /\ DOMAIN reports' = 1..(R + 1)
      /\ \A j \in 1..R : reports'[j] = reports[j]
      /\ avail' = {}
  BY <1>0, <1>a, ReportsTyped, ProcessPlaces
<1>3. ~overrun'
  BY <1>0, <1>1 DEF InTime
<1>4. ASSUME NEW d \in Dev PROVE flips[d] > R
  <2>1. /\ held'[d][Fermat][LastBucket].epoch \in {Reported' - 1, Reported'}
        /\ <<d, Fermat>> \in avail' <=> held'[d][Fermat][LastBucket].epoch = Reported'
    BY <1>0, <1>1, <1>3, Constants DEF InStep
  <2>2. held'[d][Fermat][LastBucket].epoch = R
    <3>1. Reported' - 1 = R
      BY <1>2
    <3> QED
      BY <1>2, <2>1, <3>1
  <2>3. held'[d][Fermat][LastBucket].epoch <= Latest(d, Fermat, LastBucket)
    BY <1>0, BurstHeld, Constants
  <2>4. /\ Latest(d, Fermat, LastBucket) \in Int /\ Latest(d, Fermat, LastBucket) <= flips[d] - 1
        /\ flips[d] \in Int
    BY <1>0, LatestType, FlipsTyped, Constants
  <2> QED
    BY <1>2, <2>2, <2>3, <2>4
<1>5. reports'[R + 1].in = [d \in Dev |-> [b \in Bucket |-> entered[R][d][b] % CounterSize]]
  <2>1. PICK j : j = R + 1
    OBVIOUS
  <2>2. j \in DOMAIN reports' /\ j - 1 = R
    BY <1>2, <2>1
  <2>3. Right(j)'
    BY <1>0, <1>1, <2>2 DEF Counted
  <2>4. reports'[j].in = [d \in Dev |-> [b \in Bucket |-> entered'[j - 1][d][b] % CounterSize]]
    BY <2>3 DEF Right
  <2> QED
    BY <1>1, <2>1, <2>2, <2>4
<1>6. Read' = Append(Read, reports'[R + 1].in)
  <2>1. /\ Read \in Seq(Reading) /\ Len(Read) = R
        /\ \A k \in 1..R : Read[k] = reports[k].in
    BY <1>0, <1>a, ReadTyped DEF ReadIs
  <2>2. /\ Read' \in Seq(Reading) /\ Len(Read') = R + 1
        /\ \A k \in 1..(R + 1) : Read'[k] = reports'[k].in
    <3>1. ReadIs'
      BY <1>0, ReadTyped, PTL
    <3> QED
      BY <1>2, <3>1 DEF ReadIs
  <2>3. PICK S, T, e : S = Read /\ T = Read' /\ e = reports'[R + 1].in
    OBVIOUS
  <2>4. /\ S \in Seq(Reading) /\ T \in Seq(Reading) /\ e \in Reading
        /\ Len(S) = R /\ Len(T) = R + 1 /\ T[R + 1] = e
        /\ \A k \in 1..R : T[k] = S[k]
    <3>1. T[R + 1] = e
      BY <1>2, <2>2, <2>3
    <3>2. e \in Reading
      BY <1>2, <2>2, <2>3, <3>1, ElementOfSeq
    <3>3. \A k \in 1..R : T[k] = S[k]
      BY <1>2, <2>1, <2>2, <2>3
    <3> QED
      BY <2>1, <2>2, <2>3, <3>1, <3>2, <3>3
  <2>5. /\ Append(S, e) \in Seq(Reading) /\ Len(Append(S, e)) = R + 1
        /\ Append(S, e)[R + 1] = e
        /\ \A k \in 1..R : Append(S, e)[k] = S[k]
    BY <1>2, <2>4
  <2>6. \A k \in 1..(R + 1) : T[k] = Append(S, e)[k]
    BY <1>2, <2>4, <2>5
  <2>7. T = Append(S, e)
    BY <2>4, <2>5, <2>6, SeqEqual
  <2> QED
    BY <2>3, <2>7
<1>7. Len(Read) = R
  BY <1>0, <1>a, ReadTyped DEF ReadIs
<1> QED
  BY <1>1, <1>4, <1>5, <1>6, <1>7 DEF Collection!Report, Read

LEMMA InitCollection == Init => Collection!Init
BY DEF Init, Collection!Init, PerBucket, Epochs

LEMMA NextCollection ==
  ASSUME Prompt, IInv, lost = {}, lost' = {}, [Next]_vars
  PROVE  [Collection!Next]_(Collection!vars)
<1>1. ASSUME UNCHANGED <<flips, entered, reports>> PROVE UNCHANGED Collection!vars
  BY <1>1 DEF Collection!vars
<1>2. ASSUME NEW d \in Dev, NEW b \in Bucket, Enter(d, b) PROVE Collection!Next
  <2>1. Collection!Enter(d, b)
    BY <1>2 DEF Enter, ctrlVars, Collection!Enter
  <2> QED
    BY <2>1 DEF Collection!Next
<1>3. ASSUME NEW d \in Dev, Flip(d) PROVE Collection!Next
  <2>1. Collection!CloseEpoch(d)
    BY <1>3 DEF Flip, ctrlVars, netVars, Collection!CloseEpoch
  <2> QED
    BY <2>1 DEF Collection!Next
<1>4. CASE RxBurst
  <2>1. PICK n \in 1..Len(queue) : Receive(n) /\ (Wait(n) \/ Process(n))
    BY <1>4, BurstPlaces DEF IInv
  <2>2. CASE Wait(n)
    BY <1>1, <2>1, <2>2 DEF Receive, Wait, switchVars, netVars
  <2>3. CASE Process(n)
    BY <1>4, <2>1, <2>3, ProcessReports DEF Collection!Next
  <2> QED
    BY <2>1, <2>2, <2>3
<1>5. ASSUME NEW d \in Dev, NEW e \in Epochs, NEW b \in Bucket, Leave(d, e, b)
      PROVE  UNCHANGED Collection!vars
  BY <1>1, <1>5 DEF Leave, ctrlVars
<1>6. ASSUME NEW e \in Epochs, NEW b \in Bucket, Drop(e, b) PROVE UNCHANGED Collection!vars
  BY <1>1, <1>6 DEF Drop, ctrlVars, switchVars
<1>7. ASSUME NEW d \in Dev, NEW k \in Kinds, Send(d, k) PROVE UNCHANGED Collection!vars
  BY <1>1, <1>7 DEF Send, ctrlVars, netVars
<1>8. ASSUME NEW d \in Dev, NEW k \in Kinds, Lose(d, k) PROVE UNCHANGED Collection!vars
  BY <1>1, <1>8 DEF Lose, ctrlVars, netVars
<1>9. CASE UNCHANGED vars
  BY <1>1, <1>9 DEF vars, ctrlVars, switchVars, netVars
<1> QED
  BY <1>2, <1>3, <1>4, <1>5, <1>6, <1>7, <1>8, <1>9 DEF Next

(* With time for the controller's work and no loss, report k counts what   *)
(* entered at every switch in epoch k - 1, though the registers are never  *)
(* cleared: the collection implements its abstract specification.          *)
THEOREM CollectionImplemented ==
  (Prompt /\ MaxLost = 0) => (Spec => ImplementsCollection)
<1> SUFFICES ASSUME Prompt, MaxLost = 0 PROVE Spec => ImplementsCollection
  OBVIOUS
<1>1. Init => Collection!Init
  BY InitCollection
<1>2. IInv /\ NoneLost /\ NoneLost' /\ [Next]_vars => [Collection!Next]_(Collection!vars)
  BY NextCollection DEF NoneLost
<1>3. Spec => []NoneLost
  BY NothingLost
<1> QED
  BY <1>1, <1>2, <1>3, InvariantHolds, PTL DEF Spec, ImplementsCollection, Collection!Spec
-----------------------------------------------------------------------------
(* A packet that was counted where it entered is counted where it leaves,  *)
(* unless it is on its way or was dropped: in every half, modulo the width *)
(* of the counters.                                                        *)
OfHalf(h) == {f \in Epochs : Half(f) = h}
Ins(h, b) == [d \in Dev |-> ingress[d][h][b]]
Outs(h, b) == [d \in Dev |-> egress[d][h][b]]
Away(b) == [f \in Epochs |-> flight[f][b] + dropped[f][b]]

BalanceAt(h, b) ==
    Congruent(SumFunctionOnSet(Ins(h, b), Dev) - SumFunctionOnSet(Outs(h, b), Dev),
              SumFunctionOnSet(Away(b), OfHalf(h)), CounterSize)

Balanced == \A h \in Halves, b \in Bucket : BalanceAt(h, b)

(* No packet is of an epoch that no switch has come to.                    *)
Unflown ==
    \A f \in Epochs, b \in Bucket :
        (\A d \in Dev : flips[d] < f) => flight[f][b] = 0 /\ dropped[f][b] = 0

(* What was drained stays drained: nothing enters in an epoch that is      *)
(* over.                                                                   *)
StaysDrained == \A e \in settled : Drained(e)

(* Until it is reported, the registers hold what was read of a settled     *)
(* epoch.                                                                  *)
Fresh ==
    (Prompt /\ NoneLost /\ Reported \in settled) =>
        /\ \A i \in DOMAIN queue, d \in Dev, b \in Bucket :
              (Carries(i, d, Fermat, b) /\ Ep(i) = Reported) =>
                  queue[i].body.out = egress[d][Half(Reported)][b]
        /\ \A d \in Dev, b \in Bucket :
              held[d][Fermat][b].epoch = Reported =>
                  held[d][Fermat][b].out = egress[d][Half(Reported)][b]

(* The losses reported for a half add up to the difference of the readouts *)
(* that its next one is subtracted from.                                   *)
RoundsOf(h) == {f \in 0..(Reported - 1) : Half(f) = h}
Losses(b) == [f \in 0..(Reported - 1) |-> LossOf(f + 1, b)]
OldIns(h, b) == [d \in Dev |-> old[h][d][b].in]
OldOuts(h, b) == [d \in Dev |-> old[h][d][b].out]

Telescopes ==
    (Prompt /\ NoneLost) =>
        \A h \in Halves, b \in Bucket :
            Congruent(SumFunctionOnSet(Losses(b), RoundsOf(h)),
                      SumFunctionOnSet(OldIns(h, b), Dev) - SumFunctionOnSet(OldOuts(h, b), Dev),
                      CounterSize)

Settling == (Prompt /\ NoneLost) => LossSettles

LossInv == Balanced /\ Unflown /\ StaysDrained /\ Fresh /\ Telescopes /\ Settling
-----------------------------------------------------------------------------
LEMMA FiniteSets ==
  /\ IsFiniteSet(Dev) /\ IsFiniteSet(Epochs)
  /\ \A h : IsFiniteSet(OfHalf(h))
  /\ \A h : \A n \in Int : IsFiniteSet({f \in 0..n : Half(f) = h})
<1>1. IsFiniteSet(Dev)
  BY EpochAssumption
<1>2. \A n \in Int : IsFiniteSet(0..n)
  BY FS_Interval
<1>3. IsFiniteSet(Epochs)
  BY <1>2, Constants DEF Epochs
<1>4. \A h : OfHalf(h) \subseteq Epochs
  BY DEF OfHalf
<1>5. \A h : IsFiniteSet(OfHalf(h))
  BY <1>3, <1>4, FS_Subset
<1>6. ASSUME NEW n \in Int, NEW h PROVE IsFiniteSet({f \in 0..n : Half(f) = h})
  BY <1>2, FS_Subset
<1> QED
  BY <1>1, <1>3, <1>5, <1>6

LEMMA ValueInt == \A v \in Value : v \in Int /\ v \in Nat
BY Constants DEF Value

LEMMA CongruentRefl ==
  ASSUME NEW a, NEW b, NEW c, NEW m, Congruent(a, b, m), Congruent(b, c, m)
  PROVE  Congruent(a, c, m) /\ Congruent(b, a, m) /\ Congruent(a, a, m)
BY DEF Congruent

(* One register changes by k: so does their sum.                           *)
LEMMA SumMoved ==
  ASSUME NEW F, NEW G, NEW S, IsFiniteSet(S), NEW e, NEW k \in Int,
         \A y \in S : F[y] \in Int /\ G[y] \in Int,
         \A y \in S : y # e => F[y] = G[y],
         NEW m \in Nat \ {0},
         e \in S => Congruent(G[e], F[e] + k, m), e \notin S => k = 0
  PROVE  Congruent(SumFunctionOnSet(G, S), SumFunctionOnSet(F, S) + k, m)
<1>1. PICK s \in Int, t \in Int : s = SumFunctionOnSet(F, S) /\ t = SumFunctionOnSet(G, S)
  BY SumInt
<1>2. CASE e \notin S
  <2>1. t = s
    BY <1>1, <1>2, SumSame
  <2>2. s + k = t
    BY <1>2, <2>1
  <2> QED
    BY <1>1, <2>2 DEF Congruent
<1>3. CASE e \in S
  <2>1. PICK x \in Int, y \in Int : x = F[e] /\ y = G[e]
    BY <1>3
  <2>2. t = s + (y - x)
    BY <1>1, <1>3, <2>1, SumChange
  <2>3. Congruent(y - x, (x + k) - x, m)
    <3>1. Congruent(x, x, m) /\ x + k \in Int
      BY DEF Congruent
    <3> QED
      BY <1>3, <2>1, <3>1, CongruentPlus
  <2>4. Congruent(s + (y - x), s + ((x + k) - x), m)
    <3>1. Congruent(s, s, m) /\ y - x \in Int /\ (x + k) - x \in Int
      BY DEF Congruent
    <3> QED
      BY <2>3, <3>1, CongruentPlus
  <2>5. s + ((x + k) - x) = s + k
    OBVIOUS
  <2> QED
    BY <1>1, <2>2, <2>4, <2>5
<1> QED
  BY <1>2, <1>3

LEMMA IncrCongruent == \A v \in Value : Incr(v) \in Value /\ Congruent(Incr(v), v + 1, CounterSize)
<1> TAKE v \in Value
<1>1. v + 1 \in Int
  BY ValueInt
<1> QED
  BY <1>1, IncrType, CongruentMod, Constants DEF Incr

SumsAre ==
    \A h \in Halves, b \in Bucket :
        /\ \A d \in Dev : Ins(h, b)[d] \in Int /\ Outs(h, b)[d] \in Int
        /\ \A f \in Epochs : Away(b)[f] \in Int
        /\ SumFunctionOnSet(Ins(h, b), Dev) \in Int
        /\ SumFunctionOnSet(Outs(h, b), Dev) \in Int
        /\ SumFunctionOnSet(Away(b), OfHalf(h)) \in Int

LEMMA SumsTyped == TypeOK => SumsAre
<1> SUFFICES ASSUME TypeOK, NEW h \in Halves, NEW b \in Bucket
             PROVE  /\ \A d \in Dev : Ins(h, b)[d] \in Int /\ Outs(h, b)[d] \in Int
                    /\ \A f \in Epochs : Away(b)[f] \in Int
                    /\ SumFunctionOnSet(Ins(h, b), Dev) \in Int
                    /\ SumFunctionOnSet(Outs(h, b), Dev) \in Int
                    /\ SumFunctionOnSet(Away(b), OfHalf(h)) \in Int
  BY DEF SumsAre
<1>1. ASSUME NEW d \in Dev PROVE Ins(h, b)[d] \in Int /\ Outs(h, b)[d] \in Int
  <2>1. ingress[d][h][b] \in Value /\ egress[d][h][b] \in Value
    BY DEF TypeOK
  <2> QED
    BY <2>1, ValueInt DEF Ins, Outs
<1>2. ASSUME NEW f \in Epochs PROVE Away(b)[f] \in Int
  <2>1. flight[f][b] \in Nat /\ dropped[f][b] \in Nat
    BY DEF TypeOK
  <2> QED
    BY <2>1 DEF Away
<1>3. OfHalf(h) \subseteq Epochs
  BY DEF OfHalf
<1> QED
  BY <1>1, <1>2, <1>3, SumInt, FiniteSets

LEMMA BalanceMoves ==
  ASSUME NEW m \in Nat \ {0}, NEW I \in Int, NEW O \in Int, NEW A \in Int,
         NEW J \in Int, NEW P \in Int, NEW B \in Int, NEW i \in Int, NEW o \in Int,
         Congruent(I - O, A, m), Congruent(J, I + i, m), Congruent(P, O + o, m),
         Congruent(B, A + (i - o), m)
  PROVE  Congruent(J - P, B, m)
<1>1. Congruent(J - P, (I + i) - (O + o), m)
  <2>1. I + i \in Int /\ O + o \in Int
    OBVIOUS
  <2> QED
    BY <2>1, CongruentPlus
<1>2. (I + i) - (O + o) = (I - O) + (i - o)
  OBVIOUS
<1>3. Congruent((I - O) + (i - o), A + (i - o), m)
  <2>1. I - O \in Int /\ i - o \in Int /\ Congruent(i - o, i - o, m)
    BY DEF Congruent
  <2> QED
    BY <2>1, CongruentPlus
<1> QED
  BY <1>1, <1>2, <1>3 DEF Congruent

(* A register of a switch gains i packets entering and o leaving, and as   *)
(* many more are away.                                                     *)
LEMMA BalanceStep ==
  ASSUME TypeOK, TypeOK', NEW h \in Halves, NEW b \in Bucket, BalanceAt(h, b),
         NEW d \in Dev, NEW e \in Epochs, NEW i \in Int, NEW o \in Int,
         \A c \in Dev : c # d => /\ ingress'[c][h][b] = ingress[c][h][b]
                                 /\ egress'[c][h][b] = egress[c][h][b],
         Congruent(ingress'[d][h][b], ingress[d][h][b] + i, CounterSize),
         Congruent(egress'[d][h][b], egress[d][h][b] + o, CounterSize),
         \A f \in Epochs : f # e => flight'[f][b] + dropped'[f][b] = flight[f][b] + dropped[f][b],
         Half(e) = h => flight'[e][b] + dropped'[e][b] = flight[e][b] + dropped[e][b] + (i - o),
         Half(e) # h => i - o = 0
  PROVE  BalanceAt(h, b)'
<1>1. PICK F, G, A : F = Ins(h, b)' /\ G = Outs(h, b)' /\ A = Away(b)'
  OBVIOUS
<1>2. /\ \A c \in Dev : F[c] \in Int /\ G[c] \in Int
      /\ \A f \in Epochs : A[f] \in Int
      /\ SumFunctionOnSet(F, Dev) \in Int /\ SumFunctionOnSet(G, Dev) \in Int
      /\ SumFunctionOnSet(A, OfHalf(h)) \in Int
  <2>1. SumsAre'
    BY SumsTyped, PTL
  <2>2. OfHalf(h)' = OfHalf(h)
    BY DEF OfHalf
  <2> QED
    BY <1>1, <2>1, <2>2 DEF SumsAre
<1>3. /\ \A c \in Dev : Ins(h, b)[c] \in Int /\ Outs(h, b)[c] \in Int
      /\ \A f \in Epochs : Away(b)[f] \in Int
      /\ SumFunctionOnSet(Ins(h, b), Dev) \in Int
      /\ SumFunctionOnSet(Outs(h, b), Dev) \in Int
      /\ SumFunctionOnSet(Away(b), OfHalf(h)) \in Int
  BY SumsTyped DEF SumsAre
<1>4. IsFiniteSet(Dev) /\ IsFiniteSet(OfHalf(h)) /\ CounterSize \in Nat \ {0}
  BY FiniteSets, Constants
<1>5. Congruent(SumFunctionOnSet(F, Dev), SumFunctionOnSet(Ins(h, b), Dev) + i, CounterSize)
  <2>1. \A c \in Dev : c # d => Ins(h, b)[c] = F[c]
    BY <1>1 DEF Ins
  <2>2. Congruent(F[d], Ins(h, b)[d] + i, CounterSize)
    BY <1>1 DEF Ins
  <2> QED
    BY <1>2, <1>3, <1>4, <2>1, <2>2, SumMoved
<1>6. Congruent(SumFunctionOnSet(G, Dev), SumFunctionOnSet(Outs(h, b), Dev) + o, CounterSize)
  <2>1. \A c \in Dev : c # d => Outs(h, b)[c] = G[c]
    BY <1>1 DEF Outs
  <2>2. Congruent(G[d], Outs(h, b)[d] + o, CounterSize)
    BY <1>1 DEF Outs
  <2> QED
    BY <1>2, <1>3, <1>4, <2>1, <2>2, SumMoved
<1>7. Congruent(SumFunctionOnSet(A, OfHalf(h)), SumFunctionOnSet(Away(b), OfHalf(h)) + (i - o), CounterSize)
  <2>1. \A f \in OfHalf(h) : f \in Epochs /\ A[f] \in Int /\ Away(b)[f] \in Int
    BY <1>2, <1>3 DEF OfHalf
  <2>2. \A f \in OfHalf(h) : f # e => Away(b)[f] = A[f]
    BY <1>1 DEF Away, OfHalf
  <2>3. e \in OfHalf(h) => Congruent(A[e], Away(b)[e] + (i - o), CounterSize)
    BY <1>1 DEF Away, OfHalf, Congruent
  <2>4. e \notin OfHalf(h) => i - o = 0
    BY DEF OfHalf
  <2>5. i - o \in Int
    OBVIOUS
  <2> QED
    BY <1>4, <2>1, <2>2, <2>3, <2>4, <2>5, SumMoved
<1>8. Congruent(SumFunctionOnSet(Ins(h, b), Dev) - SumFunctionOnSet(Outs(h, b), Dev),
                SumFunctionOnSet(Away(b), OfHalf(h)), CounterSize)
  BY DEF BalanceAt
<1>9. Congruent(SumFunctionOnSet(F, Dev) - SumFunctionOnSet(G, Dev),
                SumFunctionOnSet(A, OfHalf(h)), CounterSize)
  BY <1>2, <1>3, <1>4, <1>5, <1>6, <1>7, <1>8, BalanceMoves
<1> QED
  BY <1>1, <1>9 DEF BalanceAt

LEMMA EnterBalanced ==
  ASSUME TypeOK, TypeOK', Balanced, NEW d \in Dev, NEW b \in Bucket, Enter(d, b)
  PROVE  Balanced'
<1> SUFFICES ASSUME NEW h \in Halves, NEW a \in Bucket PROVE BalanceAt(h, a)'
  BY DEF Balanced
<1>1. PICK f \in Epochs : f = flips[d] /\ Half(f) \in Halves
  BY HalfType, Constants DEF TypeOK
<1>2. /\ ingress' = [ingress EXCEPT ![d][Half(f)][b] = Incr(@)]
      /\ flight' = [flight EXCEPT ![f][b] = @ + 1]
      /\ egress' = egress /\ dropped' = dropped
  BY <1>1 DEF Enter
<1>3. BalanceAt(h, a)
  BY DEF Balanced
<1>4. PICK i \in Int : i = IF h = Half(f) /\ a = b THEN 1 ELSE 0
  OBVIOUS
<1>5. \A c \in Dev : c # d => /\ ingress'[c][h][a] = ingress[c][h][a]
                              /\ egress'[c][h][a] = egress[c][h][a]
  BY <1>1, <1>2 DEF TypeOK
<1>6. ingress[d][h][a] \in Value /\ egress[d][h][a] \in Value
  BY DEF TypeOK
<1>7. Congruent(ingress'[d][h][a], ingress[d][h][a] + i, CounterSize)
  <2>1. CASE h = Half(f) /\ a = b
    <3>1. ingress'[d][h][a] = Incr(ingress[d][h][a])
      BY <1>1, <1>2, <2>1 DEF TypeOK
    <3> QED
      BY <1>4, <1>6, <2>1, <3>1, IncrCongruent
  <2>2. CASE ~(h = Half(f) /\ a = b)
    <3>1. ingress'[d][h][a] = ingress[d][h][a] /\ i = 0
      BY <1>1, <1>2, <1>4, <2>2 DEF TypeOK
    <3>2. ingress[d][h][a] + 0 = ingress[d][h][a]
      BY <1>6, ValueInt
    <3> QED
      BY <3>1, <3>2 DEF Congruent
  <2> QED
    BY <2>1, <2>2
<1>8. Congruent(egress'[d][h][a], egress[d][h][a] + 0, CounterSize)
  <2>1. egress[d][h][a] + 0 = egress[d][h][a]
    BY <1>6, ValueInt
  <2> QED
    BY <1>2, <2>1 DEF Congruent
<1>9. /\ \A g \in Epochs : flight[g][a] \in Nat /\ dropped[g][a] \in Nat
      /\ \A g \in Epochs : g # f => flight'[g][a] = flight[g][a]
      /\ a # b => flight'[f][a] = flight[f][a]
      /\ a = b => flight'[f][a] = flight[f][a] + 1
  <2>1. \A g \in Epochs : flight[g][a] \in Nat /\ dropped[g][a] \in Nat
    BY DEF TypeOK
  <2>2. \A g \in Epochs : g # f => flight'[g][a] = flight[g][a]
    BY <1>1, <1>2 DEF TypeOK
  <2>3. a # b => flight'[f][a] = flight[f][a]
    BY <1>1, <1>2 DEF TypeOK
  <2>4. a = b => flight'[f][a] = flight[f][a] + 1
    BY <1>1, <1>2 DEF TypeOK
  <2> QED
    BY <2>1, <2>2, <2>3, <2>4
<1>10. CASE a = b
  <2>1. \A g \in Epochs : g # f => flight'[g][a] + dropped'[g][a] = flight[g][a] + dropped[g][a]
    BY <1>2, <1>9
  <2>2. Half(f) = h => flight'[f][a] + dropped'[f][a] = flight[f][a] + dropped[f][a] + (i - 0)
    BY <1>1, <1>2, <1>4, <1>9, <1>10
  <2>3. Half(f) # h => i - 0 = 0
    BY <1>4
  <2>4. 0 \in Int
    OBVIOUS
  <2> QED
    BY <1>1, <1>3, <1>4, <1>5, <1>7, <1>8, <2>1, <2>2, <2>3, <2>4, BalanceStep
<1>11. CASE a # b
  <2>1. \A g \in Epochs : flight'[g][a] + dropped'[g][a] = flight[g][a] + dropped[g][a]
    BY <1>2, <1>9, <1>11
  <2>2. i = 0 /\ i - 0 = 0 /\ 0 \in Int
    BY <1>4, <1>11
  <2>3. Half(f) = h => flight'[f][a] + dropped'[f][a] = flight[f][a] + dropped[f][a] + (i - 0)
    BY <1>1, <1>9, <2>1, <2>2
  <2> QED
    BY <1>1, <1>3, <1>4, <1>5, <1>7, <1>8, <2>1, <2>2, <2>3, BalanceStep
<1> QED
  BY <1>10, <1>11

LEMMA LeaveBalanced ==
  ASSUME TypeOK, TypeOK', Balanced,
         NEW d \in Dev, NEW f \in Epochs, NEW b \in Bucket, Leave(d, f, b)
  PROVE  Balanced'
<1> SUFFICES ASSUME NEW h \in Halves, NEW a \in Bucket PROVE BalanceAt(h, a)'
  BY DEF Balanced
<1>1. Half(f) \in Halves
  BY HalfType, Constants
<1>2. /\ egress' = [egress EXCEPT ![d][Half(f)][b] = Incr(@)]
      /\ flight' = [flight EXCEPT ![f][b] = @ - 1]
      /\ ingress' = ingress /\ dropped' = dropped
  BY DEF Leave
<1>3. BalanceAt(h, a)
  BY DEF Balanced
<1>4. PICK o \in Int : o = IF h = Half(f) /\ a = b THEN 1 ELSE 0
  OBVIOUS
<1>5. \A c \in Dev : c # d => /\ ingress'[c][h][a] = ingress[c][h][a]
                              /\ egress'[c][h][a] = egress[c][h][a]
  BY <1>1, <1>2 DEF TypeOK
<1>6. ingress[d][h][a] \in Value /\ egress[d][h][a] \in Value
  BY DEF TypeOK
<1>7. Congruent(egress'[d][h][a], egress[d][h][a] + o, CounterSize)
  <2>1. CASE h = Half(f) /\ a = b
    <3>1. egress'[d][h][a] = Incr(egress[d][h][a])
      BY <1>1, <1>2, <2>1 DEF TypeOK
    <3> QED
      BY <1>4, <1>6, <2>1, <3>1, IncrCongruent
  <2>2. CASE ~(h = Half(f) /\ a = b)
    <3>1. egress'[d][h][a] = egress[d][h][a] /\ o = 0
      BY <1>1, <1>2, <1>4, <2>2 DEF TypeOK
    <3>2. egress[d][h][a] + 0 = egress[d][h][a]
      BY <1>6, ValueInt
    <3> QED
      BY <3>1, <3>2 DEF Congruent
  <2> QED
    BY <2>1, <2>2
<1>8. Congruent(ingress'[d][h][a], ingress[d][h][a] + 0, CounterSize)
  <2>1. ingress[d][h][a] + 0 = ingress[d][h][a]
    BY <1>6, ValueInt
  <2> QED
    BY <1>2, <2>1 DEF Congruent
<1>9. /\ \A g \in Epochs : flight[g][a] \in Nat /\ dropped[g][a] \in Nat
      /\ \A g \in Epochs : g # f => flight'[g][a] = flight[g][a]
      /\ a # b => flight'[f][a] = flight[f][a]
      /\ a = b => flight'[f][a] = flight[f][a] - 1
  <2>1. \A g \in Epochs : flight[g][a] \in Nat /\ dropped[g][a] \in Nat
    BY DEF TypeOK
  <2>2. \A g \in Epochs : g # f => flight'[g][a] = flight[g][a]
    BY <1>2 DEF TypeOK
  <2>3. a # b => flight'[f][a] = flight[f][a]
    BY <1>2 DEF TypeOK
  <2>4. a = b => flight'[f][a] = flight[f][a] - 1
    BY <1>2 DEF TypeOK
  <2> QED
    BY <2>1, <2>2, <2>3, <2>4
<1>10. CASE a = b
  <2>1. \A g \in Epochs : g # f => flight'[g][a] + dropped'[g][a] = flight[g][a] + dropped[g][a]
    BY <1>2, <1>9
  <2>2. Half(f) = h => flight'[f][a] + dropped'[f][a] = flight[f][a] + dropped[f][a] + (0 - o)
    BY <1>2, <1>4, <1>9, <1>10
  <2>3. Half(f) # h => 0 - o = 0
    <3>1. Half(f) # h => o = 0
      BY <1>4
    <3>2. 0 - 0 = 0
      OBVIOUS
    <3> QED
      BY <3>1, <3>2
  <2>4. 0 \in Int
    OBVIOUS
  <2> QED
    BY <1>3, <1>4, <1>5, <1>7, <1>8, <2>1, <2>2, <2>3, <2>4, BalanceStep
<1>11. CASE a # b
  <2>1. \A g \in Epochs : flight'[g][a] + dropped'[g][a] = flight[g][a] + dropped[g][a]
    BY <1>2, <1>9, <1>11
  <2>2. o = 0 /\ 0 - o = 0 /\ 0 \in Int
    <3>1. o = 0
      BY <1>4, <1>11
    <3>2. 0 - 0 = 0 /\ 0 \in Int
      OBVIOUS
    <3> QED
      BY <3>1, <3>2
  <2>3. Half(f) = h => flight'[f][a] + dropped'[f][a] = flight[f][a] + dropped[f][a] + (0 - o)
    BY <1>9, <2>1, <2>2
  <2> QED
    BY <1>3, <1>4, <1>5, <1>7, <1>8, <2>1, <2>2, <2>3, BalanceStep
<1> QED
  BY <1>10, <1>11

(* A dropped packet stays away.                                            *)
LEMMA DropBalanced ==
  ASSUME TypeOK, TypeOK', Balanced, NEW f \in Epochs, NEW b \in Bucket, Drop(f, b)
  PROVE  Balanced'
<1> SUFFICES ASSUME NEW h \in Halves, NEW a \in Bucket PROVE BalanceAt(h, a)'
  BY DEF Balanced
<1>1. /\ flight' = [flight EXCEPT ![f][b] = @ - 1]
      /\ dropped' = [dropped EXCEPT ![f][b] = @ + 1]
      /\ ingress' = ingress /\ egress' = egress
  BY DEF Drop, switchVars
<1>2. BalanceAt(h, a)
  BY DEF Balanced
<1>3. ASSUME NEW g \in Epochs
      PROVE  flight'[g][a] + dropped'[g][a] = flight[g][a] + dropped[g][a]
  <2>1. flight[g][a] \in Nat /\ dropped[g][a] \in Nat
    BY DEF TypeOK
  <2>2. CASE g = f /\ a = b
    <3>1. flight'[g][a] = flight[g][a] - 1 /\ dropped'[g][a] = dropped[g][a] + 1
      BY <1>1, <2>2 DEF TypeOK
    <3> QED
      BY <2>1, <3>1
  <2>3. CASE ~(g = f /\ a = b)
    <3>1. flight'[g][a] = flight[g][a] /\ dropped'[g][a] = dropped[g][a]
      BY <1>1, <2>3 DEF TypeOK
    <3> QED
      BY <3>1
  <2> QED
    BY <2>2, <2>3
<1>4. Away(a)' = Away(a)
  BY <1>3 DEF Away
<1> QED
  BY <1>1, <1>2, <1>4 DEF BalanceAt, Ins, Outs, OfHalf

LEMMA BalancedStill ==
  ASSUME Balanced, UNCHANGED <<ingress, egress, flight, dropped>>
  PROVE  Balanced'
BY DEF Balanced, BalanceAt, Ins, Outs, Away, OfHalf
-----------------------------------------------------------------------------
(* Once no packet of an epoch's half is on its way, none comes any more.   *)
LEMMA UnflownStill ==
  ASSUME TypeOK, TypeOK', Unflown, UNCHANGED <<flight, dropped>>,
         \A d \in Dev : flips[d] <= flips'[d]
  PROVE  Unflown'
<1> SUFFICES ASSUME NEW f \in Epochs, NEW b \in Bucket, \A d \in Dev : flips'[d] < f
             PROVE  flight[f][b] = 0 /\ dropped[f][b] = 0
  BY DEF Unflown
<1>1. ASSUME NEW d \in Dev PROVE flips[d] < f
  <2>1. flips[d] \in Int /\ flips'[d] \in Int /\ f \in Int
    BY Constants DEF TypeOK
  <2>2. flips'[d] < f /\ flips[d] <= flips'[d]
    OBVIOUS
  <2> QED
    BY <2>1, <2>2
<1> QED
  BY <1>1 DEF Unflown

LEMMA EnterUnflown ==
  ASSUME TypeOK, Unflown, NEW d \in Dev, NEW b \in Bucket, Enter(d, b)
  PROVE  Unflown'
<1>1. PICK f \in Epochs : f = flips[d]
  BY DEF TypeOK
<1>2. flips' = flips /\ dropped' = dropped /\ flight' = [flight EXCEPT ![f][b] = @ + 1]
  BY <1>1 DEF Enter
<1> SUFFICES ASSUME NEW g \in Epochs, NEW a \in Bucket, \A c \in Dev : flips[c] < g
             PROVE  flight'[g][a] = 0 /\ dropped[g][a] = 0
  BY <1>2 DEF Unflown
<1>3. g # f
  <2>1. f < g /\ f \in Int /\ g \in Int
    BY <1>1, Constants
  <2> QED
    BY <2>1
<1>4. flight'[g][a] = flight[g][a]
  BY <1>2, <1>3 DEF TypeOK
<1> QED
  BY <1>4 DEF Unflown

(* What moves was there.                                                   *)
LEMMA MoveUnflown ==
  ASSUME TypeOK, Unflown, NEW f \in Epochs, NEW b \in Bucket, flight[f][b] > 0,
         flips' = flips, flight' = [flight EXCEPT ![f][b] = @ - 1],
         dropped' \in {dropped, [dropped EXCEPT ![f][b] = @ + 1]}
  PROVE  Unflown'
<1> SUFFICES ASSUME NEW g \in Epochs, NEW a \in Bucket, \A c \in Dev : flips[c] < g
             PROVE  flight'[g][a] = 0 /\ dropped'[g][a] = 0
  BY DEF Unflown
<1>1. flight[g][a] = 0 /\ dropped[g][a] = 0
  BY DEF Unflown
<1>2. ~(g = f /\ a = b)
  BY <1>1
<1>3. flight'[g][a] = flight[g][a] /\ dropped'[g][a] = dropped[g][a]
  BY <1>2 DEF TypeOK
<1> QED
  BY <1>1, <1>3

LEMMA DrainedStill ==
  ASSUME TypeOK, TypeOK', NEW e \in Epochs, Drained(e),
         \A d \in Dev : flips[d] <= flips'[d],
         \A f \in Epochs, b \in Bucket : flight'[f][b] <= flight[f][b]
  PROVE  Drained(e)'
<1>1. ASSUME NEW d \in Dev PROVE flips'[d] > e
  <2>1. flips[d] \in Int /\ flips'[d] \in Int /\ e \in Int /\ flips[d] > e
    BY Constants DEF TypeOK, Drained
  <2> QED
    BY <2>1
<1>2. ASSUME NEW f \in 0..e, NEW b \in Bucket, Half(f) = Half(e)
      PROVE  flight'[f][b] = 0
  <2>1. f \in Epochs
    BY Constants
  <2>2. flight[f][b] = 0
    BY <1>2 DEF Drained
  <2>3. flight'[f][b] \in Nat /\ flight'[f][b] <= flight[f][b]
    BY <2>1 DEF TypeOK
  <2> QED
    BY <2>2, <2>3
<1> QED
  BY <1>1, <1>2 DEF Drained

LEMMA EnterDrained ==
  ASSUME TypeOK, NEW e \in Epochs, Drained(e), NEW d \in Dev, NEW b \in Bucket, Enter(d, b)
  PROVE  Drained(e)'
<1>1. PICK f \in Epochs : f = flips[d]
  BY DEF TypeOK
<1>2. flips' = flips /\ flight' = [flight EXCEPT ![f][b] = @ + 1]
  BY <1>1 DEF Enter
<1>3. f > e
  BY <1>1 DEF Drained
<1>4. ASSUME NEW g \in 0..e, NEW a \in Bucket, Half(g) = Half(e)
      PROVE  flight'[g][a] = 0
  <2>1. g \in Epochs /\ g # f
    BY <1>1, <1>3, Constants
  <2>2. flight'[g][a] = flight[g][a]
    BY <1>2, <2>1 DEF TypeOK
  <2> QED
    BY <1>4, <2>2 DEF Drained
<1> QED
  BY <1>2, <1>4 DEF Drained

(* Nothing of a settled epoch's half moves until the switches come to the  *)
(* next epoch of that half.                                                *)
LEMMA SettledMoves ==
  ASSUME TypeOK, Unflown, StaysDrained, NEW e \in settled,
         \A d \in Dev : flips[d] <= e + 1,
         NEW f \in Epochs, NEW b \in Bucket, flight[f][b] > 0
  PROVE  Half(f) # Half(e)
<1> SUFFICES ASSUME Half(f) = Half(e) PROVE FALSE
  OBVIOUS
<1>1. e \in Epochs /\ e \in Int /\ e >= 0 /\ f \in Int /\ f >= 0
  BY Constants DEF TypeOK
<1>2. CASE f <= e
  <2>1. f \in 0..e
    BY <1>1, <1>2
  <2> QED
    BY <2>1 DEF StaysDrained, Drained
<1>3. CASE f > e
  <2>1. f # e + 1
    BY <1>1, HalfFlips, HalfType DEF Halves
  <2>2. \A d \in Dev : flips[d] < f
    BY <1>1, <1>3, <2>1, FlipsTyped
  <2> QED
    BY <2>2 DEF Unflown
<1> QED
  BY <1>1, <1>2, <1>3
-----------------------------------------------------------------------------
(* With time for the controller's work and no loss so far.                 *)
LEMMA Steady ==
  ASSUME IInv, Prompt, NoneLost
  PROVE  /\ TypeOK /\ Transit /\ LastsArrive /\ ~overrun /\ \A e : ~Gap(e)
         /\ Reported \in Nat /\ time_flag = Half(Reported)
         /\ \A d \in Dev : flips[d] \in Int /\ flips[d] \in {Reported, Reported + 1}
<1>1. TypeOK /\ Transit /\ InStep /\ InTime
  BY DEF IInv
<1>2. LastsArrive /\ \A e : ~Gap(e)
  BY DEF NoneLost, LastsArrive, Gap
<1>3. ~overrun
  BY <1>1, <1>2 DEF InTime
<1>4. \A d \in Dev : flips[d] \in Int /\ flips[d] \in {Reported, Reported + 1}
  BY <1>1, <1>2, NearEpoch, FlipsTyped
<1>5. time_flag = Half(Reported)
  BY <1>1, <1>2, <1>3 DEF InStep
<1> QED
  BY <1>1, <1>2, <1>3, <1>4, <1>5, ReportsTyped

LEMMA FreshStill ==
  ASSUME Fresh, UNCHANGED <<queue, held, reports, egress, settled, lost>>
  PROVE  Fresh'
<1>1. /\ \A i, d, b : Carries(i, d, Fermat, b)' <=> Carries(i, d, Fermat, b)
      /\ \A i : Ep(i)' = Ep(i)
      /\ Reported' = Reported /\ NoneLost' = NoneLost
  BY DEF Carries, Ep, Reported, NoneLost
<1> QED
  BY <1>1 DEF Fresh

LEMMA LeaveFresh ==
  ASSUME IInv, Unflown, StaysDrained, Fresh,
         NEW d \in Dev, NEW f \in Epochs, NEW b \in Bucket, Leave(d, f, b)
  PROVE  Fresh'
<1>1. /\ flight[f][b] > 0 /\ egress' = [egress EXCEPT ![d][Half(f)][b] = Incr(@)]
      /\ UNCHANGED <<queue, held, reports, settled, lost>>
  BY DEF Leave, ctrlVars
<1>a. PICK R : R = Reported
  OBVIOUS
<1>2. /\ \A i, c, a : Carries(i, c, Fermat, a)' <=> Carries(i, c, Fermat, a)
      /\ \A i : Ep(i)' = Ep(i)
      /\ Reported' = R /\ (NoneLost' <=> NoneLost)
  BY <1>1, <1>a DEF Carries, Ep, Reported, NoneLost
<1>3. ASSUME Prompt, NoneLost, R \in settled
      PROVE  \A c \in Dev, a \in Bucket : egress'[c][Half(R)][a] = egress[c][Half(R)][a]
  <2>1. TypeOK /\ R \in Nat /\ \A c \in Dev : flips[c] \in Int /\ flips[c] \in {R, R + 1}
    BY <1>3, <1>a, Steady
  <2>2. \A c \in Dev : flips[c] <= R + 1
    BY <2>1
  <2>3. Half(f) # Half(R)
    BY <1>1, <1>3, <2>1, <2>2, SettledMoves
  <2>4. Half(f) \in Halves /\ Half(R) \in Halves
    BY <2>1, HalfType, Constants
  <2> QED
    BY <1>1, <2>1, <2>3, <2>4 DEF TypeOK
<1> QED
  BY <1>1, <1>2, <1>3, <1>a DEF Fresh

(* A switch reads out the half of the epoch it left.                       *)
LEMMA SendFresh ==
  ASSUME IInv, Fresh, NEW d \in Dev, NEW k \in Kinds, Send(d, k)
  PROVE  Fresh'
<1>a. PICK f, R, N, s : f = flips[d] /\ R = Reported /\ N = Len(queue) /\ s = next[d][k]
  OBVIOUS
<1>1. lost' = lost /\ held' = held /\ reports' = reports /\ egress' = egress
  BY DEF Send, ctrlVars, netVars
<1>2. Reported' = R /\ (NoneLost' <=> NoneLost)
  BY <1>1, <1>a DEF Reported, NoneLost
<1>3. TypeOK /\ Transit /\ Idle /\ Sent
  BY DEF IInv, Transit
<1> SUFFICES ASSUME Prompt, NoneLost, R \in settled'
             PROVE  /\ \A i \in DOMAIN queue', c \in Dev, a \in Bucket :
                          (Carries(i, c, Fermat, a)' /\ Ep(i)' = R) =>
                              queue'[i].body.out = egress[c][Half(R)][a]
                    /\ \A c \in Dev, a \in Bucket :
                          held[c][Fermat][a].epoch = R =>
                              held[c][Fermat][a].out = egress[c][Half(R)][a]
  BY <1>1, <1>2 DEF Fresh
<1>4. R \in Nat /\ \A c \in Dev : flips[c] \in Int /\ flips[c] \in {R, R + 1}
  BY <1>a, Steady
<1>5. /\ N \in Nat /\ \A i \in 1..N : queue'[i] = queue[i]
      /\ queue'[N + 1] = Sending(d, k)
      /\ DOMAIN queue = 1..N /\ DOMAIN queue' = 1..(N + 1)
  <2>1. queue' \in Seq(Packet) /\ Len(queue') = N + 1
    BY <1>3, <1>a, SendPlaces
  <2> QED
    BY <1>3, <1>a, <2>1, SendPlaces, QueueTyped
<1>6. /\ \A i \in 1..N, c \in Dev, a \in Bucket :
            (Carries(i, c, Fermat, a) /\ Ep(i) = R) => queue[i].body.out = egress[c][Half(R)][a]
      /\ \A c \in Dev, a \in Bucket :
            held[c][Fermat][a].epoch = R => held[c][Fermat][a].out = egress[c][Half(R)][a]
  <2>1. CASE R \in settled
    BY <1>5, <1>a, <2>1 DEF Fresh
  <2>2. CASE R \notin settled
    <3>1. R = f - 1 /\ FirstToRead(R)
      BY <1>a, <2>2 DEF Send
    <3>2. ASSUME NEW c \in Dev, NEW a \in Bucket
          PROVE  Latest(c, Fermat, a) = R - 1
      <4>1. flips[c] = R + 1 /\ next[c][Fermat] = 0
        BY <3>1 DEF FirstToRead
      <4>2. ~(a < next[c][Fermat])
        BY <4>1, Constants
      <4> QED
        BY <1>4, <4>1, <4>2 DEF Latest
    <3>3. ASSUME NEW i \in 1..N, NEW c \in Dev, NEW a \in Bucket, Carries(i, c, Fermat, a)
          PROVE  Ep(i) # R
      <4>1. Ep(i) <= Latest(c, Fermat, a) /\ Ep(i) \in Int
        BY <1>3, <1>5, <3>3, QueueTyped, Constants DEF Sent
      <4> QED
        BY <1>4, <3>2, <4>1
    <3>4. ASSUME NEW c \in Dev, NEW a \in Bucket
          PROVE  held[c][Fermat][a].epoch # R
      <4>1. held[c][Fermat][a].epoch <= Latest(c, Fermat, a)
        BY <1>3, Constants DEF Sent
      <4>2. held[c][Fermat][a].epoch \in Int
        BY <1>3, LatestType, Constants
      <4> QED
        BY <1>4, <3>2, <4>1, <4>2
    <3> QED
      BY <3>3, <3>4
  <2> QED
    BY <2>1, <2>2
<1>7. ASSUME NEW i \in 1..(N + 1), NEW c \in Dev, NEW a \in Bucket,
             Carries(i, c, Fermat, a)', Ep(i)' = R
      PROVE  queue'[i].body.out = egress[c][Half(R)][a]
  <2>1. CASE i \in 1..N
    <3>1. queue'[i] = queue[i]
      BY <1>5, <2>1
    <3>2. Carries(i, c, Fermat, a) /\ Ep(i) = R
      BY <1>7, <3>1 DEF Carries, Ep
    <3> QED
      BY <1>6, <2>1, <3>1, <3>2
  <2>2. CASE i = N + 1
    <3>1. queue'[i] = Sending(d, k)
      BY <1>5, <2>2
    <3>2. c = d /\ k = Fermat /\ s = a /\ f - 1 = R
      BY <1>7, <1>a, <3>1 DEF Carries, Ep, Sending
    <3>3. queue'[i].body.out = egress[c][ReadHalf(d)][a]
      BY <1>a, <3>1, <3>2 DEF Sending
    <3>4. ReadHalf(d) = Half(R)
      <4>1. f = R + 1 /\ R \in Int
        BY <1>4, <1>a, <3>2
      <4>2. f = flips[d]
        BY <1>a
      <4>3. Half(R + 1) = 1 - Half(R) /\ Half(R) \in Int
        BY <4>1, HalfFlips DEF Half
      <4> QED
        BY <4>1, <4>2, <4>3, <3>2 DEF ReadHalf
    <3> QED
      BY <3>3, <3>4
  <2> QED
    BY <1>5, <2>1, <2>2
<1> QED
  BY <1>5, <1>6, <1>7

(* What the controller holds of a settled epoch when it reports it.        *)
LEMMA BurstOuts ==
  ASSUME IInv, Fresh, Prompt, NoneLost, Reported \in settled,
         NEW n \in 1..Len(queue), Receive(n),
         NEW d \in Dev, NEW b \in Bucket, held'[d][Fermat][b].epoch = Reported
  PROVE  held'[d][Fermat][b].out = egress[d][Half(Reported)][b]
<1>0. TypeOK /\ Transit
  BY DEF IInv
<1>1. \/ held'[d][Fermat][b] = held[d][Fermat][b]
      \/ \E i \in 1..n : Carries(i, d, Fermat, b) /\ held'[d][Fermat][b] = queue[i].body
  BY <1>0, BurstHeld, Constants
<1>2. CASE held'[d][Fermat][b] = held[d][Fermat][b]
  BY <1>2 DEF Fresh
<1>3. CASE \E i \in 1..n : Carries(i, d, Fermat, b) /\ held'[d][Fermat][b] = queue[i].body
  <2>1. PICK i \in 1..n : Carries(i, d, Fermat, b) /\ held'[d][Fermat][b] = queue[i].body
    BY <1>3
  <2>2. i \in DOMAIN queue /\ Ep(i) = Reported
    BY <1>0, <2>1, QueueTyped DEF Ep
  <2> QED
    BY <2>1, <2>2 DEF Fresh
<1> QED
  BY <1>1, <1>2, <1>3

LEMMA BurstFresh ==
  ASSUME IInv, StaysDrained, Fresh, RxBurst
  PROVE  Fresh'
<1>0. TypeOK /\ Transit /\ Ordered /\ Sent
  BY DEF IInv, Transit
<1>1. PICK n \in 1..Len(queue) :
         /\ Receive(n) /\ (Wait(n) \/ Process(n))
         /\ Len(queue') = Len(queue) - n /\ queue' \in Seq(Packet)
         /\ \A i \in 1..(Len(queue) - n) : queue'[i] = queue[n + i]
  BY <1>0, BurstPlaces
<1>a. PICK R, N : R = Reported /\ N = Len(queue)
  OBVIOUS
<1>2. lost' = lost /\ egress' = egress /\ flips' = flips /\ settled' = settled
  BY <1>1 DEF Receive, switchVars
<1>3. SUFFICES ASSUME Prompt, NoneLost, Reported' \in settled
               PROVE  /\ \A i \in DOMAIN queue', c \in Dev, a \in Bucket :
                            (Carries(i, c, Fermat, a)' /\ Ep(i)' = Reported') =>
                                queue'[i].body.out = egress[c][Half(Reported')][a]
                      /\ \A c \in Dev, a \in Bucket :
                            held'[c][Fermat][a].epoch = Reported' =>
                                held'[c][Fermat][a].out = egress[c][Half(Reported')][a]
  BY <1>2 DEF Fresh, NoneLost
<1>4. R \in Nat /\ \A c \in Dev : flips[c] \in Int /\ flips[c] \in {R, R + 1}
  BY <1>3, <1>a, Steady
<1>5. CASE Process(n)
  <2>1. Reported' = R + 1
    BY <1>0, <1>1, <1>5, <1>a, ProcessPlaces
  <2>2. PICK c : c \in Dev
    BY Constants
  <2>3. flips[c] > R + 1
    BY <1>3, <2>1, <2>2 DEF StaysDrained, Drained
  <2> QED
    BY <1>4, <2>2, <2>3
<1>6. CASE Wait(n)
  <2>1. Reported' = R /\ R \in settled
    BY <1>3, <1>6, <1>a DEF Wait, Reported
  <2>2. /\ N \in Nat /\ DOMAIN queue = 1..N /\ DOMAIN queue' = 1..(N - n)
        /\ n \in 1..N /\ \A i \in 1..(N - n) : queue'[i] = queue[n + i]
    BY <1>0, <1>1, <1>a, QueueTyped
  <2>3. ASSUME NEW i \in 1..(N - n), NEW c \in Dev, NEW a \in Bucket,
               Carries(i, c, Fermat, a)', Ep(i)' = R
        PROVE  queue'[i].body.out = egress[c][Half(R)][a]
    <3>1. queue'[i] = queue[n + i] /\ n + i \in 1..N
      BY <2>2
    <3>2. Carries(n + i, c, Fermat, a) /\ Ep(n + i) = R
      BY <2>3, <3>1 DEF Carries, Ep
    <3> QED
      BY <1>3, <1>a, <2>1, <2>2, <3>1, <3>2 DEF Fresh
  <2>4. \A c \in Dev, a \in Bucket :
            held'[c][Fermat][a].epoch = R => held'[c][Fermat][a].out = egress[c][Half(R)][a]
    BY <1>1, <1>3, <1>a, <2>1, BurstOuts
  <2> QED
    BY <2>1, <2>2, <2>3, <2>4
<1> QED
  BY <1>1, <1>5, <1>6
-----------------------------------------------------------------------------
LEMMA MinusCongruent ==
  ASSUME NEW a \in Value, NEW b \in Value
  PROVE  Minus(a, b) \in Value /\ Minus(a, b) \in Int /\ Congruent(Minus(a, b), a - b, CounterSize)
<1>a. PICK C \in Nat \ {0} : C = CounterSize
  BY Constants
<1>1. a \in Int /\ b \in Int
  BY ValueInt
<1>2. a + C - b \in Int /\ a - b \in Int /\ a + C - b = (a - b) + 1 * C
  BY <1>1
<1>3. Congruent(a + C - b, a - b, C)
  <2>1. PICK x \in Int, y \in Int, k \in Int :
           x = a + C - b /\ y = a - b /\ k = 1 /\ x = y + k * C
    BY <1>2
  <2>2. Congruent(x, y, C)
    BY <2>1, CongruentBy
  <2> QED
    BY <2>1, <2>2
<1>4. (a + C - b) % C \in 0..(C - 1) /\ Congruent((a + C - b) % C, a + C - b, C)
  BY <1>2, DivMod, CongruentMod
<1>5. Minus(a, b) \in Value
  BY <1>a, <1>4 DEF Minus, Value
<1> QED
  BY <1>a, <1>3, <1>4, <1>5, ValueInt DEF Minus, Congruent

LEMMA ModValue == \A x \in Int : x % CounterSize \in Value
<1> TAKE x \in Int
<1>1. PICK C \in Nat \ {0} : C = CounterSize
  BY Constants
<1>2. x % C \in 0..(C - 1)
  BY DivMod
<1> QED
  BY <1>1, <1>2 DEF Value

(* The sum of the differences is the difference of the sums.               *)
LEMMA SumMinus ==
  ASSUME NEW F, NEW G, NEW H, NEW S, IsFiniteSet(S),
         \A y \in S : F[y] \in Value /\ G[y] \in Value /\ H[y] = Minus(F[y], G[y])
  PROVE  /\ SumFunctionOnSet(F, S) \in Int /\ SumFunctionOnSet(G, S) \in Int
         /\ SumFunctionOnSet(H, S) \in Int
         /\ Congruent(SumFunctionOnSet(H, S),
                      SumFunctionOnSet(F, S) - SumFunctionOnSet(G, S), CounterSize)
<1> DEFINE D == [y \in S |-> F[y] - G[y]]
<1>1. \A y \in S : /\ F[y] \in Int /\ G[y] \in Int /\ H[y] \in Int /\ D[y] \in Int
                   /\ Congruent(H[y], D[y], CounterSize) /\ F[y] = D[y] + G[y]
  <2> TAKE y \in S
  <2>1. F[y] \in Value /\ G[y] \in Value /\ H[y] = Minus(F[y], G[y]) /\ D[y] = F[y] - G[y]
    OBVIOUS
  <2>2. F[y] \in Int /\ G[y] \in Int
    BY <2>1, ValueInt
  <2>3. D[y] \in Int /\ F[y] = D[y] + G[y]
    BY <2>1, <2>2
  <2>4. H[y] \in Int /\ Congruent(H[y], D[y], CounterSize)
    BY <2>1, MinusCongruent
  <2> QED
    BY <2>2, <2>3, <2>4
<1> HIDE DEF D
<1>2. CounterSize \in Nat \ {0}
  BY Constants
<1>3. Congruent(SumFunctionOnSet(H, S), SumFunctionOnSet(D, S), CounterSize)
  BY <1>1, <1>2, SumResidue
<1>4. SumFunctionOnSet(F, S) = SumFunctionOnSet(D, S) + SumFunctionOnSet(G, S)
  BY <1>1, SumPlus
<1>5. PICK f \in Int, g \in Int, h \in Int, e \in Int :
         /\ f = SumFunctionOnSet(F, S) /\ g = SumFunctionOnSet(G, S)
         /\ h = SumFunctionOnSet(H, S) /\ e = SumFunctionOnSet(D, S)
  BY <1>1, SumInt
<1>6. e = f - g
  BY <1>4, <1>5
<1> QED
  BY <1>3, <1>5, <1>6

(* What a report says was lost, modulo the width of the counters.          *)
LossesAre ==
    \A k \in DOMAIN reports, b \in Bucket :
        /\ LossOf(k, b) \in Value /\ LossOf(k, b) \in Int
        /\ Congruent(LossOf(k, b),
              SumFunctionOnSet([d \in Dev |-> reports[k].in[d][b]], Dev)
                 - SumFunctionOnSet([d \in Dev |-> reports[k].out[d][b]], Dev), CounterSize)

LEMMA LossesTyped == TypeOK => LossesAre
<1> SUFFICES ASSUME TypeOK, NEW k \in DOMAIN reports, NEW b \in Bucket
             PROVE  /\ LossOf(k, b) \in Value /\ LossOf(k, b) \in Int
                    /\ Congruent(LossOf(k, b),
                          SumFunctionOnSet([d \in Dev |-> reports[k].in[d][b]], Dev)
                             - SumFunctionOnSet([d \in Dev |-> reports[k].out[d][b]], Dev),
                          CounterSize)
  BY DEF LossesAre
<1>1. reports[k] \in Report
  BY ReportsTyped
<1>2. \A d \in Dev : reports[k].in[d][b] \in Value /\ reports[k].out[d][b] \in Value
  BY <1>1 DEF Report
<1> DEFINE F == [d \in Dev |-> reports[k].in[d][b]]
           G == [d \in Dev |-> reports[k].out[d][b]]
<1>3. \A d \in Dev : F[d] \in Int /\ G[d] \in Int
  BY <1>2, ValueInt
<1>4. LossOf(k, b) = Minus(SumFunctionOnSet(F, Dev) % CounterSize,
                           SumFunctionOnSet(G, Dev) % CounterSize)
  <2>1. DOMAIN F = Dev /\ DOMAIN G = Dev
    OBVIOUS
  <2> QED
    BY <2>1 DEF LossOf, SumFunction
<1> HIDE DEF F, G
<1>5. PICK f \in Int, g \in Int : f = SumFunctionOnSet(F, Dev) /\ g = SumFunctionOnSet(G, Dev)
  BY <1>3, SumInt, FiniteSets
<1>6. PICK p \in Value, q \in Value : p = f % CounterSize /\ q = g % CounterSize
  BY ModValue
<1>7. Minus(p, q) \in Value /\ Minus(p, q) \in Int /\ Congruent(Minus(p, q), p - q, CounterSize)
  BY MinusCongruent
<1>8. Congruent(p - q, f - g, CounterSize)
  <2>1. Congruent(p, f, CounterSize) /\ Congruent(q, g, CounterSize)
    BY <1>6, CongruentMod, Constants
  <2> QED
    BY <2>1, CongruentPlus, ValueInt, Constants
<1>9. Congruent(Minus(p, q), f - g, CounterSize)
  BY <1>7, <1>8 DEF Congruent
<1>10. LossOf(k, b) = Minus(p, q)
  BY <1>4, <1>5, <1>6
<1> QED
  BY <1>5, <1>7, <1>9, <1>10 DEF F, G

LEMMA OldTyped ==
  ASSUME TypeOK, NEW h \in Halves, NEW b \in Bucket
  PROVE  /\ \A d \in Dev : OldIns(h, b)[d] \in Value /\ OldOuts(h, b)[d] \in Value
         /\ SumFunctionOnSet(OldIns(h, b), Dev) \in Int
         /\ SumFunctionOnSet(OldOuts(h, b), Dev) \in Int
<1>1. ASSUME NEW d \in Dev PROVE OldIns(h, b)[d] \in Value /\ OldOuts(h, b)[d] \in Value
  <2>1. old[h][d][b] \in Body
    BY DEF TypeOK
  <2> QED
    BY <2>1 DEF OldIns, OldOuts, Body
<1> QED
  BY <1>1, ValueInt, SumInt, FiniteSets

LEMMA TelescopesStill ==
  ASSUME Telescopes, UNCHANGED <<old, reports, lost>>
  PROVE  Telescopes'
<1>1. Reported' = Reported /\ NoneLost' = NoneLost
  BY DEF Reported, NoneLost
<1>2. \A k, b : LossOf(k, b)' = LossOf(k, b)
  BY DEF LossOf
<1>3. \A b : Losses(b)' = Losses(b)
  BY <1>1, <1>2 DEF Losses
<1> QED
  BY <1>1, <1>3 DEF Telescopes, RoundsOf, OldIns, OldOuts

(* A round adds to the reported losses of its half what its readouts show  *)
(* more than those it subtracts, which it replaces.                        *)
LEMMA BurstTelescopes ==
  ASSUME IInv, Telescopes, RxBurst
  PROVE  Telescopes'
<1>0. TypeOK /\ TypeOK' /\ Transit /\ Ordered /\ Sent
  <2>1. IInv'
    BY BurstInvariant
  <2> QED
    BY <2>1 DEF IInv, Transit
<1>1. PICK n \in 1..Len(queue) : Receive(n) /\ (Wait(n) \/ Process(n))
  BY <1>0, BurstPlaces
<1>2. CASE Wait(n)
  BY <1>1, <1>2, TelescopesStill DEF Wait, Receive
<1>3. CASE Process(n)
  <2>a. PICK R : R = Reported
    OBVIOUS
  <2>1. lost' = lost
    BY <1>1 DEF Receive
  <2> SUFFICES ASSUME Prompt, NoneLost, NEW h \in Halves, NEW b \in Bucket
               PROVE  Congruent(SumFunctionOnSet(Losses(b)', RoundsOf(h)'),
                         SumFunctionOnSet(OldIns(h, b)', Dev) - SumFunctionOnSet(OldOuts(h, b)', Dev),
                         CounterSize)
    BY <2>1 DEF Telescopes, NoneLost
  <2>2. R \in Nat /\ R \in Int /\ time_flag = Half(R) /\ Half(R) \in Halves
    BY <2>a, Steady, HalfType
  <2>3. /\ Reported' = R + 1 /\ DOMAIN reports' = 1..(R + 1) /\ DOMAIN reports = 1..R
        /\ \A j \in 1..R : reports'[j] = reports[j]
        /\ reports'[R + 1] = ReportOf(held')
    BY <1>0, <1>1, <1>3, <2>a, ProcessPlaces, ReportsTyped
  <2>4. /\ \A d \in Dev, a \in Bucket : old'[Half(R)][d][a] = held'[d][Fermat][a]
        /\ h # Half(R) => old'[h] = old[h]
    <3>1. old' = [old EXCEPT ![Half(R)] = [d \in Dev |-> held'[d][Fermat]]]
      BY <1>1, <1>3, <2>2 DEF Process, Saved, Receive
    <3>2. old \in [Halves -> [Dev -> [Bucket -> Body]]]
      BY <1>0 DEF TypeOK
    <3>3. old'[Half(R)] = [d \in Dev |-> held'[d][Fermat]]
      BY <2>2, <3>1, <3>2
    <3>4. h # Half(R) => old'[h] = old[h]
      BY <3>1, <3>2
    <3> QED
      BY <3>3, <3>4
  <2>5. PICK L, M, D, E : /\ L = Losses(b) /\ M = Losses(b)'
                          /\ D = RoundsOf(h) /\ E = RoundsOf(h)'
    OBVIOUS
  <2>6. /\ D = {f \in 0..(R - 1) : Half(f) = h} /\ E = {f \in 0..R : Half(f) = h}
        /\ IsFiniteSet(D) /\ IsFiniteSet(E)
    <3>1. D = {f \in 0..(R - 1) : Half(f) = h}
      BY <2>5, <2>a DEF RoundsOf
    <3>2. E = {f \in 0..R : Half(f) = h}
      <4>1. Reported' - 1 = R
        BY <2>2, <2>3
      <4> QED
        BY <2>5, <4>1 DEF RoundsOf
    <3>3. \A k \in Int : IsFiniteSet({f \in 0..k : Half(f) = h})
      BY FiniteSets
    <3>4. R - 1 \in Int
      BY <2>2
    <3>5. IsFiniteSet(D) /\ IsFiniteSet(E)
      BY <2>2, <3>1, <3>2, <3>3, <3>4
    <3> QED
      BY <3>1, <3>2, <3>5
  <2>7. /\ \A f \in 0..(R - 1) : L[f] = LossOf(f + 1, b) /\ L[f] \in Int
        /\ \A f \in 0..R : M[f] = LossOf(f + 1, b)' /\ M[f] \in Int
        /\ \A f \in 0..(R - 1) : M[f] = L[f]
    <3>1. \A f \in 0..(R - 1) : L[f] = LossOf(f + 1, b)
      BY <2>5, <2>a DEF Losses
    <3>2. \A f \in 0..R : M[f] = LossOf(f + 1, b)'
      <4>1. Reported' - 1 = R
        BY <2>2, <2>3
      <4> QED
        BY <2>5, <4>1 DEF Losses
    <3>3. \A f \in 0..(R - 1) : f + 1 \in 1..R
      BY <2>2
    <3>4. \A f \in 0..(R - 1) : LossOf(f + 1, b)' = LossOf(f + 1, b)
      BY <2>3, <3>3 DEF LossOf
    <3>5. \A f \in 0..(R - 1) : LossOf(f + 1, b) \in Int
      BY <1>0, <2>3, <3>3, LossesTyped DEF LossesAre
    <3>6. \A f \in 0..R : LossOf(f + 1, b)' \in Int
      <4>0. LossesAre'
        BY <1>0, LossesTyped, PTL
      <4>1. \A k \in DOMAIN reports' : LossOf(k, b)' \in Int
        BY <4>0 DEF LossesAre
      <4>2. \A f \in 0..R : f + 1 \in 1..(R + 1)
        BY <2>2
      <4> QED
        BY <2>3, <4>1, <4>2
    <3>7. \A f \in 0..(R - 1) : f \in 0..R
      BY <2>2
    <3> QED
      BY <3>1, <3>2, <3>4, <3>5, <3>6, <3>7
  <2>8. Congruent(SumFunctionOnSet(L, D),
                  SumFunctionOnSet(OldIns(h, b), Dev) - SumFunctionOnSet(OldOuts(h, b), Dev),
                  CounterSize)
    BY <2>5 DEF Telescopes
  <2>9. CASE h # Half(R)
    <3>1. D = E
      BY <2>2, <2>6, <2>9
    <3>2. SumFunctionOnSet(M, E) = SumFunctionOnSet(L, D)
      <4>1. \A f \in D : M[f] = L[f]
        BY <2>6, <2>7
      <4>2. IsFiniteSet(D)
        BY <2>6
      <4>3. SumFunctionOnSet(M, D) = SumFunctionOnSet(L, D)
        BY <4>1, <4>2, SumSame
      <4> QED
        BY <3>1, <4>3
    <3>3. OldIns(h, b)' = OldIns(h, b) /\ OldOuts(h, b)' = OldOuts(h, b)
      BY <2>4, <2>9 DEF OldIns, OldOuts
    <3> QED
      BY <2>5, <2>8, <3>2, <3>3
  <2>10. CASE h = Half(R)
    <3>1. E = D \cup {R} /\ R \notin D /\ R \in 0..R
      BY <2>2, <2>6, <2>10
    <3>2. SumFunctionOnSet(M, E) = M[R] + SumFunctionOnSet(L, D)
      <4>1. \A f \in D : f \in 0..(R - 1)
        BY <2>6
      <4>2. SumFunctionOnSet(M, D) = SumFunctionOnSet(L, D)
        BY <2>6, <2>7, <4>1, SumSame
      <4>3. \A f \in D \cup {R} : M[f] \in Int
        BY <2>6, <2>7, <3>1
      <4>4. SumFunctionOnSet(M, D \cup {R}) = M[R] + SumFunctionOnSet(M, D)
        BY <2>6, <3>1, <4>3, SumAddElement
      <4> QED
        BY <3>1, <4>2, <4>4
    <3> DEFINE F == [d \in Dev |-> held'[d][Fermat][b].in]
               G == [d \in Dev |-> held'[d][Fermat][b].out]
               I == [d \in Dev |-> reports'[R + 1].in[d][b]]
               O == [d \in Dev |-> reports'[R + 1].out[d][b]]
    <3>3. \A d \in Dev : /\ F[d] \in Value /\ G[d] \in Value
                         /\ I[d] = Minus(F[d], OldIns(h, b)[d])
                         /\ O[d] = Minus(G[d], OldOuts(h, b)[d])
      <4> TAKE d \in Dev
      <4>1. held'[d][Fermat][b] \in Body
        <5>1. held' \in [Dev -> [Kinds -> [Bucket -> Body]]]
          BY <1>0 DEF TypeOK
        <5> QED
          BY <5>1, Constants
      <4>2. /\ reports'[R + 1].in[d][b] = Minus(held'[d][Fermat][b].in, old[h][d][b].in)
            /\ reports'[R + 1].out[d][b] = Minus(held'[d][Fermat][b].out, old[h][d][b].out)
        BY <2>2, <2>3, <2>10 DEF ReportOf
      <4> QED
        BY <4>1, <4>2 DEF Body, OldIns, OldOuts
    <3>4. OldIns(h, b)' = F /\ OldOuts(h, b)' = G
      BY <2>4, <2>10 DEF OldIns, OldOuts
    <3>5. Congruent(M[R], SumFunctionOnSet(I, Dev) - SumFunctionOnSet(O, Dev), CounterSize)
      <4>1. LossesAre'
        BY <1>0, LossesTyped, PTL
      <4>2. R + 1 \in DOMAIN reports'
        BY <2>2, <2>3
      <4>3. PICK k : k = R + 1
        OBVIOUS
      <4>4. Congruent(LossOf(k, b)',
                  SumFunctionOnSet([d \in Dev |-> reports'[k].in[d][b]], Dev)
                     - SumFunctionOnSet([d \in Dev |-> reports'[k].out[d][b]], Dev), CounterSize)
        BY <4>1, <4>2, <4>3 DEF LossesAre
      <4>5. M[R] = LossOf(k, b)'
        BY <2>7, <3>1, <4>3
      <4> QED
        BY <4>3, <4>4, <4>5
    <3> HIDE DEF F, G, I, O
    <3>6. \A d \in Dev : OldIns(h, b)[d] \in Value /\ OldOuts(h, b)[d] \in Value
      BY <1>0, OldTyped
    <3>7. PICK f \in Int, i \in Int, p \in Int :
             /\ f = SumFunctionOnSet(F, Dev) /\ i = SumFunctionOnSet(I, Dev)
             /\ p = SumFunctionOnSet(OldIns(h, b), Dev)
             /\ Congruent(i, f - p, CounterSize)
      BY <3>3, <3>6, SumMinus, FiniteSets
    <3>8. PICK g \in Int, o \in Int, q \in Int :
             /\ g = SumFunctionOnSet(G, Dev) /\ o = SumFunctionOnSet(O, Dev)
             /\ q = SumFunctionOnSet(OldOuts(h, b), Dev)
             /\ Congruent(o, g - q, CounterSize)
      BY <3>3, <3>6, SumMinus, FiniteSets
    <3>9. PICK s \in Int, m \in Int : s = SumFunctionOnSet(L, D) /\ m = M[R]
      <4>1. \A x \in D : L[x] \in Int
        BY <2>6, <2>7
      <4> QED
        BY <2>6, <2>7, <3>1, <4>1, SumInt
    <3>10. Congruent(m + s, f - g, CounterSize)
      <4>0. CounterSize \in Nat \ {0}
        BY Constants
      <4>1. Congruent(i - o, (f - p) - (g - q), CounterSize)
        BY <3>7, <3>8, <4>0, CongruentPlus
      <4>2. Congruent(m, (f - p) - (g - q), CounterSize)
        BY <3>5, <3>7, <3>8, <3>9, <4>1 DEF Congruent
      <4>3. Congruent(s, p - q, CounterSize)
        BY <2>8, <3>7, <3>8, <3>9
      <4>4. Congruent(m + s, ((f - p) - (g - q)) + (p - q), CounterSize)
        <5>1. (f - p) - (g - q) \in Int /\ p - q \in Int
          OBVIOUS
        <5> QED
          BY <4>0, <4>2, <4>3, <5>1, CongruentPlus
      <4>5. ((f - p) - (g - q)) + (p - q) = f - g
        OBVIOUS
      <4> QED
        BY <4>4, <4>5
    <3> QED
      BY <2>5, <3>2, <3>4, <3>7, <3>8, <3>9, <3>10
  <2> QED
    BY <2>9, <2>10
<1> QED
  BY <1>1, <1>2, <1>3
-----------------------------------------------------------------------------
(* The epochs of the same half up to e, and what LossSettles says of e.    *)
Same(e) == {f \in 0..e : Half(f) = Half(e)}
SettlesAt(e, b) ==
    Reported > e =>
        SumFunction([f \in Same(e) |-> LossOf(f + 1, b)]) % CounterSize
           = SumFunction([f \in Same(e) |-> dropped[f][b]]) % CounterSize

AllSettle == \A e \in settled, b \in Bucket : SettlesAt(e, b)

LEMMA SettlesIs == LossSettles <=> AllSettle
BY DEF LossSettles, AllSettle, SettlesAt, Same, Reported

(* What was settled and reported stays so: nothing of it can be dropped    *)
(* any more.                                                               *)
LEMMA SettlesStill ==
  ASSUME TypeOK, NEW e \in settled, NEW b \in Bucket, Reported > e, Drained(e), SettlesAt(e, b),
         \A j \in DOMAIN reports : reports'[j] = reports[j],
         \A f \in Epochs, a \in Bucket : dropped'[f][a] = dropped[f][a] \/ flight[f][a] > 0
  PROVE  SettlesAt(e, b)'
<1>1. e \in Epochs /\ e \in Nat /\ Reported \in Nat /\ DOMAIN reports = 1..Reported
  <2>1. e \in Epochs
    BY DEF TypeOK
  <2> QED
    BY <2>1, ReportsTyped, Constants
<1>2. ASSUME NEW f \in Same(e)
      PROVE  LossOf(f + 1, b)' = LossOf(f + 1, b) /\ dropped'[f][b] = dropped[f][b]
  <2>1. f \in 0..e /\ Half(f) = Half(e) /\ f \in Epochs
    BY <1>1, Constants DEF Same
  <2>2. f + 1 \in DOMAIN reports
    BY <1>1, <2>1
  <2>3. flight[f][b] = 0
    BY <2>1 DEF Drained
  <2> QED
    BY <2>1, <2>2, <2>3 DEF LossOf
<1>3. /\ [f \in Same(e) |-> LossOf(f + 1, b)'] = [f \in Same(e) |-> LossOf(f + 1, b)]
      /\ [f \in Same(e) |-> dropped'[f][b]] = [f \in Same(e) |-> dropped[f][b]]
  BY <1>2
<1>4. Same(e)' = Same(e)
  BY DEF Same
<1> QED
  BY <1>3, <1>4 DEF SettlesAt

(* A step that reports and settles nothing.                                *)
LEMMA SettlingStill ==
  ASSUME TypeOK, StaysDrained, Settling, UNCHANGED <<reports, settled, lost>>,
         \A f \in Epochs, a \in Bucket : dropped'[f][a] = dropped[f][a] \/ flight[f][a] > 0
  PROVE  Settling'
<1> SUFFICES ASSUME Prompt, NoneLost, NEW e \in settled, NEW b \in Bucket PROVE SettlesAt(e, b)'
  <2>1. LossSettles' <=> AllSettle'
    BY SettlesIs, PTL
  <2> QED
    BY <2>1 DEF Settling, NoneLost, AllSettle
<1>1. SettlesAt(e, b) /\ Drained(e)
  BY SettlesIs DEF Settling, StaysDrained, AllSettle
<1>2. Reported' = Reported
  BY DEF Reported
<1>3. CASE Reported > e
  BY <1>1, <1>3, SettlesStill
<1>4. CASE ~(Reported > e)
  BY <1>2, <1>4 DEF SettlesAt
<1> QED
  BY <1>3, <1>4

(* An epoch that has just begun to be read out is not reported yet.        *)
LEMMA SendSettling ==
  ASSUME IInv, StaysDrained, Settling, NEW d \in Dev, NEW k \in Kinds, Send(d, k)
  PROVE  Settling'
<1>0. TypeOK /\ Transit /\ Sent /\ InStep
  BY DEF IInv, Transit
<1>1. lost' = lost /\ reports' = reports /\ dropped' = dropped /\ Reported' = Reported
  BY DEF Send, ctrlVars, netVars, Reported
<1> SUFFICES ASSUME Prompt, NoneLost, NEW e \in settled', NEW b \in Bucket PROVE SettlesAt(e, b)'
  <2>1. LossSettles' <=> AllSettle'
    BY SettlesIs, PTL
  <2> QED
    BY <1>1, <2>1 DEF Settling, NoneLost, AllSettle
<1>2. CASE e \in settled /\ Reported > e
  <2>1. SettlesAt(e, b) /\ Drained(e)
    BY <1>2, SettlesIs DEF Settling, StaysDrained, AllSettle
  <2> QED
    BY <1>0, <1>1, <1>2, <2>1, SettlesStill
<1>3. CASE e \notin settled
  <2>1. e = flips[d] - 1 /\ FirstToRead(e)
    BY <1>3 DEF Send
  <2>2. /\ Reported \in Nat /\ LastsArrive /\ ~overrun /\ flips[d] \in Int
        /\ flips[d] \in {Reported, Reported + 1}
    BY Steady
  <2>3. Latest(d, Fermat, LastBucket) = e - 1
    <3>1. flips[d] = e + 1 /\ next[d][Fermat] = 0
      BY <2>1 DEF FirstToRead
    <3>2. ~(LastBucket < next[d][Fermat])
      BY <3>1, Constants
    <3>3. Latest(d, Fermat, LastBucket) = flips[d] - 2
      BY <3>2 DEF Latest
    <3> QED
      BY <2>1, <2>2, <3>3
  <2>4. held[d][Fermat][LastBucket].epoch \in {Reported - 1, Reported}
    BY <2>2, <1>0, Constants DEF InStep
  <2>5. held[d][Fermat][LastBucket].epoch <= Latest(d, Fermat, LastBucket)
    BY <1>0, Constants DEF Sent
  <2>6. ~(Reported > e)
    BY <2>1, <2>2, <2>3, <2>4, <2>5
  <2> QED
    BY <1>1, <2>6 DEF SettlesAt
<1>4. CASE ~(Reported > e)
  BY <1>1, <1>4 DEF SettlesAt
<1> QED
  BY <1>2, <1>3, <1>4

(* Of a half that is drained and that no switch counts in, what is away    *)
(* was dropped.                                                            *)
LEMMA AwayIsDropped ==
  ASSUME TypeOK, Unflown, NEW e \in Epochs, Drained(e), \A d \in Dev : flips[d] <= e + 1,
         NEW b \in Bucket
  PROVE  SumFunctionOnSet(Away(b), OfHalf(Half(e))) = SumFunction([f \in Same(e) |-> dropped[f][b]])
<1> DEFINE S == Same(e)
           U == {f \in Epochs : Half(f) = Half(e) /\ f > e}
           F == [f \in S |-> dropped[f][b]]
<1>1. e \in Nat /\ S \subseteq Epochs /\ U \subseteq Epochs /\ S \cap U = {}
  BY Constants DEF Same
<1>2. OfHalf(Half(e)) = S \cup U
  <2>1. \A f \in Epochs : f \in 0..e \/ f > e
    BY <1>1, Constants
  <2> QED
    BY <1>1, <2>1 DEF OfHalf, Same
<1>3. IsFiniteSet(S) /\ IsFiniteSet(U)
  BY <1>1, FiniteSets, FS_Subset
<1>4. \A f \in Epochs : /\ flight[f][b] \in Nat /\ dropped[f][b] \in Nat
                        /\ Away(b)[f] = flight[f][b] + dropped[f][b] /\ Away(b)[f] \in Int
  <2> TAKE f \in Epochs
  <2>1. flight[f][b] \in Nat /\ dropped[f][b] \in Nat
    BY DEF TypeOK
  <2> QED
    BY <2>1 DEF Away
<1>5. \A f \in S : Away(b)[f] = F[f]
  <2> TAKE f \in S
  <2>1. flight[f][b] = 0 /\ F[f] = dropped[f][b]
    BY DEF Same, Drained
  <2>2. f \in Epochs
    BY <1>1
  <2>3. dropped[f][b] \in Nat /\ Away(b)[f] = flight[f][b] + dropped[f][b]
    BY <1>4, <2>2
  <2> QED
    BY <2>1, <2>3
<1>6. \A f \in U : Away(b)[f] = 0
  <2> TAKE f \in U
  <2>1. f \in Epochs /\ f \in Int /\ f > e /\ Half(f) = Half(e)
    BY Constants
  <2>2. f # e + 1
    BY <1>1, <2>1, HalfFlips, HalfType DEF Halves
  <2>3. \A d \in Dev : flips[d] < f
    BY <1>1, <2>1, <2>2, FlipsTyped
  <2>4. flight[f][b] = 0 /\ dropped[f][b] = 0
    BY <2>1, <2>3 DEF Unflown
  <2> QED
    BY <1>4, <2>1, <2>4
<1>7. DOMAIN F = S
  OBVIOUS
<1> HIDE DEF S, U, F
<1>8. SumFunctionOnSet(Away(b), S) = SumFunctionOnSet(F, S)
  BY <1>3, <1>5, SumSame
<1>9. SumFunctionOnSet(Away(b), U) = 0
  BY <1>3, <1>6, SumZero
<1>10. SumFunctionOnSet(Away(b), S) \in Int
  BY <1>1, <1>3, <1>4, SumInt
<1>11. SumFunctionOnSet(Away(b), S \cup U) = SumFunctionOnSet(Away(b), S) + SumFunctionOnSet(Away(b), U)
  BY <1>1, <1>3, <1>4, SumUnion
<1>12. SumFunctionOnSet(Away(b), S \cup U) = SumFunctionOnSet(F, S)
  BY <1>8, <1>9, <1>10, <1>11
<1>13. SumFunction(F) = SumFunctionOnSet(F, S)
  BY <1>7 DEF SumFunction
<1> QED
  BY <1>2, <1>12, <1>13 DEF F, S

(* The readouts a report is made of are all of its epoch.                  *)
LEMMA ProcessReads ==
  ASSUME IInv, Prompt, NoneLost, NEW n \in 1..Len(queue), RxBurst, Receive(n), Process(n),
         NEW d \in Dev, NEW b \in Bucket
  PROVE  /\ held'[d][Fermat][b].epoch = Reported
         /\ held'[d][Fermat][b].in = ingress[d][Half(Reported)][b]
<1>a. PICK R : R = Reported
  OBVIOUS
<1>0. TypeOK /\ Transit /\ Ordered /\ Sent /\ Counted /\ InStep' /\ InTime'
  <2>1. IInv'
    BY BurstInvariant
  <2> QED
    BY <2>1 DEF IInv, Transit
<1>1. LastsArrive /\ LastsArrive' /\ \A e : ~Gap(e)'
  BY DEF NoneLost, LastsArrive, Receive, Gap
<1>2. /\ R \in Nat /\ Reported' = R + 1 /\ DOMAIN reports' = 1..(R + 1)
      /\ reports'[R + 1] = ReportOf(held')
  BY <1>0, <1>a, ReportsTyped, ProcessPlaces
<1>3. ~overrun'
  BY <1>0, <1>1 DEF InTime
<1>4. PICK j : j = R + 1
  OBVIOUS
<1>5. j \in DOMAIN reports' /\ j - 1 = R
  BY <1>2, <1>4
<1>6. OfOneEpoch(j)'
  BY <1>0, <1>1, <1>3, <1>5 DEF InStep
<1>7. reports'[j].epochs[d] = {R}
  BY <1>5, <1>6 DEF OfOneEpoch
<1>8. reports'[j].epochs[d] = EpochsHeld(d)'
  BY <1>2, <1>4 DEF ReportOf, EpochsHeld
<1>9. held'[d][Fermat][b].epoch \in EpochsHeld(d)'
  BY Constants DEF EpochsHeld
<1>10. held'[d][Fermat][b].epoch = R
  BY <1>7, <1>8, <1>9
<1> QED
  BY <1>0, <1>1, <1>10, <1>a, BurstReads

LEMMA BurstSettling ==
  ASSUME IInv, Balanced, Unflown, StaysDrained, Fresh, Telescopes, Settling, RxBurst
  PROVE  Settling'
<1>0. TypeOK /\ Transit /\ Ordered /\ Sent
  BY DEF IInv, Transit
<1>1. PICK n \in 1..Len(queue) : Receive(n) /\ (Wait(n) \/ Process(n))
  BY <1>0, BurstPlaces
<1>2. /\ lost' = lost /\ settled' = settled /\ dropped' = dropped /\ flight' = flight
      /\ flips' = flips /\ ingress' = ingress /\ egress' = egress
  BY <1>1 DEF Receive, netVars, switchVars
<1>3. CASE Wait(n)
  BY <1>0, <1>2, <1>3, SettlingStill DEF Wait
<1>4. CASE Process(n)
  <2> SUFFICES ASSUME Prompt, NoneLost, NEW e \in settled, NEW b \in Bucket
               PROVE  SettlesAt(e, b)'
    <3>1. LossSettles' <=> AllSettle'
      BY SettlesIs, PTL
    <3> QED
      BY <1>2, <3>1 DEF Settling, NoneLost, AllSettle
  <2>a. PICK R : R = Reported
    OBVIOUS
  <2>1. /\ R \in Nat /\ Reported' = R + 1 /\ DOMAIN reports = 1..R
        /\ \A j \in 1..R : reports'[j] = reports[j]
    BY <1>0, <1>1, <1>4, <2>a, ReportsTyped, ProcessPlaces
  <2>2. /\ R \in Int /\ Half(R) \in Halves
        /\ \A d \in Dev : flips[d] \in Int /\ flips[d] \in {R, R + 1}
    BY <2>a, Steady, HalfType
  <2>3. e \in Epochs /\ e \in Int /\ Drained(e)
    <3>1. e \in Epochs
      BY <1>0 DEF TypeOK
    <3> QED
      BY <3>1, Constants DEF StaysDrained
  <2>4. CASE R > e
    <3>1. SettlesAt(e, b)
      BY SettlesIs DEF Settling, AllSettle
    <3> QED
      BY <1>0, <1>2, <2>1, <2>3, <2>4, <2>a, <3>1, SettlesStill
  <2>5. CASE e > R
    <3>1. ~(Reported' > e)
      BY <2>1, <2>3, <2>5
    <3> QED
      BY <3>1 DEF SettlesAt
  <2>6. CASE e = R
    <3>1. PICK h \in Halves : h = Half(R)
      BY <2>2
    <3>2. ASSUME NEW d \in Dev
          PROVE  /\ old'[h][d][b].in = ingress[d][h][b]
                 /\ old'[h][d][b].out = egress[d][h][b]
      <4>1. /\ held'[d][Fermat][b].epoch = R
            /\ held'[d][Fermat][b].in = ingress[d][h][b]
        BY <1>1, <1>4, <2>a, <3>1, ProcessReads
      <4>2. held'[d][Fermat][b].out = egress[d][h][b]
        BY <1>1, <2>6, <2>a, <3>1, <4>1, BurstOuts
      <4>3. old'[h][d][b] = held'[d][Fermat][b]
        <5>1. old' = [old EXCEPT ![h] = [c \in Dev |-> held'[c][Fermat]]]
          BY <1>1, <1>4, <2>a, <3>1, Steady DEF Process, Saved, Receive
        <5>2. old \in [Halves -> [Dev -> [Bucket -> Body]]]
          BY <1>0 DEF TypeOK
        <5> QED
          BY <5>1, <5>2
      <4> QED
        BY <4>1, <4>2, <4>3
    <3>3. OldIns(h, b)' = Ins(h, b) /\ OldOuts(h, b)' = Outs(h, b)
      BY <3>2 DEF OldIns, OldOuts, Ins, Outs
    <3>4. Congruent(SumFunctionOnSet(Losses(b)', RoundsOf(h)'),
                    SumFunctionOnSet(Ins(h, b), Dev) - SumFunctionOnSet(Outs(h, b), Dev), CounterSize)
      <4>1. Telescopes' /\ NoneLost'
        BY <1>2, BurstTelescopes DEF NoneLost
      <4>2. Congruent(SumFunctionOnSet(Losses(b)', RoundsOf(h)'),
              SumFunctionOnSet(OldIns(h, b)', Dev) - SumFunctionOnSet(OldOuts(h, b)', Dev), CounterSize)
        BY <4>1 DEF Telescopes
      <4> QED
        BY <3>3, <4>2
    <3>5. RoundsOf(h)' = Same(e)
      <4>1. Reported' - 1 = R
        BY <2>1, <2>2
      <4> QED
        BY <2>6, <3>1, <4>1 DEF RoundsOf, Same
    <3>6. SumFunctionOnSet(Losses(b)', Same(e)) = SumFunction([f \in Same(e) |-> LossOf(f + 1, b)'])
      <4> DEFINE F == [f \in Same(e) |-> LossOf(f + 1, b)']
      <4>1. \A f \in Same(e) : Losses(b)'[f] = F[f]
        <5>1. Reported' - 1 = R
          BY <2>1, <2>2
        <5>2. \A f \in Same(e) : f \in 0..R
          BY <2>6 DEF Same
        <5>3. Losses(b)' = [f \in 0..R |-> LossOf(f + 1, b)']
          BY <5>1 DEF Losses
        <5> QED
          BY <5>2, <5>3
      <4>2. IsFiniteSet(Same(e)) /\ DOMAIN F = Same(e)
        <5>1. e \in Int
          BY <2>3
        <5> QED
          BY <5>1, FiniteSets DEF Same
      <4> HIDE DEF F
      <4>3. SumFunctionOnSet(Losses(b)', Same(e)) = SumFunctionOnSet(F, Same(e))
        BY <4>1, <4>2, SumSame
      <4>4. SumFunction(F) = SumFunctionOnSet(F, Same(e))
        BY <4>2 DEF SumFunction
      <4> QED
        BY <4>3, <4>4 DEF F
    <3>7. SumFunctionOnSet(Away(b), OfHalf(h)) = SumFunction([f \in Same(e) |-> dropped[f][b]])
      <4>1. \A d \in Dev : flips[d] <= e + 1
        BY <2>2, <2>6
      <4> QED
        BY <1>0, <2>3, <2>6, <3>1, <4>1, AwayIsDropped
    <3>8. Congruent(SumFunctionOnSet(Ins(h, b), Dev) - SumFunctionOnSet(Outs(h, b), Dev),
                    SumFunctionOnSet(Away(b), OfHalf(h)), CounterSize)
      BY DEF Balanced, BalanceAt
    <3>9. SumFunction([f \in Same(e) |-> LossOf(f + 1, b)']) % CounterSize
             = SumFunction([f \in Same(e) |-> dropped[f][b]]) % CounterSize
      BY <3>4, <3>5, <3>6, <3>7, <3>8 DEF Congruent
    <3>10. Same(e)' = Same(e)
      BY DEF Same
    <3> QED
      BY <1>2, <3>9, <3>10 DEF SettlesAt
  <2> QED
    BY <2>1, <2>3, <2>4, <2>5, <2>6
<1> QED
  BY <1>1, <1>3, <1>4
-----------------------------------------------------------------------------
LEMMA InitLosses == Init => LossInv
<1> SUFFICES ASSUME Init PROVE LossInv
  OBVIOUS
<1>1. ASSUME NEW h \in Halves, NEW b \in Bucket PROVE BalanceAt(h, b)
  <2>1. /\ \A d \in Dev : Ins(h, b)[d] = 0 /\ Outs(h, b)[d] = 0
        /\ \A f \in OfHalf(h) : Away(b)[f] = 0
    BY DEF Init, PerBucket, Ins, Outs, Away, OfHalf
  <2>2. /\ SumFunctionOnSet(Ins(h, b), Dev) = 0 /\ SumFunctionOnSet(Outs(h, b), Dev) = 0
        /\ SumFunctionOnSet(Away(b), OfHalf(h)) = 0
    BY <2>1, FiniteSets, SumZero
  <2>3. 0 - 0 = 0
    OBVIOUS
  <2> QED
    BY <2>2, <2>3 DEF BalanceAt, Congruent
<1>2. Unflown
  BY DEF Init, PerBucket, Unflown
<1>3. settled = {} /\ reports = <<>> /\ Reported = 0
  BY DEF Init, Reported
<1>4. StaysDrained /\ Fresh /\ Settling
  BY <1>3 DEF StaysDrained, Fresh, Settling, LossSettles
<1>5. ASSUME NEW h \in Halves, NEW b \in Bucket
      PROVE  Congruent(SumFunctionOnSet(Losses(b), RoundsOf(h)),
                SumFunctionOnSet(OldIns(h, b), Dev) - SumFunctionOnSet(OldOuts(h, b), Dev), CounterSize)
  <2>1. \A d \in Dev : OldIns(h, b)[d] = 0 /\ OldOuts(h, b)[d] = 0
    BY DEF Init, PerBucket, Blank, OldIns, OldOuts
  <2>2. SumFunctionOnSet(OldIns(h, b), Dev) = 0 /\ SumFunctionOnSet(OldOuts(h, b), Dev) = 0
    BY <2>1, FiniteSets, SumZero
  <2>3. RoundsOf(h) = {}
    BY <1>3 DEF RoundsOf
  <2>4. SumFunctionOnSet(Losses(b), RoundsOf(h)) = 0
    BY <2>3, SumEmpty
  <2>5. 0 - 0 = 0
    OBVIOUS
  <2> QED
    BY <2>2, <2>4, <2>5 DEF Congruent
<1> QED
  BY <1>1, <1>2, <1>4, <1>5 DEF LossInv, Balanced, Telescopes

(* A step that enters, moves or settles no packet.                         *)
LEMMA StillDrained ==
  ASSUME TypeOK, TypeOK', StaysDrained, settled' = settled,
         \A d \in Dev : flips[d] <= flips'[d],
         \A f \in Epochs, b \in Bucket : flight'[f][b] <= flight[f][b]
  PROVE  StaysDrained'
<1>1. \A e \in settled : e \in Epochs
  BY DEF TypeOK
<1> QED
  BY <1>1, DrainedStill DEF StaysDrained

LEMMA NextLosses ==
  ASSUME IInv, IInv', LossInv, [Next]_vars
  PROVE  LossInv'
<1>0. /\ TypeOK /\ TypeOK' /\ Balanced /\ Unflown /\ StaysDrained /\ Fresh /\ Telescopes /\ Settling
      /\ settled \subseteq Epochs
  BY DEF IInv, LossInv, TypeOK
<1>1. \A f \in Epochs, b \in Bucket : flight[f][b] \in Nat
  BY <1>0 DEF TypeOK
<1>2. \A d \in Dev : flips[d] \in Int
  BY <1>0, FlipsTyped
<1>3. ASSUME NEW d \in Dev, NEW b \in Bucket, Enter(d, b) PROVE LossInv'
  <2>1. UNCHANGED <<queue, held, reports, egress, settled, lost, old, dropped>>
    BY <1>3 DEF Enter, ctrlVars
  <2>2. Balanced' /\ Unflown'
    BY <1>0, <1>3, EnterBalanced, EnterUnflown
  <2>3. StaysDrained'
    BY <1>0, <1>3, <2>1, EnterDrained DEF StaysDrained
  <2>4. Fresh' /\ Telescopes' /\ Settling'
    BY <1>0, <2>1, FreshStill, TelescopesStill, SettlingStill
  <2> QED
    BY <2>2, <2>3, <2>4 DEF LossInv
<1>4. ASSUME NEW d \in Dev, NEW e \in Epochs, NEW b \in Bucket, Leave(d, e, b) PROVE LossInv'
  <2>1. /\ UNCHANGED <<flips, reports, settled, lost, old, dropped>>
        /\ flight[e][b] > 0 /\ flight' = [flight EXCEPT ![e][b] = @ - 1]
    BY <1>4 DEF Leave, ctrlVars
  <2>2. Balanced' /\ Unflown'
    BY <1>0, <1>4, <2>1, LeaveBalanced, MoveUnflown
  <2>3. \A f \in Epochs, a \in Bucket : flight'[f][a] <= flight[f][a]
    <3>1. flight \in [Epochs -> [Bucket -> Nat]]
      BY <1>0 DEF TypeOK
    <3>2. flight' = [flight EXCEPT ![e][b] = @ - 1]
      BY <2>1
    <3> QED
      BY <3>1, <3>2
  <2>4. StaysDrained'
    BY <1>0, <1>2, <2>1, <2>3, StillDrained
  <2>5. Fresh'
    BY <1>0, <1>4, LeaveFresh
  <2>6. Telescopes' /\ Settling'
    BY <1>0, <2>1, TelescopesStill, SettlingStill
  <2> QED
    BY <2>2, <2>4, <2>5, <2>6 DEF LossInv
<1>5. ASSUME NEW e \in Epochs, NEW b \in Bucket, Drop(e, b) PROVE LossInv'
  <2>1. /\ UNCHANGED <<flips, queue, held, reports, egress, settled, lost, old>>
        /\ flight[e][b] > 0 /\ flight' = [flight EXCEPT ![e][b] = @ - 1]
        /\ dropped' = [dropped EXCEPT ![e][b] = @ + 1]
    BY <1>5 DEF Drop, ctrlVars, switchVars
  <2>2. Balanced' /\ Unflown'
    BY <1>0, <1>5, <2>1, DropBalanced, MoveUnflown
  <2>3. \A f \in Epochs, a \in Bucket : flight'[f][a] <= flight[f][a]
    <3>1. flight \in [Epochs -> [Bucket -> Nat]]
      BY <1>0 DEF TypeOK
    <3>2. flight' = [flight EXCEPT ![e][b] = @ - 1]
      BY <2>1
    <3> QED
      BY <3>1, <3>2
  <2>4. StaysDrained'
    BY <1>0, <1>2, <2>1, <2>3, StillDrained
  <2>5. Fresh' /\ Telescopes'
    BY <1>0, <2>1, FreshStill, TelescopesStill
  <2>6. \A f \in Epochs, a \in Bucket : dropped'[f][a] = dropped[f][a] \/ flight[f][a] > 0
    BY <1>0, <2>1 DEF TypeOK
  <2>7. Settling'
    BY <1>0, <2>1, <2>6, SettlingStill
  <2> QED
    BY <2>2, <2>4, <2>5, <2>7 DEF LossInv
<1>6. ASSUME UNCHANGED <<ingress, egress, flight, dropped>>,
             \A d \in Dev : flips[d] <= flips'[d]
      PROVE  Balanced' /\ Unflown' /\ \A e \in settled : Drained(e)'
  <2>1. Balanced' /\ Unflown'
    BY <1>0, <1>6, BalancedStill, UnflownStill
  <2>2. \A f \in Epochs, a \in Bucket : flight'[f][a] <= flight[f][a]
    BY <1>1, <1>6
  <2> QED
    BY <1>0, <1>6, <2>1, <2>2, DrainedStill DEF StaysDrained
<1>7. ASSUME NEW d \in Dev, Flip(d) PROVE LossInv'
  <2>1. /\ UNCHANGED <<queue, held, reports, ingress, egress, settled, lost, old, flight, dropped>>
        /\ flips' = [flips EXCEPT ![d] = @ + 1]
    BY <1>7 DEF Flip, ctrlVars, netVars
  <2>2. \A c \in Dev : flips[c] <= flips'[c]
    <3>1. \A c \in Dev : flips'[c] = flips[c] \/ flips'[c] = flips[c] + 1
      BY <1>0, <2>1 DEF TypeOK
    <3> QED
      BY <1>2, <3>1
  <2>3. Balanced' /\ Unflown' /\ StaysDrained'
    BY <1>6, <2>1, <2>2 DEF StaysDrained
  <2>4. Fresh' /\ Telescopes' /\ Settling'
    BY <1>0, <2>1, FreshStill, TelescopesStill, SettlingStill
  <2> QED
    BY <2>3, <2>4 DEF LossInv
<1>8. ASSUME NEW d \in Dev, NEW k \in Kinds, Send(d, k) PROVE LossInv'
  <2>1. UNCHANGED <<flips, ingress, egress, flight, dropped, old, reports, lost>>
    BY <1>8 DEF Send, ctrlVars, netVars
  <2>2. \A c \in Dev : flips[c] <= flips'[c]
    BY <1>2, <2>1
  <2>3. Balanced' /\ Unflown' /\ \A e \in settled : Drained(e)'
    BY <1>6, <2>1, <2>2
  <2>4. StaysDrained'
    <3>1. ASSUME NEW e \in settled', e \notin settled PROVE Drained(e)'
      <4>1. Drained(e)
        BY <1>8, <3>1 DEF Send
      <4>2. e \in Epochs
        BY <1>0 DEF TypeOK
      <4>3. \A f \in Epochs, a \in Bucket : flight'[f][a] <= flight[f][a]
        BY <1>1, <2>1
      <4> QED
        BY <1>0, <2>2, <4>1, <4>2, <4>3, DrainedStill
    <3> QED
      BY <2>3, <3>1 DEF StaysDrained
  <2>5. Fresh' /\ Telescopes' /\ Settling'
    BY <1>0, <1>8, <2>1, SendFresh, TelescopesStill, SendSettling
  <2> QED
    BY <2>3, <2>4, <2>5 DEF LossInv
<1>9. ASSUME NEW d \in Dev, NEW k \in Kinds, Lose(d, k) PROVE LossInv'
  <2>1. UNCHANGED <<flips, ingress, egress, flight, dropped, settled>> /\ ~NoneLost'
    BY <1>9 DEF Lose, ctrlVars, netVars, NoneLost
  <2>2. \A c \in Dev : flips[c] <= flips'[c]
    BY <1>2, <2>1
  <2>3. Balanced' /\ Unflown' /\ StaysDrained'
    BY <1>6, <2>1, <2>2 DEF StaysDrained
  <2>4. Fresh' /\ Telescopes' /\ Settling'
    BY <2>1 DEF Fresh, Telescopes, Settling
  <2> QED
    BY <2>3, <2>4 DEF LossInv
<1>10. CASE RxBurst
  <2>1. UNCHANGED <<flips, ingress, egress, flight, dropped, settled>>
    BY <1>10 DEF RxBurst, Receive, switchVars, netVars
  <2>2. \A c \in Dev : flips[c] <= flips'[c]
    BY <1>2, <2>1
  <2>3. Balanced' /\ Unflown' /\ StaysDrained'
    BY <1>6, <2>1, <2>2 DEF StaysDrained
  <2>4. Fresh' /\ Telescopes' /\ Settling'
    BY <1>0, <1>10, BurstFresh, BurstTelescopes, BurstSettling
  <2> QED
    BY <2>3, <2>4 DEF LossInv
<1>11. CASE UNCHANGED vars
  <2>1. UNCHANGED <<flips, queue, held, reports, ingress, egress, settled, lost, old, flight, dropped>>
    BY <1>11 DEF vars, ctrlVars, switchVars, netVars
  <2>2. \A c \in Dev : flips[c] <= flips'[c]
    BY <1>2, <2>1
  <2>3. Balanced' /\ Unflown' /\ StaysDrained'
    BY <1>6, <2>1, <2>2 DEF StaysDrained
  <2>4. Fresh' /\ Telescopes' /\ Settling'
    BY <1>0, <2>1, FreshStill, TelescopesStill, SettlingStill
  <2> QED
    BY <2>3, <2>4 DEF LossInv
<1> QED
  BY <1>3, <1>4, <1>5, <1>7, <1>8, <1>9, <1>10, <1>11 DEF Next

(* With time for the controller's work and no loss of readout packets, the *)
(* losses reported for a half add up, modulo the width of the counters, to *)
(* the packets dropped in its epochs, once none of them is on its way,     *)
(* though each single report miscounts the packets it found on their way.  *)
THEOREM LossSettlesHolds == Prompt => (Spec => [](lost = {} => LossSettles))
<1> SUFFICES ASSUME Prompt PROVE Spec => [](lost = {} => LossSettles)
  OBVIOUS
<1>1. Init => LossInv
  BY InitLosses
<1>2. IInv /\ IInv' /\ LossInv /\ [Next]_vars => LossInv'
  BY NextLosses
<1>3. LossInv => (lost = {} => LossSettles)
  BY DEF LossInv, Settling, NoneLost
<1> QED
  BY <1>1, <1>2, <1>3, InvariantHolds, PTL DEF Spec
=============================================================================
