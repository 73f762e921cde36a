--------------------------- MODULE TraceExperiment ---------------------------
(***************************************************************************)
(* The programs of Heavy-hitter_detection_and_others, one per sketch: each *)
(* inserts a trace packet by packet, counting the packets of every flow    *)
(* beside it, estimates, and repeats that with other hash functions.  Some *)
(* go on to a second window, with a sketch of its own, and report how the  *)
(* flows changed.  kind says which program runs.                           *)
(*                                                                         *)
(* The estimators of the flow-size distribution are run counter by counter *)
(* and split by split.  What they add for a counter is a mean of its       *)
(* splits: here one of them, any, since the properties are linear.         *)
(***************************************************************************)
EXTENDS HeavyReports, FlowSplits

CONSTANTS
    Kinds,
    TIMES,
    Traces, Hashes,      \* by kind: the windows read, and the hash functions
    TowerTypes,
    Offsets, Words,      \* of the pyramid
    EM_ITER,
    Garbage              \* what may lie behind an array

VARIABLES
    kind, traces, times,
    iter_data, at,       \* the window, and the place in it
    hash, sketch, true_freq,
    before,              \* the first window, when the second is taken
    hc_candidates,       \* by window: who may have changed
    report,
    given,               \* history: what the light part was given, by flow
    phase,
    counters,            \* arrays of counters to estimate from, one for a tree
    iter, jobs, gen,     \* EM: epochs, counters to split, the generator
    seen,                \* history: the splits of the current counter
    mass,                \* the sum of j * ns[j]
    stray                \* history: what of it was read past an array's end

em == <<counters, iter, jobs, gen, seen, mass, stray>>
window == <<iter_data, hash, before>>
reports == <<report, hc_candidates>>
vars == <<kind, traces, times, window, at, sketch, true_freq, reports, given, phase, em>>

Window == [sketch |-> sketch, hash |-> hash, true_freq |-> true_freq]
NoScore == Score({}, {})
NoReport == [HH |-> NoScore, HC |-> NoScore, AAE |-> 0, tot |-> 0, card |-> 0]
NoGen == [kind |-> "none", num |-> 1, limit |-> 0]

Fresh ==
    CASE kind = "cm" -> {CMEmpty}
      [] kind = "cu" -> {CMEmpty.rows}
      [] kind = "mrac" -> {Zeros}
      [] kind = "fermat" -> {FTEmpty(t) : t \in TowerTypes}
      [] kind = "pcm" -> {PCMEmpty(Words, Offsets)}
      [] kind = "countheap" -> {CHEmpty}
      [] kind = "univmon" -> {UMEmpty}
      [] kind = "hashpipe" -> {HPEmpty}
      [] kind = "coco" -> {CocoEmpty}
      [] kind = "elastic" -> {ElasticEmpty}
      [] kind = "fcm" -> {FCMEmpty}

(* ReadTraces, and the first repetition.                                   *)
Init ==
    /\ kind \in Kinds
    /\ hash \in Hashes[kind] /\ traces \in Traces[kind] /\ sketch \in Fresh
    /\ times = 1 /\ iter_data = 0 /\ before = <<>>
    /\ report = NoReport /\ hc_candidates = NoCandidates
    /\ at = 1 /\ true_freq = <<>> /\ given = <<>> /\ phase = "insert"
    /\ counters = <<>> /\ iter = 0 /\ jobs = <<>> /\ gen = NoGen
    /\ seen = <<>> /\ mass = 0 /\ stray = 0
-----------------------------------------------------------------------------
trace == traces[iter_data + 1]
Inserting(k) == kind = k /\ phase = "insert" /\ at <= Len(trace)
Packet == trace[at]

Insert(s) ==
    /\ sketch' = s /\ true_freq' = Credit(true_freq, Packet) /\ at' = at + 1
    /\ UNCHANGED <<kind, traces, times, window, reports, given, phase, em>>

InsertCM == Inserting("cm") /\ Insert(CMInsert(sketch, hash, Packet))
InsertCU == Inserting("cu") /\ Insert(CUInsert(sketch, hash, Packet))
InsertMRAC == Inserting("mrac") /\ Insert(MRACInsert(sketch, hash, Packet))
InsertFermat == Inserting("fermat") /\ Insert(FTInsert(sketch, hash, Packet))
InsertPCM == Inserting("pcm") /\ Insert(PCMInsert(sketch, hash, Packet))
InsertCountHeap == Inserting("countheap") /\ Insert(CHInsert(sketch, hash, Packet))
InsertUnivMon == Inserting("univmon") /\ Insert(UMInsert(sketch, hash, Packet))
InsertHashPipe == Inserting("hashpipe") /\ Insert(HPInsert(sketch, hash, Packet))

InsertCoco ==
    /\ Inserting("coco")
    /\ \E more \in SUBSET (1..CocoRows) :
          Insert(CocoInsert(sketch, hash, Packet, more \cup CocoMust(sketch, hash, Packet)))

(* Both inserts may overwrite the packet's key in the trace: elasticp4.cpp *)
(* has counted the packet by then, fcmelastic.cpp counts it afterwards.    *)
InsertElastic ==
    /\ Inserting("elastic")
    /\ LET light == HeavyStages(sketch.heavy, hash, Packet)
           done == ElasticInsert(sketch, hash, Packet)
       IN  /\ sketch' = done.sketch /\ traces' = [traces EXCEPT ![iter_data + 1][at] = done.key]
           /\ true_freq' = Credit(true_freq, Packet)
           /\ given' = IF done.passed THEN Give(given, done.key, light.swap_val) ELSE given
    /\ at' = at + 1
    /\ UNCHANGED <<kind, times, window, reports, phase, em>>

InsertFCM ==
    /\ Inserting("fcm")
    /\ LET done == FCMInsert(sketch, hash, Packet)
       IN  /\ sketch' = done.sketch /\ traces' = [traces EXCEPT ![iter_data + 1][at] = done.key]
           /\ true_freq' = Credit(true_freq, done.key)
           /\ given' = IF done.passed THEN Give(given, done.key, 1) ELSE given
    /\ at' = at + 1
    /\ UNCHANGED <<kind, times, window, reports, phase, em>>
-----------------------------------------------------------------------------
(* set_counters: what each counter holds and, of a virtual counter, where  *)
(* its paths met.                                                          *)
Flat(array) == [c \in DOMAIN array |-> [value |-> array[c], degree |-> 1]]
Estimators == {"mrac", "elastic", "fermat", "fcm"}
SetCounters ==
    counters' =
        CASE kind = "mrac" -> <<Flat(sketch)>>
          [] kind = "elastic" -> <<Flat(sketch.light.counters)>>
          [] kind = "fermat" -> <<Flat(sketch.line[1])>>
          [] kind = "fcm" -> [d \in 1..Trees |-> VirtualCounters(sketch.trees[d])]
          [] OTHER -> <<>>

(* What the window yields, from the sketch and what has come out of it.    *)
Report(w, hc, g, h) ==
    [HH |-> Score(TrueHeavy(w.true_freq), ReportedHeavy(kind, w)),
     HC |-> IF iter_data = 0 THEN NoScore
            ELSE Score(TrueChanges(w, before), Changes(kind, hc, w, before, g, h)),
     AAE |-> Errors(kind, w),
     tot |-> IF iter_data = 0 THEN EntropyTot(kind, w) ELSE 0,
     card |-> IF iter_data = 0 THEN HeavyCard(kind, w) ELSE 0]

(* The window w is in, and the first one's flow-size distribution is to be *)
(* estimated, if any is.  g and h are what is queried for other flows.     *)
Estimate(k, w, g, h) ==
    /\ kind = k /\ phase = "insert" /\ at > Len(trace)
    /\ phase' = "estimate" /\ sketch' = w.sketch
    /\ hc_candidates' = [hc_candidates EXCEPT ![iter_data] = Candidates(kind, @, w)]
    /\ report' = Report(w, hc_candidates', g, h)
    /\ IF iter_data = 0 THEN SetCounters ELSE UNCHANGED counters
    /\ UNCHANGED <<kind, traces, times, window, at, true_freq, given,
                   iter, jobs, gen, seen, mass, stray>>

Finish(k) == Estimate(k, Window, 0, 0)

FinishCM == Finish("cm")
FinishCU == Finish("cu")
FinishMRAC == Finish("mrac")
FinishPCM == Finish("pcm")
FinishUnivMon == Finish("univmon")
FinishHashPipe == Finish("hashpipe")
FinishCoco == Finish("coco")
FinishElastic == Finish("elastic")
FinishFCM == Finish("fcm")

(* Fermat_tower::decode goes before.  The flows that come out have their   *)
(* counts, and some may not (CpuFermat).                                   *)
FinishFermat ==
    kind = "fermat" /\ \E D \in EleDecodes(sketch.ele) :
        Estimate("fermat",
                 [Window EXCEPT !.sketch.Eleresult = [f \in D |-> sketch.ele[f]]], 0, 0)

FinishCountHeap ==
    kind = "countheap"
    /\ \E g, h \in DOMAIN hash.at[1] : Estimate("countheap", Window, g, h)

(* collect_counters: how many counters of degree 1 have a value, for each  *)
(* of them, then each of those of a higher degree.                         *)
ArrayJobs(array) ==
    LET flat == {c \in DOMAIN array : array[c].degree = 1 /\ array[c].value # 0}
        values == SetToSortSeq({array[c].value : c \in flat}, <)
        high == SetToSeq({c \in DOMAIN array : array[c].degree > 1})
    IN  [i \in DOMAIN values |->
            [gen |-> IF kind = "fermat" THEN Emfsd1(values[i]) ELSE Emfsd(values[i]),
             count |-> Cardinality({c \in flat : array[c].value = values[i]})]]
        \o [i \in DOMAIN high |-> LET c == array[high[i]] IN
               [gen |-> HighDegree(c.value, c.thres, c.degree), count |-> 1]]

Jobs == FlattenSeq([d \in DOMAIN counters |-> ArrayJobs(counters[d])])

(* next_epoch starts over from the counters.                               *)
NextEpoch ==
    /\ kind \in Estimators /\ iter_data = 0
    /\ phase = "estimate" /\ jobs = <<>> /\ iter < EM_ITER
    /\ jobs' = Jobs
    /\ iter' = iter + 1 /\ gen' = IF jobs' = <<>> THEN NoGen ELSE jobs'[1].gen
    /\ seen' = <<>> /\ mass' = 0 /\ stray' = 0
    /\ UNCHANGED <<kind, traces, times, window, at, sketch, true_freq, reports, given, phase,
                   counters>>

NextSplit ==
    /\ jobs # <<>> /\ ~Done(gen)
    /\ gen' = GetNext(gen)
    /\ seen' = IF Done(gen') THEN seen ELSE Append(seen, gen'.result)
    /\ UNCHANGED <<kind, traces, times, window, at, sketch, true_freq, reports, given, phase,
                   counters, iter, jobs, mass, stray>>

(* The one size that a counter of a high degree is taken for when no split *)
(* of it has any weight.                                                   *)
Fallback(g) ==
    LET paths == IF g.simplified = 0 THEN g.degree ELSE g.simplified
        met == Len(g.thres) - paths
    IN  g.sum - g.thres[1][3] * (paths - 1)
        - (IF met > 0 THEN g.thres[paths + 1][3] * (met - 1) ELSE 0)

(* What a counter adds to mass: one of its splits, or, of a high degree,   *)
(* the fallback, or nothing if no split was possible.                      *)
Adds(job) ==
    {job.count * SumTo(r, Len(r)) : r \in Range(seen)}
    \cup {Fallback(g) : g \in {g \in {job.gen} : g.kind = "degree" /\ seen # <<>>}}
    \cup {0 : r \in {s \in {seen} : s = <<>>}}

(* The arrays of high degrees are one element short of those they are      *)
(* added to, in every epoch with threads for such degrees.                 *)
Short(J) == \E i \in DOMAIN J : J[i].gen.kind = "degree"
MaxVal(J) == Max({J[i].gen.sum : i \in DOMAIN J})

NextCounter ==
    /\ jobs # <<>> /\ Done(gen)
    /\ LET rest == Tail(jobs)
       IN  /\ jobs' = rest /\ gen' = IF rest = <<>> THEN NoGen ELSE rest[1].gen
           /\ \E all \in {Jobs}, a \in Adds(Head(jobs)), s \in Garbage :
                 LET past == IF rest = <<>> /\ Short(all) THEN s * MaxVal(all) ELSE 0
                 IN  (s = 0 \/ past > 0) /\ mass' = mass + a + past /\ stray' = past
    /\ seen' = <<>>
    /\ UNCHANGED <<kind, traces, times, window, at, sketch, true_freq, reports, given, phase,
                   counters, iter>>

(* The distribution with the heavy part's flows, after the last epoch.     *)
Merge ==
    /\ kind \in Estimators /\ iter_data = 0
    /\ phase = "estimate" /\ jobs = <<>> /\ iter = EM_ITER
    /\ phase' = "merged"
    /\ \E m \in HeavyMass(kind, Window) : mass' = mass + m
    /\ UNCHANGED <<kind, traces, times, window, at, sketch, true_freq, reports, given,
                   counters, iter, jobs, gen, seen, stray>>

LastWindow(k) == IF k \in {"fermat", "elastic", "fcm", "countheap", "univmon", "coco"} THEN 1 ELSE 0
Finished == phase = IF kind \in Estimators /\ iter_data = 0 THEN "merged" ELSE "estimate"

(* A new sketch with new hash functions.                                   *)
StartOver ==
    /\ Finished
    /\ at' = 1 /\ phase' = "insert" /\ hash' \in Hashes[kind] /\ sketch' \in Fresh
    /\ true_freq' = <<>> /\ given' = <<>> /\ report' = NoReport
    /\ counters' = <<>> /\ iter' = 0 /\ mass' = 0 /\ stray' = 0
    /\ UNCHANGED <<kind, traces, jobs, gen, seen>>

(* To the second window, whose sketch has been there from the start.       *)
(* countheap.cpp forgets the first one's true sizes, and so compares the   *)
(* second one's with nothing.                                              *)
NextWindow ==
    /\ iter_data < LastWindow(kind) /\ StartOver
    /\ iter_data' = iter_data + 1
    /\ before' = [Window EXCEPT !.true_freq = IF kind = "countheap" THEN <<>> ELSE @]
    /\ UNCHANGED <<times, hc_candidates>>

(* To the next repetition.                                                 *)
Repeat ==
    /\ iter_data = LastWindow(kind) /\ times < TIMES /\ StartOver
    /\ times' = times + 1 /\ iter_data' = 0 /\ before' = <<>>
    /\ hc_candidates' = Cleared(kind, hc_candidates)

Next ==
    \/ InsertCM \/ InsertCU \/ InsertMRAC \/ InsertFermat \/ InsertPCM
    \/ InsertCountHeap \/ InsertUnivMon \/ InsertHashPipe \/ InsertCoco
    \/ InsertElastic \/ InsertFCM
    \/ FinishCM \/ FinishCU \/ FinishMRAC \/ FinishPCM \/ FinishCountHeap
    \/ FinishUnivMon \/ FinishHashPipe \/ FinishCoco \/ FinishElastic \/ FinishFCM
    \/ FinishFermat \/ NextEpoch \/ NextSplit \/ NextCounter \/ Merge
    \/ NextWindow \/ Repeat

Spec == Init /\ [][Next]_vars
-----------------------------------------------------------------------------
Packets == Total(true_freq)

(* What the counters of f hold in the row that collides least.             *)
Load(f) == Min({MapThenSumSet(LAMBDA g : true_freq[g],
                    {g \in DOMAIN true_freq : hash[i][g] = hash[i][f]}) : i \in Row})

(* The tower answers for the packets it kept; a flow with more of them     *)
(* than the threshold has the rest in the Fermat sketch, and is found to   *)
(* be heavy if that is decoded.                                            *)
FermatBounded(f) ==
    LET kept == true_freq[f] - Of(sketch.ele, f)
        decoded == phase # "insert" /\ (f \in DOMAIN sketch.ele => f \in DOMAIN sketch.Eleresult)
    IN  /\ kept <= TowerQuery(sketch.line, hash, f)
        /\ f \in DOMAIN sketch.ele => kept <= ELE_THRESHOLD
        /\ decoded =>
              /\ true_freq[f] <= FTQuery(sketch, hash, f)
              /\ f \in DOMAIN sketch.ele =>
                    FTQuery(sketch, hash, f) <= true_freq[f] + ELE_THRESHOLD
              /\ true_freq[f] >= HH_THRESHOLD /\ true_freq[f] > ELE_THRESHOLD =>
                    f \in FTHeavyHitters(sketch, hash)

(* What a sketch promises of its estimates holds after every packet: CM,   *)
(* CU, the pyramid and Coco never answer with too little, CM and CU never  *)
(* with more than what collides, HashPipe never with too much, and CM      *)
(* misses no heavy flow.  The light parts keep that of what they are given.*)
EstimatesBounded ==
    /\ \A f \in DOMAIN true_freq :
          CASE kind = "cm" ->
                  /\ true_freq[f] <= Smallest(sketch.rows, hash, f)
                  /\ Smallest(sketch.rows, hash, f) <= Load(f)
                  /\ true_freq[f] > HH_THRESHOLD => f \in sketch.heavy
            [] kind = "cu" ->
                  /\ true_freq[f] <= Smallest(sketch, hash, f)
                  /\ Smallest(sketch, hash, f) <= Load(f)
            [] kind = "fermat" -> FermatBounded(f)
            [] kind = "pcm" -> true_freq[f] <= PCMQuery(sketch, hash, f)
            [] kind = "hashpipe" -> HPCount(sketch, f) <= true_freq[f]
            [] kind = "coco" -> true_freq[f] <= CocoQuery(sketch, hash, f)
            [] OTHER -> TRUE
    /\ \A f \in DOMAIN given :
          CASE kind = "elastic" ->
                  Min({given[f], LightMax}) <= sketch.light.counters[hash.light[f]]
            [] kind = "fcm" -> given[f] <= FCMLightQuery(sketch, hash, f)

HeapAgrees(ch) ==
    /\ DOMAIN ch.ht = {ch.heap[i].key : i \in DOMAIN ch.heap}
    /\ \A f \in DOMAIN ch.ht : At(ch.heap, ch.ht[f]).key = f
    /\ \A i \in 2..(Len(ch.heap) - 1) :
          ~Below(At(ch.heap, i), At(ch.heap, (i - 1) \div 2))

(* What a sketch records twice agrees: the place of a key in ht with the   *)
(* heap, whose order holds but for place 1; the keys of UnivMon's levels   *)
(* with the bits of the keys; Elastic's mice_dist and FCM's num_empty,     *)
(* which their cardinalities are computed from, with the counters.         *)
RecordsAgree ==
    CASE kind = "countheap" -> HeapAgrees(sketch)
      [] kind = "univmon" -> \A i \in 1..UnivLevels :
            /\ HeapAgrees(sketch[i])
            /\ \A f \in DOMAIN sketch[i].ht : hash.level[f] >= i
      [] kind = "elastic" -> \A v \in 1..LightMax :
            sketch.light.mice_dist[v] =
                Cardinality({c \in DOMAIN sketch.light.counters : sketch.light.counters[c] = v})
      [] kind = "fcm" -> \A d \in 1..Trees :
            sketch.num_empty[d] = Cardinality({n \in Layer(1) : sketch.trees[d][n] = 0})
      [] OTHER -> TRUE

Holds(array) == MapThenSumSet(LAMBDA c : array[c].value, DOMAIN array)
ToSplit(P(_)) ==
    LET J == Jobs
    IN  MapThenSumSet(LAMBDA i : J[i].count * J[i].gen.sum, {i \in DOMAIN J : P(J[i].gen)})

(* What the heavy part holds, bucket by bucket.                            *)
InBuckets(heavy) ==
    FoldLeft(+, 0, [i \in 1..HEAVY_STAGE |->
        MapThenSumSet(LAMBDA b : heavy[i][b].val, DOMAIN heavy[i])])

(* No packet is lost or counted twice on the way from the trace to the     *)
(* distribution: the rows of a sketch hold all packets, HashPipe never     *)
(* more, each tree's virtual counters all that the tree was given, and     *)
(* what an epoch distributes is what the counters held.  Virtual counters  *)
(* of a high degree may lose some, and the array that is too short may     *)
(* bring in anything.  Merging brings in all buckets of the heavy part,    *)
(* and the entropy is that of all packets: of Elastic, if the light part   *)
(* is not saturated; Fermat_tower counts those twice that line 0 takes     *)
(* from the threshold to its limit.                                        *)
PacketsKept ==
    /\ CASE kind = "cm" -> \A i \in Row : Total(sketch.rows[i]) = Packets
         [] kind = "mrac" -> Total(sketch) = Packets
         [] kind = "coco" -> \A i \in 1..CocoRows :
               Total([c \in DOMAIN sketch[i] |-> sketch[i][c].count]) = Packets
         [] kind = "hashpipe" ->
               MapThenSumSet(LAMBDA f : HPCount(sketch, f), DOMAIN true_freq)
                   <= Packets
         [] kind = "elastic" -> Total(sketch.light.counters) <= Total(given)
         [] kind = "fcm" -> \A d \in DOMAIN counters : Holds(counters[d]) = Total(given)
         [] OTHER -> TRUE
    /\ iter > 0 /\ jobs = <<>> =>
         LET merged == phase = "merged"
             brought == IF merged /\ kind # "fermat" /\ kind # "mrac"
                        THEN InBuckets(sketch.heavy) ELSE 0
         IN  CASE kind \in {"mrac", "elastic"} -> mass - brought = ToSplit(LAMBDA g : TRUE)
               [] kind = "fermat" -> mass >= ToSplit(LAMBDA g : g.sum # inf)
               [] kind = "fcm" ->
                     /\ mass - brought - stray <= ToSplit(LAMBDA g : TRUE)
                     /\ mass - brought - stray >= ToSplit(LAMBDA g : g.kind # "degree")
    /\ phase # "insert" /\ iter_data = 0 =>
         CASE kind = "elastic" ->
                 /\ report.tot = Total(sketch.light.counters) + InBuckets(sketch.heavy)
                 /\ report.tot >= Packets
                       \/ \E c \in DOMAIN sketch.light.counters :
                              sketch.light.counters[c] = LightMax
           [] kind = "fermat" -> report.tot <= Packets + Width * (mask1 - ELE_THRESHOLD)
           [] OTHER -> TRUE

Abs(x) == Max({x, -x})

(* The two windows; how much f grew in window i over the other one; how    *)
(* far from the truth it is to compare count with the other one's query.   *)
WindowAt(i) == IF i = 0 THEN before ELSE Window
Growth(i, f) == Of(WindowAt(i).true_freq, f) - Of(WindowAt(1 - i).true_freq, f)
Margin(i, f, count) ==
    Abs(count - Of(WindowAt(i).true_freq, f))
    + Abs(Estimated(kind, WindowAt(1 - i), f) - Of(WindowAt(1 - i).true_freq, f))
HeldIn(i) == DOMAIN Held(kind, WindowAt(i))
Whole(w) == DOMAIN w.sketch.ele = DOMAIN w.sketch.Eleresult

(* The reports are as good as the estimates.  HashPipe reports no flow as  *)
(* heavy that is not, Coco and a Fermat sketch that was decoded miss none  *)
(* that they hold, CM and CU err by what collides.  A change is reported   *)
(* if it exceeds the threshold by more than the estimates are wrong, and   *)
(* is not reported if it stays that far below; countheap.cpp's are only    *)
(* among its candidates.  What Fermat_tower is wrong by is the threshold   *)
(* of its tower.  Only flows that a sketch of this repetition holds are    *)
(* reported, but for elasticp4.cpp's and fcmelastic.cpp's from the second  *)
(* repetition on.  The flows of Elastic's heavy part are counted once,     *)
(* unless the light part was given some of their packets: then it has      *)
(* counted them.                                                           *)
ReportsRight ==
    phase = "estimate" =>
        /\ kind = "elastic" /\ iter_data = 0 =>
               report.card \in 0..Cardinality(DOMAIN true_freq \ DOMAIN given)
        /\ CASE kind = "hashpipe" -> report.HH.hits = Cardinality(report.HH.est)
             [] kind = "coco" -> report.HH.real \cap CocoIDs(sketch) \subseteq report.HH.est
             [] kind = "fermat" -> HH_THRESHOLD >= ELE_THRESHOLD =>
                   report.HH.real \ (DOMAIN sketch.ele \ DOMAIN sketch.Eleresult)
                       \subseteq report.HH.est
             [] kind \in {"cm", "cu"} -> report.AAE <=
                   MapThenSumSet(LAMBDA f : Load(f) - true_freq[f], DOMAIN true_freq)
             [] OTHER -> TRUE
        /\ iter_data = 1 =>
             /\ kind \notin Stale \/ times = 1 => report.HC.est \subseteq HeldIn(0) \cup HeldIn(1)
             /\ kind # "countheap" =>
                  /\ \A i \in 0..1 : \A f \in HeldIn(i) :
                        Growth(i, f) > HC_THRESHOLD + Margin(i, f, Held(kind, WindowAt(i))[f])
                        => f \in report.HC.est
                  /\ \A f \in report.HC.est : \E i \in 0..1 :
                        /\ f \in DOMAIN hc_candidates[i]
                        /\ LET count == Compared(kind, hc_candidates[i], WindowAt(i), f)
                           IN  Growth(i, f) > HC_THRESHOLD - Margin(i, f, count)
             /\ kind = "fermat" /\ Whole(Window) /\ Whole(before) =>
                  \A f \in report.HC.est : \E i \in 0..1 :
                        f \in HeldIn(i) /\ Growth(i, f) > HC_THRESHOLD - ELE_THRESHOLD

Sorted(s) == \A i \in 1..(Len(s) - 1) : s[i] <= s[i + 1]
Partitions(sum, k) ==
    {s \in [1..k -> 1..sum] : Sorted(s) /\ SumTo(s, k) = sum}

(* The flows of s can be laid on the paths of a virtual counter so that    *)
(* each of its leaves overflows.                                           *)
Fits(s, degree) ==
    \E on \in [DOMAIN s -> 1..degree] : \A p \in 1..degree :
        MapThenSumSet(LAMBDA i : IF on[i] = p THEN s[i] ELSE 0, DOMAIN s) > THRESL1

(* What a counter may be made of, from the definition.                     *)
Reference(g) ==
    UNION {IF g.kind = "degree" THEN {s \in Partitions(g.sum, k) : Fits(s, g.degree)}
           ELSE Partitions(g.sum, k) : k \in 1..g.limit}

(* A generator comes to each way to take a counter apart once, and to no   *)
(* other; of a high degree that met above the leaves only, that nothing    *)
(* simplifies, to those that can have overflowed all its leaves.           *)
SplitsOnce ==
    jobs # <<>> =>
        /\ IsInjective(seen)
        /\ \A i \in DOMAIN seen : Sorted(seen[i])
        /\ Done(gen) =>
             LET g == jobs[1].gen
             IN  \/ g.sum = g.inf
                \/ (g.kind = "degree" /\ (g.simplified # 0 \/ Len(g.thres) > g.degree))
                \/ Range(seen) = Reference(g)

(* "Times of each algorithm measuring the same trace using different hash  *)
(* function" (common_func.h): the traces are only read.                    *)
SameTrace == [][traces' = traces]_vars
=============================================================================
