----------------------------- MODULE HeavyReports -----------------------------
(***************************************************************************)
(* What the programs of the trace experiments make of a sketch once a      *)
(* window is in: the flows they report as heavy, those whose size changed  *)
(* between two windows, the error they state, and what the heavy part of a *)
(* sketch adds to the estimates of its light part.                         *)
(*                                                                         *)
(* w is a window: the sketch, its hash functions, and true_freq.           *)
(***************************************************************************)
EXTENDS CounterSketches, HeavyTables, ElasticSketches

CONSTANT HC_THRESHOLD
ASSUME ChangeAssumption == HC_THRESHOLD \in Nat

Of(counts, f) == IF f \in DOMAIN counts THEN counts[f] ELSE 0
Total(counts) == MapThenSumSet(LAMBDA x : counts[x], DOMAIN counts)

(* The query of each sketch.                                               *)
Estimated(kind, w, f) ==
    CASE kind = "cm" -> Smallest(w.sketch.rows, w.hash, f)
      [] kind = "cu" -> Smallest(w.sketch, w.hash, f)
      [] kind = "fermat" -> FTQuery(w.sketch, w.hash, f)
      [] kind = "countheap" -> CHQuery(w.sketch, w.hash, f)
      [] kind = "univmon" -> UMQuery(w.sketch, w.hash, f)
      [] kind = "coco" -> CocoQuery(w.sketch, w.hash, f)
      [] kind = "elastic" -> ElasticQuery(w.sketch, w.hash, f)
      [] kind = "fcm" -> FCMQuery(w.sketch, w.hash, f)

Top(ch, f) == At(ch.heap, ch.ht[f]).first

(* Of a flow in several heaps, the deepest level's count.                  *)
UMCounts(um) ==
    [f \in UNION {DOMAIN um[i].ht : i \in 1..UnivLevels} |->
        Top(um[Max({i \in 1..UnivLevels : f \in DOMAIN um[i].ht})], f)]

(* The keys a sketch has, with what it holds of each to be: an empty       *)
(* bucket, and an ID not yet taken, stand for the flow 0.                  *)
Held(kind, w) ==
    CASE kind = "fermat" -> [f \in DOMAIN w.sketch.Eleresult |-> Estimated(kind, w, f)]
      [] kind = "countheap" -> [f \in DOMAIN w.sketch.ht |-> Top(w.sketch, f)]
      [] kind = "univmon" -> UMCounts(w.sketch)
      [] kind = "coco" -> [f \in CocoIDs(w.sketch) |-> Estimated(kind, w, f)]
      [] kind \in {"elastic", "fcm"} ->
            [f \in HeavyKeys(w.sketch.heavy) |-> Estimated(kind, w, f)]
      [] kind = "hashpipe" -> LET hp == w.sketch IN
            [f \in {hp[i][c].key : i \in 1..Stages, c \in 0..(StageWidth - 1)} |->
                HPCount(hp, f)]
      [] OTHER -> <<>>
-----------------------------------------------------------------------------
(* F1 is computed from these; without a heavy flow on either side it is    *)
(* 0 / 0.                                                                  *)
Score(real, est) == [real |-> real, est |-> est, hits |-> Cardinality(real \cap est)]

TrueHeavy(true_freq) == {f \in DOMAIN true_freq : true_freq[f] > HH_THRESHOLD}
ReportedHeavy(kind, w) ==
    IF kind = "fermat" THEN FTHeavyHitters(w.sketch, w.hash)
    ELSE {f \in DOMAIN Held(kind, w) : Held(kind, w)[f] > HH_THRESHOLD}

Errors(kind, w) ==
    IF kind \notin {"cm", "cu", "fermat", "elastic", "fcm"} THEN 0
    ELSE LET Dist(f) == Estimated(kind, w, f) - w.true_freq[f]
         IN  MapThenSumSet(LAMBDA f : Max({Dist(f), -Dist(f)}), DOMAIN w.true_freq)
-----------------------------------------------------------------------------
(* Heavy changes: real_hc and est_hc, each from two loops, one per window  *)
(* that a flow may be larger in.                                           *)
TrueGains(new, old) ==
    {f \in DOMAIN new : new[f] - Of(old, f) > HC_THRESHOLD}
TrueChanges(w1, w2) ==
    TrueGains(w1.true_freq, w2.true_freq) \cup TrueGains(w2.true_freq, w1.true_freq)

(* Whom a window proposes, and with what count: Fermat_tower the flows it  *)
(* has decoded, and hashpipe.cpp, which takes one window, nobody.          *)
Proposed(kind, w) ==
    LET held == Held(kind, w)
        Chosen(f) == CASE kind = "fermat" -> TRUE
                       [] kind = "hashpipe" -> FALSE
                       [] kind \in {"countheap", "univmon"} -> held[f] >= HC_THRESHOLD
                       [] OTHER -> held[f] > HC_THRESHOLD
    IN  Restrict(held, {f \in DOMAIN held : Chosen(f)})

(* hc_candidates[iter_data] of a program, into which a window's are        *)
(* written.                                                                *)
Candidates(kind, candidates, w) == Proposed(kind, w) @@ candidates

(* What the next repetition starts with: elasticp4.cpp and fcmelastic.cpp  *)
(* never clear theirs.                                                     *)
NoCandidates == [i \in 0..1 |-> <<>>]
Stale == {"elastic", "fcm"}

(* Mutant of Cleared: no program clears them. *)
ClearedNever(kind, hc_candidates) == hc_candidates

Cleared(kind, hc_candidates) == IF kind \in Stale THEN hc_candidates ELSE NoCandidates

(* The count a candidate is compared with: elasticp4.cpp and fermat.cpp    *)
(* query it again, the others take the one it was proposed with.           *)
Compared(kind, candidates, w, f) ==
    IF kind \in {"elastic", "fermat"} THEN Estimated(kind, w, f) ELSE candidates[f]

(* countheap.cpp passes query the bytes of a string object, so that all    *)
(* flows of a loop are compared with one arbitrary key's count, and        *)
(* subtracts unsigned: a negative difference is a large one.               *)
Gains(kind, candidates, new, old, stranger) ==
    LET Diff(f) == Compared(kind, candidates, new, f)
                   - Estimated(kind, old, IF kind = "countheap" THEN stranger ELSE f)
    IN  {f \in DOMAIN candidates :
            \/ Diff(f) > HC_THRESHOLD
            \/ kind = "countheap" /\ Diff(f) < 0}

(* Mutant of Changes: the second loop looks at the first window again. *)
ChangesGrown(kind, hc, w, before, g, h) ==
    Gains(kind, hc[1], w, before, g) \cup Gains(kind, hc[1], w, before, h)

Changes(kind, hc, w, before, g, h) ==
    Gains(kind, hc[1], w, before, g) \cup Gains(kind, hc[0], before, w, h)
-----------------------------------------------------------------------------
(* What the heavy part has, by flow, each key counted once.                *)
HeavyCounts(kind, w) ==
    CASE kind \in {"elastic", "fcm"} ->
            [f \in HeavyKeys(w.sketch.heavy) \ {0} |->
                HeavyQuery(w.sketch.heavy, w.hash, f)]
      [] kind = "fermat" -> w.sketch.Eleresult
      [] OTHER -> <<>>

(* What it adds to the cardinality: each of its flows that has packets,    *)
(* but for those that the light part has counted.                          *)
HeavyCard(kind, w) ==
    LET flows == DOMAIN HeavyCounts(kind, w)
        light(f) == Estimated(kind, w, f) - HeavyQuery(w.sketch.heavy, w.hash, f)
    IN  IF kind \notin {"elastic", "fcm"} THEN 0
        ELSE Cardinality({f \in flows : Estimated(kind, w, f) > 0})
             - Cardinality({f \in flows : light(f) # 0})

(* tot of get_entropy: the light part's packets and the heavy part's.      *)
EntropyTot(kind, w) ==
    LET light == CASE kind = "elastic" ->
                          MapThenSumSet(LAMBDA v : v * w.sketch.light.mice_dist[v], 1..LightMax)
                   [] kind = "fermat" -> Total(w.sketch.line[0])
                   [] OTHER -> 0
    IN  light + Total(HeavyCounts(kind, w))

(* get_distribution, after the light part's: what it adds to the packets   *)
(* of the distribution.  A flow of the heavy part is moved from the size   *)
(* it has in the light part to the size it has in both.  Fermat_tower only *)
(* puts flows in that the tower cannot count, each in the place of one of  *)
(* the largest size, while there is one.                                   *)
HeavyMass(kind, w) ==
    LET counts == HeavyCounts(kind, w)
        beyond == {f \in DOMAIN counts : counts[f] + ELE_THRESHOLD > mask2}
    IN  IF kind # "fermat" THEN {Total(counts)}
        ELSE {MapThenSumSet(LAMBDA f : counts[f] + ELE_THRESHOLD, beyond) - mask2 * n :
                 n \in 0..Cardinality(beyond)}
=============================================================================
