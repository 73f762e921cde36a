--------------------------- MODULE ElasticSketches ---------------------------
(***************************************************************************)
(* The sketches of the trace experiments with a heavy part in front:       *)
(* Elastic (Elastic_P4.h, HeavyPart.h, LightPart.h) and FCM+TopK           *)
(* (FCMelastic.h, HeavyPart.h), whose light part is a pair of trees of     *)
(* counters (FCMPlus_sketch.h, Counter.h), each inner counter counting on  *)
(* for K_ARY counters below that have overflowed.                          *)
(***************************************************************************)
EXTENDS Integers, SequencesExt, FiniteSetsExt

CONSTANTS HEAVY_STAGE, BUCKET, SwapRatio,   \* guard_val >> 5:  a ratio of 32
          counter_num, LightMax,            \* light part of Elastic; 255
          Trees, K_ARY, WL1, RegMax         \* FCM: RegMax[i] saturates layer i

ASSUME ElasticAssumption ==
    /\ HEAVY_STAGE \in Nat \ {0} /\ BUCKET \in Nat \ {0} /\ SwapRatio \in Nat \ {0}
    /\ counter_num \in Nat \ {0} /\ LightMax \in Nat \ {0}
    /\ Trees \in Nat \ {0} /\ K_ARY \in Nat \ {0}
    /\ WL1 \in Nat \ {0} /\ WL1 % (K_ARY * K_ARY) = 0 /\ RegMax \in Seq(Nat)

HeavyEmpty ==
    [i \in 1..HEAVY_STAGE |-> [b \in 0..(BUCKET - 1) |-> [key |-> 0, val |-> 0, guard_val |-> 0]]]

(* HeavyPart::insert of key with f = 1: the bucket, the result (0 counted, *)
(* 1 not taken, 2 swapped), and the key and value that were swapped out.   *)
(* The new key of a swap goes on counting from the old one's val.          *)
HeavyInsert(bucket, key) ==
    LET b == [bucket EXCEPT !.guard_val = @ + 1]
        counted == [b EXCEPT !.val = @ + 1, !.key = key]
    IN  IF b.key \in {key, 0} THEN [bucket |-> counted, result |-> 0]
        ELSE IF b.guard_val \div SwapRatio < b.val THEN [bucket |-> b, result |-> 1]
        ELSE [bucket |-> counted, result |-> 2, swap_key |-> b.key,
              swap_val |-> b.guard_val \div SwapRatio]

(* The heavy stages of both inserts.  After a swap the caller's key is     *)
(* overwritten with the swapped one, which goes on with f, not swap_val.   *)
(* passed says that the light part is to take key.                         *)
HeavyStages(heavy, h, f) ==
    FoldLeft(LAMBDA acc, i :
        LET at == h.heavy[i][acc.key]
            r == HeavyInsert(acc.heavy[i][at], acc.key)
            put == [acc EXCEPT !.heavy[i][at] = r.bucket]
        IN  IF ~acc.passed THEN acc
            ELSE CASE r.result = 0 -> [put EXCEPT !.passed = FALSE]
                   [] r.result = 1 -> [put EXCEPT !.swap_val = 1]
                   [] r.result = 2 -> [put EXCEPT !.key = r.swap_key, !.swap_val = r.swap_val],
        [heavy |-> heavy, key |-> f, swap_val |-> 0, passed |-> TRUE],
        [i \in 1..HEAVY_STAGE |-> i])

HeavyQuery(heavy, h, f) ==
    FoldLeft(+, 0, [i \in 1..HEAVY_STAGE |->
        LET b == heavy[i][h.heavy[i][f]] IN IF b.key = f THEN b.val ELSE 0])

HeavyKeys(heavy) ==
    {heavy[i][b].key : i \in 1..HEAVY_STAGE, b \in 0..(BUCKET - 1)}
-----------------------------------------------------------------------------
(* Elastic's light part: saturating counters, and how many have which      *)
(* value; those that were never touched are not counted under 0.           *)
LightEmpty == [counters |-> [c \in 0..(counter_num - 1) |-> 0],
               mice_dist |-> [v \in 0..LightMax |-> 0]]

(* Mutant of LightInsert: the count of the old value stays. *)
LightInsertOnly(light, h, key, f) ==
    LET old == light.counters[h.light[key]]
        new == Min({old + f, LightMax})
    IN  [counters |-> [light.counters EXCEPT ![h.light[key]] = new],
         mice_dist |-> [light.mice_dist EXCEPT ![new] = @ + 1]]

LightInsert(light, h, key, f) ==
    LET old == light.counters[h.light[key]]
        new == Min({old + f, LightMax})
    IN  [counters |-> [light.counters EXCEPT ![h.light[key]] = new],
         mice_dist |-> [light.mice_dist EXCEPT ![old] = @ - 1, ![new] = @ + 1]]

ElasticEmpty == [heavy |-> HeavyEmpty, light |-> LightEmpty]

(* The light part takes swap_val, of the last stage that set it.           *)
ElasticInsert(es, h, f) ==
    LET acc == HeavyStages(es.heavy, h, f)
    IN  [sketch |-> [heavy |-> acc.heavy,
                     light |-> IF acc.passed
                               THEN LightInsert(es.light, h, acc.key, acc.swap_val)
                               ELSE es.light],
         key |-> acc.key, passed |-> acc.passed]

ElasticQuery(es, h, f) == HeavyQuery(es.heavy, h, f) + es.light.counters[h.light[f]]
-----------------------------------------------------------------------------
(* FCM's trees.  Node <<i, w>> is counter w of layer i.                    *)
Layer(i) == {<<i, w>> : w \in 0..(WL1 \div K_ARY^(i - 1) - 1)}
Node == UNION {Layer(i) : i \in 1..3}
Parent(n) == <<n[1] + 1, n[2] \div K_ARY>>
Child(n) == [t \in 1..K_ARY |-> <<n[1] - 1, K_ARY * n[2] + t - 1>>]

TreeEmpty == [n \in Node |-> 0]

Overflows(tree, n) == tree[n] = RegMax[n[1]]
MaxRange(i) == RegMax[i] - 1
Value(tree, n) == Min({tree[n], MaxRange(n[1])})

Saturate(tree, n) == [tree EXCEPT ![n] = Min({@ + 1, RegMax[n[1]]})]

(* The packet that brings a counter to its maximum is counted above too.   *)
TreeInsert(tree, leaf) ==
    LET t1 == Saturate(tree, leaf)
        n2 == Parent(leaf)
        t2 == Saturate(t1, n2)
    IN  IF ~Overflows(t1, leaf) THEN t1
        ELSE IF ~Overflows(t2, n2) THEN t2 ELSE Saturate(t2, Parent(n2))

(* What a path counts: cumul_l2 and cumul_l3 are the layers below, full.   *)
TreeQuery(tree, leaf) ==
    LET n2 == Parent(leaf)
    IN  IF ~Overflows(tree, leaf) THEN Value(tree, leaf)
        ELSE IF ~Overflows(tree, n2) THEN MaxRange(1) + Value(tree, n2)
        ELSE MaxRange(1) + MaxRange(2) + Value(tree, Parent(n2))

FCMEmpty == [heavy |-> HeavyEmpty, trees |-> [d \in 1..Trees |-> TreeEmpty],
             num_empty |-> [d \in 1..Trees |-> WL1]]

(* Unlike Elastic's, FCM's light part takes f, 1, for a swapped key.       *)
FCMInsert(fcm, h, f) ==
    LET acc == HeavyStages(fcm.heavy, h, f)
        leaf(d) == <<1, h.tree[d][acc.key]>>
    IN  [sketch |-> IF ~acc.passed THEN [fcm EXCEPT !.heavy = acc.heavy]
                    ELSE [heavy |-> acc.heavy,
                          trees |-> [d \in 1..Trees |-> TreeInsert(fcm.trees[d], leaf(d))],
                          num_empty |-> [d \in 1..Trees |-> fcm.num_empty[d] -
                              (IF fcm.trees[d][leaf(d)] = 0 THEN 1 ELSE 0)]],
         key |-> acc.key, passed |-> acc.passed]

FCMLightQuery(fcm, h, f) ==
    Min({TreeQuery(fcm.trees[d], <<1, h.tree[d][f]>>) : d \in 1..Trees})
FCMQuery(fcm, h, f) == HeavyQuery(fcm.heavy, h, f) + FCMLightQuery(fcm, h, f)
-----------------------------------------------------------------------------
(* get_distribution turns a tree into virtual counters, one per counter    *)
(* that some path ends in: the number of paths (the degree), what they     *)
(* count together, and where they met, <<layer, #paths, value>>.  A node's *)
(* summary is the paths that end here, those that ended below, the value   *)
(* of what overflowed into it, and the meetings, those of a child before   *)
(* those of the next.                                                      *)
Children(n) == IF n[1] = 1 THEN <<>> ELSE Child(n)

(* Mutant of Summary: the value of the children is left out. *)
SummaryAlone(tree, n, S) ==
    LET below == FoldLeft(LAMBDA a, c : a + S[c].here + S[c].below, 0, Children(n))
        paths == K_ARY^(n[1] - 1) - below
    IN  [here |-> IF Overflows(tree, n) THEN 0 ELSE paths, below |-> below,
         value |-> Value(tree, n), thres |-> <<>>]

(* S has the summaries of the nodes below.                                 *)
Summary(tree, n, S) ==
    LET full == SelectSeq(Children(n), LAMBDA c : Overflows(tree, c))
        below == FoldLeft(LAMBDA a, c : a + S[c].here + S[c].below, 0, Children(n))
        paths == K_ARY^(n[1] - 1) - below
        value == FoldLeft(LAMBDA a, c : a + S[c].value, Value(tree, n), full)
        thres == FoldLeft(LAMBDA a, c : a \o S[c].thres, <<>>, full)
    IN  IF Overflows(tree, n)
        THEN [here |-> 0, below |-> below, value |-> value,
              thres |-> Append(thres, <<n[1] - 1, paths, value>>)]
        ELSE [here |-> paths, below |-> below, value |-> value, thres |-> thres]

VirtualCounters(tree) ==
    LET S[n \in Node] == Summary(tree, n, S)
        ends == {n \in Node : S[n].here > 0 /\ (n[1] = 1 => S[n].value > 0)}
    IN  [n \in ends |-> [degree |-> S[n].here, value |-> S[n].value, thres |-> S[n].thres]]
=============================================================================
