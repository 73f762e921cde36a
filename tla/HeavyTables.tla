----------------------------- MODULE HeavyTables -----------------------------
(***************************************************************************)
(* The sketches of the trace experiments that keep the keys of large flows:*)
(* the Count sketch with a heap (CountHeap.h), UnivMon, levels of these    *)
(* (UnivMon.h), HashPipe (hashpipe.h) and Coco (OurHard.h).                *)
(***************************************************************************)
EXTENDS Integers, SequencesExt, FiniteSetsExt

CONSTANTS CountRows, CountWidth,    \* d and w of a CountHeap
          capacity, UnivLevels,
          Stages, StageWidth,       \* d and M of HashPipe
          CocoRows, CocoLength      \* HASH_NUM and LENGTH

ASSUME TableAssumption ==
    /\ CountRows % 2 = 1 /\ CountWidth \in Nat \ {0} /\ capacity \in Nat \ {0}
    /\ UnivLevels \in Nat \ {0} /\ Stages \in Nat \ {0} /\ StageWidth \in Nat \ {0}
    /\ CocoRows \in Nat \ {0} /\ CocoLength \in Nat \ {0}

(* Median of OurHard's counts and of a CountHeap's, whose number is odd.   *)
Median(seq) ==
    LET s == SortSeq(seq, <)
        n == Len(s)
    IN  IF n % 2 = 1 THEN s[n \div 2 + 1] ELSE (s[n \div 2 + 1] + s[n \div 2]) \div 2
-----------------------------------------------------------------------------
(* CountHeap.  Row i counts flow f up or down, h.polar[i][f], in counter   *)
(* h.at[i][f].  heap[0..num - 1] holds pairs (first, key), the smallest on *)
(* top, and ht the place of a key.                                         *)
CHEmpty ==
    [rows |-> [i \in 1..CountRows |-> [c \in 0..(CountWidth - 1) |-> 0]],
     heap |-> <<>>, ht |-> <<>>]

At(heap, i) == heap[i + 1]                  \* the code counts from 0
Below(a, b) == a.first < b.first \/ (a.first = b.first /\ a.key < b.key)

CHQuery(ch, h, f) ==
    Median([i \in 1..CountRows |-> h.polar[i][f] * ch.rows[i][h.at[i][f]]])

(* Mutant of SwapPlaces: ht is not told. *)
SwapHeapOnly(ch, i, j) ==
    [ch EXCEPT !.heap = [@ EXCEPT ![i + 1] = At(ch.heap, j), ![j + 1] = At(ch.heap, i)]]

SwapPlaces(ch, i, j) ==
    [ch EXCEPT !.heap = [@ EXCEPT ![i + 1] = At(ch.heap, j), ![j + 1] = At(ch.heap, i)],
               !.ht = [@ EXCEPT ![At(ch.heap, i).key] = j, ![At(ch.heap, j).key] = i]]

RECURSIVE AdjustDown(_, _)
AdjustDown(ch, i) ==
    LET smaller == {c \in {2 * i + 1, 2 * i + 2} :
                        c < Len(ch.heap) /\ Below(At(ch.heap, c), At(ch.heap, i))}
    IN  IF smaller = {} THEN ch
        ELSE LET c == CHOOSE c \in smaller :
                          \A b \in smaller \ {c} : Below(At(ch.heap, c), At(ch.heap, b))
             IN  AdjustDown(SwapPlaces(ch, i, c), c)

(* heap_adjust_up stops at place 1, which it never compares with the top.  *)
RECURSIVE AdjustUp(_, _)
AdjustUp(ch, i) ==
    LET parent == (i - 1) \div 2
    IN  IF i <= 1 \/ ~Below(At(ch.heap, i), At(ch.heap, parent)) THEN ch
        ELSE AdjustUp(SwapPlaces(ch, i, parent), parent)

CHCount(ch, h, f) ==
    [ch EXCEPT !.rows = [i \in 1..CountRows |->
        [@[i] EXCEPT ![h.at[i][f]] = @ + h.polar[i][f]]]]

(* A key of the heap counts on; another enters with the median of its      *)
(* counters while there is room, or in the place of the top if it is more. *)
CHInsert(old, h, f) ==
    LET ch == CHCount(old, h, f)
        tmin == Max({1, CHQuery(ch, h, f)})
        num == Len(ch.heap)
    IN  IF f \in DOMAIN ch.ht
        THEN AdjustDown([ch EXCEPT !.heap = [@ EXCEPT ![ch.ht[f] + 1].first = @ + 1]],
                        ch.ht[f])
        ELSE IF num < capacity
        THEN AdjustUp([ch EXCEPT !.heap = Append(@, [first |-> tmin, key |-> f]),
                                 !.ht = [g \in DOMAIN @ \cup {f} |->
                                             IF g = f THEN num ELSE @[g]]], num)
        ELSE IF tmin > At(ch.heap, 0).first
        THEN AdjustDown([ch EXCEPT !.heap = [@ EXCEPT ![1] = [first |-> tmin, key |-> f]],
                                   !.ht = [g \in (DOMAIN @ \ {At(ch.heap, 0).key}) \cup {f} |->
                                               IF g = f THEN 0 ELSE @[g]]], 0)
        ELSE ch
-----------------------------------------------------------------------------
(* UnivMon: level i > 0 gets the flows for which the bits h.level[f] of    *)
(* levels 1..i are all set.                                                *)
UMEmpty == [i \in 1..UnivLevels |-> CHEmpty]

UMInsert(um, h, f) ==
    [i \in 1..UnivLevels |->
        IF i <= h.level[f] THEN CHInsert(um[i], h.sketch[i], f) ELSE um[i]]

UMQuery(um, h, f) ==
    FoldLeft(LAMBDA ret, i : 2 * ret - CHQuery(um[i], h.sketch[i], f),
             CHQuery(um[1], h.sketch[1], f), [i \in 1..(h.level[f] - 1) |-> i + 1])
-----------------------------------------------------------------------------
(* HashPipe: the first stage always takes the key; what it held is carried *)
(* on, and the smaller of two stays in hand.  h[i][f] is the slot in stage *)
(* i.  What the last stage leaves in hand is dropped.                      *)
HPEmpty == [i \in 1..Stages |-> [c \in 0..(StageWidth - 1) |-> [key |-> 0, val |-> 0]]]

Work(hp, h, hand) ==
    FoldLeft(LAMBDA acc, i :
        LET x == acc.hand
            L == h[i][x.key]
            slot == acc.hp[i][L]
            Put(s) == [acc.hp EXCEPT ![i][L] = s]
        IN  IF x.val = 0 THEN acc
            ELSE IF slot.key = x.key
            THEN [hp |-> Put([slot EXCEPT !.val = @ + x.val]), hand |-> [x EXCEPT !.val = 0]]
            ELSE IF slot.val = 0 THEN [hp |-> Put(x), hand |-> [x EXCEPT !.val = 0]]
            ELSE IF slot.val < x.val THEN [hp |-> Put(x), hand |-> slot]
            ELSE acc,
        [hp |-> hp, hand |-> hand], [i \in 1..(Stages - 1) |-> i + 1]).hp

HPInsert(hp, h, f) ==
    LET slot == hp[1][h[1][f]]
        one == [hp EXCEPT ![1][h[1][f]] = [key |-> f, val |-> 1]]
    IN  IF slot.key = f THEN [hp EXCEPT ![1][h[1][f]].val = @ + 1]
        ELSE IF slot.val = 0 THEN one ELSE Work(one, h, slot)

(* get_heavy_hitters adds up what the stages have for a key.               *)
HPCount(hp, f) ==
    FoldLeft(+, 0, [i \in 1..Stages |->
        MapThenSumSet(LAMBDA c : IF hp[i][c].key = f THEN hp[i][c].val ELSE 0,
                      DOMAIN hp[i])])
-----------------------------------------------------------------------------
(* Coco: a counter counts all its packets and takes over the ID of the     *)
(* n-th with a chance of 1 in n: took are the rows that did.               *)
CocoEmpty ==
    [i \in 1..CocoRows |-> [c \in 0..(CocoLength - 1) |-> [ID |-> 0, count |-> 0]]]

CocoMust(coco, h, f) == {i \in 1..CocoRows : coco[i][h[i][f]].count = 0}

CocoInsert(coco, h, f, took) ==
    [i \in 1..CocoRows |-> [coco[i] EXCEPT ![h[i][f]] =
        [ID |-> IF i \in took THEN f ELSE @.ID, count |-> @.count + 1]]]

CocoQuery(coco, h, f) == Median([i \in 1..CocoRows |-> coco[i][h[i][f]].count])

(* The flows AllQuery estimates.                                           *)
CocoIDs(coco) == {coco[i][c].ID : i \in 1..CocoRows, c \in 0..(CocoLength - 1)}
=============================================================================
