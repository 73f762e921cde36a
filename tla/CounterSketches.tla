--------------------------- MODULE CounterSketches ---------------------------
(***************************************************************************)
(* The sketches of the trace experiments that are arrays of counters:      *)
(* Count-Min (CM.h), conservative update (CU.h), MRAC (MRAC.h), the tower  *)
(* of 8- and 16-bit counters (tower.h) with the Fermat sketch behind it    *)
(* (Fermat_tower.h), and the pyramid, whose counters borrow digits from    *)
(* layers they share (PCMSketch.h).                                        *)
(*                                                                         *)
(* h[i][f] is the counter of flow f in row i.                              *)
(***************************************************************************)
EXTENDS Integers, FiniteSetsExt

CONSTANTS
    Depth, Width,                  \* rows, counters of a row
    HH_THRESHOLD,
    mask1, mask2, ELE_THRESHOLD,   \* 255, 65535, 250
    BaseMax, DigitMax, Layers      \* 15, 3, 15

ASSUME CounterAssumption ==
    /\ Depth \in Nat \ {0} /\ Width \in Nat \ {0} /\ HH_THRESHOLD \in Nat
    /\ mask1 \in Nat /\ mask2 \in Nat /\ ELE_THRESHOLD \in 1..mask1
    /\ mask1 <= mask2 /\ 2^30 \in Nat /\ mask1 < 2^30
    /\ BaseMax \in Nat /\ DigitMax \in Nat /\ Layers \in Nat \ {0, 1}

Row == 0..(Depth - 1)
Zeros == [c \in 0..(Width - 1) |-> 0]
Raise(row, c) == [row EXCEPT ![c] = @ + 1]

(* The query of CM and CU.                                                 *)
Smallest(rows, h, f) == Min({rows[i][h[i][f]] : i \in Row})
-----------------------------------------------------------------------------
CMEmpty == [rows |-> [i \in Row |-> Zeros], heavy |-> {}]

(* A flow all of whose counters have passed the threshold is heavy.        *)
CMInsert(cm, h, f) ==
    LET rows == [i \in Row |-> Raise(cm.rows[i], h[i][f])]
    IN  [rows |-> rows,
         heavy |-> cm.heavy \cup {g \in {f} : Smallest(rows, h, g) > HH_THRESHOLD}]

(* Mutant of CUInsert: a counter that is larger is overwritten too. *)
CUInsertSet(rows, h, f) ==
    LET temp == Smallest(rows, h, f) + 1
    IN  [i \in Row |-> [rows[i] EXCEPT ![h[i][f]] = temp]]

CUInsert(rows, h, f) ==
    LET temp == Smallest(rows, h, f) + 1
    IN  [i \in Row |-> [rows[i] EXCEPT ![h[i][f]] = Max({@, temp})]]

MRACInsert(counters, h, f) == Raise(counters, h[0][f])
-----------------------------------------------------------------------------
(* The tower: line 0 of 8 bits, line 1 of 16.                              *)
TowerEmpty == [k \in 0..1 |-> Zeros]

(* insertCM raises what is not saturated; insertCU the smaller counter, a  *)
(* saturated one of line 0 counting as larger than any.                    *)
TowerRaised(type, v0, v1) ==
    IF type = "CM" THEN {k \in 0..1 : \/ k = 0 /\ v0 # mask1
                                      \/ k = 1 /\ v1 # mask2}
    ELSE {k \in 0..1 : \/ k = 0 /\ v0 # mask1 /\ v0 <= v1
                       \/ k = 1 /\ v0 # mask1 /\ v0 = v1
                       \/ k = 1 /\ (v0 = mask1 \/ v1 < v0) /\ v1 < ELE_THRESHOLD}

(* The tower keeps the packet if a counter was below the threshold.        *)
TowerKeeps(line, h, f) ==
    \E k \in 0..1 : line[k][h[k][f]] < ELE_THRESHOLD

TowerInsert(line, type, h, f) ==
    LET R == TowerRaised(type, line[0][h[0][f]], line[1][h[1][f]])
    IN  [k \in 0..1 |-> IF k \in R THEN Raise(line[k], h[k][f]) ELSE line[k]]

TowerQuery(line, h, f) ==
    LET v0 == line[0][h[0][f]]
    IN  Min({IF v0 = mask1 THEN 2^30 ELSE v0, line[1][h[1][f]]})
-----------------------------------------------------------------------------
(* Fermat_tower.  ele is what its Fermat sketch was given, by flow; what   *)
(* Decode gets out of it is Eleresult.                                     *)
FTEmpty(type) == [type |-> type, line |-> TowerEmpty, ele |-> <<>>, Eleresult |-> <<>>]

Give(counts, f, n) ==
    [g \in {f} \cup DOMAIN counts |->
        IF g # f THEN counts[g] ELSE IF f \in DOMAIN counts THEN counts[f] + n ELSE n]
Credit(counts, f) == Give(counts, f, 1)

(* The Fermat sketch behind the tower, bucket by bucket in CpuFermat: what *)
(* it was given of a flow adds up, and decoding finds the flows that the   *)
(* others leave alone in a bucket.  A last one is always alone.  That      *)
(* verify takes a mixed bucket for a flow, which without fingerprints      *)
(* (USE_FING 0) it does once in entry_num, is left to CpuFermat: here      *)
(* Eleresult has flows of the trace only, with their counts.               *)
EleInsert(ele, f) == Credit(ele, f)
EleDecodes(ele) == {D \in SUBSET (DOMAIN ele) : Cardinality(DOMAIN ele \ D) # 1}

FTInsert(ft, h, f) ==
    [ft EXCEPT !.line = TowerInsert(@, ft.type, h, f),
               !.ele = IF TowerKeeps(ft.line, h, f) THEN @ ELSE EleInsert(@, f)]

(* Mutant of FTQuery: without what the tower took first. *)
FTQueryEle(ft, h, f) ==
    IF f \in DOMAIN ft.Eleresult THEN ft.Eleresult[f] ELSE TowerQuery(ft.line, h, f)

FTQuery(ft, h, f) ==
    IF f \in DOMAIN ft.Eleresult THEN ELE_THRESHOLD + ft.Eleresult[f]
    ELSE TowerQuery(ft.line, h, f)

FTHeavyHitters(ft, h) == {f \in DOMAIN ft.Eleresult : FTQuery(ft, h, f) >= HH_THRESHOLD}
-----------------------------------------------------------------------------
(* The pyramid.  Word w of the base holds a counter per offset; its upper  *)
(* digits are at the same offset of word w / 2^i of layer i, shared by all *)
(* words below, with a flag for each of the two that has carried there.    *)
(* All counters of a flow, h.offsets[f], are in the word h.word[f].        *)
PCMEmpty(words, offsets) ==
    [base |-> [w \in words |-> [o \in offsets |-> 0]],
     upper |-> [i \in 1..(Layers - 1) |-> [w \in words |->
                   [o \in offsets |-> [digit |-> 0, flags |-> {}]]]]]

Side(w, i) == (w \div 2^(i - 1)) % 2     \* left or right child of layer i

PCMCarry(upper, w, o) ==
    LET stop == Min({i \in DOMAIN upper : upper[i][w \div 2^i][o].digit # DigitMax}
                        \cup {Layers - 1})
    IN  [i \in DOMAIN upper |->
            IF i > stop THEN upper[i]
            ELSE [upper[i] EXCEPT ![w \div 2^i][o] =
                     [digit |-> IF @.digit = DigitMax THEN 0 ELSE @.digit + 1,
                      flags |-> @.flags \cup {Side(w, i)}]]]

(* Each distinct counter of the flow is raised once.                       *)
PCMInsert(pcm, h, f) ==
    LET w == h.word[f]
        full == {o \in h.offsets[f] : pcm.base[w][o] = BaseMax}
    IN  [base |-> [pcm.base EXCEPT ![w] = [o \in DOMAIN @ |->
                      IF o \in full THEN 0
                      ELSE IF o \in h.offsets[f] THEN @[o] + 1 ELSE @[o]]],
         upper |-> FoldSet(LAMBDA o, u : PCMCarry(u, w, o), pcm.upper, full)]

(* The digits above, as far as the counter has carried.  Of each, one is   *)
(* taken to be the sibling's if that has carried too.                      *)
PCMValue(upper, w, o) ==
    LET top == Min({i \in DOMAIN upper : Side(w, i) \notin upper[i][w \div 2^i][o].flags}
                       \cup {Layers})
    IN  FoldSet(LAMBDA i, sum :
            LET up == upper[i][w \div 2^i][o]
            IN  sum + (up.digit - Cardinality(up.flags \ {Side(w, i)}))
                      * (BaseMax + 1) * (DigitMax + 1)^(i - 1), 0, 1..(top - 1))

PCMQuery(pcm, h, f) ==
    LET w == h.word[f]
    IN  Min({pcm.base[w][o] + PCMValue(pcm.upper, w, o) : o \in h.offsets[f]})
=============================================================================
