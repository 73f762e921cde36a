-------------------------- MODULE ThresholdSearch --------------------------
(***************************************************************************)
(* The loop with which ensureHL_1 and AdjustMem_1 (main.c) look for the    *)
(* lower threshold: a bisection of [HL_l, HL_r] whose ends are never       *)
(* tested.  The bounds are the thresholds in use, which may be upside down *)
(* (AttentionController, OnlyLoweringHHInverts).                           *)
(***************************************************************************)
EXTENDS ThreshCrossing

CONSTANT MaxThresh     \* 2^16 - 1

ASSUME SearchAssumption == MaxThresh \in Nat

VARIABLES
    over,          \* the thresholds above which there are too many flows
    lower, upper,  \* the bounds the search was called with
    HL_l, HL_r

search_vars == <<over, lower, upper, HL_l, HL_r>>

Thresh == 0..MaxThresh

SearchInit ==
    /\ over \in SUBSET Thresh
    /\ lower \in Thresh /\ upper \in Thresh
    /\ HL_l = lower /\ HL_r = upper

(* Mutant of Mid: not halved. *)
MidSum == HL_l + HL_r

Mid == (HL_l + HL_r) \div 2

(* Mutant of Searching: goes on until the bounds are equal. *)
SearchingOn == HL_r - HL_l >= 1

Searching == HL_r - HL_l >= 2

(* Mutant of Raise: moves past the middle, as a search for a value would. *)
RaisePast ==
    /\ Searching
    /\ Mid \in over
    /\ HL_l' = Mid + 1
    /\ UNCHANGED <<over, lower, upper, HL_r>>

Raise ==
    /\ Searching
    /\ Mid \in over
    /\ HL_l' = Mid
    /\ UNCHANGED <<over, lower, upper, HL_r>>

Sink ==
    /\ Searching
    /\ Mid \notin over
    /\ HL_r' = Mid
    /\ UNCHANGED <<over, lower, upper, HL_l>>

SearchNext == Raise \/ Sink

SearchSpec == SearchInit /\ [][SearchNext]_search_vars /\ WF_search_vars(SearchNext)
-----------------------------------------------------------------------------
SearchTypeOK ==
    /\ over \in SUBSET Thresh
    /\ {lower, upper, HL_l, HL_r} \subseteq Thresh

(* What the loop leaves in HL_r is what the rounds rely on, whatever the   *)
(* counts of the flows are.                                                *)
FindsCrossing == ~Searching => HL_r \in HLSearch(lower, upper, LAMBDA h : h \in over)

(* Counts only fall as the threshold rises; then the search finds the      *)
(* lowest threshold above the lower bound that leaves few enough flows, or *)
(* the upper bound if there is none.                                       *)
Falling == \A g, h \in Thresh : h \in over /\ g <= h => g \in over

FindsLowest ==
    (~Searching /\ Falling) =>
        \A h \in Thresh : lower < h /\ h < HL_r => h \in over

(* The loop ends, for bounds in any order.                                 *)
Terminates == <>~Searching
=============================================================================
