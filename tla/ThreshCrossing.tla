--------------------------- MODULE ThreshCrossing ---------------------------
(***************************************************************************)
(* What searching a threshold in [l, r] may return, shared by the loop     *)
(* that searches (ThresholdSearch) and the rounds that use its result      *)
(* (AttentionController).                                                  *)
(***************************************************************************)
EXTENDS Integers

(* The upper end, or a threshold that is not too low, right above one that *)
(* is; tooMany(h) says that too many flows are above h.                    *)
HLSearch(l, r, tooMany(_)) ==
    IF r - l < 2 THEN {r}
    ELSE {h \in (l + 1)..r : /\ h = r \/ ~tooMany(h)
                             /\ h = l + 1 \/ tooMany(h - 1)}
=============================================================================
