------------------------------ MODULE FlowSplits ------------------------------
(***************************************************************************)
(* The estimators of the flow-size distribution: EMFSD.h for the counters  *)
(* of MRAC and of Elastic's light part, EMFSD1.h for those of the tower,   *)
(* EM_FCM.h for the virtual counters of FCM.  An epoch of each takes every *)
(* counter value apart into all sizes of flows that may have made it, by   *)
(* BetaGenerator, and weighs them.                                         *)
(*                                                                         *)
(* A generator is a record: its kind, the sum, the most flows of a split   *)
(* (flow_num_limit, counting up to it), and now_result, sorted.  A sum     *)
(* equal to inf is that of a saturated counter.                            *)
(***************************************************************************)
EXTENDS Integers, SequencesExt, FiniteSetsExt

CONSTANTS Limits,      \* <<sum, limit>> of EMFSD, largest sum first
          Limits1,     \* ... of EMFSD1
          LimitsD,     \* ... of the generator for degrees above 1
          Cutoff4, Cutoff3,     \* 10000 and 5000
          inf,                  \* 65535
          THRESL1, THRESL2      \* 254 and 65534

(* The limit of the first pair whose sum is exceeded; the last one's is    *)
(* the limit of any sum.                                                   *)
LimitOf(limits, sum) == SelectSeq(limits, LAMBDA l : sum > l[1])[1][2]

Emfsd(sum) ==
    [kind |-> "EMFSD", sum |-> sum, limit |-> LimitOf(Limits, sum),
     num |-> 0, result |-> <<>>, inf |-> -1]

(* The loop of EMFSD1 stops before flow_num_limit.                         *)
Emfsd1(sum) ==
    [kind |-> "EMFSD1", sum |-> sum, limit |-> LimitOf(Limits1, sum) - 1,
     num |-> 0, result |-> <<>>, inf |-> inf]

(* For degrees above 1: high degrees are handled as lower ones.            *)
HighDegree(sum, thres, degree) ==
    LET to == IF degree >= 4 THEN IF sum < Cutoff4 THEN 3 ELSE 2
              ELSE IF degree = 3 /\ sum > Cutoff3 THEN 2 ELSE degree
    IN  [kind |-> "degree", sum |-> sum, num |-> 0, result |-> <<>>, inf |-> -1,
         thres |-> thres, degree |-> to, simplified |-> IF to = degree THEN 0 ELSE degree,
         limit |-> IF to # degree THEN to ELSE Max({degree, LimitOf(LimitsD, sum)})]
-----------------------------------------------------------------------------
(* get_new_comb: the last place but one that can be raised, all up to the  *)
(* last but one set to its new value, and the rest in the last place.      *)
SumTo(s, n) == FoldLeft(+, 0, SubSeq(s, 1, n))
Raised(g, j) ==
    LET t == g.result[j] + 1
        head == [k \in 1..(g.num - 1) |-> IF k < j THEN g.result[k] ELSE t]
        partial == SumTo(head, g.num - 1)
    IN  [head |-> head, fits |-> partial <= g.sum,
         remain |-> IF g.sum = g.inf THEN g.inf ELSE g.sum - partial]

(* Mutant of CanRaise: the rest may be smaller than the others. *)
CanRaiseAny(g, j) == g.result[j] # g.inf /\ Raised(g, j).remain >= 1

CanRaise(g, j) ==
    LET r == Raised(g, j)
    IN  g.result[j] # g.inf /\ r.fits /\ r.remain >= r.head[g.num - 1]

NewComb(g) ==
    LET J == {j \in 1..(g.num - 1) : CanRaise(g, j)}
    IN  IF J = {} THEN {}
        ELSE LET r == Raised(g, Max(J)) IN {Append(r.head, r.remain)}
-----------------------------------------------------------------------------
(* condition_check_fcm and its simplified forms: can the flows of split r  *)
(* have taken the paths of a virtual counter that met as thres tells?      *)
(* thres is read as if the leaves came first, and what layer 2 has at      *)
(* degree + 1, degree + 2, ...                                             *)
ThresholdAt(g, k) == g.thres[g.degree + k][3]
PathsAt(g, k) == g.thres[g.degree + k][2]
AllOver(r, t) == \A i \in DOMAIN r : r[i] > t
Conditions(g, degree) == Len(g.thres) - degree

(* As many flows as paths.  With two conditions the else of "degree 3"     *)
(* belongs to the inner if: it is run for degree 2 alone.                  *)
CheckEqual(g, r) ==
    LET c == Conditions(g, g.degree)
        val(from, n) == SumTo(SubSeq(r, from, Len(r)), n)
    IN  /\ AllOver(r, THRESL1)
        /\ c = 1 => SumTo(r, PathsAt(g, 1)) > ThresholdAt(g, 1)
        /\ c = 2 /\ g.degree = 2 =>
              /\ r[1] > ThresholdAt(g, 1) /\ r[2] > ThresholdAt(g, 2)
              /\ val(1, PathsAt(g, 1)) > ThresholdAt(g, 1)
              /\ val(PathsAt(g, 1) + 1, PathsAt(g, 2)) > ThresholdAt(g, 2)
        /\ c > 2 => \A k \in 1..3 : r[k] > ThresholdAt(g, k)

(* One flow more than paths.                                               *)
CheckOneMore(g, r) ==
    LET c == Conditions(g, g.degree)
    IN  /\ r[1] + r[2] > THRESL1 /\ r[3] > THRESL1
        /\ c = 1 => SumTo(r, PathsAt(g, 1)) > ThresholdAt(g, 1)
        /\ c > 1 => r[1] + r[2] > ThresholdAt(g, 1) /\ r[3] > ThresholdAt(g, 2)

(* Two flows more.                                                         *)
CheckTwoMore(g, r) ==
    LET c == Conditions(g, g.degree)
        Two(last, t1, t2) ==
            IF r[4] > last THEN r[1] + r[2] + r[3] > t1
            ELSE r[1] + r[4] > t1 /\ r[2] + r[3] > t2
    IN  /\ Two(THRESL1, THRESL1, THRESL1)
        /\ c = 1 => SumTo(r, PathsAt(g, 1)) > ThresholdAt(g, 1)
        /\ c > 1 => Two(ThresholdAt(g, 2), ThresholdAt(g, 1), ThresholdAt(g, 2))

Check4to3(g, r) ==
    LET c == Conditions(g, g.simplified)
    IN  /\ AllOver(r, THRESL1)
        /\ c = 1 => SumTo(r, g.num) > THRESL2 + 3 * THRESL1
        /\ c = 2 => r[1] + r[2] > THRESL2 + 2 * THRESL1 /\ r[3] > THRESL2 + THRESL1
        /\ c > 2 => AllOver(r, THRESL2 + 3 * THRESL1)

(* condition_check_fcm_simple2, with low = 2, and _simple4to2, low = 3.    *)
CheckPair(g, r, low) ==
    LET c == Conditions(g, g.simplified)
    IN  /\ AllOver(r, THRESL1)
        /\ c = 1 => r[1] + r[2] > THRESL2 + low * THRESL1
        /\ c > 1 => r[1] > THRESL2 + THRESL1 /\ r[2] > THRESL2 + 2 * THRESL1

Possible(g, r) ==
    \/ g.kind # "degree"
    \/ /\ g.num >= g.degree
       /\ CASE g.simplified = 0 ->
                 (CASE g.num = g.degree -> CheckEqual(g, r)
                    [] g.num = g.degree + 1 -> CheckOneMore(g, r)
                    [] g.num = g.degree + 2 -> CheckTwoMore(g, r))
            [] g.simplified = 3 -> CheckPair(g, r, 2)
            [] g.simplified > 3 /\ g.degree = 3 -> Check4to3(g, r)
            [] g.simplified > 3 /\ g.degree = 2 -> CheckPair(g, r, 3)
-----------------------------------------------------------------------------
(* get_next: the generator at its next split, done when there is none.     *)
Start(g, num) ==
    [g EXCEPT !.num = num, !.result = [k \in 1..num |-> IF k = num - 1 THEN 0 ELSE 1]]

RECURSIVE GetNext(_)
GetNext(g) ==
    IF g.num > g.limit THEN g
    ELSE IF g.num = 0 /\ g.kind # "degree"
    THEN [g EXCEPT !.num = 1, !.result = <<g.sum>>]
    ELSE LET at == IF g.num <= 1 THEN Start(g, 2) ELSE g
             new == NewComb(at)
         IN  IF new = {} THEN GetNext(Start(at, at.num + 1))
             ELSE LET next == [at EXCEPT !.result = CHOOSE r \in new : TRUE]
                  IN  IF Possible(next, next.result) THEN next ELSE GetNext(next)

Done(g) == g.num > g.limit
=============================================================================
