------------------------------- MODULE Peeling -------------------------------
(***************************************************************************)
(* What every invertible sketch of the repository promises: items are put  *)
(* into buckets, and from some moment on those that are alone in a bucket  *)
(* are taken out one by one, in any order.                                 *)
(*                                                                         *)
(* A decoder that is led astray (a filter takes a new flow for an old one, *)
(* verify accepts a mixed bucket) promises nothing any more.               *)
(***************************************************************************)
CONSTANTS Item, Bucket

VARIABLES
    place,     \* the buckets of each item
    put,       \* items that were put in
    left,      \* those still there
    closed,    \* no more are put in
    sound      \* nothing went wrong so far

vars == <<place, put, left, closed, sound>>

Init ==
    /\ place \in [Item -> SUBSET Bucket]
    /\ put = {} /\ left = {}
    /\ closed = FALSE /\ sound = TRUE

Alone(i, S) == \E b \in place[i] : \A j \in S \ {i} : b \notin place[j]

Fill(I) ==
    /\ sound /\ ~closed
    /\ put' = put \cup I /\ left' = left \cup I
    /\ UNCHANGED <<place, closed, sound>>

Close ==
    /\ sound /\ ~closed
    /\ closed' = TRUE
    /\ UNCHANGED <<place, put, left, sound>>

Peel(i) ==
    /\ sound /\ closed
    /\ i \in left /\ Alone(i, left)
    /\ left' = left \ {i}
    /\ UNCHANGED <<place, put, closed, sound>>

GoAstray == sound' = FALSE

Next ==
    \/ \E I \in SUBSET Item : Fill(I)
    \/ Close
    \/ \E i \in Item : Peel(i)
    \/ GoAstray

Spec == Init /\ [][Next]_vars
-----------------------------------------------------------------------------
Stuck(S) == \A i \in S : ~Alone(i, S)

(* The largest set of items of which none is alone in a bucket.            *)
Core(S) == UNION {T \in SUBSET S : Stuck(T)}

TypeOK ==
    /\ place \in [Item -> SUBSET Bucket]
    /\ left \subseteq put /\ put \subseteq Item
    /\ closed \in BOOLEAN /\ sound \in BOOLEAN

(* The order does not matter: no sequence of steps takes out an item of    *)
(* the core, and one that cannot go on has taken out all the others.       *)
OrderDoesNotMatter ==
    closed /\ sound =>
        /\ Core(put) \subseteq left
        /\ Stuck(left) => left = Core(put)
=============================================================================
