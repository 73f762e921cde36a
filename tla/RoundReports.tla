---------------------------- MODULE RoundReports ----------------------------
(***************************************************************************)
(* What collecting the sketches promises the controller: the k-th report   *)
(* holds, for every switch and bucket, how many packets entered the        *)
(* network there during the switch's k-th epoch, and is made once every    *)
(* switch has closed that epoch.  Counters are modulo CounterSize.         *)
(***************************************************************************)
EXTENDS Naturals, Sequences

CONSTANTS
    Dev,           \* the switches
    Bucket,        \* the buckets of a sketch
    CounterSize,   \* 2^32
    MaxFlips       \* bound: how many epochs a switch closes

VARIABLES
    epoch,         \* epoch[d]: the epoch switch d is in, from 0
    entered,       \* entered[e][d][b]: packets that entered at d in epoch e
    reports        \* the reports made: reports[k][d][b] is of epoch k - 1

vars == <<epoch, entered, reports>>

Init ==
    /\ epoch = [d \in Dev |-> 0]
    /\ entered = [e \in 0..MaxFlips |-> [d \in Dev |-> [b \in Bucket |-> 0]]]
    /\ reports = <<>>

Enter(d, b) ==
    /\ entered' = [entered EXCEPT ![epoch[d]][d][b] = @ + 1]
    /\ UNCHANGED <<epoch, reports>>

CloseEpoch(d) ==
    /\ epoch' = [epoch EXCEPT ![d] = @ + 1]
    /\ UNCHANGED <<entered, reports>>

Report ==
    LET k == Len(reports)
    IN  /\ \A d \in Dev : epoch[d] > k
        /\ reports' = Append(reports, [d \in Dev |->
                                          [b \in Bucket |-> entered[k][d][b] % CounterSize]])
        /\ UNCHANGED <<epoch, entered>>

Next == Report \/ \E d \in Dev : CloseEpoch(d) \/ \E b \in Bucket : Enter(d, b)

Spec == Init /\ [][Next]_vars
=============================================================================
