------------------------------ MODULE CpuFermat ------------------------------
(***************************************************************************)
(* The simulator's three Fermat sketches (fermat.h, fermat_level.h and     *)
(* fermat_8bit.h) under the test of full_flow_test_level.h: all dropped    *)
(* packets are inserted, the sketch is decoded, the result is compared     *)
(* with the truth.  The five sketches of the test differ in their hash     *)
(* functions only (has_bit); one of them is modelled.                      *)
(*                                                                         *)
(* The fingerprint is summed beside the ID, modulo a prime of its own, or, *)
(* in fermat_8bit.h, in the upper half of the ID.  Unlike the controller's *)
(* decoder (FermatDecode) this one queues every changed bucket, knows no   *)
(* full queue, adds up what it finds of a flow at once, and gives up after *)
(* a number of passes.                                                     *)
(***************************************************************************)
EXTENDS FermatSketch, GenerateFlows, SequencesExt

CONSTANTS
    FlowID,        \* IDs of the flows of the trace
    Sizes,         \* bound: packets of a flow
    PRIME_FING,    \* prime of fermat_level.h's fingerprints
    FingSize,      \* number of fingerprints in fermat_8bit.h
    IDSpace,       \* 2^32: where fermat_8bit.h puts the fingerprint
    MaxPasses,     \* 10000
    MaxVerified,   \* 1000
    Variants,      \* of "fermat", "fermat_fing", "level", "8bit"
    Hashes, Fings  \* functions considered, of all residues

ASSUME CpuFermatAssumption ==
    /\ PRIME_FING \in Nat /\ PRIME_FING > 2 /\ FingSize \in Nat \ {0}
    /\ IDSpace \in Nat \ {0} /\ \A f \in IDs : f < IDSpace
    /\ MaxPasses \in Nat /\ MaxVerified \in Nat
    /\ FlowID \in Seq(IDs) /\ IsInjective(FlowID)
    /\ Sizes \subseteq Nat /\ \A n \in Sizes : n > 0 /\ CeilOf(n, 1, 10) < CounterSize
    /\ \A h \in Hashes, k \in Row, f \in IDs : h[k][f] \in Col

VARIABLES
    variant, hash, fp,
    traffic,       \* what CDF_flows holds
    x,             \* [ID, counter, FP] per row and column
    candidate,     \* per row, the columns to look at again
    res, out,      \* packets found of each flow; how often it was verified
    step, row, col, acc, pause,
    misled         \* history: verify accepted a bucket that held other flows

options == <<variant, hash, fp, traffic>>
found == <<x, candidate, res, out, misled>>
cpu_vars == <<options, found, step, row, col, acc, pause>>

dropped_set == [f \in {FlowID[i] : i \in DOMAIN traffic.dropped_set
                                         \cap DOMAIN traffic.flow_set} |->
                   traffic.dropped_set[CHOOSE i \in DOMAIN FlowID : FlowID[i] = f]]

Blank == [ID |-> 0, counter |-> 0, FP |-> 0]

(* test_bucPF8.cc loads by number of flows.                                *)
CpuInit ==
    /\ variant \in Variants /\ hash \in Hashes /\ fp \in Fings
    /\ \E trace \in LoadCAIDA18_32(Len(FlowID), Sizes) :
           traffic \in {LoadDataCnt(trace, n) : n \in DOMAIN FlowID}
    /\ x = [k \in Row |-> [c \in Col |-> Blank]]
    /\ candidate = [k \in Row |-> <<>>]
    /\ res = <<>> /\ out = <<>>
    /\ step = "insert" /\ row = 0 /\ col = 0 /\ acc = 0
    /\ pause = TRUE /\ misled = FALSE
-----------------------------------------------------------------------------
UsesFing == variant \in {"fermat_fing", "level"}
FingMod == IF variant = "level" THEN PRIME_FING ELSE PRIME
Fing(f) == fp[f] % (IF variant = "8bit" THEN FingSize ELSE FingMod)

(* What is summed for a flow, and the flow of a residue.                   *)
Word(f) == IF variant = "8bit" THEN Fing(f) * IDSpace + f ELSE f
FlowOf(n) == IF variant = "8bit" THEN n % IDSpace ELSE n

(* The sum of the fingerprints, with those of cnt packets.                 *)
FingSum(FP, f, cnt) ==
    IF UsesFing THEN (FP + ((Fing(f) * cnt) % FingMod)) % FingMod ELSE 0

(* Insert of cnt packets, in all rows.                                     *)
InsertPackets(a, f, cnt) ==
    [k \in Row |-> [a[k] EXCEPT ![hash[k][f]] =
        [ID |-> (((Word(f) * cnt) % PRIME) + @.ID) % PRIME,
         counter |-> (@.counter + cnt) % CounterSize,
         FP |-> FingSum(@.FP, f, cnt)]]]

Power(a, e, m) ==
    LET pow[i \in 0..e] == IF i = 0 THEN 1 ELSE (a * pow[i - 1]) % m
    IN  pow[e]

(* The fingerprint if the bucket holds one flow.  A negative counter is    *)
(* not negated here: fermat.h takes it as unsigned, fermat_level.h extends *)
(* its sign to 64 bits, the square of which is that of its magnitude.      *)
FingOf(b) ==
    IF variant = "level"
    THEN LET num == IF Negative(b.counter) THEN CounterSize * CounterSize - Magnitude(b.counter)
                    ELSE b.counter
         IN  (b.FP * num * Power(Magnitude(b.counter), PRIME_FING - 3, PRIME_FING)) % PRIME_FING
    ELSE (b.FP * Power(b.counter, FingMod - 2, FingMod)) % FingMod

FingMatches(b) ==
    LET f == FlowOf(SoleID(b))
    IN  CASE variant = "8bit" -> SoleID(b) \div IDSpace = Fing(f)
          [] UsesFing -> FingOf(b) = Fing(f)
          [] OTHER -> TRUE

Plausible(r, c) ==
    /\ x[r][c].counter # 0
    /\ hash[r][FlowOf(SoleID(x[r][c]))] = c
    /\ FingMatches(x[r][c])

Entered(m, f, n) == [g \in {f} \cup DOMAIN m |-> IF g = f THEN n ELSE m[g]]
Counted(m, f, n) == Entered(m, f, IF f \in DOMAIN m THEN m[f] + n ELSE n)

(* fermat.h does not count how often a flow was verified.                  *)
Verified(f) ==
    IF variant \in {"level", "8bit"} THEN Counted(out, f, 1) ELSE out
Believed(f) ==
    variant \in {"level", "8bit"} => Verified(f)[f] <= MaxVerified
-----------------------------------------------------------------------------
(* Delete_in_one_bucket.                                                   *)
Without(a, b) ==
    [ID |-> (PRIME + a.ID - b.ID) % PRIME,
     counter |-> (a.counter - b.counter) % CounterSize,
     FP |-> IF UsesFing THEN (FingMod + a.FP - b.FP) % FingMod ELSE 0]

Truth(f) == IF f \in DOMAIN dropped_set THEN dropped_set[f] ELSE 0
FoundOf(f) == IF f \in DOMAIN res THEN res[f] ELSE 0
StillThere(f) == (Truth(f) - FoundOf(f)) % CounterSize

HoldsOnly(r, c, f) ==
    /\ StillThere(f) = x[r][c].counter
    /\ \A g \in (IDs \cup DOMAIN res) \ {f} : hash[r][g] = c => StillThere(g) = 0

(* Mutant of AsInt: the result is unsigned. *)
AsUnsigned(n) == n % CounterSize

AsInt(n) == Signed(n % CounterSize)

(* Mutant of FindPure: the other rows' buckets are not looked at again. *)
FindPureOnce(r, c, f, q) ==
    /\ res' = Entered(res, f, AsInt(FoundOf(f) + x[r][c].counter))
    /\ x' = [k \in Row |->
               IF k = r THEN [x[r] EXCEPT ![c] = Without(@, @)]
               ELSE [x[k] EXCEPT ![hash[k][f]] = Without(@, x[r][c])]]
    /\ candidate' = q
    /\ misled' = (misled \/ ~HoldsOnly(r, c, f))

(* "find pure bucket": the flow is added to the result and deleted in all  *)
(* rows, whose buckets are looked at again.                                *)
FindPure(r, c, f, q) ==
    /\ res' = Entered(res, f, AsInt(FoundOf(f) + x[r][c].counter))
    /\ x' = [k \in Row |->
               IF k = r THEN [x[r] EXCEPT ![c] = Without(@, @)]
               ELSE [x[k] EXCEPT ![hash[k][f]] = Without(@, x[r][c])]]
    /\ candidate' = [k \in Row |-> IF k = r THEN q[k] ELSE Append(q[k], hash[k][f])]
    /\ misled' = (misled \/ ~HoldsOnly(r, c, f))

LookAtBucket(r, c, q) ==
    LET f == FlowOf(SoleID(x[r][c]))
    IN  IF ~Plausible(r, c)
        THEN candidate' = q /\ UNCHANGED <<x, res, out, misled>>
        ELSE /\ out' = Verified(f)
             /\ IF Believed(f) THEN FindPure(r, c, f, q)
                ELSE candidate' = q /\ UNCHANGED <<x, res, misled>>
-----------------------------------------------------------------------------
(* insert_flow; sums do not depend on the order of the map.                *)
InsertFlows ==
    /\ step = "insert"
    /\ x' = FoldLeft(LAMBDA a, f : InsertPackets(a, f, dropped_set[f]), x,
                     SetToSeq(DOMAIN dropped_set))
    /\ step' = "inserted"
    /\ UNCHANGED <<options, candidate, res, out, misled, row, col, acc, pause>>

BeginDecoding ==
    /\ step = "inserted" /\ step' = "scan"
    /\ UNCHANGED <<options, found, row, col, acc, pause>>

FirstRound ==
    /\ step = "scan"
    /\ LookAtBucket(row, col, candidate)
    /\ IF col < Width - 1 THEN col' = col + 1 /\ UNCHANGED <<row, step>>
       ELSE /\ col' = 0
            /\ IF row < Rows - 1 THEN row' = row + 1 /\ UNCHANGED step
               ELSE row' = 0 /\ step' = "pass"
    /\ acc' = IF step' = "pass" THEN 1 ELSE acc
    /\ UNCHANGED <<options, pause>>

TakeCandidate ==
    /\ step = "pass" /\ candidate[row] # <<>>
    /\ pause' = FALSE
    /\ LookAtBucket(row, Head(candidate[row]), [candidate EXCEPT ![row] = Tail(@)])
    /\ UNCHANGED <<options, step, row, col, acc>>

(* Mutant of NextCandidates: no limit to the passes. *)
NextCandidatesForever ==
    /\ step = "pass" /\ candidate[row] = <<>>
    /\ IF row < Rows - 1 THEN row' = row + 1 /\ UNCHANGED <<step, acc, pause>>
       ELSE /\ row' = 0 /\ pause' = TRUE
            /\ IF pause THEN step' = "result" /\ UNCHANGED acc
               ELSE acc' = 1 /\ UNCHANGED step
    /\ UNCHANGED <<options, found, col>>

(* The next row's queue, or, after a pass, the end or the next pass.       *)
NextCandidates ==
    /\ step = "pass" /\ candidate[row] = <<>>
    /\ IF row < Rows - 1 THEN row' = row + 1 /\ UNCHANGED <<step, acc, pause>>
       ELSE /\ row' = 0 /\ pause' = TRUE
            /\ IF pause \/ acc > MaxPasses THEN step' = "result" /\ UNCHANGED acc
               ELSE acc' = acc + 1 /\ UNCHANGED step
    /\ UNCHANGED <<options, found, col>>

(* Entries that became 0 are erased from the map that is being iterated    *)
(* over, which leaves the iterator dangling: any of them may survive.      *)
Erase ==
    /\ step = "result"
    /\ \E kept \in SUBSET {f \in DOMAIN res : res[f] = 0} :
           res' = Restrict(res, kept \cup {f \in DOMAIN res : res[f] # 0})
    /\ step' = "done"
    /\ UNCHANGED <<options, x, candidate, out, misled, row, col, acc, pause>>

DecodeFlows == FirstRound \/ TakeCandidate \/ NextCandidates \/ Erase

CpuNext == InsertFlows \/ BeginDecoding \/ DecodeFlows
-----------------------------------------------------------------------------
Decoded == step = "done"
Flag == \A k \in Row, c \in Col : x[k][c].counter = 0

(* The comparison of the test: each dropped flow with its packets.         *)
AllDecoded ==
    \A i \in DOMAIN traffic.dropped_set :
        /\ FlowID[i] \in DOMAIN res
        /\ res[FlowID[i]] = traffic.dropped_set[i]

Peel ==
    INSTANCE Peeling WITH Item <- IDs, Bucket <- Row \X Col,
        place <- [f \in IDs |-> {<<k, hash[k][f]>> : k \in Row}],
        put <- IF step = "insert" THEN {} ELSE DOMAIN dropped_set,
        left <- IF step = "insert" THEN {}
                ELSE {f \in DOMAIN dropped_set : StillThere(f) # 0},
        closed <- step \notin {"insert", "inserted"}, sound <- ~misled
CpuCore == Peel!Core(DOMAIN dropped_set)

(* Whatever verify accepts, what is still in a bucket and what was found   *)
(* of the flows that hash there add up to what was inserted, in packets    *)
(* and IDs, although the result adds up as a signed integer what the       *)
(* sketch subtracts modulo 2^32 and the prime.  For fingerprints this      *)
(* holds until verify was misled only: of a negative counter, or one that  *)
(* the fingerprints' prime divides, it computes a fingerprint that is not  *)
(* the one summed.                                                         *)
CpuConserved ==
    step \notin {"insert", "done"} => \A k \in Row, c \in Col :
        LET there == {f \in DOMAIN dropped_set \cup DOMAIN res : hash[k][f] = c}
            owed(f) == Truth(f) - FoundOf(f)
        IN  /\ x[k][c].counter = MapThenSumSet(owed, there) % CounterSize
            /\ x[k][c].ID = MapThenSumSet(LAMBDA f : Word(f) * owed(f), there) % PRIME
            /\ UsesFing /\ ~misled => x[k][c].FP =
                   MapThenSumSet(LAMBDA f : Fing(f) * owed(f), there) % FingMod

(* Unless verify was misled, all three sketches find the flows outside the *)
(* core with their packets and no other flow, return true exactly when     *)
(* there is no core, and stop before they reach a limit; what erase may    *)
(* leave does not matter then.  If verify was misled and all counters are  *)
(* 0 nevertheless, the packets found add up to those dropped.              *)
CpuFindsAll ==
    Decoded =>
        /\ ~misled =>
             /\ res = Restrict(dropped_set, DOMAIN dropped_set \ CpuCore)
             /\ Flag <=> CpuCore = {}
             /\ AllDecoded <=> Flag
             /\ acc <= MaxPasses
        /\ Flag => MapThenSumSet(FoundOf, DOMAIN res) % CounterSize
                     = MapThenSumSet(Truth, DOMAIN dropped_set) % CounterSize
=============================================================================
