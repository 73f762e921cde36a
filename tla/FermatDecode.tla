---------------------------- MODULE FermatDecode ----------------------------
(***************************************************************************)
(* decode of fermatDecode.h.  The zone is scanned once, row by row; then   *)
(* the buckets changed by a decoded flow are looked at again from one      *)
(* queue per row until all queues are empty.  A bucket that passes verify  *)
(* is taken out of the sketch as a flow.  verify can be wrong: it accepts  *)
(* any bucket whose quotient happens to be a flow that hashes there.       *)
(*                                                                         *)
(* The zone is one of lost packets: what lcore_main put together before,   *)
(* from counting packets to the subtraction, is modelled with it.  A zone  *)
(* without columns, for which decode does nothing, is left out.            *)
(***************************************************************************)
EXTENDS FermatSketch, SequencesExt

CONSTANTS
    Entries,       \* ingress_entry_num: bounds the number of flows
    Hashes,        \* the hash functions considered
    Heavy,         \* flows that may become heavy hitters
    MaxIn, MaxOut, \* bounds: packets of a flow that enter, that leave
    MaxPackets     \* bound: packets counted in all

FlowLimit == Entries * Rows * Rows
Capacity == Width * Rows

ASSUME DecodeAssumption ==
    /\ Rows > 1 /\ Entries \in Nat /\ Width <= Entries
    /\ Hashes \subseteq HashFunctions
    /\ Heavy \subseteq IDs
    /\ MaxPackets \in Nat /\ MaxPackets < PRIME /\ 2 * MaxPackets < CounterSize

VARIABLES
    hash,          \* the zone's hash functions
    entered, left, \* history: packets of each flow
    heavy,         \* those of entered counted in the heavy hitters' zone
    ingress, egress,   \* the zone as counted where packets enter and leave
    put,           \* heavy flows put back into the zone
    x,             \* the zone's buckets, entered less left
    candidate,     \* per row, the columns to look at again
    res,           \* the flows decoded so far: [id, counter]
    fake_num,
    phase,         \* count, scan, head (of the loop), drain, succeed, NULL
    row, col,      \* loop counters
    pause,
    misled,        \* history: verify accepted a bucket that held other flows
    dropped        \* history: enqueue met a full queue

traffic == <<hash, entered, left, heavy, ingress, egress, put>>
found == <<x, res, misled, dropped>>
vars == <<traffic, found, candidate, fake_num, phase, row, col, pause>>

Flow == [id : IDs, counter : 0..(CounterSize - 1)]

Init ==
    /\ hash \in Hashes
    /\ entered = [f \in IDs |-> 0] /\ left = [f \in IDs |-> 0]
    /\ heavy = [f \in IDs |-> 0]
    /\ ingress = EmptySketch /\ egress = EmptySketch
    /\ put = {}
    /\ x = EmptySketch
    /\ candidate = [k \in Row |-> <<>>]
    /\ res = <<>> /\ fake_num = 0
    /\ phase = "count" /\ row = 0 /\ col = 0
    /\ pause = FALSE
    /\ misled = FALSE /\ dropped = FALSE
-----------------------------------------------------------------------------
Decoding == <<x, candidate, res, fake_num, phase, row, col, pause, misled, dropped>>

WithinBound ==
    SumFunctionOnSet([f \in IDs |-> entered[f] + left[f]], IDs) < MaxPackets

(* A packet enters.  A flow is counted here until it is a heavy hitter.    *)
Enter(f) ==
    /\ phase = "count" /\ put = {}
    /\ entered[f] < MaxIn /\ WithinBound
    /\ heavy[f] = 0
    /\ entered' = [entered EXCEPT ![f] = @ + 1]
    /\ ingress' = CountPacket(ingress, hash, f)
    /\ UNCHANGED <<hash, left, heavy, egress, put, Decoding>>

(* From then on it is counted in another zone, at the ingress only.        *)
EnterHeavy(f) ==
    /\ phase = "count" /\ put = {}
    /\ f \in Heavy
    /\ entered[f] < MaxIn /\ WithinBound
    /\ entered' = [entered EXCEPT ![f] = @ + 1]
    /\ heavy' = [heavy EXCEPT ![f] = @ + 1]
    /\ UNCHANGED <<hash, left, ingress, egress, put, Decoding>>

(* A packet leaves, possibly one that entered before this epoch.           *)
Leave(f) ==
    /\ phase = "count" /\ put = {}
    /\ left[f] < MaxOut /\ WithinBound
    /\ left' = [left EXCEPT ![f] = @ + 1]
    /\ egress' = CountPacket(egress, hash, f)
    /\ UNCHANGED <<hash, entered, heavy, ingress, put, Decoding>>

(* A flow decoded in the heavy hitters' zone is put back into this one.    *)
PutBack(f) ==
    /\ phase = "count"
    /\ f \in Heavy \ put /\ heavy[f] > 0
    /\ ingress' = AddFlow(ingress, hash, [id |-> f, counter |-> heavy[f]])
    /\ put' = put \cup {f}
    /\ UNCHANGED <<hash, entered, left, heavy, egress, Decoding>>

(* The sums over the switches, what is lost, and the call of decode.  When *)
(* the heavy hitters could not be decoded, none was put back.              *)
Begin ==
    /\ phase = "count"
    /\ put = {} \/ \A f \in Heavy \ put : heavy[f] = 0
    /\ x' = SketchSub(FermatAdd(EmptySketch, ingress), FermatAdd(EmptySketch, egress))
    /\ phase' = "scan"
    /\ UNCHANGED <<traffic, candidate, res, fake_num, row, col, pause, misled, dropped>>
-----------------------------------------------------------------------------
(* What the zone should say of a flow; negative if more left than were     *)
(* counted here.                                                           *)
Net(f) == entered[f] - left[f] - (IF f \in put THEN 0 ELSE heavy[f])

(* What is left of a flow after the decoded counts.                        *)
EntriesOf(f) == {i \in DOMAIN res : res[i].id = f}
Taken(f) == SumFunctionOnSet([i \in DOMAIN res |-> Signed(res[i].counter)], EntriesOf(f))
Rest == [f \in IDs |-> Net(f) - Taken(f)]
Remaining(f) == Rest[f] % CounterSize

HoldsOnly(r, c, f) ==
    /\ Remaining(f) = x[r][c].counter
    /\ \A g \in IDs \ {f} : hash[r][g] = c => Remaining(g) = 0

IsFull(q) == Len(q) = Capacity
Enqueue(q, item) == IF IsFull(q) THEN q ELSE Append(q, item)

(* Mutant of Requeued: the first round queues the rows still to be scanned. *)
RequeuedAhead(r, first_round) ==
    {k \in Row \ {r} : first_round => k > r}

(* The rows whose changed bucket is queued: the first round goes on to the *)
(* later rows anyway.                                                      *)
Requeued(r, first_round) ==
    {k \in Row \ {r} : first_round => k < r}

(* The sketch without the flow that bucket c of row r holds.               *)
Peeled(r, c, f) ==
    [k \in Row |-> IF k = r THEN [x[k] EXCEPT ![c] = EmptyBucket]
                   ELSE [x[k] EXCEPT ![hash[k][f]] = Minus(@, x[r][c])]]

(* verify, of a bucket whose counter is not 0; q is what the queues are    *)
(* before.                                                                 *)
Verify(r, c, q, first_round) ==
    LET f == SoleID(x[r][c])
        again == Requeued(r, first_round)
    IN  /\ x' = Peeled(r, c, f)
        /\ candidate' = [k \in Row |-> IF k \in again THEN Enqueue(q[k], hash[k][f]) ELSE q[k]]
        /\ res' = Append(res, [id |-> f, counter |-> x[r][c].counter])
        /\ misled' = (misled \/ ~HoldsOnly(r, c, f))
        /\ dropped' = (dropped \/ \E k \in again : IsFull(q[k]))

Decodable(r, c) ==
    /\ x[r][c].counter # 0
    /\ Verifies(hash, r, c, x[r][c])

Look(r, c, q, first_round) ==
    \/ /\ Decodable(r, c)
       /\ Verify(r, c, q, first_round)
    \/ /\ ~Decodable(r, c)
       /\ candidate' = q
       /\ UNCHANGED found
-----------------------------------------------------------------------------
(* The first two loops: every bucket once.                                 *)
Scan ==
    /\ phase = "scan"
    /\ Look(row, col, candidate, TRUE)
    /\ \/ /\ col < Width - 1
          /\ col' = col + 1
          /\ UNCHANGED <<row, phase>>
       \/ /\ col = Width - 1 /\ row < Rows - 1
          /\ col' = 0 /\ row' = row + 1
          /\ UNCHANGED phase
       \/ /\ col = Width - 1 /\ row = Rows - 1
          /\ phase' = "head"
          /\ UNCHANGED <<row, col>>
    /\ UNCHANGED <<traffic, fake_num, pause>>

WithinLimit == Len(res) < FlowLimit

(* The condition of the loop, and its first statement.                     *)
EnterPass ==
    /\ phase = "head"
    /\ ~pause /\ WithinLimit
    /\ phase' = "drain" /\ row' = 0 /\ pause' = TRUE
    /\ UNCHANGED <<traffic, found, candidate, fake_num, col>>

(* Mutant of Draining: the inner loop does not look at the limit. *)
DrainingOn == phase = "drain" /\ candidate[row] # <<>>

Draining == phase = "drain" /\ candidate[row] # <<>> /\ WithinLimit

(* pause is cleared before the inner loop, for the same condition.         *)
Dequeue ==
    /\ Draining
    /\ pause' = FALSE
    /\ Look(row, Head(candidate[row]), [candidate EXCEPT ![row] = Tail(@)], FALSE)
    /\ UNCHANGED <<traffic, fake_num, phase, row, col>>

(* Mutant of NextRow: a pass that changed nothing does not end the loop. *)
NextRowRestless ==
    /\ phase = "drain" /\ ~Draining
    /\ \/ row < Rows - 1 /\ row' = row + 1 /\ UNCHANGED phase
       \/ row = Rows - 1 /\ phase' = "head" /\ UNCHANGED row
    /\ pause' = FALSE
    /\ UNCHANGED <<traffic, found, candidate, fake_num, col>>

NextRow ==
    /\ phase = "drain" /\ ~Draining
    /\ \/ row < Rows - 1 /\ row' = row + 1 /\ UNCHANGED phase
       \/ row = Rows - 1 /\ phase' = "head" /\ UNCHANGED row
    /\ pause' = (pause /\ candidate[row] = <<>>)
    /\ UNCHANGED <<traffic, found, candidate, fake_num, col>>
-----------------------------------------------------------------------------
(* Mutant of DecodeSucceed: misses the last column. *)
DecodeSucceedShort == \A r \in Row, c \in Col \ {Width - 1} : x[r][c].counter = 0

DecodeSucceed == \A r \in Row, c \in Col : x[r][c].counter = 0

SameFlow(i) == {j \in DOMAIN res : res[j].id = res[i].id}
Total(i) == SumFunctionOnSet([j \in DOMAIN res |-> res[j].counter], SameFlow(i)) % CounterSize

(* The entries at which merge_flows does something: the first of a flow    *)
(* with a negative counter.  It takes over the counters of all entries of  *)
(* the flow; the others stay in the result with counter zero, so that a    *)
(* later negative one is not negative any more when its turn comes.        *)
Leaders ==
    {i \in DOMAIN res : /\ Negative(res[i].counter)
                        /\ \A j \in SameFlow(i) : j < i => ~Negative(res[j].counter)}

(* Mutant of MergedFlow: leaves the counters of the entries taken over. *)
MergedFlowKeeping(i) ==
    IF i \in Leaders THEN [res[i] EXCEPT !.counter = Total(i)] ELSE res[i]

MergedFlow(i) ==
    IF i \in Leaders THEN [res[i] EXCEPT !.counter = Total(i)]
    ELSE IF SameFlow(i) \cap Leaders # {} THEN [res[i] EXCEPT !.counter = 0]
    ELSE res[i]

MergedFake ==
    SumFunction([i \in Leaders |-> Cardinality(SameFlow(i)) - (IF Total(i) = 0 THEN 0 ELSE 1)])

(* After the loop: the merged flows, or NULL; what was decoded is freed    *)
(* then, res remains as history.                                           *)
Return ==
    /\ phase = "head"
    /\ pause \/ ~WithinLimit
    /\ \/ /\ DecodeSucceed
          /\ phase' = "succeed"
          /\ res' = [i \in DOMAIN res |-> MergedFlow(i)] /\ fake_num' = MergedFake
       \/ /\ ~DecodeSucceed
          /\ phase' = "NULL"
          /\ UNCHANGED <<res, fake_num>>
    /\ UNCHANGED <<traffic, x, candidate, row, col, pause, misled, dropped>>

Decode == Scan \/ EnterPass \/ Dequeue \/ NextRow \/ Return

Next ==
    \/ \E f \in IDs : Enter(f) \/ EnterHeavy(f) \/ Leave(f) \/ PutBack(f)
    \/ Begin
    \/ Decode

Spec == Init /\ [][Next]_vars
FairSpec == Spec /\ WF_vars(Decode)
-----------------------------------------------------------------------------
Ended == phase \in {"succeed", "NULL"}

(* Buckets hold residues and 32-bit counters, the queues and the result    *)
(* stay within the arrays allocated for them in createNQueue and struct    *)
(* decodeResult, whatever verify accepts.                                  *)
TypeOK ==
    /\ hash \in HashFunctions
    /\ ingress \in Sketch /\ egress \in Sketch /\ x \in Sketch
    /\ candidate \in [Row -> Seq(Col)]
    /\ \A k \in Row : Len(candidate[k]) <= Capacity
    /\ res \in Seq(Flow) /\ Len(res) <= FlowLimit
    /\ phase \in {"count", "scan", "head", "drain", "succeed", "NULL"}
    /\ row \in Row /\ col \in Col
    /\ pause \in BOOLEAN /\ misled \in BOOLEAN /\ dropped \in BOOLEAN

Here(r, c) == {f \in IDs : hash[r][f] = c}

(* In every row, a bucket holds what the decoded counts left of the flows  *)
(* that hash to it, in number and in IDs: however the sketch was assembled *)
(* (counted, put back, added, subtracted), whatever verify accepted and    *)
(* however often, and after merging.  Merging adds counters modulo their   *)
(* size, not modulo the prime: when wrong flows were decoded too, it keeps *)
(* the number only.                                                        *)
Conserved ==
    phase # "count" => \A r \in Row, c \in Col :
        /\ x[r][c].counter = SumFunctionOnSet(Rest, Here(r, c)) % CounterSize
        /\ phase # "succeed" \/ ~misled =>
              x[r][c].ID = SumFunctionOnSet([f \in IDs |-> f * Rest[f]], Here(r, c)) % PRIME

Pending(r, c) ==
    \/ \E i \in DOMAIN candidate[r] : candidate[r][i] = c
    \/ phase = "scan" /\ (r > row \/ (r = row /\ c >= col))

(* A bucket that verify would accept is still to be scanned or in its      *)
(* row's queue, although the first round does not queue later rows, rows   *)
(* are drained one after the other, a pass may end early and enqueue gives *)
(* up on a full queue, which it never meets.  So decode ends only when no  *)
(* bucket is decodable, unless it stopped at the limit.                    *)
NothingOverlooked ==
    /\ ~dropped
    /\ \A r \in Row, c \in Col : Decodable(r, c) => Pending(r, c)
    /\ Ended /\ WithinLimit => \A k \in Row : candidate[k] = <<>>

(* Flows that share their bucket, in every row, with another of them: the  *)
(* largest set of flows of which none is alone anywhere.                   *)
Core ==
    LET stuck(S) == \A f \in S, r \in Row : \E g \in S \ {f} : hash[r][f] = hash[r][g]
    IN  UNION {S \in SUBSET {f \in IDs : Net(f) # 0} : stuck(S)}

(* Unless verify was misled, decode finds each flow outside the core once, *)
(* with its count, and no other, in whatever order the buckets come up,    *)
(* and the limit is not reached.                                           *)
PeelsToCore ==
    Ended /\ ~misled =>
        /\ WithinLimit
        /\ IsInjective([i \in DOMAIN res |-> res[i].id])
        /\ {<<res[i].id, Signed(res[i].counter)>> : i \in DOMAIN res}
              = {<<f, Net(f)>> : f \in {f \in IDs : Net(f) # 0} \ Core}

(* The verdict on the counters alone is right when flows only lost packets *)
(* and verify was not misled: decode succeeds if and only if it found them *)
(* all.  fake_num is the number of entries that merging has set to zero.   *)
VerdictIsRight ==
    /\ Ended /\ ~misled /\ (\A f \in IDs : Net(f) >= 0) => (phase = "succeed" <=> Core = {})
    /\ phase = "succeed" => fake_num = Cardinality({i \in DOMAIN res : res[i].counter = 0})

(* decode ends, even if two wrongly accepted buckets restore each other    *)
(* for ever: the number of flows is limited.                               *)
Terminates == (phase = "scan") ~> Ended
=============================================================================
