-------------------------- MODULE MCTraceExperiment --------------------------
EXTENDS TraceExperiment

Seqs(n) == [1..n -> 1..3]

(* Runs of flows 1 and 2, which settle in the heavy stages, then of others *)
(* that meet in the trees: once, twice, three times, in one node or more.  *)
(* After the short ones the others swap 1 and 2 out again.                 *)
Run(f, n) == [i \in 1..n |-> f]
Others(m) == FlattenSeq([k \in 1..4 |-> Run(k + 2, m[k])])
Meetings == {<<3,3,3,0>>, <<3,3,4,0>>, <<4,4,0,6>>, <<5,4,0,2>>, <<6,6,0,1>>, <<6,6,6,0>>,
             <<6,6,7,0>>, <<3,3,4,6>>, <<3,3,4,11>>, <<4,2,1,4>>}
Runs == {Run(1, 20) \o Run(2, 13) \o Others(m) : m \in Meetings}
        \cup {Run(1, 4) \o Run(2, 3) \o Others(m) : m \in {4, 5} \X {2, 4} \X {0, 4} \X {1, 3}}

(* The first window, with a packet in the second; then pairs of short ones,*)
(* for the changes between them.  In the last ones f comes when the heavy  *)
(* stages are taken, or before, but with one of the hash functions has a   *)
(* bucket of its own.                                                      *)
First(S) == {<<s, <<1>>>> : s \in S}
Pairs == [1..4 -> 1..2] \X [1..4 -> 1..2]
Crowded(f) ==
    LET windows == {<<1, 2>> \o Run(f, n) : n \in 2..4} \cup {Run(f, 3) \o <<1, 2>>}
    IN  windows \X windows

MCTraces == [k \in Kinds |->
    CASE k = "elastic" -> First(Seqs(6)) \cup Pairs \cup Crowded(3)
      [] k = "fcm" -> First(Runs) \cup Pairs \cup Crowded(7)
      [] k = "pcm" -> {<<s>> : s \in Seqs(7)}
      [] k = "countheap" -> First({<<1, 2, 3>> \o s : s \in [1..5 -> 1..4]}) \cup Pairs
      [] k = "fermat" -> First(Seqs(6) \cup {Run(1, 8), Run(2, 9)}) \cup Pairs
      [] k \in {"univmon", "coco"} -> First(Seqs(6)) \cup Pairs
      [] OTHER -> {<<s>> : s \in Seqs(6)}]

Two(s, t) == [i \in 0..1 |-> IF i = 0 THEN s ELSE t]
CHHash(k) == [at |-> <<<<0,0,1,1>>, <<0,1,k,0>>, <<1,0,1,0>>>>,
              polar |-> <<<<1,-1,1,1>>, <<-1,-1,1,1>>, <<1,1,-1,-1>>>>]
Rows == {Two(<<0,0,1>>, <<0,1,1>>), Two(<<0,1,1>>, <<0,1,0>>)}
(* From the flow 0, that of an empty bucket, on. *)
H(s) == [f \in 0..(Len(s) - 1) |-> s[f + 1]]
Same == H(<<0,0,0,0,0,0,0,0>>)
Apart == H(<<0,0,0,0,0,0,0,1>>)
MCHashes == [k \in Kinds |->
    CASE k \in {"cm", "cu", "mrac", "fermat"} -> Rows
      [] k = "pcm" -> {[word |-> <<0,1,0>>, offsets |-> <<{0,1}, {0}, {1}>>],
                       [word |-> <<0,1,2>>, offsets |-> <<{0}, {0, 1}, {0}>>]}
      [] k = "countheap" -> {CHHash(0), CHHash(1)}
      [] k = "univmon" -> {[level |-> <<1,2,2>>, sketch |-> <<CHHash(0), CHHash(1)>>]}
      [] k = "hashpipe" -> {<<<<0,0,1>>, <<0,1,1>>>>, <<<<0,0,0>>, <<0,0,0>>>>}
      [] k = "coco" -> {<<H(<<0,0,0,1>>), H(<<1,0,1,1>>)>>}
      [] k = "elastic" -> {[heavy |-> <<H(<<0,0,0,1>>), H(<<1,0,1,1>>)>>, light |-> H(<<0,0,0,1>>)],
                           [heavy |-> <<Same, Same>>, light |-> H(<<1,0,1,1>>)]}
      [] k = "fcm" -> {[heavy |-> <<Same, Same>>,
                        tree |-> <<H(<<5,8,7,0,1,2,3,4>>), H(<<5,0,0,0,1,3,4,0>>)>>],
                       [heavy |-> <<Apart, Apart>>,
                        tree |-> <<H(<<4,4,4,0,3,6,1,4>>), H(<<4,0,0,0,3,4,3,0>>)>>]}]
MCLimits == <<<<6, 2>>, <<4, 3>>, <<0, 4>>>>
MCLimits1 == <<<<6, 3>>, <<0, 5>>>>
MCLimitsD == <<<<13, 0>>, <<9, 3>>, <<0, 4>>>>
MCRegMax == <<3, 4, 100>>
=============================================================================
