------------------------------ MODULE LossTests ------------------------------
(***************************************************************************)
(* The programs of Packet_loss_detection: test_flow_mem, test_perc_mem and *)
(* test_dropf_mem run full_flow_test.h, test_bucPF8 full_flow_test_level.h.*)
(* Their main functions repeat such a test with other seeds and memory,    *)
(* independently; program says which test runs here.                       *)
(***************************************************************************)
EXTENDS FullFlowTest, CpuFermat

VARIABLE program

test_vars == <<program, vars, cpu_vars>>

TestInit ==
    /\ program \in {"full_flow_test", "full_flow_test_level"}
    /\ \/ /\ program = "full_flow_test"
          /\ Init
          /\ variant = "none" /\ hash = <<>> /\ fp = <<>> /\ traffic = <<>> /\ x = <<>>
          /\ candidate = <<>> /\ res = <<>> /\ out = <<>> /\ step = "none"
          /\ row = 0 /\ col = 0 /\ acc = 0 /\ pause = TRUE /\ misled = FALSE
       \/ /\ program = "full_flow_test_level"
          /\ CpuInit
          /\ data = <<>> /\ hashes = <<>> /\ todo = {} /\ radar = <<>> /\ mistaken = {}
          /\ r = 1 /\ phase = "none" /\ at = 0 /\ dec = <<>> /\ verdict = <<>>

FlowTest == program = "full_flow_test" /\ Next /\ UNCHANGED <<program, cpu_vars>>
LevelTest == program = "full_flow_test_level" /\ CpuNext /\ UNCHANGED <<program, vars>>

TestNext == FlowTest \/ LevelTest

(* A test runs in one thread that nothing stops.                           *)
TestSpec == TestInit /\ [][TestNext]_test_vars /\ WF_test_vars(TestNext)
-----------------------------------------------------------------------------
Level == program = "full_flow_test_level"

(* FoundIsTrue of the XOR sketches, and LossesCredited of the test that    *)
(* subtracts the two FlowRadars.                                           *)
RadarsFindAll == ~Level => FoundIsTrue /\ LossesCredited

(* CpuFindsAll of the Fermat sketches.                                     *)
FermatFindsAll == Level => CpuFindsAll

(* CpuConserved of the Fermat sketches.                                    *)
SumsConserved == Level => CpuConserved

(* Each sketch fills and peels: what it holds stays the sum of the items   *)
(* that are left, and a decoder never takes out anything but an item that  *)
(* is alone in a bucket.  A flow that a Bloom filter takes for known, or a *)
(* mixed bucket that verify accepts, excuses its sketch from then on.      *)
ImplementsPeeling ==
    /\ IF Level THEN Peel!Init ELSE \A k \in Radar : Abstract(k)!Init
    /\ [][IF Level THEN [Peel!Next]_(Peel!vars)
          ELSE \A k \in Radar : [Abstract(k)!Next]_(Abstract(k)!vars)]_test_vars

(* Every decoder stops, those of the Fermat sketches although buckets      *)
(* accepted by mistake may restore each other in turns for ever.           *)
DecodingEnds == <>(IF Level THEN Decoded ELSE Ended)
=============================================================================
