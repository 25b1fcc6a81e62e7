------------------------------ MODULE MCMemPath ------------------------------
(* The core's way to the memory, in two halves: the bus adapter of the core *)
(* (CpuAdapter), and the RAM behind both halves of the crossbar (XbarRam).  *)
(* The benches of the bus (XbarBench) are a third alternative.  Which, is   *)
(* chosen at the start; the others rest.  One RAM word, two payloads.       *)
EXTENDS CpuAdapter, XbarRam

CONSTANTS
  d1, d2,
  BenchAddr, BenchWordAddr, BenchByte, BenchLanes,  \* what the calls of the benches are about
  BenchTimeout, BenchCalls

VARIABLES half, dut, mem, call, expected, missed, calls

RamWord  == [region |-> 1, mid |-> 0, page |-> 0, word |-> 0]

OneWord  == {RamWord}
TwoData  == {d1, d2}
AllFast  == RealSlaves

(* The benches: two slaves, two holes, both diagnostic registers; the first *)
(* and the last word of the RAM; words of two lanes.                        *)
At(region, mid, page, word) == [region |-> region, mid |-> mid, page |-> page, word |-> word]
MCAddr == {At(0, 0, 0, 0), At(1, 0, 0, 0), At(5, 0, 0, 0), At(4, 0, 8, 0), At(4, 0, 7, 0),
           At(4, 0, 7, 1), At(4, 0, 6, 0)}
MCWordAddr == {At(0, 0, 0, 0), At(0, 1, 15, 1023)}

(* No two addresses a bench uses are one word of a fake slave, and the      *)
(* longest call, of two writes in turn and one made twice, is in time.      *)
ASSUME BenchAssumption ==
  /\ BenchAddr \subseteq AddrSpace /\ BenchWordAddr \subseteq AddrSpace
  /\ \A a, b \in BenchAddr :
       decode_addr(a) \in RealSlaves /\ decode_addr(a) = decode_addr(b)
         /\ a.word % 16 = b.word % 16 => a = b
  /\ \A a, b \in BenchWordAddr : a.word % 16 = b.word % 16 => a = b
  /\ \A s \in RealSlaves, a \in BenchAddr : None # [from |-> s, at |-> a]
  /\ BenchTimeout \in Nat /\ BenchTimeout >= 15

Bench == INSTANCE XbarBench WITH
  Addr <- BenchAddr, WordAddr <- BenchWordAddr, Byte <- BenchByte, Lanes <- BenchLanes,
  Timeout <- BenchTimeout, MaxCalls <- BenchCalls

Rest == /\ request = CHOOSE q \in Request : TRUE
        /\ ~writing /\ ~ack_wvalid /\ ~ack_arvalid /\ ~xfer_done

memoryVars ==
  <<ramVars, w_state, w_grant, w_have_aw, w_have_w, w_issued_aw, w_issued_w, w_sel,
    w_addr_lat, w_data_lat, s_bvalid, s_bresp, last_decerr_waddr, decerr_irq_w, mst, slv,
    store, performed, r_state, r_grant, r_sel, r_addr_lat, r_issued_ar, s_rvalid, s_rdata,
    s_rresp, last_decerr_raddr, decerr_irq_r, rmst, rslv>>
benchVars == <<dut, mem, call, expected, missed, calls>>
MCVars == <<half, vars, memoryVars, benchVars>>

NoBench == /\ dut = "none" /\ mem = <<>> /\ call = <<>> /\ expected = <<>> /\ missed = <<>>
           /\ calls = 0
NoRam   == ram = <<>> /\ current = <<>> /\ own = <<>>

MCInit ==
  /\ half \in {"core", "memory", "bench"}
  /\ Init /\ (half # "core" => Rest)
  /\ IF half = "bench" THEN Bench!BenchInit /\ NoRam ELSE XbarRamInit /\ NoBench

CoreStep(A) == half = "core" /\ A /\ UNCHANGED <<half, memoryVars, benchVars>>
MemoryStep  == half = "memory" /\ XbarRamNext /\ UNCHANGED <<half, vars, benchVars>>
BenchStep   == half = "bench" /\ Bench!BenchNext /\ UNCHANGED <<half, vars, ram, current, own>>

MCNext == CoreStep(Next) \/ MemoryStep \/ BenchStep

(* Of the memory as the masters of the SoC use it: a read returns a value   *)
(* the word had while it was outstanding, and a master reads its own write.  *)
MemoryInv == half = "memory" => RamInv

(* Of the benches: their checks hold after any calls in any order, s0 wins   *)
(* a contended write, and the driver makes one transfer for each call.      *)
BenchInv == half = "bench" => Bench!BenchPasses /\ Bench!S0Wins

(* The bus does not refuse a beat of the core, or owe an answer, for ever.  *)
MCSpec ==
  /\ MCInit /\ [][MCNext]_MCVars
  /\ WF_MCVars(CoreStep(AnyCycle)) /\ WF_MCVars(CoreStep(AwAccepted))
  /\ WF_MCVars(CoreStep(WAccepted)) /\ WF_MCVars(CoreStep(ArAccepted))
  /\ WF_MCVars(CoreStep(BGiven)) /\ WF_MCVars(CoreStep(RGiven))
=============================================================================
