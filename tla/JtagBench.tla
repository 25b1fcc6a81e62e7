------------------------------- MODULE JtagBench -------------------------------
(***************************************************************************)
(* The chain in its three test benches: the calls of                       *)
(* jtag_chain_sim_main.cpp (ten edges of clk per edge of tck), of          *)
(* jtag_chain_fast_tck_sim_main.cpp (five edges of tck per edge of clk)    *)
(* and of sim_main.cpp of soc_top (ten), the transactions in any order and *)
(* with any idle edges between, against the memory of                      *)
(* fake_axi_lite_slave.v, or what is behind the crossbar.  The benches     *)
(* shift zeros while they poll (keeps_rw is FALSE), so a read whose first  *)
(* poll ends before the bus is done loses its result (ResultArrives):      *)
(* whether theirs do depends on how long a scan is.                        *)
(***************************************************************************)
EXTENDS JtagChain

CONSTANTS
  FakeAddrs,      \* what the first two benches call on: words of the fake slave
  SocAddrs,       \* what the third does: a word of the SRAM or the DMA's SRC_ADDR, or
  Poked           \* registers that need not read back what was written

(* A scan of a data register outlasts a transaction at five edges of tck    *)
(* per edge of clk; those of the code have 32 bits.                         *)
ASSUME BenchAssumption == DrBits >= 24

CLK_EDGES_PER_TCK == 10    \* CLK_STEPS_PER_TCK_HALF = 10 half periods, twice
TCK_EDGES_PER_CLK == 5     \* TCK_HALVES_PER_CLK_HALF = 5

VARIABLES
  ratio,      \* "slow_tck", "fast_tck" or "soc_top", the bench
  ticks,      \* edges to come of the faster clock before one of the slower
  slave       \* the slave's memory, by address

benchVars == <<ratio, ticks, slave>>

BenchInit ==
  /\ Init /\ ~keeps_rw
  /\ slave = [a \in (FakeAddrs \union SocAddrs) \ Poked |-> Zero(DrBits)]
  /\ \/ ratio \in {"slow_tck", "soc_top"} /\ ticks = 0
     \/ ratio = "fast_tck" /\ ticks = 3      \* the fifth half period

(* Always ready; the response comes a cycle after the request, and is OKAY. *)
SlaveAnswers ==
  /\ state # "IDLE" => state' # state
  /\ state \in {"WR_B", "RD_R"} => resp_ok'
  /\ state = "RD_R" => rdata_reg' = slave[bus_addr]
  /\ slave' = (IF state = "WR_GO" THEN [slave EXCEPT ![bus_addr] = bus_wdata] ELSE slave)

(* The crossbar, the core on its other port, and an SRAM word or a register *)
(* behind it: each handshake may wait, but not for long.                    *)
SocAnswers ==
  /\ ticks = 1 /\ state # "IDLE" => state' # state
  /\ state' # state /\ state \in {"WR_B", "RD_R"} => resp_ok'
  /\ state' # state /\ state = "RD_R" /\ bus_addr \notin Poked => rdata_reg' = slave[bus_addr]
  /\ slave' = (IF state = "WR_GO" /\ state' = "WR_B" /\ bus_addr \notin Poked
               THEN [slave EXCEPT ![bus_addr] = bus_wdata] ELSE slave)

SlowTap ==          \* tap_edge, and the clk_step calls in it
  /\ ratio = "slow_tck"
  /\ IF ticks = 0 THEN TckEdge /\ ticks' = CLK_EDGES_PER_TCK /\ UNCHANGED slave
     ELSE ClkEdge /\ SlaveAnswers /\ ticks' = ticks - 1

FastTap ==          \* tap_edge, and maybe_clk_step
  /\ ratio = "fast_tck"
  /\ IF ticks = 0 THEN ClkEdge /\ SlaveAnswers /\ ticks' = TCK_EDGES_PER_CLK
     ELSE TckEdge /\ ticks' = ticks - 1 /\ UNCHANGED slave

SocTap ==           \* tap_edge: five clocks after each half
  /\ ratio = "soc_top"
  /\ IF ticks = 0 THEN TckEdge /\ ticks' = CLK_EDGES_PER_TCK /\ UNCHANGED slave
     ELSE ClkEdge /\ SocAnswers /\ ticks' = ticks - 1

(* IDCODE is read first, BYPASS tried last, by none of them twice.         *)
MayCall ==
  /\ phase' = "ir_addr" => wanted'.addr \in IF ratio = "soc_top" THEN SocAddrs ELSE FakeAddrs
  /\ phase' = "ir_idcode" => phase \in {"idle", "ir_idcode"}
  /\ phase = "bypassed" => phase' = phase

BenchNext == (SlowTap \/ FastTap \/ SocTap) /\ MayCall /\ UNCHANGED ratio

(* What the benches check: a write is in the memory once BUSY has fallen,  *)
(* a read brings the word back, both with RESP_OK set, although the core   *)
(* has the bus too (soc_top).                                              *)
ReadsBack ==
  /\ phase \in {"written", "read"} => Okay(status)
  /\ phase \in {"written", "read"} /\ wanted.addr \notin Poked =>
       slave[wanted.addr] = IF wanted.rw THEN out ELSE wanted.data
=============================================================================
