------------------------------- MODULE JtagChain -------------------------------
(***************************************************************************)
(* TAP, DTM and bridge together, driven by a debugger that follows the     *)
(* sequence of jtag_dtm.v:20-24 scan by scan, as axi_write and axi_read of *)
(* jtag_chain_sim_main.cpp do: address, data, START, poll AXI_CTRL until   *)
(* BUSY = 0, read AXI_DATA; or it reads IDCODE or tries BYPASS.  The       *)
(* clocks run freely against each other.                                   *)
(***************************************************************************)
EXTENDS JtagDtm

CONSTANTS
  Words,           \* what is written and what the bus may answer
  Transactions     \* what the debugger may do: [rw, addr, data]

ASSUME ChainAssumption ==
  /\ Zero(DrBits) \in Words /\ Words \subseteq Dr(DrBits)
  /\ Transactions \subseteq [rw : BOOLEAN, addr : Dr(DrBits), data : Words]

VARIABLES
  start_toggle_tck, done_toggle_sync1, done_toggle_sync2,      \* the bridge's variables
  resp_ok_sync1, resp_ok_sync2, rdata_sync1, rdata_sync2,
  start_toggle_sync1, start_toggle_sync2, start_toggle_sync2_d,
  state, bus_addr, bus_wdata, aw_done, w_done, done_toggle_clk, resp_ok, rdata_reg,
  phase, at, out,        \* debugger: scan in progress, its next edge, bits received
  wanted, status,        \* the transaction it is in, the status it read last
  keeps_rw               \* whether it shifts RW in again while it polls

Bridge == INSTANCE JtagBridge WITH
  addr_tck <- addr_reg, wdata_tck <- data_reg, Addr <- Dr(DrBits), Data <- Words,
  NoAddr <- Zero(DrBits), NoData <- Zero(DrBits), Mix <- LAMBDA a, b : {a, b}

tckVars == <<start_toggle_tck, done_toggle_sync1, done_toggle_sync2, resp_ok_sync1,
             resp_ok_sync2, rdata_sync1, rdata_sync2>>
clkVars == <<start_toggle_sync1, start_toggle_sync2, start_toggle_sync2_d, state, bus_addr,
             bus_wdata, aw_done, w_done, done_toggle_clk, resp_ok, rdata_reg>>
probeVars == <<phase, at, out, wanted, status, keeps_rw>>
vars == <<dtmVars, tckVars, clkVars, probeVars>>

-----------------------------------------------------------------------------
(* The debugger: ir_scan and dr_scan32 from RUN_TEST_IDLE to RUN_TEST_IDLE. *)

(* A scan is the function from the number of an edge to its TMS and TDI.   *)

Edge(tms, tdi) == [tms |-> Flag(tms), tdi |-> tdi]
IrScan(code) == [i \in 1 .. IrBits + 6 |->
  Edge(i \in {1, 2, IrBits + 4, IrBits + 5}, IF i \in 5 .. IrBits + 4 THEN code[i - 4] ELSE 0)]
DrScan(value, bits) == [i \in 1 .. bits + 5 |->
  Edge(i \in {1, bits + 3, bits + 4}, IF i \in 4 .. bits + 3 THEN value[i - 3] ELSE 0)]

Resting == {"idle", "written", "read", "identified", "bypassed"}

IrPhases == {"ir_addr", "ir_data", "ir_ctrl", "ir_result", "ir_idcode", "ir_bypass"}
DrPhases == {"addr", "data", "start", "poll", "result", "idcode", "bypass"}
Phases   == Resting \union IrPhases \union DrPhases
ScanLength(p) ==
  IF p \in IrPhases THEN IrBits + 6 ELSE IF p = "bypass" THEN 7 ELSE DrBits + 5

ScanOf(p, w) ==
  IF p = "ir_addr" THEN IrScan(IR_AXI_ADDR)
  ELSE IF p = "addr" THEN DrScan(w.addr, DrBits)
  ELSE IF p = "ir_data" \/ p = "ir_result" THEN IrScan(IR_AXI_DATA)
  ELSE IF p = "data" THEN DrScan(w.data, DrBits)
  ELSE IF p = "ir_ctrl" THEN IrScan(IR_AXI_CTRL)
  ELSE IF p = "start" THEN DrScan(Ctrl(TRUE, w.rw), DrBits)
  ELSE IF p = "poll" THEN DrScan(Ctrl(FALSE, keeps_rw /\ w.rw), DrBits)
  ELSE IF p = "ir_idcode" THEN IrScan(IR_IDCODE)
  ELSE IF p = "ir_bypass" THEN IrScan(IR_BYPASS)
  ELSE IF p = "bypass" THEN DrScan(<<1, 0>>, 2)
  ELSE DrScan(Zero(DrBits), DrBits)

Busy(s) == s[1] = 1
Okay(s) == s[2] = 1

(* The scan after the one that ends with p, out being what it brought in.  *)
After(p) ==
  IF p = "ir_addr" THEN "addr"
  ELSE IF p = "addr" THEN (IF wanted.rw THEN "ir_ctrl" ELSE "ir_data")
  ELSE IF p = "ir_data" THEN "data"
  ELSE IF p = "data" THEN "ir_ctrl"
  ELSE IF p = "ir_ctrl" THEN "start"
  ELSE IF p = "start" THEN "poll"
  ELSE IF p = "poll" THEN
    (IF Busy(out) THEN "poll" ELSE IF wanted.rw THEN "ir_result" ELSE "written")
  ELSE IF p = "ir_result" THEN "result"
  ELSE IF p = "ir_idcode" THEN "idcode"
  ELSE IF p = "idcode" THEN "identified"
  ELSE IF p = "ir_bypass" THEN "bypass"
  ELSE IF p = "bypass" THEN "bypassed"
  ELSE "read"

AtRest == phase \in Resting

Rest ==     \* RUN_TEST_IDLE, or a new transaction
  /\ AtRest /\ DtmEdge(0, 0, Bridge!busy_tck, resp_ok_sync2, rdata_sync2)
  /\ \/ UNCHANGED probeVars
     \/ /\ state_r = "RUN_TEST_IDLE" /\ out' = Zero(DrBits) /\ at' = 1
        /\ UNCHANGED <<status, keeps_rw>>
        /\ \/ wanted' \in Transactions /\ phase' = "ir_addr"
           \/ UNCHANGED wanted /\ phase' \in {"ir_idcode", "ir_bypass"}

Scan ==
  /\ ~AtRest
  /\ LET e == ScanOf(phase, wanted)[at]
     IN  DtmEdge(e.tms, e.tdi, Bridge!busy_tck, resp_ok_sync2, rdata_sync2)
  /\ IF at < ScanLength(phase)
     THEN /\ at' = at + 1
          /\ out' = (IF state_r = "SHIFT_DR" THEN ShiftRight(out, DrBits, tdo) ELSE out)
          /\ UNCHANGED <<phase, status>>
     ELSE /\ phase' = After(phase) /\ at' = 1
          /\ out' = (IF phase \in {"result", "idcode", "bypass"} THEN out ELSE Zero(DrBits))
          /\ status' = (IF phase = "poll" THEN out ELSE status)
  /\ UNCHANGED <<wanted, keeps_rw>>

TckEdge ==
  /\ Rest \/ Scan
  /\ Bridge!TckSide(TRUE, done_toggle_clk, resp_ok, rdata_reg)
  /\ UNCHANGED clkVars

ClkEdge ==
  /\ Bridge!ClkSide(TRUE, start_toggle_tck, addr_reg, data_reg, rw_tck)
  /\ UNCHANGED <<tckVars, dtmVars, probeVars>>

ChainRests ==
  /\ Bridge!TckInit /\ Bridge!ClkInit
  /\ phase = "idle" /\ at = 1 /\ out = Zero(DrBits) /\ status = Zero(DrBits)
  /\ wanted = [rw |-> FALSE, addr |-> Zero(DrBits), data |-> Zero(DrBits)]
  /\ keeps_rw \in BOOLEAN

Init == DtmInit /\ ChainRests

Next == TckEdge \/ ClkEdge

Spec == Init /\ [][Next]_vars

TypeOK ==
  /\ DtmTypeOK /\ Bridge!TypeOK
  /\ phase \in Phases /\ out \in Dr(DrBits) /\ status \in Dr(DrBits)
  /\ at \in 1 .. (IF AtRest THEN 1 ELSE ScanLength(phase)) /\ keeps_rw \in BOOLEAN

-----------------------------------------------------------------------------
(* Properties. *)

(* When the debugger has polled BUSY = 0 after a write, the bus has done   *)
(* that write, with its address and data, and RESP_OK is its response.     *)
WriteHasHappened ==
  phase = "written" =>
    /\ state = "IDLE" /\ bus_addr = wanted.addr /\ bus_wdata = wanted.data
    /\ Okay(status) <=> resp_ok

(* A read brings back the word, and the RESP_OK, the bus answered.         *)
ReadBringsTheWord ==
  phase = "read" => out = rdata_reg /\ bus_addr = wanted.addr /\ (Okay(status) <=> resp_ok)

(* IDCODE is there for the reading, and BYPASS passes on what is shifted   *)
(* in, a 0 and then the first bit, whatever went before.                   *)
ChainIsWhole ==
  /\ phase = "identified" => out = IdCode
  /\ phase = "bypassed" => out = [i \in 1 .. DrBits |-> Flag(i = DrBits)]

(* All three: the debugger gets what it asked for.                         *)
TransactionsSucceed == WriteHasHappened /\ ReadBringsTheWord /\ ChainIsWhole

(* The debugger comes to the end of every transaction.                     *)
EveryTransactionEnds == phase = "poll" ~> AtRest
=============================================================================
