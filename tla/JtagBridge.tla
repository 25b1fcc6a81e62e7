------------------------------ MODULE JtagBridge ------------------------------
(***************************************************************************)
(* The bridge from the tck domain to the bus (jtag_axi_bridge.v): a toggle *)
(* synchronizer in each direction, the bus master's state machine and the  *)
(* synchronized response.  The two clocks are independent: a step is an    *)
(* edge of tck or of clk, or (BothEdges) of both at once, where a register *)
(* sampled from the other domain may yield its old or its new value, bit   *)
(* by bit.  The bus answers as it likes; the requester (jtag_dtm.v) starts *)
(* nothing, and changes nothing, while BUSY, as a debugger must            *)
(* (JtagChain: MeetsTheBridge).                                            *)
(***************************************************************************)
CONSTANTS
  Addr, Data,
  NoAddr, NoData,      \* power-up contents
  Mix(_, _)            \* what may be sampled while a word changes

ASSUME BridgeAssumption ==
  /\ NoAddr \in Addr /\ NoData \in Data
  /\ \A a, b \in Addr : {a, b} \subseteq Mix(a, b) /\ Mix(a, b) \subseteq Addr /\ Mix(a, a) = {a}
  /\ \A a, b \in Data : {a, b} \subseteq Mix(a, b) /\ Mix(a, b) \subseteq Data /\ Mix(a, a) = {a}

VARIABLES
  start_pulse_tck, rw_tck, addr_tck, wdata_tck,                       \* requester
  start_toggle_tck, done_toggle_sync1, done_toggle_sync2,             \* tck domain
  resp_ok_sync1, resp_ok_sync2, rdata_sync1, rdata_sync2,
  start_toggle_sync1, start_toggle_sync2, start_toggle_sync2_d,       \* clk domain
  state, bus_addr, bus_wdata, aw_done, w_done, done_toggle_clk, resp_ok, rdata_reg

requestVars == <<start_pulse_tck, rw_tck, addr_tck, wdata_tck>>
tckVars == <<start_toggle_tck, done_toggle_sync1, done_toggle_sync2, resp_ok_sync1,
             resp_ok_sync2, rdata_sync1, rdata_sync2>>
clkVars == <<start_toggle_sync1, start_toggle_sync2, start_toggle_sync2_d, state, bus_addr,
             bus_wdata, aw_done, w_done, done_toggle_clk, resp_ok, rdata_reg>>
bridgeVars == <<requestVars, tckVars, clkVars>>

TypeOK ==
  /\ {start_pulse_tck, rw_tck, start_toggle_tck, done_toggle_sync1, done_toggle_sync2,
      resp_ok_sync1, resp_ok_sync2, start_toggle_sync1, start_toggle_sync2,
      start_toggle_sync2_d, aw_done, w_done, done_toggle_clk, resp_ok} \subseteq BOOLEAN
  /\ {addr_tck, bus_addr} \subseteq Addr
  /\ {wdata_tck, bus_wdata, rdata_sync1, rdata_sync2, rdata_reg} \subseteq Data
  /\ state \in {"IDLE", "WR_GO", "WR_B", "RD_GO", "RD_R"}
  /\ state = "WR_B" => aw_done /\ w_done

RequestInit == start_pulse_tck = FALSE /\ rw_tck = FALSE /\ addr_tck = NoAddr /\ wdata_tck = NoData
TckInit ==
  /\ start_toggle_tck = FALSE /\ done_toggle_sync1 = FALSE /\ done_toggle_sync2 = FALSE
  /\ resp_ok_sync1 = FALSE /\ resp_ok_sync2 = FALSE
  /\ rdata_sync1 = NoData /\ rdata_sync2 = NoData
ClkInit ==
  /\ start_toggle_sync1 = FALSE /\ start_toggle_sync2 = FALSE /\ start_toggle_sync2_d = FALSE
  /\ state = "IDLE" /\ bus_addr = NoAddr /\ bus_wdata = NoData
  /\ aw_done = FALSE /\ w_done = FALSE
  /\ done_toggle_clk = FALSE /\ resp_ok = FALSE /\ rdata_reg = NoData
Init == RequestInit /\ TckInit /\ ClkInit

(* The operators named Bad... are faulty variants, never part of the model: *)
(* each is a plausible slip that one of the properties must catch.          *)
BadBusyTck == start_toggle_tck # done_toggle_sync1       \* one flop short
busy_tck == start_toggle_tck # done_toggle_sync2
start_pulse_clk == start_toggle_sync2 # start_toggle_sync2_d

-----------------------------------------------------------------------------
(* tck domain; done, ok and rdata are what the first flops sample. *)

TckSide(resetn, done, ok, rdata) ==
  IF resetn
  THEN /\ start_toggle_tck' = (start_toggle_tck # start_pulse_tck)
       /\ done_toggle_sync1' = done /\ done_toggle_sync2' = done_toggle_sync1
       /\ resp_ok_sync1' = ok /\ resp_ok_sync2' = resp_ok_sync1
       /\ rdata_sync1' = rdata /\ rdata_sync2' = rdata_sync1
  ELSE /\ start_toggle_tck' = FALSE
       /\ done_toggle_sync1' = FALSE /\ done_toggle_sync2' = FALSE
       /\ resp_ok_sync1' = FALSE /\ resp_ok_sync2' = FALSE
       /\ UNCHANGED <<rdata_sync1, rdata_sync2>>

-----------------------------------------------------------------------------
(* clk domain: the state machine, one action per state; the bus answers    *)
(* when, and as, it likes.                                                 *)

BusIdle(addr, wdata, rw) ==
  /\ state = "IDLE"
  /\ IF start_pulse_clk
     THEN /\ bus_addr' = addr /\ bus_wdata' = wdata
          /\ aw_done' = FALSE /\ w_done' = FALSE
          /\ state' = (IF rw THEN "RD_GO" ELSE "WR_GO")
     ELSE UNCHANGED <<bus_addr, bus_wdata, aw_done, w_done, state>>
  /\ UNCHANGED <<done_toggle_clk, resp_ok, rdata_reg>>

BusWriteGo ==
  /\ state = "WR_GO"
  /\ \E m_awready, m_wready \in BOOLEAN :
       /\ aw_done' = (aw_done \/ m_awready)
       /\ w_done' = (w_done \/ m_wready)
       /\ state' = (IF aw_done' /\ w_done' THEN "WR_B" ELSE state)
  /\ UNCHANGED <<bus_addr, bus_wdata, done_toggle_clk, resp_ok, rdata_reg>>

BusWriteResponse ==
  /\ state = "WR_B"
  /\ \/ \E okay \in BOOLEAN :
          resp_ok' = okay /\ done_toggle_clk' = ~done_toggle_clk /\ state' = "IDLE"
     \/ UNCHANGED <<resp_ok, done_toggle_clk, state>>
  /\ UNCHANGED <<bus_addr, bus_wdata, aw_done, w_done, rdata_reg>>

BadBusReadGo ==                  \* reports completion on the address handshake
  /\ state = "RD_GO"
  /\ state' = "RD_R" /\ done_toggle_clk' = ~done_toggle_clk
  /\ UNCHANGED <<bus_addr, bus_wdata, aw_done, w_done, resp_ok, rdata_reg>>
BusReadGo ==
  /\ state = "RD_GO"
  /\ \E m_arready \in BOOLEAN : state' = (IF m_arready THEN "RD_R" ELSE state)
  /\ UNCHANGED <<bus_addr, bus_wdata, aw_done, w_done, done_toggle_clk, resp_ok, rdata_reg>>

BadBusReadData ==                \* forgets to report
  /\ state = "RD_R"
  /\ \/ \E okay \in BOOLEAN, word \in Data :
          rdata_reg' = word /\ resp_ok' = okay /\ state' = "IDLE" /\ UNCHANGED done_toggle_clk
     \/ UNCHANGED <<rdata_reg, resp_ok, done_toggle_clk, state>>
  /\ UNCHANGED <<bus_addr, bus_wdata, aw_done, w_done>>
BusReadData ==
  /\ state = "RD_R"
  /\ \/ \E okay \in BOOLEAN, word \in Data :
          /\ rdata_reg' = word /\ resp_ok' = okay
          /\ done_toggle_clk' = ~done_toggle_clk /\ state' = "IDLE"
     \/ UNCHANGED <<rdata_reg, resp_ok, done_toggle_clk, state>>
  /\ UNCHANGED <<bus_addr, bus_wdata, aw_done, w_done>>

(* toggle, addr, wdata and rw are what the clk domain samples.             *)
ClkSide(resetn, toggle, addr, wdata, rw) ==
  IF resetn
  THEN /\ start_toggle_sync1' = toggle /\ start_toggle_sync2' = start_toggle_sync1
       /\ start_toggle_sync2_d' = start_toggle_sync2
       /\ \/ BusIdle(addr, wdata, rw) \/ BusWriteGo \/ BusWriteResponse
          \/ BusReadGo \/ BusReadData
  ELSE /\ start_toggle_sync1' = FALSE /\ start_toggle_sync2' = FALSE
       /\ start_toggle_sync2_d' = FALSE
       /\ state' = "IDLE" /\ done_toggle_clk' = FALSE
       /\ UNCHANGED <<bus_addr, bus_wdata, aw_done, w_done, resp_ok, rdata_reg>>

-----------------------------------------------------------------------------
(* The requester between two edges of tck, and the composition.            *)

MayAsk == ~busy_tck /\ ~start_pulse_tck
Request ==
  IF MayAsk
  THEN /\ start_pulse_tck' \in BOOLEAN /\ rw_tck' \in BOOLEAN
       /\ addr_tck' \in Addr /\ wdata_tck' \in Data
  ELSE start_pulse_tck' = FALSE /\ UNCHANGED <<rw_tck, addr_tck, wdata_tck>>

TckEdge == Request /\ TckSide(TRUE, done_toggle_clk, resp_ok, rdata_reg) /\ UNCHANGED clkVars

ClkEdge ==
  /\ ClkSide(TRUE, start_toggle_tck, addr_tck, wdata_tck, rw_tck)
  /\ UNCHANGED <<requestVars, tckVars>>

(* What each domain samples of the other is old or new.                    *)
BothSides(done, ok, rdata) ==
  /\ TckSide(TRUE, done, ok, rdata)
  /\ \E toggle \in {start_toggle_tck, start_toggle_tck'}, rw \in {rw_tck, rw_tck'},
        addr \in Mix(addr_tck, addr_tck'), wdata \in Mix(wdata_tck, wdata_tck') :
       ClkSide(TRUE, toggle, addr, wdata, rw)
  /\ done \in {done_toggle_clk, done_toggle_clk'} /\ ok \in {resp_ok, resp_ok'}
  /\ rdata \in Mix(rdata_reg, rdata_reg')

BothEdges ==
  /\ Request
  /\ \E done, ok \in BOOLEAN, rdata \in Data : BothSides(done, ok, rdata)

Next == TckEdge \/ ClkEdge

Spec == Init /\ [][Next]_bridgeVars

-----------------------------------------------------------------------------
(* A transaction on its way to the bus, or on it.                          *)
InFlight == state # "IDLE" \/ start_toggle_tck # start_toggle_sync2_d
=============================================================================
