---------------------------- MODULE JtagResetProofs ----------------------------
(***************************************************************************)
(* The handshake of the bridge (JtagReset) for every Addr, Data and Mix:   *)
(* whatever the ratio of the clocks, with coinciding edges and resets, the *)
(* two sides agree and the payloads cross whole.                           *)
(***************************************************************************)
EXTENDS JtagReset, TLAPS

(* The toggle of a START travels start_toggle_tck -> sync1 -> sync2 ->     *)
(* sync2_d, then done_toggle_clk -> sync1 -> sync2 back.  Either all seven *)
(* agree, or those from some point on still hold the value before it.      *)
Quiet ==
  /\ start_toggle_sync1 = start_toggle_tck /\ start_toggle_sync2 = start_toggle_tck
  /\ start_toggle_sync2_d = start_toggle_tck /\ done_toggle_clk = start_toggle_tck
  /\ done_toggle_sync1 = start_toggle_tck /\ done_toggle_sync2 = start_toggle_tck

Underway ==
  /\ start_toggle_tck # done_toggle_sync2 /\ ~start_pulse_tck
  /\ start_toggle_sync1 = done_toggle_sync2 => start_toggle_sync2 = done_toggle_sync2
  /\ start_toggle_sync2 = done_toggle_sync2 => start_toggle_sync2_d = done_toggle_sync2
  /\ start_toggle_sync2_d = done_toggle_sync2 => done_toggle_clk = done_toggle_sync2
  /\ done_toggle_clk = done_toggle_sync2 => done_toggle_sync1 = done_toggle_sync2

InStep ==
  /\ state = "IDLE" <=> start_toggle_sync2_d = done_toggle_clk
  /\ Quiet \/ Underway

OnBus ==
  state # "IDLE" =>
    /\ bus_addr = addr_tck /\ bus_wdata = wdata_tck
    /\ rw_tck <=> state \in {"RD_GO", "RD_R"}

(* Edges apart: a first flop that has seen the toggle has seen the word.   *)
ResponseFollows ==
  /\ done_toggle_clk = done_toggle_sync1 => rdata_sync1 = rdata_reg /\ resp_ok_sync1 = resp_ok
  /\ done_toggle_clk = done_toggle_sync1 /\ done_toggle_clk = done_toggle_sync2 =>
       rdata_sync2 = rdata_reg /\ resp_ok_sync2 = resp_ok

ResetTypeOK ==
  /\ environment \in Environments
  /\ {resetn, resetn_clk_meta, resetn_clk_sync, clkHasReset,
      resetn_tck_meta, resetn_tck_sync, tckHasReset, asked} \subseteq BOOLEAN

(* A synchronizer is up only while resetn is; without resets it stays up.  *)
SyncsFollow ==
  /\ resetn_clk_meta \/ resetn_clk_sync \/ resetn_tck_meta \/ resetn_tck_sync => resetn
  /\ NoReset => resetn /\ resetn_clk_meta /\ resetn_clk_sync /\ resetn_tck_meta /\ resetn_tck_sync
  /\ environment = "held" /\ resetn => clkHasReset /\ tckHasReset

(* Held resets: a side that has been reset stays at rest until a START.    *)
AtRest ==
  environment = "held" /\ ~asked =>
    /\ tckHasReset =>
         ~start_pulse_tck /\ ~start_toggle_tck /\ ~done_toggle_sync1 /\ ~done_toggle_sync2
    /\ clkHasReset =>
         /\ state = "IDLE" /\ ~start_toggle_sync1 /\ ~start_toggle_sync2
         /\ ~start_toggle_sync2_d /\ ~done_toggle_clk

Inductive ==
  /\ TypeOK /\ ResetTypeOK /\ SyncsFollow /\ EveryResetReachesBothDomains /\ AtRest
  /\ NoReset => InStep /\ OnBus
  /\ environment = "apart" => ResponseFollows

-----------------------------------------------------------------------------
(* What an edge of clk does to the state machine and its toggle.           *)
BusStep(toggle, addr, wdata, rw) ==
  /\ start_toggle_sync1' = toggle /\ start_toggle_sync2' = start_toggle_sync1
  /\ start_toggle_sync2_d' = start_toggle_sync2
  /\ \/ /\ state' = state /\ done_toggle_clk' = done_toggle_clk
        /\ state = "IDLE" => ~start_pulse_clk
        /\ UNCHANGED <<bus_addr, bus_wdata, rdata_reg, resp_ok>>
     \/ /\ state # "IDLE" /\ state' # "IDLE" /\ done_toggle_clk' = done_toggle_clk
        /\ state \in {"RD_GO", "RD_R"} <=> state' \in {"RD_GO", "RD_R"}
        /\ UNCHANGED <<bus_addr, bus_wdata, rdata_reg, resp_ok>>
     \/ /\ state = "IDLE" /\ start_pulse_clk /\ state' # "IDLE"
        /\ rw <=> state' \in {"RD_GO", "RD_R"}
        /\ bus_addr' = addr /\ bus_wdata' = wdata
        /\ UNCHANGED <<done_toggle_clk, rdata_reg, resp_ok>>
     \/ /\ state # "IDLE" /\ state' = "IDLE" /\ done_toggle_clk' = ~done_toggle_clk
        /\ UNCHANGED <<bus_addr, bus_wdata>>

(* Every state of the bus master's machine takes one of those steps.       *)
LEMMA BusSteps ==
  ASSUME NEW toggle, NEW addr, NEW wdata, NEW rw, {rw} \subseteq BOOLEAN, TypeOK,
         ClkSide(TRUE, toggle, addr, wdata, rw)
  PROVE  BusStep(toggle, addr, wdata, rw)
BY DEF BusStep, TypeOK, ClkSide, BusIdle, BusWriteGo, BusWriteResponse, BusReadGo, BusReadData

(* An edge of clk keeps the types, in reset or not.                        *)
LEMMA ClkSideType ==
  ASSUME TypeOK, NEW resetting, NEW toggle, NEW addr \in Addr, NEW wdata \in Data, NEW rw,
         {toggle, rw} \subseteq BOOLEAN, ClkSide(resetting, toggle, addr, wdata, rw)
  PROVE  /\ {start_toggle_sync1, start_toggle_sync2, start_toggle_sync2_d, aw_done, w_done,
             done_toggle_clk, resp_ok}' \subseteq BOOLEAN
         /\ bus_addr' \in Addr /\ {bus_wdata, rdata_reg}' \subseteq Data
         /\ state' \in {"IDLE", "WR_GO", "WR_B", "RD_GO", "RD_R"}
         /\ state' = "WR_B" => aw_done' /\ w_done'
<1>1. CASE resetting /\ BusIdle(addr, wdata, rw)  BY <1>1 DEF TypeOK, ClkSide, BusIdle
<1>2. CASE resetting /\ BusWriteGo  BY <1>2 DEF TypeOK, ClkSide, BusWriteGo
<1>3. CASE resetting /\ BusWriteResponse  BY <1>3 DEF TypeOK, ClkSide, BusWriteResponse
<1>4. CASE resetting /\ BusReadGo  BY <1>4 DEF TypeOK, ClkSide, BusReadGo
<1>5. CASE resetting /\ BusReadData  BY <1>5 DEF TypeOK, ClkSide, BusReadData
<1>6. CASE ~resetting  BY <1>6 DEF TypeOK, ClkSide
<1>. QED BY <1>1, <1>2, <1>3, <1>4, <1>5, <1>6 DEF ClkSide

(* And so does an edge of tck.                                             *)
LEMMA TckSideType ==
  ASSUME TypeOK, NEW resetting, NEW done \in BOOLEAN, NEW ok \in BOOLEAN, NEW rdata \in Data,
         TckSide(resetting, done, ok, rdata)
  PROVE  /\ {start_toggle_tck, done_toggle_sync1, done_toggle_sync2, resp_ok_sync1,
             resp_ok_sync2}' \subseteq BOOLEAN
         /\ {rdata_sync1, rdata_sync2}' \subseteq Data
BY DEF TypeOK, TckSide

LEMMA RequestType ==
  ASSUME TypeOK, RequestOrReset \/ Request
  PROVE  {start_pulse_tck, rw_tck}' \subseteq BOOLEAN /\ addr_tck' \in Addr /\ wdata_tck' \in Data
BY DEF TypeOK, RequestOrReset, Request

-----------------------------------------------------------------------------
(* The two domains at once: what each samples of the other is old or new.  *)
LEMMA Coincide ==
  ASSUME TypeOK, BothEdges
  PROVE  /\ TypeOK'
         /\ Request
         /\ start_toggle_tck' = (start_toggle_tck # start_pulse_tck)
         /\ done_toggle_sync1' \in {done_toggle_clk, done_toggle_clk'}
         /\ done_toggle_sync2' = done_toggle_sync1
         /\ \E toggle \in {start_toggle_tck, start_toggle_tck'}, rw \in {rw_tck, rw_tck'},
               addr \in Mix(addr_tck, addr_tck'), wdata \in Mix(wdata_tck, wdata_tck') :
              BusStep(toggle, addr, wdata, rw)
<1>1. Request  BY DEF BothEdges
<1>2. PICK done \in BOOLEAN, ok \in BOOLEAN, rdata \in Data : BothSides(done, ok, rdata)
  BY DEF BothEdges
<1>3. PICK toggle \in {start_toggle_tck, start_toggle_tck'}, rw \in {rw_tck, rw_tck'},
           addr \in Mix(addr_tck, addr_tck'), wdata \in Mix(wdata_tck, wdata_tck') :
        ClkSide(TRUE, toggle, addr, wdata, rw)
  BY <1>2 DEF BothSides
<1>4. /\ start_toggle_tck' = (start_toggle_tck # start_pulse_tck)
      /\ done_toggle_sync1' = done /\ done_toggle_sync2' = done_toggle_sync1
      /\ done \in {done_toggle_clk, done_toggle_clk'}
      /\ TckSide(TRUE, done, ok, rdata)
  BY <1>2 DEF BothSides, TckSide
<1>5. /\ {start_pulse_tck, rw_tck}' \subseteq BOOLEAN /\ addr_tck' \in Addr /\ wdata_tck' \in Data
      /\ {start_toggle_tck, done_toggle_sync1, done_toggle_sync2, resp_ok_sync1,
          resp_ok_sync2}' \subseteq BOOLEAN
      /\ {rdata_sync1, rdata_sync2}' \subseteq Data
  BY <1>1, <1>4, RequestType, TckSideType
<1>6. toggle \in BOOLEAN /\ rw \in BOOLEAN /\ addr \in Addr /\ wdata \in Data
  BY <1>5, BridgeAssumption DEF TypeOK
<1>7. TypeOK'
  <2>1. /\ {start_toggle_sync1, start_toggle_sync2, start_toggle_sync2_d, aw_done, w_done,
            done_toggle_clk, resp_ok}' \subseteq BOOLEAN
        /\ bus_addr' \in Addr /\ {bus_wdata, rdata_reg}' \subseteq Data
        /\ state' \in {"IDLE", "WR_GO", "WR_B", "RD_GO", "RD_R"}
        /\ state' = "WR_B" => aw_done' /\ w_done'
    BY <1>3, <1>6, ClkSideType
  <2>. QED BY <1>5, <2>1 DEF TypeOK
<1>8. BusStep(toggle, addr, wdata, rw)  BY <1>3, <1>6, BusSteps
<1>. QED BY <1>1, <1>4, <1>7, <1>8

(* No edge, and no two edges at once, get the toggles out of step.         *)
LEMMA TckInStep ==
  ASSUME TypeOK, TypeOK', InStep, OnBus, Request, UNCHANGED clkVars,
         TckSide(TRUE, done_toggle_clk, resp_ok, rdata_reg)
  PROVE  InStep' /\ OnBus'
<1>1. InStep'
  BY DEF TypeOK, InStep, Quiet, Underway, Request, TckSide, MayAsk, busy_tck, clkVars
<1>2. OnBus'
  BY DEF TypeOK, InStep, Quiet, Underway, OnBus, Request, MayAsk, busy_tck, clkVars
<1>. QED BY <1>1, <1>2

LEMMA ClkInStep ==
  ASSUME TypeOK, TypeOK', InStep, OnBus,
         BusStep(start_toggle_tck, addr_tck, wdata_tck, rw_tck), UNCHANGED <<requestVars, tckVars>>
  PROVE  InStep' /\ OnBus'
<1>1. InStep'
  BY DEF BusStep, TypeOK, InStep, Quiet, Underway, start_pulse_clk, requestVars, tckVars
<1>2. OnBus'  BY DEF BusStep, TypeOK, OnBus, requestVars
<1>. QED BY <1>1, <1>2

LEMMA BothInStep ==
  ASSUME TypeOK, InStep, OnBus, BothEdges
  PROVE  InStep' /\ OnBus'
<1>1. PICK toggle \in {start_toggle_tck, start_toggle_tck'}, rw \in {rw_tck, rw_tck'},
           addr \in Mix(addr_tck, addr_tck'), wdata \in Mix(wdata_tck, wdata_tck') :
        BusStep(toggle, addr, wdata, rw)
  BY Coincide
<1>2. InStep'
  <2>1. /\ start_toggle_tck' = (start_toggle_tck # start_pulse_tck)
        /\ done_toggle_sync1' \in {done_toggle_clk, done_toggle_clk'}
        /\ done_toggle_sync2' = done_toggle_sync1
        /\ TypeOK' /\ Request
    BY Coincide
  <2>2. busy_tck \/ start_pulse_tck => ~start_pulse_tck'
    BY <2>1 DEF Request, MayAsk
  <2>3. toggle \in {start_toggle_tck, start_toggle_tck'}
    OBVIOUS
  <2>4. CASE Quiet
    BY <1>1, <2>1, <2>2, <2>3, <2>4 DEF BusStep, TypeOK, InStep, Quiet, Underway, start_pulse_clk,
                                        busy_tck
  <2>5. CASE Underway
    BY <1>1, <2>1, <2>2, <2>3, <2>5 DEF BusStep, TypeOK, InStep, Quiet, Underway, start_pulse_clk,
                                        busy_tck
  <2>. QED BY <2>4, <2>5 DEF InStep
<1>3. ASSUME Underway
      PROVE  OnBus'
  <2>1. UNCHANGED <<rw_tck, addr_tck, wdata_tck>>
    BY <1>3, Coincide DEF Underway, Request, MayAsk, busy_tck
  <2>2. addr = addr_tck /\ wdata = wdata_tck /\ rw = rw_tck
    BY <2>1, BridgeAssumption DEF TypeOK
  <2>. QED BY <1>1, <2>1, <2>2 DEF BusStep, TypeOK, OnBus
<1>4. ASSUME Quiet
      PROVE  OnBus'
  BY <1>1, <1>4 DEF BusStep, TypeOK, OnBus, InStep, Quiet, start_pulse_clk
<1>. QED BY <1>2, <1>3, <1>4 DEF InStep

-----------------------------------------------------------------------------
LEMMA InductiveInit == ResetInit => Inductive
BY BridgeAssumption
   DEF ResetInit, Init, RequestInit, TckInit, ClkInit, Inductive, TypeOK, ResetTypeOK, SyncsFollow,
       EveryResetReachesBothDomains, AtRest, NoReset, InStep, Quiet, OnBus, ResponseFollows,
       Environments

LEMMA TckKeeps == ASSUME Inductive, TckEdgeOrReset PROVE Inductive'
<1>. USE DEF Inductive
<1>1. TypeOK'
  <2>1. /\ {start_pulse_tck, rw_tck}' \subseteq BOOLEAN /\ addr_tck' \in Addr /\ wdata_tck' \in Data
    BY RequestType DEF TckEdgeOrReset
  <2>2. /\ {start_toggle_tck, done_toggle_sync1, done_toggle_sync2, resp_ok_sync1,
            resp_ok_sync2}' \subseteq BOOLEAN
        /\ {rdata_sync1, rdata_sync2}' \subseteq Data
    BY TckSideType DEF TckEdgeOrReset, TypeOK
  <2>. QED BY <2>1, <2>2 DEF TypeOK, TckEdgeOrReset, clkVars
<1>2. ResetTypeOK'
  BY <1>1 DEF TypeOK, ResetTypeOK, TckEdgeOrReset, SyncTck, clkSyncVars
<1>3. SyncsFollow' /\ EveryResetReachesBothDomains'
  BY DEF ResetTypeOK, SyncsFollow, EveryResetReachesBothDomains, NoReset, TckEdgeOrReset, SyncTck,
         clkSyncVars
<1>4. AtRest'
  BY <1>1, <1>2 DEF TypeOK, ResetTypeOK, SyncsFollow, EveryResetReachesBothDomains, AtRest,
         TckEdgeOrReset, SyncTck, clkSyncVars, clkVars, TckSide, RequestOrReset
<1>5. NoReset' => InStep' /\ OnBus'
  BY <1>1, TckInStep DEF SyncsFollow, NoReset, TckEdgeOrReset, RequestOrReset
<1>6. environment' = "apart" => ResponseFollows'
  BY DEF SyncsFollow, NoReset, TckEdgeOrReset, TckSide, ResponseFollows, clkVars
<1>. QED BY <1>1, <1>2, <1>3, <1>4, <1>5, <1>6

LEMMA ClkKeeps == ASSUME Inductive, ClkEdgeOrReset PROVE Inductive'
<1>. USE DEF Inductive
<1>1. TypeOK'
  <2>1. /\ {start_toggle_sync1, start_toggle_sync2, start_toggle_sync2_d, aw_done, w_done,
            done_toggle_clk, resp_ok}' \subseteq BOOLEAN
        /\ bus_addr' \in Addr /\ {bus_wdata, rdata_reg}' \subseteq Data
        /\ state' \in {"IDLE", "WR_GO", "WR_B", "RD_GO", "RD_R"}
        /\ state' = "WR_B" => aw_done' /\ w_done'
    <3>. /\ start_toggle_tck \in BOOLEAN /\ addr_tck \in Addr /\ wdata_tck \in Data
         /\ rw_tck \in BOOLEAN
      BY DEF TypeOK
    <3>. QED BY ClkSideType DEF ClkEdgeOrReset
  <2>. QED BY <2>1 DEF TypeOK, ClkEdgeOrReset, requestVars, tckVars
<1>2. ResetTypeOK'  BY DEF ResetTypeOK, ClkEdgeOrReset, SyncClk, tckSyncVars
<1>3. SyncsFollow' /\ EveryResetReachesBothDomains'
  BY DEF ResetTypeOK, SyncsFollow, EveryResetReachesBothDomains, NoReset, ClkEdgeOrReset, SyncClk,
         tckSyncVars
<1>4. resetn_clk_sync => BusStep(start_toggle_tck, addr_tck, wdata_tck, rw_tck)
  BY BusSteps DEF TypeOK, ResetTypeOK, ClkEdgeOrReset
<1>5. AtRest'
  <2>1. CASE resetn_clk_sync
    BY <1>4, <2>1 DEF BusStep, TypeOK, ResetTypeOK, SyncsFollow, AtRest, ClkEdgeOrReset, SyncClk,
           tckSyncVars, requestVars, tckVars, start_pulse_clk
  <2>2. CASE ~resetn_clk_sync
    BY <2>2 DEF ClkSide, AtRest, ClkEdgeOrReset, tckSyncVars, requestVars, tckVars
  <2>. QED BY <2>1, <2>2
<1>6. NoReset' => InStep' /\ OnBus'
  BY <1>1, <1>4, ClkInStep DEF SyncsFollow, NoReset, ClkEdgeOrReset
<1>7. environment' = "apart" => ResponseFollows'
  BY <1>4 DEF BusStep, TypeOK, SyncsFollow, NoReset, ClkEdgeOrReset, ResponseFollows, tckVars,
         InStep, Quiet, Underway
<1>. QED BY <1>1, <1>2, <1>3, <1>5, <1>6, <1>7

LEMMA CoincidingKeeps == ASSUME Inductive, CoincidingEdges PROVE Inductive'
<1>. USE DEF Inductive
<1>1. environment = "together" /\ BothEdges  BY DEF CoincidingEdges
<1>2. TypeOK'  BY <1>1, Coincide
<1>3. InStep' /\ OnBus'  BY <1>1, BothInStep DEF NoReset
<1>4. ResetTypeOK' /\ SyncsFollow' /\ EveryResetReachesBothDomains'
  BY <1>2 DEF TypeOK, ResetTypeOK, SyncsFollow, EveryResetReachesBothDomains, NoReset,
              CoincidingEdges, clkSyncVars, tckSyncVars
<1>. QED BY <1>1, <1>2, <1>3, <1>4 DEF AtRest, CoincidingEdges

LEMMA ResetKeeps == ASSUME Inductive, Assert \/ Release PROVE Inductive'
<1>1. ResetTypeOK' /\ SyncsFollow' /\ EveryResetReachesBothDomains'
  <2>1. CASE Assert
    BY <2>1 DEF Inductive, ResetTypeOK, SyncsFollow, EveryResetReachesBothDomains, NoReset, Assert
  <2>2. CASE Release
    BY <2>2 DEF Inductive, ResetTypeOK, SyncsFollow, EveryResetReachesBothDomains, NoReset,
                Release, clkSyncVars, tckSyncVars
  <2>. QED BY <2>1, <2>2
<1>2. UNCHANGED <<environment, bridgeVars>>  BY DEF Assert, Release
<1>3. AtRest'
  BY <1>2 DEF Inductive, AtRest, Assert, Release, clkSyncVars, tckSyncVars, bridgeVars, requestVars,
         tckVars, clkVars
<1>4. TypeOK' /\ ((NoReset => InStep /\ OnBus) /\ (environment = "apart" => ResponseFollows))'
  BY <1>2 DEF Inductive, TypeOK, NoReset, InStep, Quiet, Underway, OnBus, ResponseFollows,
              bridgeVars, requestVars, tckVars, clkVars
<1>. QED BY <1>1, <1>3, <1>4 DEF Inductive

LEMMA StutterKeeps == ASSUME Inductive, UNCHANGED vars PROVE Inductive'
BY DEF Inductive, TypeOK, ResetTypeOK, SyncsFollow, EveryResetReachesBothDomains, AtRest, NoReset,
       InStep, Quiet, Underway, OnBus, ResponseFollows, vars, resetVars, clkSyncVars, tckSyncVars,
       bridgeVars, requestVars, tckVars, clkVars

LEMMA InductiveAlways == ResetSpec => []Inductive
<1>1. Inductive /\ [ResetNext]_vars => Inductive'
  BY TckKeeps, ClkKeeps, CoincidingKeeps, ResetKeeps, StutterKeeps DEF ResetNext
<1>. QED BY <1>1, InductiveInit, PTL DEF ResetSpec

-----------------------------------------------------------------------------
(* The handshake of jtag_axi_bridge.v keeps its two sides in agreement:    *)
(* BUSY covers everything in flight, a reset reaches both domains, and     *)
(* after a held one neither side acts before a START.                      *)
THEOREM HandshakeAgrees == ResetSpec => []HandshakeInv
<1>1. Inductive => HandshakeInv
  <2>. SUFFICES ASSUME Inductive PROVE HandshakeInv
    OBVIOUS
  <2>1. TypeOK /\ EveryResetReachesBothDomains  BY DEF Inductive
  <2>2. InFlightIsBusy
    BY DEF Inductive, InFlightIsBusy, InFlight, busy_tck, InStep, Quiet, Underway
  <2>3. BusyIsAsked /\ BusIsAsked
    BY DEF Inductive, BusyIsAsked, BusIsAsked, AtRest, EveryResetReachesBothDomains, busy_tck,
              TypeOK
  <2>. QED BY <2>1, <2>2, <2>3 DEF HandshakeInv
<1>. QED BY <1>1, InductiveAlways, PTL

(* The address, data and direction on the bus are those asked for, and the *)
(* response seen with BUSY down is the last one, although none of them is  *)
(* synchronized but by the toggles.                                        *)
THEOREM PayloadsCrossWhole == ResetSpec => []PayloadsArrive
<1>1. Inductive => PayloadsArrive
  <2>. SUFFICES ASSUME Inductive PROVE PayloadsArrive
    OBVIOUS
  <2>1. BusHasTheRequest  BY DEF Inductive, BusHasTheRequest, OnBus
  <2>2. ResponseHasArrived
    BY DEF Inductive, ResponseHasArrived, ResponseFollows, NoReset, busy_tck, InStep, Quiet,
           Underway
  <2>. QED BY <2>1, <2>2 DEF PayloadsArrive
<1>. QED BY <1>1, InductiveAlways, PTL
=============================================================================
