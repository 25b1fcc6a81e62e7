-------------------------- MODULE JtagChainProofs --------------------------
(***************************************************************************)
(* The probe's way to the bus, proved: the walks of the TAP for data       *)
(* registers of any width; the debugger, and the three benches, for any    *)
(* width from 24 bits on, any transactions and any words, bit by bit.      *)
(*                                                                         *)
(* The invariant says at each edge of each scan what has been shifted in,  *)
(* what is still to come out, and how far the bridge is.                   *)
(***************************************************************************)
EXTENDS MCJtagChain, TLAPS

(* What JtagResetProofs shows of the handshake, here without resets and    *)
(* without coinciding edges.                                               *)
Handshake == INSTANCE JtagResetProofs WITH
  addr_tck <- addr_reg, wdata_tck <- data_reg, Addr <- Dr(DrBits), Data <- Words,
  NoAddr <- Zero(DrBits), NoData <- Zero(DrBits), Mix <- LAMBDA a, b : {a, b},
  environment <- "apart", resetn <- TRUE, asked <- FALSE,
  resetn_clk_meta <- TRUE, resetn_clk_sync <- TRUE, clkHasReset <- TRUE,
  resetn_tck_meta <- TRUE, resetn_tck_sync <- TRUE, tckHasReset <- TRUE

(* Where the last k edges with TMS = 1 can have led.                       *)
AfterOnes(k) ==
  CASE k = 0 -> TapStates
    [] k = 1 -> {"TEST_LOGIC_RESET", "SELECT_DR_SCAN", "SELECT_IR_SCAN", "EXIT1_DR", "EXIT2_DR",
                 "UPDATE_DR", "EXIT1_IR", "EXIT2_IR", "UPDATE_IR"}
    [] k = 2 -> {"TEST_LOGIC_RESET", "SELECT_DR_SCAN", "SELECT_IR_SCAN", "UPDATE_DR", "UPDATE_IR"}
    [] k = 3 -> {"TEST_LOGIC_RESET", "SELECT_DR_SCAN", "SELECT_IR_SCAN"}
    [] k = 4 -> {"TEST_LOGIC_RESET", "SELECT_IR_SCAN"}
    [] OTHER -> {"TEST_LOGIC_RESET"}

(* From the first shift of a data scan to the end of it.                   *)
InDrScan == state_r \in {"SHIFT_DR", "EXIT1_DR", "PAUSE_DR", "EXIT2_DR", "UPDATE_DR"}

WalkInv ==
  /\ Walk!DtmTypeOK
  /\ ones \in 0 .. 6 /\ bits \in Dr(WalkBits) /\ count \in 0 .. WalkBits
  /\ state_r \in AfterOnes(ones) /\ (ones = 6 => ir_reg = IR_IDCODE)
  /\ InDrScan =>
       /\ ir_reg # IR_BYPASS => \A i \in WalkBits - count + 1 .. WalkBits : dr_shift[i] = bits[i]
       /\ ir_reg = IR_BYPASS => bypass_reg = IF count = 0 THEN 0 ELSE bits[WalkBits]
  /\ state_r = model_state

LEMMA ShiftOne ==
  ASSUME NEW n \in Nat \ {0}, NEW w \in Dr(n), NEW b \in Bit
  PROVE  /\ ShiftRight(w, n, b) \in Dr(n)
         /\ ShiftRight(w, n, b)[n] = b
         /\ \A i \in 1 .. n - 1 : ShiftRight(w, n, b)[i] = w[i + 1]
BY DEF ShiftRight, Dr, Bit

(* Two words that agree in their k highest bits agree in one more when the *)
(* same bit is shifted into both.                                          *)
LEMMA ShiftBoth ==
  ASSUME NEW n \in Nat \ {0}, NEW v \in Dr(n), NEW w \in Dr(n), NEW b \in Bit,
         NEW k \in 0 .. n, \A i \in n - k + 1 .. n : v[i] = w[i],
         NEW m \in 0 .. n, m <= k + 1
  PROVE  \A i \in n - m + 1 .. n : ShiftRight(v, n, b)[i] = ShiftRight(w, n, b)[i]
<1>. SUFFICES ASSUME NEW i \in n - m + 1 .. n
     PROVE  ShiftRight(v, n, b)[i] = ShiftRight(w, n, b)[i]
  OBVIOUS
<1>1. i \in 1 .. n /\ (i # n => i + 1 \in n - k + 1 .. n)
  OBVIOUS
<1>. QED BY <1>1 DEF ShiftRight

LEMMA ZeroType == ASSUME NEW n \in Nat PROVE Zero(n) \in Dr(n)
BY DEF Zero, Dr, Bit

LEMMA CodesAreWords ==
  {IR_IDCODE, IR_AXI_ADDR, IR_AXI_DATA, IR_AXI_CTRL, IR_BYPASS, <<1, 0, 1, 0>>} \subseteq Dr(4)
BY DEF IR_IDCODE, IR_AXI_ADDR, IR_AXI_DATA, IR_AXI_CTRL, IR_BYPASS, Dr, Bit

(* The definitions of the TAP and the DTM that no width enters.            *)
LEMMA SameModule ==
  /\ Walk!IR_IDCODE = IR_IDCODE /\ Walk!IR_AXI_ADDR = IR_AXI_ADDR
  /\ Walk!IR_AXI_DATA = IR_AXI_DATA /\ Walk!IR_AXI_CTRL = IR_AXI_CTRL
  /\ Walk!IR_BYPASS = IR_BYPASS /\ Walk!Named = Named
  /\ Walk!Bit = Bit /\ Walk!Ir = Dr(4)
  /\ \A n : Walk!Dr(n) = Dr(n) /\ Walk!Zero(n) = Zero(n)
  /\ \A n, w, b : Walk!ShiftRight(w, n, b) = ShiftRight(w, n, b)
BY DEF Walk!IR_IDCODE, IR_IDCODE, Walk!IR_AXI_ADDR, IR_AXI_ADDR, Walk!IR_AXI_DATA, IR_AXI_DATA,
       Walk!IR_AXI_CTRL, IR_AXI_CTRL, Walk!IR_BYPASS, IR_BYPASS, Walk!Named, Named, Walk!Bit, Bit,
       Walk!Ir, Walk!IrBits, Walk!Dr, Dr, Walk!Zero, Zero, Walk!ShiftRight, ShiftRight

LEMMA WalkBegins == Walk!DtmInit /\ ScanInit => WalkInv
<1>. SUFFICES ASSUME Walk!DtmInit, ScanInit PROVE WalkInv
  OBVIOUS
<1>. WalkBits \in Nat /\ WalkBits >= 2  BY WalkAssumption DEF Walk!DtmAssumption
<1>1. /\ state_r = "TEST_LOGIC_RESET" /\ ir_reg = IR_IDCODE /\ ir_shift = Zero(4)
      /\ dr_shift = Zero(WalkBits) /\ addr_reg = Zero(WalkBits) /\ data_reg = Zero(WalkBits)
      /\ bypass_reg = 0 /\ ~bridge_busy_prev /\ ~start_pulse_tck /\ ~rw_tck
      /\ ones = 6 /\ bits = Zero(WalkBits) /\ count = 0 /\ model_state = "TEST_LOGIC_RESET"
  BY SameModule DEF Walk!DtmInit, Walk!TapInit, ScanInit, Walk!IrBits
<1>2. Walk!DtmTypeOK
  <2>1. state_r \in Walk!TapStates  BY <1>1 DEF Walk!TapStates, Walk!onZero
  <2>2. {ir_shift, ir_reg} \subseteq Walk!Ir  BY <1>1, SameModule, ZeroType, CodesAreWords
  <2>3. {dr_shift, addr_reg, data_reg} \subseteq Walk!Dr(WalkBits)
    BY <1>1, SameModule, ZeroType
  <2>4. bypass_reg \in Walk!Bit  BY <1>1 DEF Walk!Bit
  <2>5. {bridge_busy_prev, start_pulse_tck, rw_tck} \subseteq BOOLEAN
    BY DEF Walk!DtmInit
  <2>. QED BY <2>1, <2>2, <2>3, <2>4, <2>5 DEF Walk!DtmTypeOK
<1>. QED BY <1>1, <1>2, ZeroType DEF WalkInv, AfterOnes, InDrScan

(* One edge of a walk.                                                     *)
LEMMA WalkGoes ==
  ASSUME WalkInv, NEW tms \in Bit, NEW tdi \in Bit, AnyEdge(tms, tdi)
  PROVE  WalkInv'
<1>. WalkBits \in Nat /\ WalkBits >= 2  BY WalkAssumption DEF Walk!DtmAssumption
<1>1. state_r' \in TapStates /\ state_r' \in AfterOnes(ones') /\ state_r' = model_state'
      /\ ones' \in 0 .. 6
  <2>1. state_r' = next_state(state_r, tms) /\ model_state' = model_next(state_r, tms)
        /\ ones' = (IF tms = 0 THEN 0 ELSE IF ones = 6 THEN 6 ELSE ones + 1)
    BY DEF WalkInv, AnyEdge, Walk!DtmEdge, Walk!TapEdge, Walk!next_state, Walk!onOne, Walk!onZero,
           next_state, onOne, onZero
  <2>2. state_r \in TapStates /\ state_r \in AfterOnes(ones) /\ ones \in 0 .. 6
    BY DEF WalkInv, Walk!DtmTypeOK, Walk!TapStates, Walk!onZero, TapStates, onZero
  <2>3. state_r' \in TapStates
    BY <2>1, <2>2 DEF next_state, onOne, onZero, TapStates, Bit
  <2>4. state_r' \in AfterOnes(ones')
    <3>1. CASE tms = 0  BY <2>1, <2>3, <3>1 DEF AfterOnes
    <3>2. CASE tms = 1 /\ ones = 0
      BY <2>1, <2>2, <3>2 DEF AfterOnes, next_state, onOne, onZero, TapStates
    <3>3. CASE tms = 1 /\ ones = 1
      BY <2>1, <2>2, <3>3 DEF AfterOnes, next_state, onOne, onZero, TapStates
    <3>4. CASE tms = 1 /\ ones = 2
      BY <2>1, <2>2, <3>4 DEF AfterOnes, next_state, onOne, onZero, TapStates
    <3>5. CASE tms = 1 /\ ones = 3
      BY <2>1, <2>2, <3>5 DEF AfterOnes, next_state, onOne, onZero, TapStates
    <3>6. CASE tms = 1 /\ ones \in 4 .. 6
      BY <2>1, <2>2, <3>6 DEF AfterOnes, next_state, onOne, onZero, TapStates
    <3>. QED BY <2>2, <3>1, <3>2, <3>3, <3>4, <3>5, <3>6 DEF Bit
  <2>5. state_r' = model_state'
    BY <2>1, <2>2 DEF next_state, onOne, onZero, TapStates, model_next, Bit
  <2>. QED BY <2>1, <2>2, <2>3, <2>4, <2>5
<1>2. CASE state_r = "TEST_LOGIC_RESET"
  <2>1. /\ ir_reg' = IR_IDCODE /\ ~start_pulse_tck' /\ ~bridge_busy_prev'
        /\ start_pulse_tck' \in BOOLEAN /\ bridge_busy_prev' \in BOOLEAN
        /\ UNCHANGED <<ir_shift, dr_shift, bypass_reg, addr_reg, data_reg, rw_tck, bits, count>>
        /\ state_r' \in {"TEST_LOGIC_RESET", "RUN_TEST_IDLE"}
    BY <1>2, SameModule
    DEF AnyEdge, Walk!DtmEdge, Walk!test_logic_reset, Walk!TapEdge, Walk!next_state, Walk!onOne,
        Walk!onZero, Bit
  <2>2. Walk!DtmTypeOK'
    BY <1>1, <2>1, SameModule, CodesAreWords
    DEF WalkInv, Walk!DtmTypeOK, Walk!TapStates, Walk!onZero, TapStates, onZero
  <2>. QED BY <1>1, <2>1, <2>2 DEF WalkInv, InDrScan
<1>3. CASE state_r # "TEST_LOGIC_RESET"
  <2>1. /\ Walk!IrRegisters(tdi) /\ Walk!ScanRegisters(tdi, FALSE, FALSE)
        /\ Walk!UpdateRegisters(FALSE, Zero(WalkBits)) /\ bridge_busy_prev' = FALSE
    BY <1>3 DEF AnyEdge, Walk!DtmEdge, Walk!test_logic_reset
  <2>2. /\ ir_shift \in Dr(4) /\ ir_reg \in Dr(4) /\ dr_shift \in Dr(WalkBits)
        /\ addr_reg \in Dr(WalkBits) /\ data_reg \in Dr(WalkBits) /\ bypass_reg \in Bit
        /\ rw_tck \in BOOLEAN /\ bits \in Dr(WalkBits) /\ count \in 0 .. WalkBits
    BY SameModule DEF WalkInv, Walk!DtmTypeOK
  <2>3. ir_shift' \in Dr(4) /\ ir_reg' \in Dr(4)
    BY <2>1, <2>2, SameModule, ShiftOne, CodesAreWords DEF Walk!IrRegisters, Walk!IrBits
  <2>4. Walk!Captured(FALSE, FALSE) \in Dr(WalkBits)
    BY <2>2, SameModule, WalkAssumption
    DEF Walk!Captured, Walk!Ctrl, Walk!DtmAssumption, Walk!Flag, Dr, Bit
  <2>5. dr_shift' \in Dr(WalkBits) /\ bypass_reg' \in Bit
    <3>1. ShiftRight(dr_shift, WalkBits, tdi) \in Dr(WalkBits)  BY <2>2, ShiftOne
    <3>. QED BY <2>1, <2>2, <2>4, <3>1, SameModule DEF Walk!ScanRegisters, Bit
  <2>6. /\ addr_reg' \in Dr(WalkBits) /\ data_reg' \in Dr(WalkBits)
        /\ {bridge_busy_prev, start_pulse_tck, rw_tck}' \subseteq BOOLEAN
    BY <2>1, <2>2, ZeroType DEF Walk!UpdateRegisters, Walk!Starts, Walk!updates
  <2>7. Walk!DtmTypeOK'
    BY <1>1, <2>3, <2>5, <2>6, SameModule
    DEF Walk!DtmTypeOK, Walk!TapStates, Walk!onZero, TapStates, onZero
  <2>8. ones' = 6 => ir_reg' = IR_IDCODE
    <3>1. ones' = 6 => ones >= 5  BY DEF AnyEdge, WalkInv
    <3>. QED BY <1>3, <3>1 DEF WalkInv, AfterOnes
  <2>9. /\ bits' = (IF state_r = "SHIFT_DR" THEN ShiftRight(bits, WalkBits, tdi)
                    ELSE IF state_r = "CAPTURE_DR" THEN Zero(WalkBits) ELSE bits)
        /\ count' = (IF state_r = "SHIFT_DR" /\ count < WalkBits THEN count + 1
                     ELSE IF state_r = "CAPTURE_DR" THEN 0 ELSE count)
    BY DEF AnyEdge
  <2>10. bits' \in Dr(WalkBits) /\ count' \in 0 .. WalkBits
    <3>1. ShiftRight(bits, WalkBits, tdi) \in Dr(WalkBits)  BY <2>2, ShiftOne
    <3>. QED BY <2>2, <2>9, <3>1, ZeroType
  <2>11. ASSUME InDrScan'
         PROVE  (InDrScan \/ state_r = "CAPTURE_DR") /\ ir_reg' = ir_reg
    <3>1. state_r' = next_state(state_r, tms) /\ state_r \in TapStates
      BY DEF WalkInv, AnyEdge, Walk!DtmEdge, Walk!TapEdge, Walk!next_state, Walk!onOne, Walk!onZero,
             next_state, onOne, onZero, Walk!DtmTypeOK, Walk!TapStates, TapStates
    <3>2. InDrScan \/ state_r = "CAPTURE_DR"
      BY <2>11, <3>1 DEF InDrScan, next_state, onOne, onZero, TapStates, Bit
    <3>. QED BY <2>1, <3>2 DEF InDrScan, Walk!IrRegisters
  <2>12. ASSUME InDrScan', ir_reg' # IR_BYPASS
         PROVE  \A i \in WalkBits - count' + 1 .. WalkBits : dr_shift'[i] = bits'[i]
    <3>1. CASE state_r = "CAPTURE_DR"
      BY <2>9, <3>1
    <3>2. CASE state_r = "SHIFT_DR"
      <4>1. dr_shift' = ShiftRight(dr_shift, WalkBits, tdi)
        BY <2>1, <2>11, <2>12, <3>2, SameModule DEF Walk!ScanRegisters, Walk!DrShifts
      <4>2. \A i \in WalkBits - count + 1 .. WalkBits : dr_shift[i] = bits[i]
        BY <2>11, <2>12, <3>2 DEF WalkInv, InDrScan
      <4>3. bits' = ShiftRight(bits, WalkBits, tdi)
        BY <2>9, <3>2
      <4>4. count' <= count + 1 /\ count' \in 0 .. WalkBits /\ count \in 0 .. WalkBits
        BY <2>2, <2>9, <2>10, <3>2
      <4>5. \A m \in 0 .. WalkBits : m <= count + 1 =>
              \A i \in WalkBits - m + 1 .. WalkBits :
                ShiftRight(dr_shift, WalkBits, tdi)[i] = ShiftRight(bits, WalkBits, tdi)[i]
        <5>1. WalkBits \in Nat \ {0}  OBVIOUS
        <5>. SUFFICES ASSUME NEW m \in 0 .. WalkBits, m <= count + 1
             PROVE  \A i \in WalkBits - m + 1 .. WalkBits :
                      ShiftRight(dr_shift, WalkBits, tdi)[i] = ShiftRight(bits, WalkBits, tdi)[i]
          OBVIOUS
        <5>2. dr_shift \in Dr(WalkBits) /\ bits \in Dr(WalkBits) /\ count \in 0 .. WalkBits
          BY <2>2
        <5>. HIDE DEF WalkInv, AnyEdge
        <5>. QED BY <4>2, <5>1, <5>2, ShiftBoth, Zenon
      <4>6. \A i \in WalkBits - count' + 1 .. WalkBits :
              ShiftRight(dr_shift, WalkBits, tdi)[i] = ShiftRight(bits, WalkBits, tdi)[i]
        BY <4>4, <4>5
      <4>. QED BY <4>1, <4>3, <4>6
    <3>3. CASE InDrScan /\ state_r # "SHIFT_DR"
      BY <2>1, <2>9, <2>11, <2>12, <3>3 DEF Walk!ScanRegisters, WalkInv, InDrScan
    <3>. QED BY <2>11, <2>12, <3>1, <3>2, <3>3
  <2>13. ASSUME InDrScan', ir_reg' = IR_BYPASS
         PROVE  bypass_reg' = IF count' = 0 THEN 0 ELSE bits'[WalkBits]
    <3>0. ir_reg = IR_BYPASS  BY <2>11, <2>13
    <3>1. CASE state_r = "CAPTURE_DR"
      <4>1. IR_BYPASS \notin Named
        BY DEF Named, IR_BYPASS, IR_IDCODE, IR_AXI_ADDR, IR_AXI_DATA, IR_AXI_CTRL
      <4>. QED BY <2>1, <2>9, <3>0, <3>1, <4>1, SameModule DEF Walk!ScanRegisters
    <3>2. CASE state_r = "SHIFT_DR"
      <4>1. bypass_reg' = tdi
        BY <2>1, <3>0, <3>2, SameModule DEF Walk!ScanRegisters
      <4>2. ShiftRight(bits, WalkBits, tdi)[WalkBits] = tdi
        BY <2>2, ShiftOne
      <4>3. count \in 0 .. WalkBits /\ count' # 0
        BY <2>2, <2>9, <3>2
      <4>4. bits'[WalkBits] = tdi
        BY <2>9, <3>2, <4>2
      <4>. QED BY <4>1, <4>3, <4>4
    <3>3. CASE InDrScan /\ state_r # "SHIFT_DR"
      BY <2>1, <2>9, <3>0, <3>3 DEF Walk!ScanRegisters, WalkInv, InDrScan
    <3>. QED BY <2>11, <2>13, <3>1, <3>2, <3>3
  <2>. QED BY <1>1, <2>7, <2>8, <2>10, <2>12, <2>13 DEF WalkInv
<1>. QED BY <1>2, <1>3

(* What the walks show.                                                    *)
LEMMA WalkShows ==
  WalkInv => Walk!DtmTypeOK /\ FiveOnesReset /\ ScanArrives /\ BypassIsOneBit /\ WalkMatchesModel
<1>. SUFFICES ASSUME WalkInv
     PROVE  FiveOnesReset /\ ScanArrives /\ BypassIsOneBit /\ WalkMatchesModel
  BY DEF WalkInv
<1>. WalkBits \in Nat /\ WalkBits >= 2  BY WalkAssumption DEF Walk!DtmAssumption
<1>1. FiveOnesReset  BY DEF WalkInv, AfterOnes, FiveOnesReset
<1>2. ScanArrives
  <2>. SUFFICES ASSUME state_r = "UPDATE_DR", count = WalkBits, ir_reg \in Named
       PROVE  dr_shift = bits
    BY DEF ScanArrives
  <2>1. ir_reg # IR_BYPASS
    BY DEF Named, IR_BYPASS, IR_IDCODE, IR_AXI_ADDR, IR_AXI_DATA, IR_AXI_CTRL
  <2>2. \A i \in 1 .. WalkBits : dr_shift[i] = bits[i]
    BY <2>1 DEF WalkInv, InDrScan
  <2>3. dr_shift \in Dr(WalkBits) /\ bits \in Dr(WalkBits)
    BY SameModule DEF WalkInv, Walk!DtmTypeOK
  <2>. QED BY <2>2, <2>3 DEF Dr
<1>3. BypassIsOneBit  BY DEF WalkInv, BypassIsOneBit, tdo, InDrScan
<1>. QED BY <1>1, <1>2, <1>3 DEF WalkInv, WalkMatchesModel

-----------------------------------------------------------------------------
(* The debugger and the benches: what the chain holds, by the scan and the *)
(* edge of it that comes next.                                             *)

Driven == driver # "anything"

(* The state of the TAP before the k-th edge of the scan p.                *)
TapAt(p, k) ==
  IF k = 1 THEN "RUN_TEST_IDLE"
  ELSE IF k = 2 THEN "SELECT_DR_SCAN"
  ELSE IF k = ScanLength(p) - 1 THEN (IF p \in IrPhases THEN "EXIT1_IR" ELSE "EXIT1_DR")
  ELSE IF k = ScanLength(p) THEN (IF p \in IrPhases THEN "UPDATE_IR" ELSE "UPDATE_DR")
  ELSE IF p \notin IrPhases THEN (IF k = 3 THEN "CAPTURE_DR" ELSE "SHIFT_DR")
  ELSE IF k = 3 THEN "SELECT_IR_SCAN" ELSE IF k = 4 THEN "CAPTURE_IR" ELSE "SHIFT_IR"

(* The instruction a scan loads, or the one a data scan is made under.     *)
CodeOf(p) ==
  IF p \in {"ir_addr", "addr"} THEN IR_AXI_ADDR
  ELSE IF p \in {"ir_data", "data", "ir_result", "result"} THEN IR_AXI_DATA
  ELSE IF p \in {"ir_ctrl", "start", "poll"} THEN IR_AXI_CTRL
  ELSE IF p \in {"ir_idcode", "idcode"} THEN IR_IDCODE
  ELSE IR_BYPASS

(* What a data scan other than that of BYPASS shifts in.                   *)
ValueOf(p) ==
  IF p = "addr" THEN wanted.addr
  ELSE IF p = "data" THEN wanted.data
  ELSE IF p = "start" THEN Ctrl(TRUE, wanted.rw)
  ELSE IF p = "poll" THEN Ctrl(FALSE, keeps_rw /\ wanted.rw)
  ELSE Zero(DrBits)

(* The first s bits of w have been shifted into reg.                       *)
Entered(reg, width, w, s) == \A j \in 1 .. s : reg[width - s + j] = w[j]

(* The word of which the first s bits are in o already, the others still   *)
(* to come out of reg.                                                     *)
Seen(o, reg, s) == [j \in 1 .. DrBits |-> IF j <= s THEN o[DrBits - s + j] ELSE reg[j - s]]

DrShifted == IF at > DrBits + 4 THEN DrBits ELSE at - 4     \* bits of the scan so far
IrShifted == IF at > IrBits + 5 THEN IrBits ELSE at - 5

(* Nothing asked of the bridge, and nothing to come from it.               *)
Settled == ~start_pulse_tck /\ ~Bridge!busy_tck /\ ~bridge_busy_prev

(* What a data scan reads.                                                 *)
Captures(c) ==
  /\ phase = "result" => c = rdata_reg
  /\ phase = "idcode" => c = IdCode
  /\ phase = "poll" /\ c[1] = 0 => Settled /\ (c[2] = 1 <=> resp_ok)

TapInv ==
  IF AtRest THEN state_r \in {"TEST_LOGIC_RESET", "RUN_TEST_IDLE"} ELSE state_r = TapAt(phase, at)

IrInv ==
  /\ phase \in DrPhases => ir_reg = CodeOf(phase)
  /\ phase \in IrPhases /\ at >= 5 => Entered(ir_shift, IrBits, CodeOf(phase), IrShifted)

DrInv ==
  phase \in DrPhases \ {"bypass"} /\ at >= 4 =>
    /\ Entered(dr_shift, DrBits, ValueOf(phase), DrShifted)
    /\ Captures(Seen(out, dr_shift, DrShifted))

BypassInv ==
  phase = "bypass" =>
    /\ at <= 5 => out = Zero(DrBits)
    /\ at = 4 => bypass_reg = 0
    /\ at = 5 => bypass_reg = 1
    /\ at >= 6 => out = [i \in 1 .. DrBits |-> Flag(i = DrBits)]

(* The bus has the transaction, or has had it.                             *)
Latched ==
  \/ phase = "poll" /\ ~start_pulse_tck /\ start_toggle_sync2_d = start_toggle_tck
  \/ phase \in {"written", "ir_result", "result", "read"}

WantedInv ==
  /\ wanted \in [rw : BOOLEAN, addr : Dr(DrBits), data : Words] /\ data_reg \in Words
  /\ phase \in {"ir_data", "data", "written"} => ~wanted.rw
  /\ phase \in {"ir_result", "result", "read"} => wanted.rw
  /\ phase \in {"ir_data", "data", "ir_ctrl", "start", "poll", "ir_result", "result"} =>
       addr_reg = wanted.addr
  /\ phase \in {"ir_ctrl", "start", "poll"} /\ ~wanted.rw => data_reg = wanted.data

AskedInv ==
  /\ phase # "poll" => Settled
  /\ start_pulse_tck => at = 1 /\ ~bridge_busy_prev
  /\ ~Settled => (rw_tck <=> wanted.rw)
  /\ Latched => bus_addr = wanted.addr /\ (~wanted.rw => bus_wdata = wanted.data)

AnsweredInv ==
  /\ (phase = "poll" /\ Settled /\ wanted.rw) \/ phase \in {"ir_result", "result"} =>
       data_reg = rdata_reg
  /\ phase \in {"written", "ir_result", "result", "read"} => (Okay(status) <=> resp_ok)
  /\ phase = "read" => out = rdata_reg
  /\ ChainIsWhole

HandshakeInv == Handshake!InStep /\ Handshake!OnBus /\ Handshake!ResponseFollows

ChainInv ==
  /\ TypeOK /\ TapInv /\ IrInv /\ DrInv /\ BypassInv
  /\ HandshakeInv /\ WantedInv /\ AskedInv /\ AnsweredInv

-----------------------------------------------------------------------------
(* The benches: how far the bridge is, and the memory.                     *)

(* Edges of clk until the transaction is done.                             *)
ClkLeft ==
  IF start_toggle_sync2_d # start_toggle_tck
  THEN IF start_toggle_sync2 = start_toggle_tck THEN 3
       ELSE IF start_toggle_sync1 = start_toggle_tck THEN 4 ELSE 5
  ELSE IF state \in {"WR_GO", "RD_GO"} THEN 2 ELSE IF state # "IDLE" THEN 1 ELSE 0

(* Edges of tck after that, until the DTM has seen it.                     *)
TckLeft ==
  IF done_toggle_sync2 = start_toggle_tck THEN (IF bridge_busy_prev THEN 1 ELSE 0)
  ELSE IF done_toggle_sync1 = start_toggle_tck THEN 2 ELSE 3

FastInv ==
  /\ ticks \in 0 .. TCK_EDGES_PER_CLK
  /\ ~start_pulse_tck /\ ~Settled =>
       at + TckLeft + (IF ClkLeft = 0 THEN 0 ELSE ticks + TCK_EDGES_PER_CLK * (ClkLeft - 1)) <= 29

SlowInv ==
  /\ ticks \in 0 .. CLK_EDGES_PER_TCK
  /\ ~start_pulse_tck /\ ~Settled =>
       IF ClkLeft = 0 THEN at + TckLeft <= 6
       ELSE \/ at = 2 /\ (ClkLeft > 2 => ClkLeft + 5 <= ticks) /\ (ticks = 0 => ClkLeft = 1)
            \/ at = 3 /\ ClkLeft = 1 /\ ticks > 0

Calls == {"ir_addr", "addr", "ir_data", "data", "ir_ctrl", "start", "poll", "ir_result", "result",
          "written", "read"}

MemoryInv ==
  /\ DOMAIN slave = (FakeAddrs \union SocAddrs) \ Poked
  /\ phase \in Calls => wanted.addr \in FakeAddrs \union SocAddrs
  /\ Latched /\ ClkLeft = 0 =>
       resp_ok /\ (wanted.rw /\ wanted.addr \notin Poked => rdata_reg = slave[wanted.addr])
  /\ Latched /\ ClkLeft <= 1 /\ ~wanted.rw /\ wanted.addr \notin Poked =>
       slave[wanted.addr] = wanted.data

BenchesInv ==
  /\ ~keeps_rw /\ ratio \in {"slow_tck", "fast_tck", "soc_top"}
  /\ IF ratio = "fast_tck" THEN FastInv ELSE SlowInv
  /\ MemoryInv

MCInv ==
  /\ driver \in {"debugger", "anything", "bench"}
  /\ driver = "anything" => WalkInv
  /\ Driven => ChainInv
  /\ driver = "debugger" => keeps_rw
  /\ driver = "bench" => BenchesInv

-----------------------------------------------------------------------------
(* The handshake.                                                          *)

LEMMA HandshakeAssumed == Handshake!BridgeAssumption
BY DtmAssumption, ChainAssumption, ZeroType DEF Handshake!BridgeAssumption

(* Both instances of the bridge are the same.                              *)
LEMMA SameBridge ==
  /\ Handshake!TypeOK <=> Bridge!TypeOK
  /\ Handshake!TypeOK' <=> Bridge!TypeOK'
  /\ Bridge!Request => Handshake!Request
  /\ UNCHANGED clkVars => UNCHANGED Handshake!clkVars
  /\ UNCHANGED <<tckVars, start_pulse_tck, rw_tck, addr_reg, data_reg>> =>
       UNCHANGED <<Handshake!requestVars, Handshake!tckVars>>
BY DEF Handshake!TypeOK, Bridge!TypeOK, Handshake!busy_tck, Bridge!busy_tck, Handshake!Request,
       Bridge!Request, Handshake!MayAsk, Bridge!MayAsk, Handshake!clkVars, clkVars,
       Handshake!requestVars, Handshake!tckVars, tckVars

LEMMA TckHandshake ==
  ASSUME Bridge!TypeOK, Bridge!TypeOK', HandshakeInv, Bridge!Request, UNCHANGED clkVars,
         Bridge!TckSide(TRUE, done_toggle_clk, resp_ok, rdata_reg)
  PROVE  HandshakeInv'
<1>1. Handshake!TckSide(TRUE, done_toggle_clk, resp_ok, rdata_reg)
  BY DEF Handshake!TckSide, Bridge!TckSide
<1>2. Handshake!TypeOK /\ Handshake!TypeOK' /\ Handshake!Request /\ UNCHANGED Handshake!clkVars
  BY SameBridge
<1>3. Handshake!InStep' /\ Handshake!OnBus'
  BY <1>1, <1>2, HandshakeAssumed, Handshake!TckInStep DEF HandshakeInv
<1>4. Handshake!ResponseFollows'
  BY DEF HandshakeInv, Handshake!ResponseFollows, Bridge!TckSide, clkVars
<1>. QED BY <1>3, <1>4 DEF HandshakeInv

(* What an edge of clk does, in the words of JtagResetProofs.              *)
LEMMA ClkHandshake ==
  ASSUME Bridge!TypeOK, HandshakeInv, ClkEdge
  PROVE  /\ Bridge!TypeOK' /\ HandshakeInv'
         /\ Handshake!BusStep(start_toggle_tck, addr_reg, data_reg, rw_tck)
<1>1. Handshake!ClkSide(TRUE, start_toggle_tck, addr_reg, data_reg, rw_tck)
  BY DEF ClkEdge, Handshake!ClkSide, Bridge!ClkSide, Handshake!BusIdle, Bridge!BusIdle,
         Handshake!BusWriteGo, Bridge!BusWriteGo, Handshake!BusWriteResponse,
         Bridge!BusWriteResponse, Handshake!BusReadGo, Bridge!BusReadGo, Handshake!BusReadData,
         Bridge!BusReadData, Handshake!start_pulse_clk, Bridge!start_pulse_clk
<1>2. /\ UNCHANGED <<tckVars, start_pulse_tck, rw_tck, addr_reg, data_reg>>
      /\ UNCHANGED <<Handshake!requestVars, Handshake!tckVars>>
  BY SameBridge DEF ClkEdge, dtmVars
<1>3. /\ Handshake!TypeOK /\ start_toggle_tck \in BOOLEAN /\ rw_tck \in BOOLEAN
      /\ addr_reg \in Dr(DrBits) /\ data_reg \in Words
  BY SameBridge DEF Bridge!TypeOK
<1>4. Handshake!BusStep(start_toggle_tck, addr_reg, data_reg, rw_tck)
  BY <1>1, <1>3, HandshakeAssumed, Handshake!BusSteps, Zenon
<1>5. Bridge!TypeOK'
  <2>1. /\ {start_toggle_sync1, start_toggle_sync2, start_toggle_sync2_d, aw_done, w_done,
            done_toggle_clk, resp_ok}' \subseteq BOOLEAN
        /\ bus_addr' \in Dr(DrBits) /\ {bus_wdata, rdata_reg}' \subseteq Words
        /\ state' \in {"IDLE", "WR_GO", "WR_B", "RD_GO", "RD_R"}
        /\ state' = "WR_B" => aw_done' /\ w_done'
    BY <1>1, <1>3, HandshakeAssumed, Handshake!ClkSideType, Zenon
  <2>. QED BY <1>2, <2>1 DEF Bridge!TypeOK, tckVars
<1>6. Handshake!InStep' /\ Handshake!OnBus'
  BY <1>2, <1>3, <1>4, <1>5, SameBridge, HandshakeAssumed, Handshake!ClkInStep DEF HandshakeInv
<1>7. Handshake!ResponseFollows'
  BY <1>2, <1>4
  DEF HandshakeInv, Handshake!BusStep, Bridge!TypeOK, Handshake!ResponseFollows, tckVars,
      Handshake!InStep, Handshake!Quiet, Handshake!Underway
<1>. QED BY <1>4, <1>5, <1>6, <1>7 DEF HandshakeInv

-----------------------------------------------------------------------------
(* Words and scans.                                                        *)

LEMMA EnterOne ==
  ASSUME NEW n \in Nat \ {0}, NEW reg \in Dr(n), NEW w, NEW s \in 0 .. n - 1, NEW b,
         Entered(reg, n, w, s), b = w[s + 1]
  PROVE  Entered(ShiftRight(reg, n, b), n, w, s + 1)
<1>. SUFFICES ASSUME NEW j \in 1 .. s + 1
     PROVE  ShiftRight(reg, n, b)[n - (s + 1) + j] = w[j]
  BY DEF Entered
<1>. n - (s + 1) + j \in 1 .. n
  OBVIOUS
<1>1. CASE j = s + 1
  BY <1>1 DEF ShiftRight
<1>2. CASE j # s + 1
  <2>1. j \in 1 .. s /\ n - (s + 1) + j # n /\ n - (s + 1) + j + 1 = n - s + j
    BY <1>2
  <2>. QED BY <2>1 DEF ShiftRight, Entered
<1>. QED BY <1>1, <1>2

LEMMA EnteredAll ==
  ASSUME NEW n \in Nat, NEW reg \in Dr(n), NEW w \in Dr(n), Entered(reg, n, w, n)
  PROVE  reg = w
<1>1. \A j \in 1 .. n : n - n + j = j
  OBVIOUS
<1>. QED BY <1>1 DEF Entered, Dr

LEMMA SeenBounds ==
  ASSUME NEW o \in Dr(DrBits), NEW reg \in Dr(DrBits)
  PROVE  Seen(o, reg, 0) = reg /\ Seen(o, reg, DrBits) = o
<1>. DrBits \in Nat /\ DrBits >= 2  BY DtmAssumption
<1>1. \A j \in 1 .. DrBits : ~(j <= 0) /\ j - 0 = j /\ j <= DrBits /\ DrBits - DrBits + j = j
  OBVIOUS
<1>2. Seen(o, reg, 0) = [j \in 1 .. DrBits |-> reg[j]]  BY <1>1 DEF Seen
<1>3. Seen(o, reg, DrBits) = [j \in 1 .. DrBits |-> o[j]]  BY <1>1 DEF Seen
<1>. QED BY <1>2, <1>3 DEF Dr

(* A bit that goes from one word into the other is seen all the same.      *)
LEMMA SeenOne ==
  ASSUME NEW o, NEW reg, NEW s \in 0 .. DrBits - 1, NEW b
  PROVE  Seen(ShiftRight(o, DrBits, reg[1]), ShiftRight(reg, DrBits, b), s + 1) = Seen(o, reg, s)
<1>. DrBits \in Nat /\ DrBits >= 2  BY DtmAssumption
<1>. DEFINE p == ShiftRight(o, DrBits, reg[1])
            q == ShiftRight(reg, DrBits, b)
<1>1. ASSUME NEW j \in 1 .. DrBits
      PROVE  (IF j <= s + 1 THEN p[DrBits - (s + 1) + j] ELSE q[j - (s + 1)])
             = (IF j <= s THEN o[DrBits - s + j] ELSE reg[j - s])
  <2>1. CASE j <= s
    <3>1. /\ DrBits - (s + 1) + j \in 1 .. DrBits - 1
          /\ DrBits - (s + 1) + j + 1 = DrBits - s + j
      BY <2>1
    <3>. QED BY <2>1, <3>1 DEF ShiftRight
  <2>2. CASE j = s + 1
    <3>1. DrBits - (s + 1) + j = DrBits /\ j - s = 1  BY <2>2
    <3>2. p[DrBits] = reg[1]  BY DEF ShiftRight
    <3>. QED BY <2>2, <3>1, <3>2
  <2>3. CASE j > s + 1
    <3>1. j - (s + 1) \in 1 .. DrBits - 1 /\ j - (s + 1) + 1 = j - s  BY <2>3
    <3>. QED BY <2>3, <3>1 DEF ShiftRight
  <2>. QED BY <2>1, <2>2, <2>3
<1>2. Seen(p, q, s + 1)
      = [j \in 1 .. DrBits |-> IF j <= s + 1 THEN p[DrBits - (s + 1) + j] ELSE q[j - (s + 1)]]
  BY DEF Seen
<1>. HIDE DEF p, q
<1>3. Seen(p, q, s + 1) = Seen(o, reg, s)  BY <1>1, <1>2 DEF Seen
<1>. QED BY <1>3 DEF p, q

LEMMA CtrlBits ==
  ASSUME NEW low, NEW high
  PROVE  /\ Ctrl(low, high) \in Dr(DrBits)
         /\ Ctrl(low, high)[1] = Flag(low) /\ Ctrl(low, high)[2] = Flag(high)
BY DtmAssumption DEF Ctrl, Flag, Dr, Bit

LEMMA CodesDiffer ==
  /\ IR_BYPASS \notin Named
  /\ IR_IDCODE # IR_AXI_ADDR /\ IR_IDCODE # IR_AXI_DATA /\ IR_IDCODE # IR_AXI_CTRL
  /\ IR_AXI_ADDR # IR_AXI_DATA /\ IR_AXI_ADDR # IR_AXI_CTRL /\ IR_AXI_DATA # IR_AXI_CTRL
BY DEF Named, IR_BYPASS, IR_IDCODE, IR_AXI_ADDR, IR_AXI_DATA, IR_AXI_CTRL

(* An edge of a scan.                                                      *)
LEMMA EdgeOfScan ==
  ASSUME NEW p \in IrPhases \union DrPhases, NEW k \in 1 .. ScanLength(p)
  PROVE  LET e == ScanOf(p, wanted)[k]
         IN  /\ e.tms = Flag(\/ k \in {1, ScanLength(p) - 2, ScanLength(p) - 1}
                             \/ p \in IrPhases /\ k = 2)
             /\ p \in IrPhases /\ k \in 5 .. 8 => e.tdi = CodeOf(p)[k - 4]
             /\ p \in DrPhases \ {"bypass"} /\ k \in 4 .. DrBits + 3 => e.tdi = ValueOf(p)[k - 3]
             /\ p = "bypass" /\ k = 4 => e.tdi = 1
<1>. DrBits \in Nat /\ DrBits >= 2  BY DtmAssumption
<1>1. CASE p \in IrPhases
  <2>1. ScanOf(p, wanted) = IrScan(CodeOf(p))  BY <1>1 DEF IrPhases, ScanOf, CodeOf
  <2>2. ScanLength(p) = 10 /\ p \notin DrPhases /\ p # "bypass"
    BY <1>1 DEF ScanLength, IrBits, IrPhases, DrPhases
  <2>3. k \in 1 .. 10 /\ k \in Nat  BY <2>2
  <2>4. IrScan(CodeOf(p))[k]
        = Edge(k \in {1, 2, 8, 9}, IF k \in 5 .. 8 THEN CodeOf(p)[k - 4] ELSE 0)
    BY <2>3 DEF IrScan, IrBits
  <2>5. /\ ScanOf(p, wanted)[k].tms = Flag(k \in {1, 2, 8, 9})
        /\ ScanOf(p, wanted)[k].tdi = IF k \in 5 .. 8 THEN CodeOf(p)[k - 4] ELSE 0
    BY <2>1, <2>4 DEF Edge
  <2>. QED BY <1>1, <2>2, <2>3, <2>5 DEF Flag
<1>2. CASE p \in DrPhases \ {"bypass"}
  <2>1. ScanOf(p, wanted) = DrScan(ValueOf(p), DrBits)  BY <1>2 DEF DrPhases, ScanOf, ValueOf
  <2>2. ScanLength(p) = DrBits + 5 /\ p \notin IrPhases
    BY <1>2 DEF ScanLength, IrPhases, DrPhases
  <2>3. k \in 1 .. DrBits + 5 /\ k \in Nat  BY <2>2
  <2>4. DrScan(ValueOf(p), DrBits)[k]
        = Edge(k \in {1, DrBits + 3, DrBits + 4},
               IF k \in 4 .. DrBits + 3 THEN ValueOf(p)[k - 3] ELSE 0)
    BY <2>3 DEF DrScan
  <2>5. /\ ScanOf(p, wanted)[k].tms = Flag(k \in {1, DrBits + 3, DrBits + 4})
        /\ ScanOf(p, wanted)[k].tdi = IF k \in 4 .. DrBits + 3 THEN ValueOf(p)[k - 3] ELSE 0
    BY <2>1, <2>4 DEF Edge
  <2>. QED BY <1>2, <2>2, <2>3, <2>5 DEF Flag
<1>3. CASE p = "bypass"
  <2>1. ScanOf(p, wanted) = DrScan(<<1, 0>>, 2)  BY <1>3 DEF ScanOf
  <2>2. ScanLength(p) = 7 /\ p \notin IrPhases
    BY <1>3 DEF ScanLength, IrPhases
  <2>3. k \in 1 .. 7 /\ k \in Nat  BY <2>2
  <2>4. DrScan(<<1, 0>>, 2)[k] = Edge(k \in {1, 5, 6}, IF k \in 4 .. 5 THEN <<1, 0>>[k - 3] ELSE 0)
    BY <2>3 DEF DrScan
  <2>5. ScanOf(p, wanted)[k].tms = Flag(k \in {1, 5, 6}) /\ (k = 4 => ScanOf(p, wanted)[k].tdi = 1)
    BY <2>1, <2>4 DEF Edge
  <2>. QED BY <1>3, <2>2, <2>3, <2>5 DEF Flag
<1>. QED BY <1>1, <1>2, <1>3

(* Scan after scan takes the TAP from RUN_TEST_IDLE to RUN_TEST_IDLE.      *)
LEMMA TapMoves ==
  ASSUME NEW p \in IrPhases \union DrPhases, NEW k \in 1 .. ScanLength(p)
  PROVE  next_state(TapAt(p, k), ScanOf(p, wanted)[k].tms)
         = IF k < ScanLength(p) THEN TapAt(p, k + 1) ELSE "RUN_TEST_IDLE"
<1>. DrBits \in Nat /\ DrBits >= 2  BY DtmAssumption
<1>1. ScanOf(p, wanted)[k].tms
      = Flag(k \in {1, ScanLength(p) - 2, ScanLength(p) - 1} \/ (p \in IrPhases /\ k = 2))
  BY EdgeOfScan
<1>2. CASE p \in IrPhases
  BY <1>1, <1>2 DEF ScanLength, IrBits, TapAt, next_state, onOne, onZero, Flag
<1>3. CASE p \notin IrPhases
  BY <1>1, <1>3 DEF ScanLength, TapAt, next_state, onOne, onZero, Flag
<1>. QED BY <1>2, <1>3

-----------------------------------------------------------------------------
(* What an edge of tck does, by the scan and the edge of it.               *)

LEMMA ChainTypes ==
  ASSUME TypeOK
  PROVE  /\ DrBits \in Nat /\ DrBits >= 2 /\ IrBits = 4
         /\ ir_shift \in Dr(4) /\ ir_reg \in Dr(4)
         /\ dr_shift \in Dr(DrBits) /\ addr_reg \in Dr(DrBits) /\ data_reg \in Dr(DrBits)
         /\ bypass_reg \in Bit /\ bridge_busy_prev \in BOOLEAN /\ start_pulse_tck \in BOOLEAN
         /\ rw_tck \in BOOLEAN /\ keeps_rw \in BOOLEAN
         /\ out \in Dr(DrBits) /\ status \in Dr(DrBits)
BY DtmAssumption DEF TypeOK, DtmTypeOK, Ir, IrBits

LEMMA ScanTypes ==
  ASSUME TypeOK, ~AtRest
  PROVE  /\ phase \in IrPhases \union DrPhases /\ at \in 1 .. ScanLength(phase) /\ at \in Nat
         /\ phase \in IrPhases => phase \notin DrPhases /\ ScanLength(phase) = 10
         /\ phase \in DrPhases \ {"bypass"} => ScanLength(phase) = DrBits + 5
         /\ phase = "bypass" => ScanLength(phase) = 7
BY DtmAssumption DEF TypeOK, AtRest, Phases, ScanLength, IrBits, IrPhases, DrPhases

(* Where the registers change.                                             *)
LEMMA TapTells ==
  ASSUME TypeOK, TapInv, ~AtRest
  PROVE  /\ state_r = TapAt(phase, at) /\ state_r # "TEST_LOGIC_RESET"
         /\ state_r = "CAPTURE_IR" <=> phase \in IrPhases /\ at = 4
         /\ state_r = "SHIFT_IR" <=> phase \in IrPhases /\ at \in 5 .. 8
         /\ state_r = "UPDATE_IR" <=> phase \in IrPhases /\ at = 10
         /\ state_r = "CAPTURE_DR" <=> phase \in DrPhases /\ at = 3
         /\ state_r = "SHIFT_DR" <=> phase \in DrPhases /\ at \in 4 .. ScanLength(phase) - 2
         /\ state_r = "UPDATE_DR" <=> phase \in DrPhases /\ at = ScanLength(phase)
<1>. DrBits \in Nat /\ DrBits >= 2  BY DtmAssumption
<1>1. state_r = TapAt(phase, at)  BY DEF TapInv
<1>2. CASE phase \in IrPhases
  BY <1>1, <1>2, ScanTypes DEF TapAt
<1>3. CASE phase \in DrPhases \ {"bypass"}
  <2>. phase \notin IrPhases  BY <1>3 DEF IrPhases, DrPhases
  <2>. QED BY <1>1, <1>3, ScanTypes DEF TapAt
<1>4. CASE phase = "bypass"
  <2>. phase \notin IrPhases /\ phase \in DrPhases  BY <1>4 DEF IrPhases, DrPhases
  <2>. QED BY <1>1, <1>4, ScanTypes DEF TapAt
<1>. QED BY <1>2, <1>3, <1>4, ScanTypes

(* A scan of the instruction register.                                     *)
LEMMA IrEdge ==
  ASSUME TypeOK, TapInv, Scan, phase \in IrPhases
  PROVE  /\ ir_shift' = (IF at = 4 THEN <<1, 0, 1, 0>>
                         ELSE IF at \in 5 .. 8 THEN ShiftRight(ir_shift, 4, CodeOf(phase)[at - 4])
                         ELSE ir_shift)
         /\ ir_reg' = (IF at = 10 THEN ir_shift ELSE ir_reg)
         /\ UNCHANGED <<dr_shift, bypass_reg, addr_reg, rw_tck>>
         /\ data_reg' = (IF ResultArrives(Bridge!busy_tck) THEN rdata_sync2 ELSE data_reg)
         /\ ~start_pulse_tck' /\ start_pulse_tck' \in BOOLEAN
         /\ bridge_busy_prev' = Bridge!busy_tck
<1>. DEFINE e == ScanOf(phase, wanted)[at]
<1>1. ~AtRest /\ DtmEdge(e.tms, e.tdi, Bridge!busy_tck, resp_ok_sync2, rdata_sync2)
  BY DEF Scan
<1>2. phase \notin DrPhases /\ (at \in 5 .. 8 => e.tdi = CodeOf(phase)[at - 4])
  BY <1>1, ScanTypes, EdgeOfScan
<1>. HIDE DEF e
<1>. QED
  BY <1>1, <1>2, TapTells
  DEF DtmEdge, test_logic_reset, IrRegisters, ScanRegisters, UpdateRegisters, updates, Starts,
      IrBits

(* A scan of a data register.                                              *)
LEMMA DrEdge ==
  ASSUME TypeOK, TapInv, IrInv, Scan, phase \in DrPhases
  PROVE  /\ UNCHANGED <<ir_shift, ir_reg>>
         /\ phase # "bypass" =>
              dr_shift' = (IF at = 3 THEN Captured(Bridge!busy_tck, resp_ok_sync2)
                           ELSE IF at \in 4 .. DrBits + 3
                           THEN ShiftRight(dr_shift, DrBits, ValueOf(phase)[at - 3]) ELSE dr_shift)
         /\ phase = "bypass" =>
              /\ dr_shift' = dr_shift
              /\ at = 3 => bypass_reg' = 0
              /\ at = 4 => bypass_reg' = 1
         /\ addr_reg' = (IF phase = "addr" /\ at = ScanLength(phase) THEN dr_shift ELSE addr_reg)
         /\ data_reg' = (IF phase \in {"data", "result"} /\ at = ScanLength(phase) THEN dr_shift
                         ELSE IF ResultArrives(Bridge!busy_tck) THEN rdata_sync2 ELSE data_reg)
         /\ rw_tck' = (IF phase \in {"start", "poll"} /\ at = ScanLength(phase)
                       THEN dr_shift[2] = 1 ELSE rw_tck)
         /\ start_pulse_tck' =
              (phase \in {"start", "poll"} /\ at = ScanLength(phase) /\ dr_shift[1] = 1)
         /\ bridge_busy_prev' = Bridge!busy_tck
<1>. DEFINE e == ScanOf(phase, wanted)[at]
<1>1. ~AtRest /\ DtmEdge(e.tms, e.tdi, Bridge!busy_tck, resp_ok_sync2, rdata_sync2)
  BY DEF Scan
<1>2. /\ phase # "bypass" /\ at \in 4 .. DrBits + 3 => e.tdi = ValueOf(phase)[at - 3]
      /\ phase = "bypass" /\ at = 4 => e.tdi = 1
  BY <1>1, ScanTypes, EdgeOfScan
<1>. HIDE DEF e
<1>3. phase \notin IrPhases  BY DEF IrPhases, DrPhases
<1>4. /\ phase = "addr" <=> ir_reg = IR_AXI_ADDR
      /\ phase \in {"data", "result"} <=> ir_reg = IR_AXI_DATA
      /\ phase \in {"start", "poll"} <=> ir_reg = IR_AXI_CTRL
      /\ phase = "bypass" <=> ir_reg = IR_BYPASS
  <2>1. ir_reg = CodeOf(phase)  BY DEF IrInv
  <2>. QED BY <2>1, CodesDiffer DEF DrPhases, CodeOf, Named
<1>5. /\ IrRegisters(e.tdi) /\ ScanRegisters(e.tdi, Bridge!busy_tck, resp_ok_sync2)
      /\ UpdateRegisters(Bridge!busy_tck, rdata_sync2) /\ bridge_busy_prev' = Bridge!busy_tck
  BY <1>1, TapTells DEF DtmEdge, test_logic_reset
<1>6. UNCHANGED <<ir_shift, ir_reg>>
  BY <1>1, <1>3, <1>5, TapTells DEF IrRegisters
<1>7. phase # "bypass" =>
        dr_shift' = (IF at = 3 THEN Captured(Bridge!busy_tck, resp_ok_sync2)
                     ELSE IF at \in 4 .. DrBits + 3
                     THEN ShiftRight(dr_shift, DrBits, ValueOf(phase)[at - 3]) ELSE dr_shift)
  <2>. SUFFICES ASSUME phase # "bypass"
       PROVE  dr_shift' = (IF at = 3 THEN Captured(Bridge!busy_tck, resp_ok_sync2)
                     ELSE IF at \in 4 .. DrBits + 3
                     THEN ShiftRight(dr_shift, DrBits, ValueOf(phase)[at - 3]) ELSE dr_shift)
    OBVIOUS
  <2>1. /\ ScanLength(phase) - 2 = DrBits + 3 /\ DrBits \in Nat
        /\ ir_reg # IR_BYPASS
    BY <1>1, <1>4, ScanTypes, DtmAssumption
  <2>. QED BY <1>1, <1>2, <1>5, <2>1, TapTells DEF ScanRegisters, DrShifts
<1>8. phase = "bypass" => /\ dr_shift' = dr_shift
                          /\ at = 3 => bypass_reg' = 0
                          /\ at = 4 => bypass_reg' = 1
  BY <1>1, <1>2, <1>4, <1>5, TapTells, ScanTypes, CodesDiffer
  DEF ScanRegisters, DrShifts, Captured, Named
<1>9. /\ addr_reg' = (IF phase = "addr" /\ at = ScanLength(phase) THEN dr_shift ELSE addr_reg)
      /\ data_reg' = (IF phase \in {"data", "result"} /\ at = ScanLength(phase) THEN dr_shift
                      ELSE IF ResultArrives(Bridge!busy_tck) THEN rdata_sync2 ELSE data_reg)
      /\ rw_tck' = (IF phase \in {"start", "poll"} /\ at = ScanLength(phase)
                    THEN dr_shift[2] = 1 ELSE rw_tck)
      /\ start_pulse_tck' =
           (phase \in {"start", "poll"} /\ at = ScanLength(phase) /\ dr_shift[1] = 1)
  BY <1>1, <1>4, <1>5, TapTells DEF UpdateRegisters, updates, Starts
<1>. QED BY <1>5, <1>6, <1>7, <1>8, <1>9

(* Where nothing is scanned, nothing changes but the TAP.                  *)
LEMMA RestEdge ==
  ASSUME TypeOK, TapInv, phase # "poll" => Settled, Rest
  PROVE  /\ state_r' = "RUN_TEST_IDLE" /\ ir_reg' \in Dr(4)
         /\ UNCHANGED <<ir_shift, dr_shift, bypass_reg, addr_reg, data_reg, rw_tck>>
         /\ ~start_pulse_tck' /\ ~bridge_busy_prev'
         /\ start_pulse_tck' \in BOOLEAN /\ bridge_busy_prev' \in BOOLEAN
<1>1. /\ AtRest /\ DtmEdge(0, 0, Bridge!busy_tck, resp_ok_sync2, rdata_sync2)
      /\ state_r \in {"TEST_LOGIC_RESET", "RUN_TEST_IDLE"} /\ Settled
  BY DEF Rest, TapInv, AtRest, Resting
<1>2. CASE state_r = "TEST_LOGIC_RESET"
  <2>1. IR_IDCODE \in Dr(4)  BY CodesAreWords
  <2>2. /\ TapEdge(0) /\ ir_reg' = IR_IDCODE
        /\ start_pulse_tck' = FALSE /\ bridge_busy_prev' = FALSE
        /\ UNCHANGED <<ir_shift, dr_shift, bypass_reg, addr_reg, data_reg, rw_tck>>
    BY <1>1, <1>2 DEF DtmEdge, test_logic_reset
  <2>3. state_r' = "RUN_TEST_IDLE"  BY <1>2, <2>2 DEF TapEdge, next_state, onZero
  <2>. QED BY <2>1, <2>2, <2>3
<1>3. CASE state_r = "RUN_TEST_IDLE"
  <2>1. /\ IrRegisters(0) /\ ScanRegisters(0, Bridge!busy_tck, resp_ok_sync2)
        /\ UpdateRegisters(Bridge!busy_tck, rdata_sync2) /\ bridge_busy_prev' = Bridge!busy_tck
        /\ state_r' = "RUN_TEST_IDLE"
    BY <1>1, <1>3 DEF DtmEdge, TapEdge, next_state, onZero, test_logic_reset
  <2>2. ir_reg' \in Dr(4) /\ UNCHANGED <<ir_shift, dr_shift, bypass_reg>>
    BY <1>3, <2>1, ChainTypes DEF IrRegisters, ScanRegisters
  <2>3. UNCHANGED <<addr_reg, data_reg, rw_tck>> /\ start_pulse_tck' = FALSE
    BY <1>1, <1>3, <2>1 DEF UpdateRegisters, updates, Starts, ResultArrives, Settled
  <2>4. bridge_busy_prev' = FALSE
    BY <1>1, <2>1 DEF Settled, Bridge!busy_tck
  <2>. QED BY <2>1, <2>2, <2>3, <2>4
<1>. QED BY <1>1, <1>2, <1>3

-----------------------------------------------------------------------------
(* An edge of tck keeps the types and the TAP in step with the scan.       *)

LEMMA CodeAndValue ==
  ASSUME ChainInv, NEW p
  PROVE  CodeOf(p) \in Dr(4) /\ ValueOf(p) \in Dr(DrBits)
<1>1. CodeOf(p) \in Dr(4)
  <2>1. /\ IR_IDCODE \in Dr(4) /\ IR_AXI_ADDR \in Dr(4) /\ IR_AXI_DATA \in Dr(4)
        /\ IR_AXI_CTRL \in Dr(4) /\ IR_BYPASS \in Dr(4)
    BY CodesAreWords
  <2>. QED BY <2>1 DEF CodeOf
<1>2. ValueOf(p) \in Dr(DrBits)
  <2>1. wanted.addr \in Dr(DrBits) /\ wanted.data \in Dr(DrBits)
    BY ChainAssumption DEF ChainInv, WantedInv
  <2>2. Zero(DrBits) \in Dr(DrBits)  BY ZeroType, DtmAssumption
  <2>3. \A low, high : Ctrl(low, high) \in Dr(DrBits)  BY CtrlBits
  <2>. QED BY <2>1, <2>2, <2>3 DEF ValueOf
<1>. QED BY <1>1, <1>2

(* At the end of a data scan all its bits are in, and the word it read out. *)
LEMMA ScanWhole ==
  ASSUME ChainInv, phase \in DrPhases \ {"bypass"}, at = ScanLength(phase)
  PROVE  dr_shift = ValueOf(phase) /\ Captures(out)
<1>1. /\ DrBits \in Nat /\ DrBits >= 2 /\ dr_shift \in Dr(DrBits) /\ out \in Dr(DrBits)
      /\ at = DrBits + 5
  <2>. phase \notin Resting  BY DEF DrPhases, Resting
  <2>. QED BY ChainTypes, ScanTypes DEF ChainInv, AtRest
<1>2. DrShifted = DrBits /\ at >= 4  BY <1>1 DEF DrShifted
<1>3. /\ Entered(dr_shift, DrBits, ValueOf(phase), DrBits)
      /\ Captures(Seen(out, dr_shift, DrBits))
  BY <1>2 DEF ChainInv, DrInv
<1>4. dr_shift = ValueOf(phase)  BY <1>1, <1>3, CodeAndValue, EnteredAll
<1>5. Seen(out, dr_shift, DrBits) = out  BY <1>1, SeenBounds
<1>. QED BY <1>3, <1>4, <1>5

LEMMA TckTypes ==
  ASSUME ChainInv, TckEdge
  PROVE  TypeOK' /\ data_reg' \in Words
<1>. USE ChainTypes DEF ChainInv
<1>0. \A b \in Bit : /\ ShiftRight(ir_shift, 4, b) \in Dr(4)
                     /\ ShiftRight(dr_shift, DrBits, b) \in Dr(DrBits)
                     /\ ShiftRight(out, DrBits, b) \in Dr(DrBits)
  <2>. 4 \in Nat \ {0} /\ DrBits \in Nat \ {0}  OBVIOUS
  <2>. QED BY ShiftOne
<1>1. /\ ir_shift' \in Dr(4) /\ ir_reg' \in Dr(4) /\ dr_shift' \in Dr(DrBits)
      /\ addr_reg' \in Dr(DrBits) /\ data_reg' \in Words /\ bypass_reg' \in Bit
      /\ start_pulse_tck' \in BOOLEAN /\ rw_tck' \in BOOLEAN /\ bridge_busy_prev' \in BOOLEAN
      /\ state_r' \in TapStates
  <2>0. data_reg \in Words /\ rdata_sync2 \in Words /\ Bridge!busy_tck \in BOOLEAN
    BY DEF TypeOK, Bridge!TypeOK, WantedInv, Bridge!busy_tck
  <2>1. CASE Rest
    BY <2>0, <2>1, RestEdge DEF AskedInv, TapStates, onZero
  <2>2. CASE Scan /\ phase \in IrPhases
    <3>1. at \in 5 .. 8 => CodeOf(phase)[at - 4] \in Bit
      BY CodeAndValue DEF Dr
    <3>2. <<1, 0, 1, 0>> \in Dr(4)  BY CodesAreWords
    <3>3. at \in 5 .. 8 => ShiftRight(ir_shift, 4, CodeOf(phase)[at - 4]) \in Dr(4)
      BY <1>0, <3>1
    <3>4. state_r' \in TapStates
      BY <2>2 DEF Scan, DtmEdge, TapEdge, next_state, onOne, onZero, TapStates, TypeOK, DtmTypeOK
    <3>. QED BY <2>0, <2>2, <3>2, <3>3, <3>4, IrEdge
  <2>3. CASE Scan /\ phase \in DrPhases
    <3>1. at \in 4 .. DrBits + 3 =>
            ShiftRight(dr_shift, DrBits, ValueOf(phase)[at - 3]) \in Dr(DrBits)
      <4>. SUFFICES ASSUME at \in 4 .. DrBits + 3
           PROVE  ShiftRight(dr_shift, DrBits, ValueOf(phase)[at - 3]) \in Dr(DrBits)
        OBVIOUS
      <4>1. at - 3 \in 1 .. DrBits  OBVIOUS
      <4>2. ValueOf(phase)[at - 3] \in Bit  BY <4>1, CodeAndValue DEF Dr
      <4>. QED BY <1>0, <4>2
    <3>2. Captured(Bridge!busy_tck, resp_ok_sync2) \in Dr(DrBits)
      <4>1. IdCode \in Dr(DrBits)  BY DtmAssumption
      <4>2. Ctrl(Bridge!busy_tck, resp_ok_sync2) \in Dr(DrBits)  BY CtrlBits
      <4>. QED BY <4>1, <4>2 DEF Captured
    <3>3. phase \in {"data", "result"} /\ at = ScanLength(phase) => dr_shift \in Words
      <4>1. Zero(DrBits) \in Words /\ wanted.data \in Words  BY ChainAssumption DEF WantedInv
      <4>. QED BY <4>1, ScanWhole DEF DrPhases, ValueOf
    <3>4. bypass_reg' \in Bit
      <4>1. PICK b : b \in Bit /\ (bypass_reg' = 0 \/ bypass_reg' = b)
        <5>1. ScanOf(phase, wanted)[at].tdi \in Bit \/ phase # "bypass"
          <6>1. phase = "bypass" =>
                  /\ ScanOf(phase, wanted) = DrScan(<<1, 0>>, 2) /\ at \in 1 .. 7
            BY <2>3, ScanTypes DEF Scan, ScanOf
          <6>2. phase = "bypass" => DrScan(<<1, 0>>, 2)[at].tdi \in Bit
            BY <6>1 DEF DrScan, Edge, Bit
          <6>. QED BY <6>1, <6>2
        <5>2. phase # "bypass" => ir_reg # IR_BYPASS
          BY <2>3, CodesDiffer DEF IrInv, CodeOf, DrPhases, Named
        <5>. QED BY <2>3, <5>1, <5>2, TapTells DEF Scan, DtmEdge, test_logic_reset, ScanRegisters
      <4>. QED BY <4>1 DEF Bit
    <3>5. state_r' \in TapStates
      BY <2>3 DEF Scan, DtmEdge, TapEdge, next_state, onOne, onZero, TapStates, TypeOK, DtmTypeOK
    <3>6. dr_shift' \in Dr(DrBits)
      <4>1. CASE phase = "bypass"  BY <2>3, <4>1, DrEdge
      <4>2. CASE phase # "bypass"  BY <2>3, <3>1, <3>2, <4>2, DrEdge
      <4>. QED BY <4>1, <4>2
    <3>. QED BY <2>0, <2>3, <3>3, <3>4, <3>5, <3>6, DrEdge
  <2>. QED BY <2>1, <2>2, <2>3, ScanTypes DEF TckEdge, Scan
<1>2. /\ phase' \in Phases /\ at' \in 1 .. (IF AtRest' THEN 1 ELSE ScanLength(phase'))
      /\ out' \in Dr(DrBits) /\ status' \in Dr(DrBits) /\ keeps_rw' \in BOOLEAN
  <2>0. Zero(DrBits) \in Dr(DrBits)  BY ZeroType
  <2>1. \A p : ScanLength(p) \in Nat /\ ScanLength(p) >= 1  BY DEF ScanLength
  <2>2. phase \in Phases /\ at \in Nat  BY DEF TypeOK, AtRest
  <2>3. CASE Rest
    BY <2>0, <2>1, <2>2, <2>3 DEF Rest, probeVars, Phases, Resting, IrPhases, TypeOK, AtRest
  <2>4. CASE Scan /\ at < ScanLength(phase)
    <3>1. tdo \in Bit  BY DEF tdo, Dr
    <3>. QED BY <1>0, <2>2, <2>4, <3>1, ScanTypes DEF Scan, AtRest
  <2>5. CASE Scan /\ ~(at < ScanLength(phase))
    <3>1. After(phase) \in Phases
      BY DEF After, Phases, Resting, IrPhases, DrPhases
    <3>2. at' = 1  BY <2>5 DEF Scan
    <3>. QED BY <2>0, <2>1, <2>5, <3>1, <3>2 DEF Scan
  <2>. QED BY <2>3, <2>4, <2>5 DEF TckEdge
<1>3. Bridge!TypeOK'
  BY <1>1 DEF TckEdge, TypeOK, Bridge!TypeOK, Bridge!TckSide, clkVars
<1>4. DtmTypeOK'
  <2>1. data_reg' \in Dr(DrBits)  BY <1>1, ChainAssumption
  <2>. QED BY <1>1, <2>1 DEF DtmTypeOK, Ir
<1>. QED BY <1>1, <1>2, <1>3, <1>4 DEF TypeOK

(* The scan goes on by an edge, or to the next.                            *)
LEMMA ScanMoves ==
  ASSUME ChainInv, Scan
  PROVE  /\ phase \in IrPhases \union DrPhases /\ at \in 1 .. ScanLength(phase) /\ at \in Nat
         /\ wanted' = wanted /\ keeps_rw' = keeps_rw
         /\ at < ScanLength(phase) =>
              /\ phase' = phase /\ at' = at + 1 /\ status' = status
              /\ out' = (IF phase \in DrPhases /\ at \in 4 .. ScanLength(phase) - 2
                         THEN ShiftRight(out, DrBits, tdo) ELSE out)
         /\ at = ScanLength(phase) =>
              /\ phase' = After(phase) /\ at' = 1
              /\ out' = (IF phase \in {"result", "idcode", "bypass"} THEN out ELSE Zero(DrBits))
              /\ status' = (IF phase = "poll" THEN out ELSE status)
         /\ at < ScanLength(phase) \/ at = ScanLength(phase)
<1>1. ~AtRest /\ TypeOK /\ TapInv  BY DEF Scan, ChainInv
<1>2. ScanLength(phase) \in Nat  BY DtmAssumption DEF ScanLength, IrBits
<1>. QED BY <1>1, <1>2, ScanTypes, TapTells DEF Scan

LEMMA TckTap == ASSUME ChainInv, TckEdge PROVE TapInv'
<1>1. CASE Rest
  <2>1. state_r' = "RUN_TEST_IDLE"  BY <1>1, RestEdge DEF ChainInv, AskedInv
  <2>2. AtRest' \/ at' = 1  BY <1>1 DEF Rest, AtRest, probeVars
  <2>. QED BY <2>1, <2>2 DEF TapInv, TapAt
<1>2. CASE Scan
  <2>1. state_r' = IF at < ScanLength(phase) THEN TapAt(phase, at + 1) ELSE "RUN_TEST_IDLE"
    <3>1. state_r' = next_state(TapAt(phase, at), ScanOf(phase, wanted)[at].tms)
      BY <1>2, TapTells DEF ChainInv, Scan, DtmEdge, TapEdge
    <3>. QED BY <1>2, <3>1, TapMoves, ScanMoves
  <2>2. CASE at < ScanLength(phase)
    <3>1. ~AtRest'  BY <1>2, <2>2, ScanMoves DEF Scan, AtRest
    <3>. QED BY <1>2, <2>1, <2>2, <3>1, ScanMoves DEF TapInv
  <2>3. CASE at = ScanLength(phase)
    <3>1. ~(at < ScanLength(phase))  BY <2>3 DEF ScanLength
    <3>. QED BY <1>2, <2>1, <2>3, <3>1, ScanMoves DEF TapInv, TapAt
  <2>. QED BY <1>2, <2>2, <2>3, ScanMoves
<1>. QED BY <1>1, <1>2 DEF TckEdge

(* The instruction the next data scan is made under.                       *)
LEMMA TckIr == ASSUME ChainInv, TckEdge PROVE IrInv'
<1>. USE DEF ChainInv
<1>1. CASE Rest
  <2>1. phase' \notin DrPhases /\ (AtRest' \/ at' = 1)
    BY <1>1 DEF Rest, AtRest, probeVars, DrPhases, Resting
  <2>. QED BY <2>1 DEF IrInv, AtRest, Resting, IrPhases
<1>2. CASE Scan /\ phase \in IrPhases
  <2>0. phase \notin DrPhases /\ ScanLength(phase) = 10
    BY <1>2 DEF IrPhases, DrPhases, ScanLength, IrBits
  <2>1. CASE at < ScanLength(phase)
    <3>. SUFFICES ASSUME at >= 4
         PROVE  Entered(ir_shift, IrBits, CodeOf(phase), IrShifted)'
      BY <1>2, <2>0, <2>1, ScanMoves DEF IrInv
    <3>0. IrBits = 4 /\ at \in 4 .. 9 /\ at' = at + 1 /\ phase' = phase
      BY <1>2, <2>0, <2>1, ScanMoves DEF IrBits
    <3>1. CASE at = 4
      <4>1. IrShifted' = 0  BY <3>0, <3>1 DEF IrShifted
      <4>. QED BY <4>1 DEF Entered
    <3>2. CASE at \in 5 .. 8
      <4>1. ir_shift' = ShiftRight(ir_shift, 4, CodeOf(phase)[at - 4])
        BY <1>2, <3>2, IrEdge
      <4>2. IrShifted = at - 5 /\ IrShifted' = (at - 5) + 1 /\ (at - 5) + 1 = at - 4
        BY <3>0, <3>2 DEF IrShifted
      <4>3. Entered(ir_shift, 4, CodeOf(phase), at - 5)
        BY <1>2, <3>0, <3>2, <4>2 DEF IrInv
      <4>4. 4 \in Nat \ {0} /\ at - 5 \in 0 .. 4 - 1 /\ ir_shift \in Dr(4)
        BY <3>2, ChainTypes
      <4>5. Entered(ShiftRight(ir_shift, 4, CodeOf(phase)[at - 4]), 4, CodeOf(phase), (at - 5) + 1)
        BY <4>2, <4>3, <4>4, EnterOne
      <4>. QED BY <3>0, <4>1, <4>2, <4>5 DEF Entered
    <3>3. CASE at = 9
      <4>1. ir_shift' = ir_shift  BY <1>2, <3>3, IrEdge
      <4>2. IrShifted = 4 /\ IrShifted' = 4  BY <3>0, <3>3 DEF IrShifted
      <4>3. Entered(ir_shift, 4, CodeOf(phase), 4)
        BY <1>2, <3>0, <3>3, <4>2 DEF IrInv
      <4>. QED BY <3>0, <4>1, <4>2, <4>3 DEF Entered
    <3>. QED BY <3>0, <3>1, <3>2, <3>3
  <2>2. CASE at = ScanLength(phase)
    <3>1. IrShifted = 4 /\ at >= 5  BY <2>0, <2>2 DEF IrShifted, IrBits
    <3>2. Entered(ir_shift, 4, CodeOf(phase), 4)  BY <1>2, <3>1 DEF IrInv, IrBits
    <3>3. ir_shift = CodeOf(phase)
      BY <3>2, EnteredAll, ChainTypes, CodeAndValue
    <3>4. ir_reg' = CodeOf(phase)  BY <1>2, <2>0, <2>2, <3>3, IrEdge
    <3>5. phase' = After(phase) /\ at' = 1  BY <1>2, <2>2, ScanMoves
    <3>6. CodeOf(After(phase)) = CodeOf(phase)  BY <1>2 DEF IrPhases, After, CodeOf
    <3>. QED BY <3>4, <3>5, <3>6 DEF IrInv
  <2>. QED BY <1>2, <2>1, <2>2, ScanMoves
<1>3. CASE Scan /\ phase \in DrPhases
  <2>0. phase \notin IrPhases  BY <1>3 DEF IrPhases, DrPhases
  <2>1. ir_reg' = CodeOf(phase)  BY <1>3, DrEdge DEF IrInv
  <2>2. CASE at < ScanLength(phase)
    BY <1>3, <2>0, <2>1, <2>2, ScanMoves DEF IrInv
  <2>3. CASE at = ScanLength(phase)
    <3>1. phase' = After(phase) /\ at' = 1  BY <1>3, <2>3, ScanMoves
    <3>2. After(phase) \in DrPhases => CodeOf(After(phase)) = CodeOf(phase)
      BY <1>3 DEF DrPhases, After, CodeOf
    <3>. QED BY <2>1, <3>1, <3>2 DEF IrInv
  <2>. QED BY <1>3, <2>2, <2>3, ScanMoves
<1>. QED BY <1>1, <1>2, <1>3, ScanMoves DEF TckEdge

-----------------------------------------------------------------------------
(* An edge of tck and the bridge.                                          *)

(* With BUSY down and no START pending, the bridge is idle, the last       *)
(* response has arrived, and so it stays unless a START comes.             *)
LEMMA Stays ==
  ASSUME ChainInv, ~start_pulse_tck, ~Bridge!busy_tck
  PROVE  /\ Handshake!Quiet /\ state = "IDLE" /\ rdata_sync2 = rdata_reg /\ resp_ok_sync2 = resp_ok
         /\ start_toggle_sync2_d = start_toggle_tck
<1>1. Handshake!Quiet
  BY DEF ChainInv, HandshakeInv, Handshake!InStep, Handshake!Underway, Bridge!busy_tck
<1>. QED
  BY <1>1
  DEF ChainInv, HandshakeInv, Handshake!InStep, Handshake!ResponseFollows, Handshake!Quiet

LEMMA TckStays ==
  ASSUME ChainInv, TckEdge, ~start_pulse_tck, ~Bridge!busy_tck
  PROVE  /\ ~bridge_busy_prev' /\ ~Bridge!busy_tck' /\ start_toggle_tck' = start_toggle_tck
         /\ ~start_pulse_tck' => Settled'
<1>. USE DEF ChainInv
<1>1. ~Bridge!busy_tck' /\ start_toggle_tck' = start_toggle_tck
  BY Stays DEF TckEdge, Bridge!TckSide, Handshake!Quiet, Bridge!busy_tck, TypeOK, Bridge!TypeOK,
               clkVars
<1>2. ~bridge_busy_prev'
  <2>1. CASE Rest  BY <2>1, RestEdge DEF AskedInv
  <2>2. CASE Scan /\ phase \in IrPhases  BY <2>2, IrEdge
  <2>3. CASE Scan /\ phase \in DrPhases  BY <2>3, DrEdge
  <2>. QED BY <2>1, <2>2, <2>3, ScanMoves DEF TckEdge
<1>. QED BY <1>1, <1>2 DEF Settled

(* A START comes only out of the scan that asks for it.                    *)
LEMMA Starting ==
  ASSUME ChainInv, TckEdge
  PROVE  start_pulse_tck' <=> Scan /\ phase = "start" /\ at = ScanLength(phase)
<1>. USE DEF ChainInv
<1>1. CASE Rest
  BY <1>1, RestEdge DEF AskedInv, Rest, Scan
<1>2. CASE Scan /\ phase \in IrPhases
  BY <1>2, IrEdge DEF IrPhases
<1>3. CASE Scan /\ phase \in DrPhases
  <2>1. phase = "start" /\ at = ScanLength(phase) => dr_shift[1] = 1
    <3>1. phase = "start" /\ at = ScanLength(phase) => dr_shift = Ctrl(TRUE, wanted.rw)
      BY ScanWhole DEF DrPhases, ValueOf
    <3>. QED BY <3>1, CtrlBits DEF Flag
  <2>2. phase = "poll" /\ at = ScanLength(phase) => dr_shift[1] = 0
    <3>1. phase = "poll" /\ at = ScanLength(phase) => dr_shift = Ctrl(FALSE, keeps_rw /\ wanted.rw)
      BY ScanWhole DEF DrPhases, ValueOf
    <3>. QED BY <3>1, CtrlBits DEF Flag
  <2>3. start_pulse_tck' <=>
          phase \in {"start", "poll"} /\ at = ScanLength(phase) /\ dr_shift[1] = 1
    BY <1>3, DrEdge
  <2>. QED BY <1>3, <2>1, <2>2, <2>3
<1>. QED BY <1>1, <1>2, <1>3, ScanMoves DEF TckEdge

(* RW changes with a START, or when a poll shifts another value in.        *)
LEMMA Directing ==
  ASSUME ChainInv, TckEdge
  PROVE  /\ phase = "start" /\ Scan /\ at = ScanLength(phase) => (rw_tck' <=> wanted.rw)
         /\ phase = "poll" /\ at = ScanLength(phase) => (rw_tck' <=> keeps_rw /\ wanted.rw)
         /\ ~(phase \in {"start", "poll"} /\ at = ScanLength(phase)) => rw_tck' = rw_tck
<1>. USE DEF ChainInv
<1>0. wanted.rw \in BOOLEAN /\ keeps_rw \in BOOLEAN  BY DEF WantedInv, TypeOK
<1>1. CASE Rest
  BY <1>1, RestEdge DEF AskedInv, Rest, Scan, AtRest, Resting
<1>2. CASE Scan /\ phase \in IrPhases
  BY <1>2, IrEdge DEF IrPhases
<1>3. CASE Scan /\ phase \in DrPhases
  <2>1. phase = "start" /\ at = ScanLength(phase) => (dr_shift[2] = 1 <=> wanted.rw)
    <3>1. phase = "start" /\ at = ScanLength(phase) =>
            dr_shift[2] = IF wanted.rw THEN 1 ELSE 0
      BY ScanWhole, DtmAssumption DEF DrPhases, ValueOf, Ctrl, Flag
    <3>. QED BY <1>0, <3>1
  <2>2. phase = "poll" /\ at = ScanLength(phase) => (dr_shift[2] = 1 <=> keeps_rw /\ wanted.rw)
    <3>1. phase = "poll" /\ at = ScanLength(phase) =>
            dr_shift[2] = IF keeps_rw /\ wanted.rw THEN 1 ELSE 0
      BY ScanWhole, DtmAssumption DEF DrPhases, ValueOf, Ctrl, Flag
    <3>. QED BY <1>0, <3>1
  <2>3. /\ phase \in {"start", "poll"} /\ at = ScanLength(phase) => (rw_tck' <=> dr_shift[2] = 1)
        /\ ~(phase \in {"start", "poll"} /\ at = ScanLength(phase)) => rw_tck' = rw_tck
    BY <1>3, DrEdge
  <2>. QED BY <2>1, <2>2, <2>3
<1>. QED BY <1>1, <1>2, <1>3, ScanMoves DEF TckEdge

(* A poll that shifts zeros in must not end before the answer is there.    *)
OnTime == phase = "poll" /\ at = ScanLength(phase) /\ ~Settled => keeps_rw

(* The DTM asks for what the bridge expects of it.                         *)
LEMMA TckRequest ==
  ASSUME ChainInv, TckEdge, OnTime
  PROVE  Bridge!Request
<1>. USE DEF ChainInv
<1>1. CASE Bridge!MayAsk
  <2>1. /\ start_pulse_tck' \in BOOLEAN /\ rw_tck' \in BOOLEAN
        /\ addr_reg' \in Dr(DrBits) /\ data_reg' \in Words
    BY TckTypes DEF TypeOK, DtmTypeOK
  <2>. QED BY <1>1, <2>1 DEF Bridge!Request
<1>2. CASE ~Bridge!MayAsk
  <2>1. ~Settled /\ phase = "poll" /\ phase \in DrPhases
    BY <1>2 DEF AskedInv, Settled, Bridge!MayAsk, DrPhases
  <2>2. Scan  BY <2>1 DEF TckEdge, Rest, AtRest, Resting
  <2>3. start_pulse_tck' = FALSE
    <3>1. start_pulse_tck' \in BOOLEAN  BY TckTypes DEF TypeOK, DtmTypeOK
    <3>. QED BY <2>1, <3>1, Starting
  <2>4. addr_reg' = addr_reg /\ data_reg' = data_reg
    <3>1. ~ResultArrives(Bridge!busy_tck)
      BY <1>2 DEF AskedInv, ResultArrives, Bridge!MayAsk
    <3>. QED BY <2>1, <2>2, <3>1, DrEdge
  <2>5. rw_tck' = rw_tck
    <3>1. rw_tck = wanted.rw
      BY <2>1 DEF AskedInv, WantedInv, TypeOK, DtmTypeOK
    <3>2. rw_tck' <=> rw_tck  BY <2>1, <3>1, Directing DEF OnTime
    <3>3. rw_tck' \in BOOLEAN /\ rw_tck \in BOOLEAN
      BY TckTypes DEF TypeOK, DtmTypeOK
    <3>. QED BY <3>2, <3>3
  <2>. QED BY <1>2, <2>3, <2>4, <2>5 DEF Bridge!Request
<1>. QED BY <1>1, <1>2

(* The debugger leaves the poll when it has read BUSY = 0.                 *)
LEMMA PollEnds ==
  ASSUME ChainInv, TckEdge, phase = "poll", phase' # "poll"
  PROVE  /\ Scan /\ at = ScanLength(phase) /\ Settled /\ phase' \in {"written", "ir_result"}
         /\ phase' = "written" <=> ~wanted.rw
         /\ Okay(out) <=> resp_ok
<1>. USE DEF ChainInv
<1>1. Scan  BY DEF TckEdge, Rest, AtRest, Resting
<1>2. at = ScanLength(phase)  BY <1>1, ScanMoves
<1>3. Captures(out)  BY <1>2, ScanWhole DEF DrPhases
<1>4. phase' = After(phase) /\ ~Busy(out)  BY <1>1, <1>2, ScanMoves DEF After
<1>5. out[1] = 0  BY <1>4, ChainTypes DEF Busy, Dr, Bit
<1>. QED BY <1>1, <1>2, <1>3, <1>4, <1>5 DEF After, Captures, Okay

(* What the bus has it keeps.                                              *)
LEMMA TckLatched ==
  ASSUME ChainInv, TckEdge, Latched'
  PROVE  Latched /\ wanted' = wanted /\ start_toggle_tck' = start_toggle_tck
<1>. USE DEF ChainInv
<1>0. start_toggle_sync2_d' = start_toggle_sync2_d
  BY DEF TckEdge, clkVars
<1>1. ASSUME Rest PROVE Latched /\ wanted' = wanted
  BY <1>1 DEF Rest, Latched, probeVars, AtRest, Resting
<1>2. ASSUME Scan, phase = "poll", phase' # "poll"
      PROVE  Latched /\ wanted' = wanted
  BY <1>2, PollEnds, Stays, ScanMoves DEF Latched, Settled
<1>3. ASSUME Scan, phase = "poll", phase' = "poll"
      PROVE  Latched /\ wanted' = wanted
  <2>1. ~start_pulse_tck
    <3>. SUFFICES ASSUME start_pulse_tck PROVE FALSE
      OBVIOUS
    <3>1. Handshake!Quiet /\ start_toggle_tck' = ~start_toggle_tck
      BY DEF HandshakeInv, Handshake!InStep, Handshake!Underway, TckEdge, Bridge!TckSide,
             TypeOK, Bridge!TypeOK
    <3>. QED BY <1>0, <1>3, <3>1 DEF Latched, Handshake!Quiet, TypeOK, Bridge!TypeOK
  <2>2. start_toggle_tck' = start_toggle_tck
    BY <2>1 DEF TckEdge, Bridge!TckSide, TypeOK, Bridge!TypeOK
  <2>. QED BY <1>0, <1>3, <2>1, <2>2, ScanMoves DEF Latched
<1>4. ASSUME Scan, phase # "poll"
      PROVE  Latched /\ wanted' = wanted
  <2>1. phase' = "poll" => start_pulse_tck'
    BY <1>4, Starting, ScanMoves DEF After, IrPhases, DrPhases
  <2>2. phase' # phase => phase' = After(phase) /\ at = ScanLength(phase)
    BY <1>4, ScanMoves
  <2>. QED BY <1>4, <2>1, <2>2, ScanMoves DEF Latched, After, IrPhases, DrPhases
<1>5. Latched /\ wanted' = wanted  BY <1>1, <1>2, <1>3, <1>4, ScanMoves DEF TckEdge
<1>6. ~start_pulse_tck  BY <1>5 DEF Latched, AskedInv, Settled
<1>7. start_toggle_tck' = start_toggle_tck
  BY <1>6 DEF TckEdge, Bridge!TckSide, TypeOK, Bridge!TypeOK
<1>. QED BY <1>5, <1>7

LEMMA TckAsked ==
  ASSUME ChainInv, TckEdge, OnTime
  PROVE  AskedInv'
<1>. USE DEF ChainInv
<1>1. ~Settled => phase = "poll" /\ Scan
  BY DEF AskedInv, TckEdge, Rest, AtRest, Resting
<1>3. phase' # "poll" => Settled'
  <2>. SUFFICES ASSUME phase' # "poll" PROVE Settled'
    OBVIOUS
  <2>1. Settled  BY <1>1, PollEnds
  <2>2. ~start_pulse_tck'
    BY Starting, ScanMoves DEF After
  <2>. QED BY <2>1, <2>2, TckStays DEF Settled
<1>4. start_pulse_tck' => at' = 1 /\ ~bridge_busy_prev'
  <2>. SUFFICES ASSUME start_pulse_tck' PROVE at' = 1 /\ ~bridge_busy_prev'
    OBVIOUS
  <2>1. Scan /\ phase = "start" /\ at = ScanLength(phase)  BY Starting
  <2>2. Settled  BY <1>1, <2>1
  <2>. QED BY <2>1, <2>2, ScanMoves, TckStays DEF Settled
<1>5. ~Settled' => (rw_tck' <=> wanted'.rw)
  <2>. SUFFICES ASSUME ~Settled' PROVE rw_tck' <=> wanted'.rw
    OBVIOUS
  <2>1. CASE start_pulse_tck'
    BY <2>1, Starting, Directing, ScanMoves
  <2>2. CASE ~start_pulse_tck'
    <3>1. ~Settled /\ phase = "poll" /\ Scan  BY <1>1, <2>2, TckStays DEF Settled
    <3>2. rw_tck <=> wanted.rw  BY <3>1 DEF AskedInv
    <3>. QED BY <3>1, <3>2, Directing, ScanMoves DEF OnTime
  <2>. QED BY <2>1, <2>2
<1>6. Latched' => bus_addr' = wanted'.addr /\ (~wanted'.rw => bus_wdata' = wanted'.data)
  <2>. SUFFICES ASSUME Latched'
       PROVE  bus_addr' = wanted'.addr /\ (~wanted'.rw => bus_wdata' = wanted'.data)
    OBVIOUS
  <2>1. bus_addr' = bus_addr /\ bus_wdata' = bus_wdata
        /\ start_toggle_sync2_d' = start_toggle_sync2_d
    BY DEF TckEdge, clkVars
  <2>2. Latched /\ wanted' = wanted  BY TckLatched
  <2>. QED BY <2>1, <2>2 DEF AskedInv
<1>. QED BY <1>3, <1>4, <1>5, <1>6 DEF AskedInv

(* When the DTM takes a result, and when it does not.                      *)
LEMMA Result ==
  ASSUME ChainInv, TckEdge
  PROVE  /\ ResultArrives(Bridge!busy_tck) =>
              phase = "poll" /\ ~Settled /\ wanted.rw /\ rdata_sync2 = rdata_reg
         /\ phase \in {"data", "result"} /\ at = ScanLength(phase) => data_reg' = ValueOf(phase)
         /\ ~(phase \in {"data", "result"} /\ at = ScanLength(phase)) =>
              data_reg' = (IF ResultArrives(Bridge!busy_tck) THEN rdata_sync2 ELSE data_reg)
<1>. USE DEF ChainInv
<1>1. ResultArrives(Bridge!busy_tck) =>
        phase = "poll" /\ ~Settled /\ wanted.rw /\ rdata_sync2 = rdata_reg
  <2>. SUFFICES ASSUME ResultArrives(Bridge!busy_tck)
       PROVE  phase = "poll" /\ ~Settled /\ wanted.rw /\ rdata_sync2 = rdata_reg
    OBVIOUS
  <2>1. bridge_busy_prev /\ ~Bridge!busy_tck /\ rw_tck  BY DEF ResultArrives
  <2>2. ~Settled /\ phase = "poll" /\ wanted.rw /\ ~start_pulse_tck
    BY <2>1 DEF Settled, AskedInv
  <2>. QED BY <2>1, <2>2, Stays
<1>2. CASE Rest
  <2>1. phase \notin {"data", "result"} /\ phase # "poll"  BY <1>2 DEF Rest, AtRest, Resting
  <2>2. data_reg' = data_reg  BY <1>2, RestEdge DEF AskedInv
  <2>. QED BY <1>1, <2>1, <2>2
<1>3. CASE Scan /\ phase \in IrPhases
  <2>1. phase \notin {"data", "result"}  BY <1>3 DEF IrPhases
  <2>. QED BY <1>1, <1>3, <2>1, IrEdge
<1>4. CASE Scan /\ phase \in DrPhases
  BY <1>1, <1>4, DrEdge, ScanWhole
<1>. QED BY <1>2, <1>3, <1>4, ScanMoves DEF TckEdge

LEMMA TckWanted ==
  ASSUME ChainInv, TckEdge
  PROVE  WantedInv'
<1>. USE DEF ChainInv
<1>1. wanted' \in [rw : BOOLEAN, addr : Dr(DrBits), data : Words] /\ data_reg' \in Words
  BY TckTypes, ChainAssumption, ScanMoves DEF TckEdge, Rest, WantedInv, probeVars
<1>2. CASE Rest
  <2>1. phase' \in Resting \union {"ir_addr", "ir_idcode", "ir_bypass"}
        /\ (phase' \in Resting => phase' = phase /\ wanted' = wanted)
    BY <1>2 DEF Rest, probeVars, AtRest, Resting
  <2>. QED BY <1>1, <2>1 DEF WantedInv, Resting
<1>3. CASE Scan /\ phase' = phase
  <2>1. wanted' = wanted  BY <1>3, ScanMoves
  <2>2. addr_reg' = addr_reg
    <3>1. CASE phase \in IrPhases  BY <1>3, <3>1, IrEdge
    <3>2. CASE phase \in DrPhases
      <4>1. phase # "addr" \/ at # ScanLength(phase)
        BY <1>3, ScanMoves DEF After
      <4>. QED BY <1>3, <3>2, <4>1, DrEdge
    <3>. QED BY <1>3, <3>1, <3>2, ScanMoves
  <2>3. phase \in {"ir_ctrl", "start", "poll"} /\ ~wanted.rw => data_reg' = data_reg
    BY <1>3, Result
  <2>. QED BY <1>1, <1>3, <2>1, <2>2, <2>3 DEF WantedInv
<1>4. CASE Scan /\ phase' # phase
  <2>1. at = ScanLength(phase) /\ phase' = After(phase) /\ wanted' = wanted
    BY <1>4, ScanMoves
  <2>2. /\ phase' \in {"ir_data", "data", "written"} => ~wanted.rw
        /\ phase' \in {"ir_result", "result", "read"} => wanted.rw
    <3>1. CASE phase = "poll"
      <4>1. phase' # "poll"  BY <1>4, <3>1
      <4>. QED BY <3>1, <4>1, PollEnds
    <3>2. CASE phase # "poll"
      <4>1. /\ phase' \in {"ir_data", "data", "written"} =>
                 (phase = "addr" /\ ~wanted.rw) \/ phase = "ir_data"
            /\ phase' \in {"ir_result", "result", "read"} =>
                 phase \in {"ir_result", "result"} \/ phase' = "read"
        BY <2>1, <3>2 DEF After
      <4>2. phase' = "read" => phase = "result"
        BY <1>4, <2>1, <3>2, ScanMoves DEF After, IrPhases, DrPhases
      <4>. QED BY <4>1, <4>2 DEF WantedInv
    <3>. QED BY <3>1, <3>2
  <2>3. phase' \in {"ir_data", "data", "ir_ctrl", "start", "poll", "ir_result", "result"} =>
          addr_reg' = wanted.addr
    <3>1. CASE phase = "addr"
      BY <1>4, <2>1, <3>1, ScanWhole, DrEdge DEF DrPhases, ValueOf
    <3>2. CASE phase # "addr"
      <4>1. addr_reg' = addr_reg  BY <1>4, <3>2, IrEdge, DrEdge, ScanMoves
      <4>. QED BY <2>1, <3>2, <4>1 DEF WantedInv, After
    <3>. QED BY <3>1, <3>2
  <2>4. phase' \in {"ir_ctrl", "start", "poll"} /\ ~wanted.rw => data_reg' = wanted.data
    <3>1. CASE phase = "data"
      BY <2>1, <3>1, Result DEF ValueOf
    <3>2. CASE phase # "data"
      <4>1. phase' \in {"ir_ctrl", "start", "poll"} /\ ~wanted.rw =>
              phase \in {"ir_ctrl", "start", "poll"}
        BY <2>1, <3>2 DEF After
      <4>2. ~wanted.rw /\ phase \in {"ir_ctrl", "start", "poll"} => data_reg' = data_reg
        BY Result
      <4>. QED BY <4>1, <4>2 DEF WantedInv
    <3>. QED BY <3>1, <3>2
  <2>. QED BY <1>1, <2>1, <2>2, <2>3, <2>4 DEF WantedInv
<1>. QED BY <1>2, <1>3, <1>4 DEF TckEdge

LEMMA TckAnswered ==
  ASSUME ChainInv, TckEdge
  PROVE  AnsweredInv'
<1>. USE DEF ChainInv
<1>1. resp_ok' = resp_ok /\ rdata_reg' = rdata_reg  BY DEF TckEdge, clkVars
<1>2. CASE Rest
  <2>1. /\ phase' \notin {"poll", "ir_result", "result"}
        /\ phase' \in Resting => phase' = phase /\ out' = out /\ status' = status
    BY <1>2 DEF Rest, probeVars, AtRest, Resting
  <2>. QED BY <1>1, <2>1 DEF AnsweredInv, ChainIsWhole, Resting, Okay
<1>3. CASE Scan
  <2>1. wanted' = wanted  BY <1>3, ScanMoves
  <2>2. phase' = "poll" /\ Settled' /\ wanted.rw => data_reg' = rdata_reg
    <3>. SUFFICES ASSUME phase' = "poll", Settled', wanted.rw PROVE data_reg' = rdata_reg
      OBVIOUS
    <3>1. phase = "poll"
      <4>1. phase' # phase => phase = "start" /\ at = ScanLength(phase)
        BY <1>3, ScanMoves DEF After
      <4>. QED BY <1>3, <4>1, Starting DEF Settled
    <3>2. CASE Settled
      <4>1. data_reg' = data_reg  BY <3>1, <3>2, Result
      <4>. QED BY <3>1, <3>2, <4>1 DEF AnsweredInv
    <3>3. CASE ~Settled
      <4>1. bridge_busy_prev' = Bridge!busy_tck
        BY <1>3, <3>1, DrEdge DEF DrPhases
      <4>2. ~Bridge!busy_tck  BY <4>1 DEF Settled
      <4>3. ~start_pulse_tck
        <5>. SUFFICES ASSUME start_pulse_tck PROVE FALSE
          OBVIOUS
        <5>1. Handshake!Quiet  BY DEF HandshakeInv, Handshake!InStep, Handshake!Underway
        <5>2. start_toggle_tck' = ~start_toggle_tck /\ done_toggle_sync2' = start_toggle_tck
          BY <5>1 DEF Handshake!Quiet, TckEdge, Bridge!TckSide, TypeOK, Bridge!TypeOK
        <5>3. start_toggle_tck \in BOOLEAN  BY DEF TypeOK, Bridge!TypeOK
        <5>4. Bridge!busy_tck'  BY <5>2, <5>3 DEF Bridge!busy_tck
        <5>. QED BY <5>4 DEF Settled
      <4>4. bridge_busy_prev /\ rw_tck  BY <3>3, <4>2, <4>3 DEF Settled, AskedInv
      <4>5. ResultArrives(Bridge!busy_tck)  BY <4>2, <4>4 DEF ResultArrives
      <4>. QED BY <3>1, <4>5, Result
    <3>. QED BY <3>2, <3>3
  <2>3. phase' \in {"ir_result", "result"} => data_reg' = rdata_reg
    <3>. SUFFICES ASSUME phase' \in {"ir_result", "result"} PROVE data_reg' = rdata_reg
      OBVIOUS
    <3>1. CASE phase = "poll"
      <4>1. Settled /\ wanted.rw  BY <3>1, PollEnds
      <4>. QED BY <3>1, <4>1, Result DEF AnsweredInv
    <3>2. CASE phase # "poll"
      <4>1. /\ phase \in {"ir_result", "result"}
            /\ phase = "result" => at # ScanLength(phase)
        BY <1>3, <3>2, ScanMoves DEF After
      <4>. QED BY <4>1, Result DEF AnsweredInv
    <3>. QED BY <3>1, <3>2
  <2>4. phase' \in {"written", "ir_result", "result", "read"} => (Okay(status') <=> resp_ok)
    <3>. SUFFICES ASSUME phase' \in {"written", "ir_result", "result", "read"}
         PROVE  Okay(status') <=> resp_ok
      OBVIOUS
    <3>1. CASE phase = "poll"
      <4>1. status' = out /\ (Okay(out) <=> resp_ok)  BY <1>3, <3>1, PollEnds, ScanMoves
      <4>. QED BY <4>1
    <3>2. CASE phase # "poll"
      <4>1. status' = status /\ phase \in {"ir_result", "result"}
        BY <1>3, <3>2, ScanMoves DEF After, IrPhases, DrPhases
      <4>. QED BY <4>1 DEF AnsweredInv
    <3>. QED BY <3>1, <3>2
  <2>5. phase' \in {"read", "identified", "bypassed"} =>
          /\ at = ScanLength(phase) /\ out' = out
          /\ phase' = "read" => phase = "result"
          /\ phase' = "identified" => phase = "idcode"
          /\ phase' = "bypassed" => phase = "bypass"
    BY <1>3, ScanMoves DEF After, IrPhases, DrPhases
  <2>6. phase' = "read" => out' = rdata_reg
    BY <2>5, ScanWhole DEF Captures, DrPhases
  <2>7. phase' = "identified" => out' = IdCode
    BY <2>5, ScanWhole DEF Captures, DrPhases
  <2>8. phase' = "bypassed" => out' = [i \in 1 .. DrBits |-> Flag(i = DrBits)]
    BY <2>5 DEF BypassInv, ScanLength, IrPhases
  <2>. QED BY <1>1, <2>1, <2>2, <2>3, <2>4, <2>6, <2>7, <2>8 DEF AnsweredInv, ChainIsWhole, Okay
<1>. QED BY <1>2, <1>3 DEF TckEdge

(* What a data scan brings in and takes out.                               *)
LEMMA TckDr ==
  ASSUME ChainInv, TckEdge
  PROVE  DrInv'
<1>. USE ChainTypes DEF ChainInv
<1>. SUFFICES ASSUME phase' \in DrPhases \ {"bypass"}, at' >= 4
     PROVE  /\ Entered(dr_shift', DrBits, ValueOf(phase)', DrShifted')
            /\ Captures(Seen(out, dr_shift, DrShifted))'
  BY DEF DrInv
<1>1. Scan
  BY DEF TckEdge, Rest, AtRest, Resting, DrPhases, probeVars
<1>2. /\ at < ScanLength(phase) /\ phase' = phase /\ at' = at + 1 /\ wanted' = wanted
      /\ keeps_rw' = keeps_rw /\ ScanLength(phase) = DrBits + 5 /\ at \in 3 .. DrBits + 4
      /\ phase \in DrPhases \ {"bypass"} /\ ~AtRest
  <2>1. at < ScanLength(phase)
    BY <1>1, ScanMoves
  <2>2. phase' = phase /\ at' = at + 1 /\ wanted' = wanted /\ keeps_rw' = keeps_rw
    BY <1>1, <2>1, ScanMoves
  <2>. QED BY <1>1, <2>1, <2>2, ScanTypes DEF Scan
<1>3. /\ rdata_reg' = rdata_reg /\ resp_ok' = resp_ok
      /\ phase = "poll" /\ ~start_pulse_tck /\ ~Bridge!busy_tck => Settled'
      /\ ValueOf(phase)' = ValueOf(phase)
  <2>1. rdata_reg' = rdata_reg /\ resp_ok' = resp_ok  BY DEF TckEdge, clkVars
  <2>2. phase = "poll" /\ ~start_pulse_tck /\ ~Bridge!busy_tck => Settled'
    BY TckStays, Starting
  <2>. QED BY <1>2, <2>1, <2>2 DEF ValueOf, Ctrl
<1>4. dr_shift' = (IF at = 3 THEN Captured(Bridge!busy_tck, resp_ok_sync2)
                   ELSE IF at \in 4 .. DrBits + 3
                   THEN ShiftRight(dr_shift, DrBits, ValueOf(phase)[at - 3]) ELSE dr_shift)
  BY <1>1, <1>2, DrEdge
<1>5. out' = (IF at \in 4 .. DrBits + 3 THEN ShiftRight(out, DrBits, tdo) ELSE out)
  BY <1>1, <1>2, ScanMoves
<1>6. ir_reg = CodeOf(phase)  BY <1>2 DEF IrInv
<1>7. CASE at = 3
  <2>1. DrShifted' = 0  BY <1>2, <1>7 DEF DrShifted
  <2>2. Seen(out', dr_shift', 0) = dr_shift'
    BY TckTypes, SeenBounds DEF TypeOK, DtmTypeOK
  <2>3. dr_shift' = Captured(Bridge!busy_tck, resp_ok_sync2)  BY <1>4, <1>7
  <2>4. Captures(dr_shift)'
    <3>1. phase = "result" => dr_shift' = rdata_reg
      BY <1>6, <2>3, CodesDiffer DEF CodeOf, Captured, AnsweredInv
    <3>2. phase = "idcode" => dr_shift' = IdCode
      BY <1>6, <2>3, CodesDiffer DEF CodeOf, Captured
    <3>3. phase = "poll" /\ dr_shift'[1] = 0 => Settled' /\ (dr_shift'[2] = 1 <=> resp_ok)
      <4>. SUFFICES ASSUME phase = "poll", dr_shift'[1] = 0
           PROVE  Settled' /\ (dr_shift'[2] = 1 <=> resp_ok)
        OBVIOUS
      <4>1. dr_shift' = Ctrl(Bridge!busy_tck, resp_ok_sync2)
        BY <1>6, <2>3, CodesDiffer DEF CodeOf, Captured
      <4>2. /\ dr_shift'[1] = IF Bridge!busy_tck THEN 1 ELSE 0
            /\ dr_shift'[2] = IF resp_ok_sync2 THEN 1 ELSE 0
        BY <4>1 DEF Ctrl, Flag
      <4>3. ~Bridge!busy_tck /\ ~start_pulse_tck  BY <1>7, <4>2 DEF AskedInv
      <4>4. resp_ok_sync2 = resp_ok  BY <4>3, Stays
      <4>. QED BY <1>3, <4>2, <4>3, <4>4
    <3>. QED BY <1>2, <1>3, <3>1, <3>2, <3>3 DEF Captures
  <2>. QED BY <2>1, <2>2, <2>4 DEF Entered
<1>8. ASSUME at >= 4
      PROVE  /\ Entered(dr_shift, DrBits, ValueOf(phase), DrShifted)
             /\ Captures(Seen(out, dr_shift, DrShifted))
             /\ Seen(out', dr_shift', DrShifted') = Seen(out, dr_shift, DrShifted) =>
                  Captures(Seen(out, dr_shift, DrShifted))'
  <2>1. /\ Entered(dr_shift, DrBits, ValueOf(phase), DrShifted)
        /\ Captures(Seen(out, dr_shift, DrShifted))
    BY <1>2, <1>8 DEF DrInv
  <2>. DEFINE c == Seen(out, dr_shift, DrShifted)
  <2>2. c' = c => Captures(c)'
    <3>1. Captures(c)  BY <2>1
    <3>. HIDE DEF c
    <3>. QED BY <1>2, <1>3, <3>1 DEF Captures, Settled
  <2>. QED BY <2>1, <2>2
<1>9. CASE at \in 4 .. DrBits + 3
  <2>1. DrShifted = at - 4 /\ DrShifted' = (at - 4) + 1 /\ at - 4 \in 0 .. DrBits - 1
        /\ (at - 4) + 1 = at - 3
    BY <1>2, <1>9 DEF DrShifted
  <2>2. /\ dr_shift' = ShiftRight(dr_shift, DrBits, ValueOf(phase)[at - 3])
        /\ out' = ShiftRight(out, DrBits, dr_shift[1])
    <3>1. ir_reg # IR_BYPASS
      BY <1>2, <1>6, CodesDiffer DEF CodeOf, DrPhases, Named
    <3>. QED BY <1>4, <1>5, <1>9, <3>1 DEF tdo
  <2>3. Entered(dr_shift', DrBits, ValueOf(phase), (at - 4) + 1)
    <3>1. DrBits \in Nat \ {0} /\ dr_shift \in Dr(DrBits)  OBVIOUS
    <3>2. Entered(dr_shift, DrBits, ValueOf(phase), at - 4)  BY <1>8, <1>9, <2>1
    <3>. QED BY <2>1, <2>2, <3>1, <3>2, EnterOne
  <2>4. Seen(out', dr_shift', (at - 4) + 1) = Seen(out, dr_shift, at - 4)
    BY <2>1, <2>2, SeenOne
  <2>. QED BY <1>3, <1>8, <1>9, <2>1, <2>3, <2>4
<1>10. CASE at = DrBits + 4
  <2>1. DrShifted = DrBits /\ DrShifted' = DrBits  BY <1>2, <1>10 DEF DrShifted
  <2>2. dr_shift' = dr_shift /\ out' = out  BY <1>4, <1>5, <1>10
  <2>. QED BY <1>3, <1>8, <1>10, <2>1, <2>2
<1>. QED BY <1>2, <1>7, <1>9, <1>10

(* BYPASS is one bit long.                                                 *)
LEMMA TckBypass ==
  ASSUME ChainInv, TckEdge
  PROVE  BypassInv'
<1>. USE ChainTypes DEF ChainInv
<1>. SUFFICES ASSUME phase' = "bypass" PROVE BypassInv'
  BY DEF BypassInv
<1>1. Scan  BY DEF TckEdge, Rest, AtRest, Resting, probeVars
<1>2. CASE phase = "bypass"
  <2>0. phase \in DrPhases /\ ScanLength(phase) = 7 /\ After(phase) = "bypassed"
    BY <1>2 DEF DrPhases, IrPhases, ScanLength, After
  <2>1. at \in 1 .. 6 /\ at' = at + 1
        /\ out' = (IF at \in 4 .. 5 THEN ShiftRight(out, DrBits, tdo) ELSE out)
    BY <1>1, <1>2, <2>0, ScanMoves
  <2>2. tdo = bypass_reg  BY <2>0, <1>2 DEF IrInv, CodeOf, tdo
  <2>3. (at = 3 => bypass_reg' = 0) /\ (at = 4 => bypass_reg' = 1)
    BY <1>1, <1>2, <2>0, DrEdge
  <2>4. at = 4 => out' = Zero(DrBits)
    BY <1>2, <2>1, <2>2 DEF BypassInv, ShiftRight, Zero
  <2>5. at = 5 => out' = [i \in 1 .. DrBits |-> Flag(i = DrBits)]
    BY <1>2, <2>1, <2>2 DEF BypassInv, ShiftRight, Zero, Flag
  <2>. QED BY <1>2, <2>1, <2>3, <2>4, <2>5 DEF BypassInv
<1>3. CASE phase # "bypass"
  <2>1. at' = 1 /\ out' = Zero(DrBits)
    BY <1>1, <1>3, ScanMoves DEF After
  <2>. QED BY <2>1 DEF BypassInv
<1>. QED BY <1>2, <1>3

(* An edge of tck keeps all of it.                                         *)
LEMMA TckKeeps ==
  ASSUME ChainInv, TckEdge, OnTime
  PROVE  ChainInv'
<1>1. TypeOK'  BY TckTypes
<1>2. HandshakeInv'
  BY <1>1, TckRequest, TckHandshake DEF ChainInv, TypeOK, TckEdge
<1>. QED
  BY <1>1, <1>2, TckTap, TckIr, TckDr, TckBypass, TckWanted, TckAsked, TckAnswered DEF ChainInv

-----------------------------------------------------------------------------
(* An edge of clk, and the start.                                          *)

(* With nothing asked of it the bridge does nothing.                       *)
LEMMA ClkStays ==
  ASSUME ChainInv, ClkEdge
  PROVE  /\ UNCHANGED <<dtmVars, tckVars, probeVars>> /\ (Settled' <=> Settled)
         /\ ~start_pulse_tck /\ ~Bridge!busy_tck =>
              UNCHANGED <<bus_addr, bus_wdata, rdata_reg, resp_ok, state, start_toggle_sync2_d>>
<1>1. UNCHANGED <<dtmVars, tckVars, probeVars>>  BY DEF ClkEdge
<1>2. Settled' <=> Settled  BY <1>1 DEF Settled, Bridge!busy_tck, dtmVars, tckVars
<1>3. ASSUME ~start_pulse_tck, ~Bridge!busy_tck
      PROVE  UNCHANGED <<bus_addr, bus_wdata, rdata_reg, resp_ok, state, start_toggle_sync2_d>>
  <2>1. Handshake!Quiet /\ state = "IDLE"  BY <1>3, Stays
  <2>2. Handshake!BusStep(start_toggle_tck, addr_reg, data_reg, rw_tck)
    BY ClkHandshake DEF ChainInv, TypeOK
  <2>3. ~Handshake!start_pulse_clk  BY <2>1 DEF Handshake!Quiet, Handshake!start_pulse_clk
  <2>. QED BY <2>1, <2>2, <2>3 DEF Handshake!BusStep, Handshake!Quiet
<1>. QED BY <1>1, <1>2, <1>3

(* The bus gets the transaction that was asked for.                        *)
LEMMA ClkLatches ==
  ASSUME ChainInv, ClkEdge, Latched'
  PROVE  bus_addr' = wanted.addr /\ (~wanted.rw => bus_wdata' = wanted.data)
<1>. USE DEF ChainInv
<1>1. /\ start_toggle_tck' = start_toggle_tck /\ phase' = phase
      /\ start_pulse_tck' = start_pulse_tck
  BY ClkStays DEF tckVars, probeVars, dtmVars
<1>2. Handshake!BusStep(start_toggle_tck, addr_reg, data_reg, rw_tck)
  BY ClkHandshake DEF TypeOK
<1>3. CASE phase \in {"written", "ir_result", "result", "read"}
  <2>1. Settled  BY <1>3 DEF AskedInv
  <2>2. bus_addr' = bus_addr /\ bus_wdata' = bus_wdata  BY <2>1, ClkStays DEF Settled
  <2>. QED BY <1>3, <2>2 DEF AskedInv, Latched
<1>4. CASE phase = "poll" /\ ~start_pulse_tck /\ start_toggle_sync2_d = start_toggle_tck
  <2>1. ~Handshake!start_pulse_clk
    BY <1>4 DEF HandshakeInv, Handshake!InStep, Handshake!Quiet, Handshake!Underway,
                Handshake!start_pulse_clk, TypeOK, Bridge!TypeOK
  <2>2. bus_addr' = bus_addr /\ bus_wdata' = bus_wdata
    BY <1>2, <2>1 DEF Handshake!BusStep
  <2>. QED BY <1>4, <2>2 DEF AskedInv, Latched
<1>5. CASE phase = "poll" /\ ~start_pulse_tck /\ start_toggle_sync2_d # start_toggle_tck
  <2>1. start_toggle_sync2_d' = start_toggle_sync2  BY <1>2 DEF Handshake!BusStep
  <2>2. start_toggle_sync2 = start_toggle_tck  BY <1>1, <1>5, <2>1 DEF Latched
  <2>3. state = "IDLE" /\ Handshake!start_pulse_clk
    BY <1>5, <2>2 DEF HandshakeInv, Handshake!InStep, Handshake!Quiet, Handshake!Underway,
                Handshake!start_pulse_clk, TypeOK, Bridge!TypeOK
  <2>4. bus_addr' = addr_reg /\ bus_wdata' = data_reg
    BY <1>2, <2>3 DEF Handshake!BusStep
  <2>. QED BY <1>5, <2>4 DEF WantedInv
<1>. QED BY <1>1, <1>3, <1>4, <1>5 DEF Latched

LEMMA ClkKeeps ==
  ASSUME ChainInv, ClkEdge
  PROVE  ChainInv'
<1>. USE DEF ChainInv
<1>1. UNCHANGED <<dtmVars, tckVars, probeVars>> /\ (Settled' <=> Settled)  BY ClkStays
<1>2. Bridge!TypeOK' /\ HandshakeInv'  BY ClkHandshake DEF TypeOK
<1>3. TypeOK' /\ TapInv' /\ IrInv' /\ BypassInv' /\ WantedInv'
  BY <1>1, <1>2 DEF TypeOK, DtmTypeOK, AtRest, TapInv, IrInv, IrShifted, BypassInv, WantedInv,
                    dtmVars, probeVars
<1>4. Settled => rdata_reg' = rdata_reg /\ resp_ok' = resp_ok
  BY ClkStays DEF Settled
<1>5. DrInv'
  <2>. SUFFICES ASSUME phase \in DrPhases \ {"bypass"}, at >= 4
       PROVE  /\ Entered(dr_shift, DrBits, ValueOf(phase), DrShifted)
              /\ Captures(Seen(out, dr_shift, DrShifted))'
    BY <1>1 DEF DrInv, dtmVars, probeVars, ValueOf, DrShifted
  <2>. DEFINE c == Seen(out, dr_shift, DrShifted)
  <2>1. Captures(c) /\ Entered(dr_shift, DrBits, ValueOf(phase), DrShifted)  BY DEF DrInv
  <2>2. c' = c /\ phase' = phase  BY <1>1 DEF dtmVars, probeVars, DrShifted
  <2>. HIDE DEF c
  <2>3. Captures(c)'  BY <1>1, <1>4, <2>1, <2>2 DEF Captures, AskedInv
  <2>. QED BY <2>1, <2>3 DEF c
<1>6. AskedInv'
  <2>1. Latched' => bus_addr' = wanted.addr /\ (~wanted.rw => bus_wdata' = wanted.data)
    BY ClkLatches
  <2>. QED BY <1>1, <2>1 DEF AskedInv, dtmVars, probeVars
<1>7. AnsweredInv'
  BY <1>1, <1>4 DEF AnsweredInv, ChainIsWhole, Okay, AskedInv, dtmVars, probeVars
<1>. QED BY <1>2, <1>3, <1>5, <1>6, <1>7

LEMMA ChainBegins == Init => ChainInv
<1>. SUFFICES ASSUME Init PROVE ChainInv
  OBVIOUS
<1>. DrBits \in Nat /\ DrBits >= 2  BY DtmAssumption
<1>. USE DEF Init, DtmInit, TapInit, ChainRests, Bridge!TckInit, Bridge!ClkInit
<1>0. Zero(DrBits) \in Dr(DrBits) /\ Zero(DrBits) \in Words /\ Zero(4) \in Dr(4)
      /\ IR_IDCODE \in Dr(4)
  BY ZeroType, ChainAssumption, CodesAreWords
<1>1. TypeOK
  <2>1. DtmTypeOK  BY <1>0 DEF DtmTypeOK, TapStates, onZero, Ir, IrBits, Bit
  <2>2. Bridge!TypeOK  BY <1>0 DEF Bridge!TypeOK
  <2>. QED BY <1>0, <2>1, <2>2 DEF TypeOK, AtRest, Resting, Phases
<1>2. TapInv /\ IrInv /\ DrInv /\ BypassInv
  BY DEF TapInv, AtRest, Resting, IrInv, DrInv, BypassInv, IrPhases, DrPhases
<1>3. HandshakeInv
  BY DEF HandshakeInv, Handshake!InStep, Handshake!Quiet, Handshake!OnBus,
         Handshake!ResponseFollows
<1>4. WantedInv  BY <1>0 DEF WantedInv
<1>5. AskedInv  BY DEF AskedInv, Settled, Bridge!busy_tck, Latched
<1>6. AnsweredInv  BY DEF AnsweredInv, ChainIsWhole
<1>. QED BY <1>1, <1>2, <1>3, <1>4, <1>5, <1>6 DEF ChainInv

LEMMA ChainStutters == ASSUME ChainInv, UNCHANGED vars PROVE ChainInv'
<1>. USE DEF ChainInv, vars, dtmVars, tckVars, clkVars, probeVars
<1>1. TypeOK'  BY DEF TypeOK, DtmTypeOK, AtRest, Bridge!TypeOK
<1>2. TapInv' /\ IrInv' /\ BypassInv'
  BY DEF TapInv, AtRest, IrInv, IrShifted, BypassInv
<1>3. DrInv'  BY DEF DrInv, DrShifted, ValueOf, Captures, Settled, Bridge!busy_tck
<1>4. HandshakeInv'
  BY DEF HandshakeInv, Handshake!InStep, Handshake!Quiet, Handshake!Underway, Handshake!OnBus,
         Handshake!ResponseFollows
<1>5. WantedInv' /\ AskedInv' /\ AnsweredInv'
  BY DEF WantedInv, AskedInv, AnsweredInv, ChainIsWhole, Settled, Bridge!busy_tck, Latched, Okay
<1>. QED BY <1>1, <1>2, <1>3, <1>4, <1>5

-----------------------------------------------------------------------------
(* In the benches the answer is there before the poll ends.                *)

LEMMA LeftTypes ==
  /\ ClkLeft \in 0 .. 5 /\ TckLeft \in 0 .. 3
  /\ ClkLeft = 0 <=> start_toggle_sync2_d = start_toggle_tck /\ state = "IDLE"
  /\ ClkLeft = 1 <=> /\ start_toggle_sync2_d = start_toggle_tck
                     /\ state \notin {"IDLE", "WR_GO", "RD_GO"}
  /\ ClkLeft = 2 <=> start_toggle_sync2_d = start_toggle_tck /\ state \in {"WR_GO", "RD_GO"}
BY DEF ClkLeft, TckLeft

(* While something is underway, the bus first and then the way back.       *)
LEMMA Unsettled ==
  ASSUME ChainInv, ~start_pulse_tck, ~Settled
  PROVE  /\ phase = "poll" /\ TckLeft \in 1 .. 3
         /\ ClkLeft # 0 => /\ TckLeft = 3 /\ Bridge!busy_tck
                           /\ done_toggle_clk # start_toggle_tck
                           /\ done_toggle_sync1 # start_toggle_tck
         /\ ClkLeft = 0 => done_toggle_clk = start_toggle_tck
<1>. USE DEF ChainInv
<1>0. /\ start_toggle_tck \in BOOLEAN /\ done_toggle_clk \in BOOLEAN
      /\ done_toggle_sync1 \in BOOLEAN /\ done_toggle_sync2 \in BOOLEAN
      /\ start_toggle_sync1 \in BOOLEAN /\ start_toggle_sync2 \in BOOLEAN
      /\ start_toggle_sync2_d \in BOOLEAN
  BY DEF TypeOK, Bridge!TypeOK
<1>1. phase = "poll"  BY DEF AskedInv
<1>2. TckLeft \in 1 .. 3  BY DEF TckLeft, Settled, Bridge!busy_tck
<1>3. ClkLeft = 0 => done_toggle_clk = start_toggle_tck
  BY <1>0, LeftTypes DEF HandshakeInv, Handshake!InStep
<1>4. ASSUME ClkLeft # 0
      PROVE  done_toggle_clk # start_toggle_tck
  <2>1. ~Handshake!Quiet  BY <1>4, LeftTypes DEF Handshake!Quiet, HandshakeInv, Handshake!InStep
  <2>2. Handshake!Underway  BY <2>1 DEF HandshakeInv, Handshake!InStep
  <2>. QED BY <1>0, <1>4, <2>2, LeftTypes DEF HandshakeInv, Handshake!InStep, Handshake!Underway
<1>5. ASSUME ClkLeft # 0
      PROVE  /\ done_toggle_sync1 # start_toggle_tck /\ done_toggle_sync2 # start_toggle_tck
  BY <1>0, <1>4, <1>5
  DEF HandshakeInv, Handshake!InStep, Handshake!Quiet, Handshake!Underway
<1>. QED BY <1>1, <1>2, <1>3, <1>4, <1>5 DEF TckLeft, Bridge!busy_tck

(* An edge of tck starts the clock of a transaction, or is one of those    *)
(* its answer takes.                                                       *)
LEMMA TckTiming ==
  ASSUME ChainInv, TckEdge, ~start_pulse_tck', ~Settled'
  PROVE  \/ start_pulse_tck /\ at' = 2 /\ ClkLeft' = 5 /\ TckLeft' = 3
         \/ /\ ~start_pulse_tck /\ ~Settled /\ ClkLeft' = ClkLeft
            /\ at # ScanLength("poll") => at' = at + 1
            /\ TckLeft' = IF ClkLeft = 0 THEN TckLeft - 1 ELSE TckLeft
<1>. USE DEF ChainInv
<1>0. /\ start_toggle_tck \in BOOLEAN /\ done_toggle_clk \in BOOLEAN
      /\ done_toggle_sync1 \in BOOLEAN /\ done_toggle_sync2 \in BOOLEAN
  BY DEF TypeOK, Bridge!TypeOK
<1>1. /\ start_toggle_tck' = (start_toggle_tck # start_pulse_tck)
      /\ done_toggle_sync1' = done_toggle_clk /\ done_toggle_sync2' = done_toggle_sync1
      /\ UNCHANGED <<start_toggle_sync1, start_toggle_sync2, start_toggle_sync2_d, state>>
  BY DEF TckEdge, Bridge!TckSide, clkVars
<1>2. CASE start_pulse_tck
  <2>1. phase = "poll" /\ at = 1 /\ Scan
    BY <1>2 DEF AskedInv, Settled, TckEdge, Rest, AtRest, Resting
  <2>2. at' = 2  BY <2>1, ScanMoves, DtmAssumption DEF ScanLength, IrPhases
  <2>3. Handshake!Quiet  BY <1>2 DEF HandshakeInv, Handshake!InStep, Handshake!Underway
  <2>4. start_toggle_tck' = ~start_toggle_tck  BY <1>0, <1>1, <1>2
  <2>5. /\ start_toggle_sync1' = start_toggle_tck /\ start_toggle_sync2' = start_toggle_tck
        /\ start_toggle_sync2_d' = start_toggle_tck
        /\ done_toggle_sync1' = start_toggle_tck /\ done_toggle_sync2' = start_toggle_tck
    BY <1>1, <2>3 DEF Handshake!Quiet
  <2>6. ClkLeft' = 5  BY <1>0, <2>4, <2>5 DEF ClkLeft
  <2>7. TckLeft' = 3  BY <1>0, <2>4, <2>5 DEF TckLeft
  <2>. QED BY <1>2, <2>2, <2>6, <2>7
<1>3. CASE ~start_pulse_tck
  <2>1. start_toggle_tck' = start_toggle_tck
    BY <1>1, <1>3 DEF TypeOK, Bridge!TypeOK
  <2>2. ~Settled  BY <1>3, TckStays DEF Settled
  <2>3. ClkLeft' = ClkLeft  BY <1>1, <2>1 DEF ClkLeft
  <2>4. phase = "poll" /\ Scan
    BY <1>3, <2>2, Unsettled DEF TckEdge, Rest, AtRest, Resting
  <2>5. at # ScanLength("poll") => at' = at + 1  BY <2>4, ScanMoves
  <2>6. bridge_busy_prev' = Bridge!busy_tck  BY <2>4, DrEdge DEF DrPhases
  <2>7. TckLeft' = IF ClkLeft = 0 THEN TckLeft - 1 ELSE TckLeft
    <3>1. CASE ClkLeft # 0
      <4>1. /\ TckLeft = 3 /\ done_toggle_sync1' # start_toggle_tck'
            /\ done_toggle_sync2' # start_toggle_tck'
        BY <1>1, <1>3, <2>1, <2>2, <3>1, Unsettled
      <4>. QED BY <3>1, <4>1 DEF TckLeft
    <3>2. CASE ClkLeft = 0
      <4>1. done_toggle_sync1' = start_toggle_tck'
        BY <1>1, <1>3, <2>1, <2>2, <3>2, Unsettled
      <4>2. bridge_busy_prev' <=> start_toggle_tck # done_toggle_sync2
        BY <2>6 DEF Bridge!busy_tck
      <4>3. TckLeft \in 1 .. 3  BY <1>3, <2>2, Unsettled
      <4>. QED BY <1>0, <1>1, <2>1, <3>2, <4>1, <4>2, <4>3 DEF TckLeft, HandshakeInv,
               Handshake!InStep, Handshake!Quiet, Handshake!Underway
    <3>. QED BY <3>1, <3>2
  <2>. QED BY <1>3, <2>2, <2>3, <2>5, <2>7
<1>. QED BY <1>2, <1>3

(* The state machine of the bus goes round by one state at a time.         *)
LEMMA BusGoesOn ==
  ASSUME ChainInv, ClkEdge
  PROVE  \/ state' = state
         \/ state = "IDLE" /\ state' \in {"WR_GO", "RD_GO"}
         \/ state = "WR_GO" /\ state' = "WR_B"
         \/ state = "RD_GO" /\ state' = "RD_R"
         \/ state \in {"WR_B", "RD_R"} /\ state' = "IDLE"
BY DEF ClkEdge, Bridge!ClkSide, Bridge!BusIdle, Bridge!BusWriteGo, Bridge!BusWriteResponse,
       Bridge!BusReadGo, Bridge!BusReadData

LEMMA ClkTiming ==
  ASSUME ChainInv, ClkEdge, ~start_pulse_tck, ~Settled
  PROVE  /\ ClkLeft' = ClkLeft \/ (ClkLeft > 0 /\ ClkLeft' = ClkLeft - 1)
         /\ ClkLeft > 2 => ClkLeft' = ClkLeft - 1
         /\ ClkLeft \in 1 .. 2 /\ state' # state => ClkLeft' = ClkLeft - 1
<1>. USE DEF ChainInv
<1>0. /\ start_toggle_tck \in BOOLEAN /\ done_toggle_clk \in BOOLEAN
      /\ done_toggle_sync1 \in BOOLEAN /\ done_toggle_sync2 \in BOOLEAN
      /\ start_toggle_sync1 \in BOOLEAN /\ start_toggle_sync2 \in BOOLEAN
      /\ start_toggle_sync2_d \in BOOLEAN
  BY DEF TypeOK, Bridge!TypeOK
<1>1. /\ Handshake!BusStep(start_toggle_tck, addr_reg, data_reg, rw_tck)
      /\ start_toggle_tck' = start_toggle_tck
  BY ClkHandshake DEF TypeOK, ClkEdge, tckVars, dtmVars, probeVars
<1>2. CASE start_toggle_sync2_d = start_toggle_tck
  <2>1. start_toggle_sync2 = start_toggle_tck
    BY <1>0, <1>2 DEF HandshakeInv, Handshake!InStep, Handshake!Quiet, Handshake!Underway
  <2>2. start_toggle_sync2_d' = start_toggle_tck' /\ (state = "IDLE" => state' = "IDLE")
    BY <1>1, <1>2, <2>1 DEF Handshake!BusStep, Handshake!start_pulse_clk
  <2>. QED BY <1>1, <1>2, <2>2, BusGoesOn DEF ClkLeft
<1>3. CASE start_toggle_sync2_d # start_toggle_tck
  <2>1. Handshake!Underway
    BY <1>3 DEF HandshakeInv, Handshake!InStep, Handshake!Quiet
  <2>2. state = "IDLE"
    BY <1>0, <1>3, <2>1 DEF HandshakeInv, Handshake!InStep, Handshake!Underway
  <2>3. /\ start_toggle_sync1' = start_toggle_tck /\ start_toggle_sync2' = start_toggle_sync1
        /\ start_toggle_sync2_d' = start_toggle_sync2
        /\ start_toggle_sync2 = start_toggle_tck => start_toggle_sync1 = start_toggle_tck
    BY <1>0, <1>1, <2>1 DEF Handshake!BusStep, Handshake!Underway
  <2>4. start_toggle_sync2 = start_toggle_tck => state' \in {"WR_GO", "RD_GO"}
    BY <1>1, <1>3, <2>2, BusGoesOn DEF Handshake!BusStep, Handshake!start_pulse_clk
  <2>. QED BY <1>1, <1>3, <2>3, <2>4 DEF ClkLeft
<1>. QED BY <1>2, <1>3

LEMMA BenchOnTime == ASSUME ChainInv, BenchesInv PROVE OnTime
<1>. SUFFICES ASSUME phase = "poll", at = ScanLength(phase), ~Settled PROVE FALSE
  BY DEF OnTime
<1>1. at = DrBits + 5 /\ DrBits \in Nat /\ DrBits >= 24
  BY DtmAssumption, BenchAssumption DEF ScanLength, IrPhases
<1>2. ~start_pulse_tck  BY <1>1 DEF ChainInv, AskedInv
<1>3. TckLeft \in 1 .. 3 /\ ClkLeft \in 0 .. 5  BY <1>2, LeftTypes, Unsettled
<1>4. CASE ratio = "fast_tck"
  BY <1>1, <1>2, <1>3, <1>4 DEF BenchesInv, FastInv, TCK_EDGES_PER_CLK
<1>5. CASE ratio # "fast_tck"
  BY <1>1, <1>2, <1>3, <1>5 DEF BenchesInv, SlowInv
<1>. QED BY <1>4, <1>5

LEMMA PollEdge ==
  ASSUME ChainInv, FastInv \/ SlowInv, ~start_pulse_tck, ~Settled
  PROVE  at # ScanLength("poll") /\ at \in Nat
<1>1. ScanLength("poll") = DrBits + 5 /\ DrBits \in Nat /\ DrBits >= 24
  BY DtmAssumption, BenchAssumption DEF ScanLength, IrPhases
<1>2. TckLeft \in 1 .. 3 /\ ClkLeft \in 0 .. 5 /\ phase = "poll"  BY LeftTypes, Unsettled
<1>3. at \in Nat  BY <1>1, <1>2 DEF ChainInv, TypeOK, AtRest, Resting
<1>. QED BY <1>1, <1>2, <1>3 DEF FastInv, SlowInv, TCK_EDGES_PER_CLK

LEMMA FastTck ==
  ASSUME ChainInv, FastInv, TckEdge, ticks # 0, ticks' = ticks - 1
  PROVE  FastInv'
<1>. SUFFICES ASSUME ~start_pulse_tck', ~Settled'
     PROVE  at' + TckLeft' + (IF ClkLeft' = 0 THEN 0
                              ELSE ticks' + TCK_EDGES_PER_CLK * (ClkLeft' - 1)) <= 29
  BY DEF FastInv, TCK_EDGES_PER_CLK
<1>0. ticks \in 1 .. 5 /\ TCK_EDGES_PER_CLK = 5  BY DEF FastInv, TCK_EDGES_PER_CLK
<1>1. CASE start_pulse_tck
  <2>1. at' = 2 /\ ClkLeft' = 5 /\ TckLeft' = 3  BY <1>1, TckTiming
  <2>. QED BY <1>0, <2>1
<1>2. CASE ~start_pulse_tck
  <2>1. /\ ~Settled /\ ClkLeft' = ClkLeft /\ (at # ScanLength("poll") => at' = at + 1)
        /\ TckLeft' = IF ClkLeft = 0 THEN TckLeft - 1 ELSE TckLeft
    BY <1>2, TckTiming
  <2>2. at # ScanLength("poll") /\ at \in Nat  BY <1>2, <2>1, PollEdge
  <2>3. ClkLeft \in 0 .. 5 /\ TckLeft \in 1 .. 3  BY <1>2, <2>1, LeftTypes, Unsettled
  <2>. QED BY <1>0, <1>2, <2>1, <2>2, <2>3 DEF FastInv
<1>. QED BY <1>1, <1>2

LEMMA FastClk ==
  ASSUME ChainInv, FastInv, ClkEdge, ticks = 0, ticks' = TCK_EDGES_PER_CLK,
         state # "IDLE" => state' # state
  PROVE  FastInv'
<1>. SUFFICES ASSUME ~start_pulse_tck', ~Settled'
     PROVE  at' + TckLeft' + (IF ClkLeft' = 0 THEN 0
                              ELSE ticks' + TCK_EDGES_PER_CLK * (ClkLeft' - 1)) <= 29
  BY DEF FastInv, TCK_EDGES_PER_CLK
<1>0. TCK_EDGES_PER_CLK = 5  BY DEF TCK_EDGES_PER_CLK
<1>1. /\ ~start_pulse_tck /\ ~Settled /\ at' = at /\ TckLeft' = TckLeft
  BY ClkStays DEF dtmVars, tckVars, probeVars, TckLeft
<1>2. at \in Nat /\ ClkLeft \in 0 .. 5 /\ TckLeft \in 1 .. 3
  BY <1>1, LeftTypes, Unsettled, PollEdge
<1>3. ClkLeft' = IF ClkLeft = 0 THEN 0 ELSE ClkLeft - 1
  BY <1>1, <1>2, LeftTypes, ClkTiming
<1>. QED BY <1>0, <1>1, <1>2, <1>3 DEF FastInv

LEMMA SlowTck ==
  ASSUME ChainInv, SlowInv, TckEdge, ticks = 0, ticks' = CLK_EDGES_PER_TCK
  PROVE  SlowInv'
<1>0. CLK_EDGES_PER_TCK = 10  BY DEF CLK_EDGES_PER_TCK
<1>. SUFFICES ASSUME ~start_pulse_tck', ~Settled'
     PROVE  IF ClkLeft' = 0 THEN at' + TckLeft' <= 6
            ELSE \/ /\ at' = 2 /\ (ClkLeft' > 2 => ClkLeft' + 5 <= ticks')
                    /\ (ticks' = 0 => ClkLeft' = 1)
                 \/ at' = 3 /\ ClkLeft' = 1 /\ ticks' > 0
  BY <1>0 DEF SlowInv
<1>1. CASE start_pulse_tck
  <2>1. at' = 2 /\ ClkLeft' = 5 /\ TckLeft' = 3  BY <1>1, TckTiming
  <2>. QED BY <1>0, <2>1
<1>2. CASE ~start_pulse_tck
  <2>1. /\ ~Settled /\ ClkLeft' = ClkLeft /\ (at # ScanLength("poll") => at' = at + 1)
        /\ TckLeft' = IF ClkLeft = 0 THEN TckLeft - 1 ELSE TckLeft
    BY <1>2, TckTiming
  <2>2. at # ScanLength("poll") /\ at \in Nat  BY <1>2, <2>1, PollEdge
  <2>3. ClkLeft \in 0 .. 5 /\ TckLeft \in 1 .. 3  BY <1>2, <2>1, LeftTypes, Unsettled
  <2>. QED BY <1>0, <1>2, <2>1, <2>2, <2>3 DEF SlowInv
<1>. QED BY <1>1, <1>2

LEMMA SlowClk ==
  ASSUME ChainInv, SlowInv, ClkEdge, ticks # 0, ticks' = ticks - 1,
         ticks = 1 /\ state # "IDLE" => state' # state
  PROVE  SlowInv'
<1>0. ticks \in 1 .. 10  BY DEF SlowInv, CLK_EDGES_PER_TCK
<1>. SUFFICES ASSUME ~start_pulse_tck', ~Settled'
     PROVE  IF ClkLeft' = 0 THEN at' + TckLeft' <= 6
            ELSE \/ /\ at' = 2 /\ (ClkLeft' > 2 => ClkLeft' + 5 <= ticks')
                    /\ (ticks' = 0 => ClkLeft' = 1)
                 \/ at' = 3 /\ ClkLeft' = 1 /\ ticks' > 0
  BY <1>0 DEF SlowInv, CLK_EDGES_PER_TCK
<1>1. /\ ~start_pulse_tck /\ ~Settled /\ at' = at /\ TckLeft' = TckLeft
  BY ClkStays DEF dtmVars, tckVars, probeVars, TckLeft
<1>2. at \in Nat /\ ClkLeft \in 0 .. 5 /\ TckLeft \in 1 .. 3 /\ (ClkLeft # 0 => TckLeft = 3)
  BY <1>1, LeftTypes, Unsettled, PollEdge
<1>3. /\ ClkLeft' = ClkLeft \/ (ClkLeft > 0 /\ ClkLeft' = ClkLeft - 1)
      /\ ClkLeft > 2 => ClkLeft' = ClkLeft - 1
      /\ ClkLeft \in 1 .. 2 /\ ticks = 1 => ClkLeft' = ClkLeft - 1
  BY <1>1, <1>2, LeftTypes, ClkTiming
<1>. QED BY <1>0, <1>1, <1>2, <1>3 DEF SlowInv

-----------------------------------------------------------------------------
(* The memory.                                                             *)

(* What the slave of any bench does at an edge of clk.                     *)
Serves ==
  /\ state' # state /\ state \in {"WR_B", "RD_R"} => resp_ok'
  /\ state' # state /\ state = "RD_R" /\ bus_addr \notin Poked => rdata_reg' = slave[bus_addr]
  /\ DOMAIN slave' = DOMAIN slave
  /\ \A a \in DOMAIN slave :
       slave'[a] = IF state = "WR_GO" /\ state' # state /\ a = bus_addr THEN bus_wdata ELSE slave[a]

LEMMA SlaveServes ==
  ASSUME ChainInv, MemoryInv, ClkEdge, SlaveAnswers \/ SocAnswers
  PROVE  Serves
<1>0. state' = "WR_B" /\ state = "WR_GO" <=> state = "WR_GO" /\ state' # state
  BY BusGoesOn
<1>1. DOMAIN slave \cap Poked = {}  BY DEF MemoryInv
<1>2. CASE SlaveAnswers
  <2>1. slave' = IF state = "WR_GO" THEN [slave EXCEPT ![bus_addr] = bus_wdata] ELSE slave
    BY <1>2 DEF SlaveAnswers
  <2>2. state = "WR_GO" => state' # state  BY <1>2 DEF SlaveAnswers
  <2>3. /\ DOMAIN slave' = DOMAIN slave
        /\ \A a \in DOMAIN slave :
             slave'[a] = IF state = "WR_GO" /\ state' # state /\ a = bus_addr THEN bus_wdata
                         ELSE slave[a]
    BY <2>1, <2>2
  <2>. QED BY <1>2, <2>3 DEF SlaveAnswers, Serves
<1>3. CASE SocAnswers
  <2>1. slave' = IF state = "WR_GO" /\ state' # state /\ bus_addr \notin Poked
                 THEN [slave EXCEPT ![bus_addr] = bus_wdata] ELSE slave
    BY <1>0, <1>3 DEF SocAnswers
  <2>2. /\ DOMAIN slave' = DOMAIN slave
        /\ \A a \in DOMAIN slave :
             slave'[a] = IF state = "WR_GO" /\ state' # state /\ a = bus_addr THEN bus_wdata
                         ELSE slave[a]
    BY <1>1, <2>1
  <2>. QED BY <1>3, <2>2 DEF SocAnswers, Serves
<1>. QED BY <1>2, <1>3

LEMMA MemoryTck ==
  ASSUME ChainInv, MemoryInv, TckEdge, MayCall, slave' = slave
  PROVE  MemoryInv'
<1>1. phase' \in Calls => wanted'.addr \in FakeAddrs \union SocAddrs
  <2>1. CASE Rest
    <3>1. \/ phase' = "ir_addr"
          \/ phase' \notin Calls
          \/ phase' = phase /\ wanted' = wanted
      BY <2>1 DEF Rest, probeVars, Calls
    <3>. QED BY <3>1 DEF MemoryInv, MayCall
  <2>2. CASE Scan
    <3>1. wanted' = wanted /\ (phase' = phase \/ phase' = After(phase))  BY <2>2, ScanMoves
    <3>2. phase' \in Calls => phase \in Calls
      BY <2>2, <3>1, ScanMoves DEF Calls, After, IrPhases, DrPhases
    <3>. QED BY <3>1, <3>2 DEF MemoryInv
  <2>. QED BY <2>1, <2>2 DEF TckEdge
<1>2. ASSUME Latched'
      PROVE  Latched /\ wanted' = wanted /\ ClkLeft' = ClkLeft
  BY <1>2, TckLatched DEF TckEdge, clkVars, ClkLeft
<1>3. rdata_reg' = rdata_reg /\ resp_ok' = resp_ok  BY DEF TckEdge, clkVars
<1>. QED BY <1>1, <1>2, <1>3 DEF MemoryInv

LEMMA MemoryClk ==
  ASSUME ChainInv, MemoryInv, ClkEdge, Serves
  PROVE  MemoryInv'
<1>. USE DEF ChainInv
<1>0. UNCHANGED <<phase, wanted, start_toggle_tck, start_pulse_tck>>
  BY DEF ClkEdge, tckVars, dtmVars, probeVars
<1>1. DOMAIN slave' = (FakeAddrs \union SocAddrs) \ Poked
      /\ (phase' \in Calls => wanted'.addr \in FakeAddrs \union SocAddrs)
  BY <1>0 DEF MemoryInv, Serves
<1>. SUFFICES ASSUME Latched', ClkLeft' <= 1
     PROVE  /\ ClkLeft' = 0 =>
                 /\ resp_ok'
                 /\ wanted.rw /\ wanted.addr \notin Poked => rdata_reg' = slave'[wanted.addr]
            /\ ~wanted.rw /\ wanted.addr \notin Poked => slave'[wanted.addr] = wanted.data
  BY <1>0, <1>1 DEF MemoryInv
<1>2. /\ phase \in Calls /\ ~start_pulse_tck
      /\ wanted.addr \notin Poked => wanted.addr \in DOMAIN slave
  BY <1>0 DEF MemoryInv, Latched, Calls, AskedInv, Settled
<1>3. ASSUME Settled, NEW a \in DOMAIN slave
      PROVE  slave'[a] = slave[a]
  BY <1>3, Stays DEF Serves, Settled
<1>4. CASE Settled
  <2>1. /\ state = "IDLE" /\ start_toggle_sync2_d = start_toggle_tck
        /\ UNCHANGED <<rdata_reg, resp_ok, start_toggle_sync2_d>>
    BY <1>4, Stays, ClkStays DEF Settled
  <2>2. Latched /\ ClkLeft = 0  BY <1>0, <2>1, LeftTypes DEF Latched
  <2>. QED BY <1>2, <1>3, <1>4, <2>1, <2>2 DEF MemoryInv
<1>5. CASE ~Settled
  <2>1. /\ phase = "poll" /\ ClkLeft \in 0 .. 2 /\ ClkLeft' \in 0 .. 1
        /\ ClkLeft' = ClkLeft \/ ClkLeft' = ClkLeft - 1
        /\ ClkLeft \in 1 .. 2 /\ state' # state => ClkLeft' = ClkLeft - 1
    <3>1. ClkLeft \in 0 .. 5  BY LeftTypes
    <3>. QED BY <1>2, <1>5, <3>1, Unsettled, ClkTiming
  <2>2. Latched /\ start_toggle_sync2_d = start_toggle_tck
    BY <1>2, <2>1, LeftTypes DEF Latched
  <2>3. bus_addr = wanted.addr /\ (~wanted.rw => bus_wdata = wanted.data)
    BY <2>2 DEF AskedInv
  <2>4. state # "IDLE" => (wanted.rw <=> state \in {"RD_GO", "RD_R"})
    BY <1>5 DEF AskedInv, HandshakeInv, Handshake!OnBus
  <2>5. start_toggle_sync2_d' = start_toggle_tck
    BY <1>0, <2>1 DEF Latched
  <2>6. state \in {"IDLE", "WR_GO", "WR_B", "RD_GO", "RD_R"}  BY DEF TypeOK, Bridge!TypeOK
  <2>7. CASE ClkLeft = 0
    <3>1. state = "IDLE"  BY <2>7, LeftTypes
    <3>2. start_toggle_sync2 = start_toggle_tck
      BY <2>2 DEF HandshakeInv, Handshake!InStep, Handshake!Quiet, Handshake!Underway, TypeOK,
                  Bridge!TypeOK
    <3>3. Handshake!BusStep(start_toggle_tck, addr_reg, data_reg, rw_tck)
      BY ClkHandshake DEF TypeOK
    <3>4. rdata_reg' = rdata_reg /\ resp_ok' = resp_ok
      BY <2>2, <3>1, <3>2, <3>3 DEF Handshake!BusStep, Handshake!start_pulse_clk
    <3>5. \A a \in DOMAIN slave : slave'[a] = slave[a]  BY <3>1 DEF Serves
    <3>. QED BY <1>2, <2>2, <2>7, <3>4, <3>5 DEF MemoryInv
  <2>8. CASE ClkLeft = 1
    <3>1. state \in {"WR_B", "RD_R"}  BY <2>6, <2>8, LeftTypes
    <3>2. \A a \in DOMAIN slave : slave'[a] = slave[a]  BY <3>1 DEF Serves
    <3>3. ClkLeft' = 0 => state' # state
      BY <2>8, <3>1 DEF ClkLeft
    <3>4. ~wanted.rw /\ wanted.addr \notin Poked => slave[wanted.addr] = wanted.data
      BY <2>2, <2>8 DEF MemoryInv
    <3>. QED BY <1>2, <2>3, <2>4, <3>1, <3>2, <3>3, <3>4 DEF Serves
  <2>9. CASE ClkLeft = 2
    <3>1. state \in {"WR_GO", "RD_GO"} /\ ClkLeft' = 1  BY <2>1, <2>9, LeftTypes
    <3>2. state' # state  BY <1>0, <2>5, <2>9, <3>1 DEF ClkLeft
    <3>. QED BY <1>2, <2>3, <2>4, <3>1, <3>2 DEF Serves
  <2>. QED BY <2>1, <2>7, <2>8, <2>9
<1>. QED BY <1>4, <1>5

-----------------------------------------------------------------------------
(* All of it.                                                              *)

LEMMA BenchesKeep ==
  ASSUME ChainInv, BenchesInv, BenchNext
  PROVE  ChainInv' /\ BenchesInv'
<1>0. MayCall /\ ratio' = ratio  BY DEF BenchNext
<1>1. ASSUME TckEdge
      PROVE  ChainInv' /\ ~keeps_rw'
  <2>1. keeps_rw' = keeps_rw  BY <1>1, ScanMoves DEF TckEdge, Rest, probeVars
  <2>2. OnTime  BY BenchOnTime
  <2>3. ChainInv'  BY <1>1, <2>2, TckKeeps
  <2>. QED BY <2>1, <2>3 DEF BenchesInv
<1>2. ASSUME ClkEdge
      PROVE  ChainInv' /\ ~keeps_rw'
  <2>1. keeps_rw' = keeps_rw  BY <1>2, ClkStays DEF probeVars
  <2>. QED BY <1>2, <2>1, ClkKeeps DEF BenchesInv
<1>3. CASE SlowTap
  <2>1. ratio = "slow_tck"  BY <1>3 DEF SlowTap
  <2>2. CASE ticks = 0
    BY <1>0, <1>1, <1>3, <2>1, <2>2, SlowTck, MemoryTck DEF SlowTap, BenchesInv
  <2>3. CASE ticks # 0
    <3>1. ClkEdge /\ SlaveAnswers /\ ticks' = ticks - 1  BY <1>3, <2>3 DEF SlowTap
    <3>2. SlowInv'  BY <2>1, <2>3, <3>1, SlowClk DEF BenchesInv, SlaveAnswers
    <3>3. MemoryInv'  BY <3>1, SlaveServes, MemoryClk DEF BenchesInv
    <3>. QED BY <1>0, <1>2, <2>1, <3>1, <3>2, <3>3 DEF BenchesInv
  <2>. QED BY <2>2, <2>3
<1>4. CASE FastTap
  <2>1. ratio = "fast_tck"  BY <1>4 DEF FastTap
  <2>2. CASE ticks # 0
    BY <1>0, <1>1, <1>4, <2>1, <2>2, FastTck, MemoryTck DEF FastTap, BenchesInv
  <2>3. CASE ticks = 0
    <3>1. ClkEdge /\ SlaveAnswers /\ ticks' = TCK_EDGES_PER_CLK  BY <1>4, <2>3 DEF FastTap
    <3>2. FastInv'  BY <2>1, <2>3, <3>1, FastClk DEF BenchesInv, SlaveAnswers
    <3>3. MemoryInv'  BY <3>1, SlaveServes, MemoryClk DEF BenchesInv
    <3>. QED BY <1>0, <1>2, <2>1, <3>1, <3>2, <3>3 DEF BenchesInv
  <2>. QED BY <2>2, <2>3
<1>5. CASE SocTap
  <2>1. ratio = "soc_top"  BY <1>5 DEF SocTap
  <2>2. CASE ticks = 0
    BY <1>0, <1>1, <1>5, <2>1, <2>2, SlowTck, MemoryTck DEF SocTap, BenchesInv
  <2>3. CASE ticks # 0
    <3>1. ClkEdge /\ SocAnswers /\ ticks' = ticks - 1  BY <1>5, <2>3 DEF SocTap
    <3>2. SlowInv'  BY <2>1, <2>3, <3>1, SlowClk DEF BenchesInv, SocAnswers
    <3>3. MemoryInv'  BY <3>1, SlaveServes, MemoryClk DEF BenchesInv
    <3>. QED BY <1>0, <1>2, <2>1, <3>1, <3>2, <3>3 DEF BenchesInv
  <2>. QED BY <2>2, <2>3
<1>. QED BY <1>3, <1>4, <1>5 DEF BenchNext

LEMMA MCBegins == MCInit => MCInv
<1>1. ASSUME driver = "debugger", Init, NoBench PROVE MCInv
  BY <1>1, ChainBegins DEF MCInv, NoBench, Driven
<1>2. ASSUME driver = "anything", Walk!DtmInit, ScanInit PROVE MCInv
  BY <1>2, WalkBegins DEF MCInv, Driven
<1>3. ASSUME driver = "bench", BenchInit PROVE MCInv
  <2>1. ChainInv /\ Settled /\ phase = "idle"
    BY <1>3, ChainBegins DEF BenchInit, Init, ChainRests, DtmInit, Bridge!TckInit, Settled,
                             Bridge!busy_tck
  <2>2. MemoryInv  BY <1>3, <2>1 DEF BenchInit, MemoryInv, Calls, Latched
  <2>3. BenchesInv
    BY <1>3, <2>1, <2>2
    DEF BenchInit, BenchesInv, FastInv, SlowInv, TCK_EDGES_PER_CLK, CLK_EDGES_PER_TCK
  <2>. QED BY <1>3, <2>1, <2>3 DEF MCInv, Driven
<1>. QED BY <1>1, <1>2, <1>3 DEF MCInit

LEMMA MCGoesOn == ASSUME MCInv, [MCNext]_MCVars PROVE MCInv'
<1>1. CASE DebuggerTck
  <2>1. driver = "debugger" /\ driver' = driver /\ TckEdge /\ ChainInv /\ keeps_rw
    BY <1>1 DEF DebuggerTck, MCInv, Driven
  <2>2. OnTime  BY <2>1 DEF OnTime
  <2>3. keeps_rw'  BY <2>1, ScanMoves DEF TckEdge, Rest, probeVars
  <2>. QED BY <2>1, <2>2, <2>3, TckKeeps DEF MCInv, Driven
<1>2. CASE DebuggerClk
  <2>1. driver = "debugger" /\ driver' = driver /\ ClkEdge /\ ChainInv /\ keeps_rw
    BY <1>2 DEF DebuggerClk, MCInv, Driven
  <2>. QED BY <2>1, ClkKeeps DEF MCInv, Driven, ClkEdge, probeVars
<1>3. CASE Anything
  <2>1. driver = "anything" /\ driver' = driver /\ WalkInv
    BY <1>3 DEF Anything, MCInv
  <2>2. WalkInv'  BY <1>3, <2>1, WalkGoes DEF Anything, ScanNext
  <2>. QED BY <2>1, <2>2 DEF MCInv, Driven
<1>4. CASE Benches
  <2>1. driver = "bench" /\ driver' = driver /\ BenchNext /\ ChainInv /\ BenchesInv
    BY <1>4 DEF Benches, MCInv, Driven
  <2>. QED BY <2>1, BenchesKeep DEF MCInv, Driven
<1>5. CASE UNCHANGED MCVars
  <2>1. UNCHANGED <<vars, ratio, ticks, slave, tdi_in_ir, ones, bits, count, model_state, driver>>
    BY <1>5 DEF MCVars, benchVars, scanVars
  <2>2. ChainInv => ChainInv'  BY <2>1, ChainStutters
  <2>3. WalkInv => WalkInv'
    BY <2>1 DEF WalkInv, Walk!DtmTypeOK, InDrScan, vars, dtmVars
  <2>4. BenchesInv => BenchesInv'
    BY <2>1 DEF BenchesInv, FastInv, SlowInv, MemoryInv, ClkLeft, TckLeft, Settled, Latched,
                Bridge!busy_tck, vars, dtmVars, tckVars, clkVars, probeVars
  <2>. QED BY <2>1, <2>2, <2>3, <2>4 DEF MCInv, Driven, vars, probeVars
<1>. QED BY <1>1, <1>2, <1>3, <1>4, <1>5 DEF MCNext

LEMMA MCAlways == MCSpec => []MCInv
BY MCBegins, MCGoesOn, PTL DEF MCSpec

-----------------------------------------------------------------------------
(* The TAP of jtag_tap.v goes where IEEE 1149.1 says, five ones reset it,  *)
(* what a scan shifts in arrives and BYPASS is one bit long, whatever TMS  *)
(* and TDI do and however wide the data registers are.                     *)
THEOREM ScansArrive == MCSpec => []ScanInv
<1>1. MCInv => ScanInv
  BY WalkShows DEF MCInv, ScanInv, ChainInv, Driven
<1>. QED BY <1>1, MCAlways, PTL

(* The sequence of jtag_dtm.v:20-24 does the write or the read it was used *)
(* for, at any ratio of the clocks; the benches, which shift RW away while *)
(* they poll, get theirs because a scan outlasts the bus.                  *)
THEOREM DebuggerIsServed == MCSpec => []DebuggerServed
<1>1. MCInv => DebuggerServed
  <2>. SUFFICES ASSUME MCInv, Driven
       PROVE  TransactionsSucceed /\ (driver = "bench" => ReadsBack)
    BY DEF DebuggerServed, Driven
  <2>1. ChainInv  BY DEF MCInv
  <2>2. TransactionsSucceed
    <3>1. phase \in {"written", "read"} =>
            /\ Latched /\ Settled /\ state = "IDLE"
            /\ bus_addr = wanted.addr /\ (~wanted.rw => bus_wdata = wanted.data)
            /\ Okay(status) <=> resp_ok
      BY <2>1, Stays DEF ChainInv, AskedInv, AnsweredInv, Latched, Settled
    <3>2. phase = "written" => ~wanted.rw  BY <2>1 DEF ChainInv, WantedInv
    <3>. QED BY <2>1, <3>1, <3>2
         DEF ChainInv, AnsweredInv, TransactionsSucceed, WriteHasHappened, ReadBringsTheWord
  <2>3. ASSUME driver = "bench", phase \in {"written", "read"}
        PROVE  /\ Okay(status)
               /\ wanted.addr \notin Poked =>
                    slave[wanted.addr] = IF wanted.rw THEN out ELSE wanted.data
    <3>1. BenchesInv /\ Settled /\ Latched
      BY <2>1, <2>3 DEF MCInv, ChainInv, AskedInv, Latched
    <3>2. ClkLeft = 0  BY <2>1, <3>1, Stays, LeftTypes DEF Settled
    <3>3. resp_ok /\ (wanted.rw /\ wanted.addr \notin Poked => rdata_reg = slave[wanted.addr])
          /\ (~wanted.rw /\ wanted.addr \notin Poked => slave[wanted.addr] = wanted.data)
      BY <3>1, <3>2 DEF BenchesInv, MemoryInv
    <3>4. (Okay(status) <=> resp_ok) /\ (wanted.rw => out = rdata_reg)
      BY <2>1, <2>3 DEF ChainInv, AnsweredInv, WantedInv
    <3>. QED BY <3>3, <3>4
  <2>. QED BY <2>2, <2>3 DEF ReadsBack
<1>. QED BY <1>1, MCAlways, PTL

(* The DTM keeps the requester's side of the bargain with the bridge       *)
(* (jtag_axi_bridge.v:172-174): every edge is a step of its specification, *)
(* so what JtagResetProofs shows of the bridge holds of the chain.         *)
THEOREM ChainMeetsTheBridge == MCSpec => MeetsTheBridge
<1>1. MCInit => (driver # "anything" => Bridge!Init)
  BY DEF MCInit, BenchInit, Init, DtmInit, ChainRests, Bridge!Init, Bridge!RequestInit
<1>2. MCInv /\ [MCNext]_MCVars => [driver # "anything" => Bridge!Next]_(Bridge!bridgeVars)
  <2>. SUFFICES ASSUME MCInv, [MCNext]_MCVars, Driven
       PROVE  Bridge!Next \/ UNCHANGED Bridge!bridgeVars
    BY DEF Driven
  <2>1. ChainInv  BY DEF MCInv
  <2>2. ASSUME TckEdge, OnTime PROVE Bridge!TckEdge
    BY <2>1, <2>2, TckRequest DEF TckEdge, Bridge!TckEdge, clkVars, Bridge!clkVars
  <2>3. ASSUME ClkEdge PROVE Bridge!ClkEdge
    BY <2>3 DEF ClkEdge, Bridge!ClkEdge, Bridge!requestVars, Bridge!tckVars, tckVars, dtmVars
  <2>4. CASE DebuggerTck
    BY <2>2, <2>4 DEF DebuggerTck, MCInv, OnTime, Bridge!Next
  <2>5. CASE DebuggerClk  BY <2>3, <2>5 DEF DebuggerClk, Bridge!Next
  <2>6. CASE Benches
    <3>1. OnTime  BY <2>1, <2>6, BenchOnTime DEF Benches, MCInv
    <3>. QED BY <2>2, <2>3, <2>6, <3>1
         DEF Benches, BenchNext, SlowTap, FastTap, SocTap, Bridge!Next
  <2>7. CASE UNCHANGED MCVars
    BY <2>7 DEF MCVars, vars, dtmVars, tckVars, clkVars, Bridge!bridgeVars, Bridge!requestVars,
                Bridge!tckVars, Bridge!clkVars
  <2>. QED BY <2>4, <2>5, <2>6, <2>7 DEF MCNext, Anything, Driven
<1>. QED BY <1>1, <1>2, MCAlways, PTL DEF MCSpec, MeetsTheBridge
=============================================================================
