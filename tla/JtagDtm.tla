-------------------------------- MODULE JtagDtm --------------------------------
(***************************************************************************)
(* The TAP controller (jtag_tap.v), the sixteen states of IEEE 1149.1, and *)
(* the debug transport module around it (jtag_dtm.v): instruction          *)
(* register, data registers of DrBits bits (32 in the code), TDO.  A word  *)
(* is the function from 1, its least significant bit, to its width.        *)
(* TapEdge and DtmEdge are one rising edge of tck outside reset, with the  *)
(* bridge's status and data as inputs of the latter.                       *)
(***************************************************************************)
EXTENDS Naturals

CONSTANTS DrBits, IdCode

IrBits == 4
Bit    == {0, 1}
Dr(bits) == [1 .. bits -> Bit]
Ir     == Dr(IrBits)

ASSUME DtmAssumption == DrBits \in Nat /\ DrBits >= 2 /\ IdCode \in Dr(DrBits)

VARIABLES
  state_r,                                                       \* the TAP
  ir_shift, ir_reg, dr_shift, bypass_reg, addr_reg, data_reg, bridge_busy_prev,
  start_pulse_tck, rw_tck

dtmVars == <<state_r, ir_shift, ir_reg, dr_shift, bypass_reg, addr_reg, data_reg,
             bridge_busy_prev, start_pulse_tck, rw_tck>>

-----------------------------------------------------------------------------
(* The TAP controller. *)

onZero == [TEST_LOGIC_RESET |-> "RUN_TEST_IDLE", RUN_TEST_IDLE |-> "RUN_TEST_IDLE",
           SELECT_DR_SCAN |-> "CAPTURE_DR", CAPTURE_DR |-> "SHIFT_DR", SHIFT_DR |-> "SHIFT_DR",
           EXIT1_DR |-> "PAUSE_DR", PAUSE_DR |-> "PAUSE_DR", EXIT2_DR |-> "SHIFT_DR",
           UPDATE_DR |-> "RUN_TEST_IDLE",
           SELECT_IR_SCAN |-> "CAPTURE_IR", CAPTURE_IR |-> "SHIFT_IR", SHIFT_IR |-> "SHIFT_IR",
           EXIT1_IR |-> "PAUSE_IR", PAUSE_IR |-> "PAUSE_IR", EXIT2_IR |-> "SHIFT_IR",
           UPDATE_IR |-> "RUN_TEST_IDLE"]

onOne  == [TEST_LOGIC_RESET |-> "TEST_LOGIC_RESET", RUN_TEST_IDLE |-> "SELECT_DR_SCAN",
           SELECT_DR_SCAN |-> "SELECT_IR_SCAN", CAPTURE_DR |-> "EXIT1_DR",
           SHIFT_DR |-> "EXIT1_DR", EXIT1_DR |-> "UPDATE_DR", PAUSE_DR |-> "EXIT2_DR",
           EXIT2_DR |-> "UPDATE_DR", UPDATE_DR |-> "SELECT_DR_SCAN",
           SELECT_IR_SCAN |-> "TEST_LOGIC_RESET", CAPTURE_IR |-> "EXIT1_IR",
           SHIFT_IR |-> "EXIT1_IR", EXIT1_IR |-> "UPDATE_IR", PAUSE_IR |-> "EXIT2_IR",
           EXIT2_IR |-> "UPDATE_IR", UPDATE_IR |-> "SELECT_DR_SCAN"]

TapStates == DOMAIN onZero

(* The operators named Bad... are faulty variants, never part of the model: *)
(* each is a plausible slip that one of the properties must catch.          *)
BadNextState(cur, tms) ==        \* PAUSE_DR does not leave on TMS = 1
  IF tms = 1 /\ cur # "PAUSE_DR" THEN onOne[cur] ELSE onZero[cur]
next_state(cur, tms) == IF tms = 1 THEN onOne[cur] ELSE onZero[cur]

TapInit == state_r = "TEST_LOGIC_RESET"
TapEdge(tms) == state_r' = next_state(state_r, tms)

test_logic_reset == state_r = "TEST_LOGIC_RESET"

-----------------------------------------------------------------------------
(* The data and instruction registers. *)

IR_IDCODE   == <<1, 0, 0, 0>>
IR_AXI_ADDR == <<0, 1, 0, 0>>
IR_AXI_DATA == <<1, 1, 0, 0>>
IR_AXI_CTRL == <<0, 0, 1, 0>>
IR_BYPASS   == <<1, 1, 1, 1>>

Named == {IR_IDCODE, IR_AXI_ADDR, IR_AXI_DATA, IR_AXI_CTRL}

DtmTypeOK ==
  /\ state_r \in TapStates /\ {ir_shift, ir_reg} \subseteq Ir
  /\ {dr_shift, addr_reg, data_reg} \subseteq Dr(DrBits) /\ bypass_reg \in Bit
  /\ {bridge_busy_prev, start_pulse_tck, rw_tck} \subseteq BOOLEAN

Zero(bits) == [i \in 1 .. bits |-> 0]

(* Only ir_reg, start_pulse_tck and bridge_busy_prev have a reset; the     *)
(* others start at 0 here.                                                 *)
DtmInit ==
  /\ TapInit /\ ir_reg = IR_IDCODE /\ start_pulse_tck = FALSE /\ bridge_busy_prev = FALSE
  /\ ir_shift = Zero(IrBits) /\ dr_shift = Zero(DrBits) /\ bypass_reg = 0
  /\ addr_reg = Zero(DrBits) /\ data_reg = Zero(DrBits) /\ rw_tck = FALSE

tdo == IF ir_reg = IR_BYPASS THEN bypass_reg ELSE dr_shift[1]

ShiftRight(reg, bits, tdi) == [i \in 1 .. bits |-> IF i = bits THEN tdi ELSE reg[i + 1]]
Flag(b) == IF b THEN 1 ELSE 0

(* START and RW, or BUSY and RESP_OK: the two lowest bits of AXI_CTRL.     *)
Ctrl(low, high) ==
  [i \in 1 .. DrBits |-> IF i = 1 THEN Flag(low) ELSE IF i = 2 THEN Flag(high) ELSE 0]

-----------------------------------------------------------------------------
IrRegisters(tdi) ==
  /\ ir_shift' = (IF state_r = "SHIFT_IR" THEN ShiftRight(ir_shift, IrBits, tdi)
                  ELSE IF state_r = "CAPTURE_IR" THEN <<1, 0, 1, 0>> ELSE ir_shift)
  /\ ir_reg' = (IF state_r = "UPDATE_IR" THEN ir_shift ELSE ir_reg)

Captured(busy, ok) ==
  IF ir_reg = IR_IDCODE THEN IdCode
  ELSE IF ir_reg = IR_AXI_ADDR THEN addr_reg
  ELSE IF ir_reg = IR_AXI_DATA THEN data_reg
  ELSE IF ir_reg = IR_AXI_CTRL THEN Ctrl(busy, ok)
  ELSE dr_shift

DrShifts    == ir_reg # IR_BYPASS

ScanRegisters(tdi, busy, ok) ==
  /\ dr_shift' = (IF state_r = "CAPTURE_DR" THEN Captured(busy, ok)
                  ELSE IF state_r = "SHIFT_DR" /\ DrShifts
                  THEN ShiftRight(dr_shift, DrBits, tdi) ELSE dr_shift)
  /\ bypass_reg' = (IF state_r = "CAPTURE_DR" /\ ir_reg \notin Named THEN 0
                    ELSE IF state_r = "SHIFT_DR" /\ ir_reg = IR_BYPASS THEN tdi
                    ELSE bypass_reg)

(* The operators named Bad... are faulty variants, never part of the model: *)
(* each is a plausible slip that one of the properties must catch.          *)

(* The result of a read is taken on the falling edge of BUSY; an UPDATE_DR *)
(* of AXI_DATA on the same edge wins.                                      *)
BadResultArrives(busy) == ~busy /\ rw_tck     \* a level check (l.91-98)
ResultArrives(busy) == bridge_busy_prev /\ ~busy /\ rw_tck

updates(code) == state_r = "UPDATE_DR" /\ ir_reg = code
BadStarts == (updates(IR_AXI_CTRL) /\ dr_shift[1] = 1) \/ start_pulse_tck   \* no default
Starts    == updates(IR_AXI_CTRL) /\ dr_shift[1] = 1

UpdateRegisters(busy, rdata) ==
  /\ addr_reg' = (IF updates(IR_AXI_ADDR) THEN dr_shift ELSE addr_reg)
  /\ data_reg' = (IF updates(IR_AXI_DATA) THEN dr_shift
                  ELSE IF ResultArrives(busy) THEN rdata ELSE data_reg)
  /\ rw_tck' = (IF updates(IR_AXI_CTRL) THEN dr_shift[2] = 1 ELSE rw_tck)
  /\ start_pulse_tck' = Starts

DtmEdge(tms, tdi, busy, ok, rdata) ==
  /\ TapEdge(tms)
  /\ IF test_logic_reset
     THEN /\ ir_reg' = IR_IDCODE /\ start_pulse_tck' = FALSE /\ bridge_busy_prev' = FALSE
          /\ UNCHANGED <<ir_shift, dr_shift, bypass_reg, addr_reg, data_reg, rw_tck>>
     ELSE /\ IrRegisters(tdi) /\ ScanRegisters(tdi, busy, ok) /\ UpdateRegisters(busy, rdata)
          /\ bridge_busy_prev' = busy
=============================================================================
