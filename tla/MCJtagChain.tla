------------------------------ MODULE MCJtagChain ------------------------------
(* TAP and DTM, driven by the debugger with the bridge behind (JtagChain),  *)
(* by any sequence of TMS and TDI with the bridge idle (the walks of        *)
(* tap_sim_main.cpp, with its model of the TAP beside), or by the three     *)
(* test benches (JtagBench); which, is chosen at the start.  In the walks a *)
(* data register has fewer bits.                                            *)
EXTENDS JtagBench

CONSTANTS WalkBits, WalkIdCode      \* DrBits and IdCode in the walks

Walk == INSTANCE JtagDtm WITH DrBits <- WalkBits, IdCode <- WalkIdCode

ASSUME WalkAssumption == Walk!DtmAssumption

VARIABLES
  tdi_in_ir, \* what the probe shifts into the instruction register: all 0 or all 1,
             \* which, on top of the captured 0101, reaches 0, 1, 2, 5, 10, 13, 14, 15
  ones,      \* history: TMS = 1 for the last so many edges, up to 6
  bits,      \* history: the last WalkBits bits shifted since CAPTURE_DR, as a word
  count,     \* history: how many, up to WalkBits
  model_state    \* the bench's model of the TAP

scanVars == <<tdi_in_ir, ones, bits, count, model_state>>

ScanInit == /\ tdi_in_ir \in Bit /\ ones = 6 /\ bits = Zero(WalkBits) /\ count = 0
            /\ model_state = "TEST_LOGIC_RESET"

(* The bench's table, in the order of its enumeration: TMS = 1, TMS = 0.   *)
model_next(cur, tms) ==
  LET row == [TEST_LOGIC_RESET |-> <<"TEST_LOGIC_RESET", "RUN_TEST_IDLE">>,
              RUN_TEST_IDLE  |-> <<"SELECT_DR_SCAN", "RUN_TEST_IDLE">>,
              SELECT_DR_SCAN |-> <<"SELECT_IR_SCAN", "CAPTURE_DR">>,
              CAPTURE_DR |-> <<"EXIT1_DR", "SHIFT_DR">>, SHIFT_DR |-> <<"EXIT1_DR", "SHIFT_DR">>,
              EXIT1_DR |-> <<"UPDATE_DR", "PAUSE_DR">>, PAUSE_DR |-> <<"EXIT2_DR", "PAUSE_DR">>,
              EXIT2_DR |-> <<"UPDATE_DR", "SHIFT_DR">>,
              UPDATE_DR |-> <<"SELECT_DR_SCAN", "RUN_TEST_IDLE">>,
              SELECT_IR_SCAN |-> <<"TEST_LOGIC_RESET", "CAPTURE_IR">>,
              CAPTURE_IR |-> <<"EXIT1_IR", "SHIFT_IR">>, SHIFT_IR |-> <<"EXIT1_IR", "SHIFT_IR">>,
              EXIT1_IR |-> <<"UPDATE_IR", "PAUSE_IR">>, PAUSE_IR |-> <<"EXIT2_IR", "PAUSE_IR">>,
              EXIT2_IR |-> <<"UPDATE_IR", "SHIFT_IR">>,
              UPDATE_IR |-> <<"SELECT_DR_SCAN", "RUN_TEST_IDLE">>][cur]
  IN  row[2 - tms]

AnyEdge(tms, tdi) ==
  /\ state_r = "SHIFT_IR" => tdi = tdi_in_ir
  /\ Walk!DtmEdge(tms, tdi, FALSE, FALSE, Zero(WalkBits))
  /\ ones' = (IF tms = 0 THEN 0 ELSE IF ones = 6 THEN 6 ELSE ones + 1)
  /\ bits' = (IF state_r = "SHIFT_DR" THEN ShiftRight(bits, WalkBits, tdi)
              ELSE IF state_r = "CAPTURE_DR" THEN Zero(WalkBits) ELSE bits)
  /\ count' = (IF state_r = "SHIFT_DR" /\ count < WalkBits THEN count + 1
               ELSE IF state_r = "CAPTURE_DR" THEN 0 ELSE count)
  /\ model_state' = model_next(model_state, tms)
  /\ UNCHANGED tdi_in_ir

ScanNext == \E tms, tdi \in Bit : AnyEdge(tms, tdi)

-----------------------------------------------------------------------------
VARIABLE driver

(* A word of 32 bits from its hexadecimal digits.                           *)
MCHex(digits) == [i \in 1 .. 32 |-> (digits[8 - (i - 1) \div 4] \div 2^((i - 1) % 4)) % 2]
MCAddr(n)     == MCHex(<<0, 0, 0, 0, 0, 0, n \div 16, n % 16>>)

MCIdCode     == MCHex(<<1, 12, 0, 13, 14, 0, 10, 3>>)     \* 1C0DE0A3
MCFakeAddrs  == {MCAddr(4), MCAddr(60)}
MCSocAddrs   == {MCAddr(4), MCAddr(8)}
MCPoked      == {MCAddr(8)}
MCWord       == MCHex(<<12, 10, 15, 14, 15, 0, 0, 13>>)    \* CAFEF00D
MCWords      == {Zero(32), MCWord}
MCTransactions ==
  {[rw |-> TRUE, addr |-> a, data |-> Zero(32)] : a \in MCFakeAddrs \union MCSocAddrs}
    \union {[rw |-> FALSE, addr |-> a, data |-> MCWord] : a \in MCSocAddrs}
MCWalkIdCode == <<1, 0>>

chainVars == <<tckVars, clkVars, probeVars, benchVars>>
MCVars == <<vars, benchVars, scanVars, driver>>

NoScan  == tdi_in_ir = 0 /\ ones = 0 /\ bits = Zero(WalkBits) /\ count = 0
           /\ model_state = "TEST_LOGIC_RESET"
NoBench == keeps_rw /\ ratio = "" /\ ticks = 0 /\ slave = << >>

(* A walk starts from the reset of a chain of its own width.                *)
MCInit ==
  \/ driver = "debugger" /\ Init /\ NoScan /\ NoBench
  \/ driver = "anything" /\ ChainRests /\ Walk!DtmInit /\ ScanInit /\ NoBench
  \/ driver = "bench" /\ BenchInit /\ NoScan

DebuggerTck == driver = "debugger" /\ TckEdge /\ UNCHANGED <<benchVars, scanVars, driver>>
DebuggerClk == driver = "debugger" /\ ClkEdge /\ UNCHANGED <<benchVars, scanVars, driver>>
Anything == driver = "anything" /\ ScanNext /\ UNCHANGED <<chainVars, driver>>
Benches == driver = "bench" /\ BenchNext /\ UNCHANGED <<scanVars, driver>>

MCNext == DebuggerTck \/ DebuggerClk \/ Anything \/ Benches

(* Both clocks run, and the bus answers what it is asked.                   *)
MCSpec == /\ MCInit /\ [][MCNext]_MCVars
          /\ WF_MCVars(DebuggerTck) /\ WF_MCVars(DebuggerClk)
          /\ WF_MCVars(DebuggerClk /\ state' # state) /\ WF_MCVars(Benches)

(* The debugger gets what it asked for, at any ratio of the clocks          *)
(* (TransactionsSucceed), and so do the benches at theirs, although they    *)
(* poll with zeros.                                                         *)
DebuggerServed ==
  /\ driver # "anything" => TransactionsSucceed
  /\ driver = "bench" => ReadsBack

(* With the debugger, and with the benches, the DTM starts nothing and      *)
(* changes nothing while BUSY (l.172-174 of jtag_axi_bridge.v): what the    *)
(* bridge relies on.                                                        *)
MeetsTheBridge ==
  (driver # "anything" => Bridge!Init)
  /\ [][driver # "anything" => Bridge!Next]_(Bridge!bridgeVars)

(* The TAP goes where the bench's model goes, whatever the walk.           *)
WalkMatchesModel == state_r = model_state

(* Five edges with TMS = 1 reach TEST_LOGIC_RESET from any state, the      *)
(* sixth selects IDCODE (jtag_tap.v:15-21).                                *)
FiveOnesReset ==
  /\ ones >= 5 => state_r = "TEST_LOGIC_RESET"
  /\ ones >= 6 => ir_reg = IR_IDCODE

(* What a whole scan puts in the data register is what went in, through    *)
(* any number of pauses.                                                   *)
ScanArrives ==
  state_r = "UPDATE_DR" /\ count = WalkBits /\ ir_reg \in Named
    => dr_shift = bits

(* BYPASS is one bit long: TDO is TDI one shift earlier, 0 at first.       *)
BypassIsOneBit ==
  ir_reg = IR_BYPASS /\ state_r = "SHIFT_DR" =>
    tdo = (IF count = 0 THEN 0 ELSE bits[WalkBits])

(* The TAP and the DTM do what a probe expects.                            *)
ScanInv ==
  /\ driver # "anything" => TypeOK
  /\ driver = "anything" =>
       Walk!DtmTypeOK /\ FiveOnesReset /\ ScanArrives /\ BypassIsOneBit /\ WalkMatchesModel
=============================================================================
