------------------------------- MODULE I2cMaster -------------------------------
(***************************************************************************)
(* The I2C master (i2c_master.v): one byte written to or read from a       *)
(* slave.  I2cEdge is one rising edge of clk; its arguments are the        *)
(* software's register write, a record, and the level of SDA.  A byte is   *)
(* indexed by bit, DataBits of them (8 in the code), bit 0 of the address  *)
(* byte being RW; the divider and its counter have DivWidth bits (32).     *)
(***************************************************************************)
EXTENDS Naturals

CONSTANTS DataBits, DivWidth

(* That 2^DivWidth is at least 8 follows, but not for the provers.         *)
I2cAssumption ==
  /\ DataBits \in Nat \ {0, 1} /\ DivWidth \in Nat \ 0 .. 2
  /\ 2^DivWidth \in Nat \ 0 .. 7

VARIABLES
  state, scl, sda_drive_low, phase, bit_idx, addr_rw, tx_shift, rx_shift, rxdata_reg,
  rw_r, divider_reg, div_cnt, addr_reg, txdata_reg, busy, done, nack, irq_pulse

latchedVars == <<addr_rw, tx_shift, rw_r>>
statusVars == <<busy, done, nack, irq_pulse>>
i2cVars == <<state, scl, sda_drive_low, phase, bit_idx, latchedVars, rx_shift, rxdata_reg,
             divider_reg, div_cnt, addr_reg, txdata_reg, statusVars>>

Bits == 0 .. DataBits - 1
Byte == [Bits -> BOOLEAN]
Addr == [Bits \ {0} -> BOOLEAN]
Div == 0 .. 2^DivWidth - 1
States == {"IDLE", "START", "ADDR", "ADDR_ACK", "WDATA", "WDATA_ACK", "RDATA",
           "RDATA_ACK", "STOP"}
ShiftIn(b, bit) == [i \in Bits |-> IF i = 0 THEN bit ELSE b[i - 1]]

I2cTypeOK ==
  /\ state \in States
  /\ {scl, sda_drive_low, phase, rw_r, busy, done, nack, irq_pulse} \subseteq BOOLEAN
  /\ bit_idx \in Bits /\ divider_reg \in Div \ {0} /\ div_cnt \in Div
  /\ {addr_rw, tx_shift, rx_shift, rxdata_reg, txdata_reg} \subseteq Byte
  /\ addr_reg \in Addr

(* The registers the reset leaves alone are set at START, or shifted out   *)
(* completely, before anything reads them.                                 *)
I2cInit ==
  LET zero == [i \in Bits |-> FALSE] IN
  /\ state = "IDLE" /\ scl = TRUE /\ sda_drive_low = FALSE /\ phase = FALSE /\ bit_idx = 0
  /\ addr_rw = zero /\ tx_shift = zero /\ rx_shift = zero /\ rxdata_reg = zero
  /\ rw_r = FALSE /\ divider_reg = 4 /\ div_cnt = 0
  /\ addr_reg = [i \in Bits \ {0} |-> FALSE] /\ txdata_reg = zero
  /\ busy = FALSE /\ done = FALSE /\ nack = FALSE /\ irq_pulse = FALSE

do_start(w) == w.reg = "CTRL" /\ w.start /\ ~busy
clears(w, bit) == w.reg = "STATUS" /\ w[bit]
tick == div_cnt = divider_reg - 1

Idle(w) ==
  /\ state = "IDLE" /\ scl' = TRUE /\ sda_drive_low' = FALSE /\ irq_pulse' = FALSE
  /\ IF do_start(w)
     THEN /\ rw_r' = w.rw /\ tx_shift' = txdata_reg
          /\ addr_rw' = [i \in Bits |-> IF i = 0 THEN w.rw ELSE addr_reg[i]]
          /\ busy' = TRUE /\ done' = FALSE /\ nack' = FALSE
          /\ div_cnt' = 0 /\ phase' = FALSE /\ state' = "START"
     ELSE /\ done' = (done /\ ~clears(w, "done")) /\ nack' = (nack /\ ~clears(w, "nack"))
          /\ UNCHANGED <<latchedVars, busy, div_cnt, phase, state>>
  /\ UNCHANGED <<bit_idx, rx_shift, rxdata_reg>>

Count(w) ==
  /\ state # "IDLE" /\ ~tick
  /\ div_cnt' = (div_cnt + 1) % 2^DivWidth
  /\ done' = (done /\ ~clears(w, "done")) /\ nack' = (nack /\ ~clears(w, "nack"))
  /\ irq_pulse' = FALSE
  /\ UNCHANGED <<state, scl, sda_drive_low, phase, bit_idx, latchedVars, rx_shift,
                 rxdata_reg, busy>>

(* SDA falls while SCL is high, and a half period later SCL follows.       *)
StartCondition ==
  /\ state = "START" /\ phase' = ~phase
  /\ IF ~phase
     THEN sda_drive_low' = TRUE /\ UNCHANGED <<scl, bit_idx, state>>
     ELSE scl' = FALSE /\ bit_idx' = DataBits - 1 /\ state' = "ADDR" /\ sda_drive_low' = sda_drive_low
  /\ UNCHANGED <<rx_shift, rxdata_reg>>

drivesLow ==
  \/ state = "ADDR" /\ ~addr_rw[bit_idx]
  \/ state = "WDATA" /\ ~tx_shift[bit_idx]
  \/ state = "STOP"

(* The operators named Bad... are faulty variants, never part of the model: *)
(* each is a plausible slip that one of the properties must catch.          *)
BadBitLow ==                    \* SDA moves a phase later than SCL
  /\ state \notin {"IDLE", "START"} /\ ~phase
  /\ scl' = (state = "STOP") /\ sda_drive_low' = drivesLow /\ phase' = TRUE
  /\ UNCHANGED <<state, bit_idx, rx_shift, rxdata_reg>>
BitLow ==
  /\ state \notin {"IDLE", "START"} /\ ~phase
  /\ scl' = FALSE /\ sda_drive_low' = drivesLow /\ phase' = TRUE
  /\ UNCHANGED <<state, bit_idx, rx_shift, rxdata_reg>>

afterBit(sda) ==
  CASE state = "ADDR"      -> IF bit_idx = 0 THEN "ADDR_ACK" ELSE "ADDR"
    [] state = "ADDR_ACK"  -> IF sda THEN "STOP" ELSE IF rw_r THEN "RDATA" ELSE "WDATA"
    [] state = "WDATA"     -> IF bit_idx = 0 THEN "WDATA_ACK" ELSE "WDATA"
    [] state = "RDATA"     -> IF bit_idx = 0 THEN "RDATA_ACK" ELSE "RDATA"
    [] OTHER               -> "STOP"

BitHigh(sda) ==
  /\ state \notin {"IDLE", "START", "STOP"} /\ phase
  /\ scl' = TRUE /\ phase' = FALSE /\ state' = afterBit(sda)
  /\ bit_idx' = IF state = "ADDR_ACK" /\ ~sda THEN DataBits - 1
                ELSE IF state \in {"ADDR", "WDATA", "RDATA"} /\ bit_idx # 0
                     THEN bit_idx - 1 ELSE bit_idx
  /\ rx_shift' = (IF state = "RDATA" THEN ShiftIn(rx_shift, sda) ELSE rx_shift)
  /\ rxdata_reg' = (IF state = "RDATA_ACK" THEN rx_shift ELSE rxdata_reg)
  /\ sda_drive_low' = sda_drive_low

(* SCL rises, and a half period later SDA does.                            *)
StopCondition ==
  /\ state = "STOP" /\ phase /\ scl' = TRUE
  /\ IF scl THEN sda_drive_low' = FALSE /\ state' = "IDLE"
            ELSE UNCHANGED <<sda_drive_low, state>>
  /\ UNCHANGED <<phase, bit_idx, rx_shift, rxdata_reg>>

finishes == state = "STOP" /\ phase /\ scl
unanswered(sda) == state \in {"ADDR_ACK", "WDATA_ACK"} /\ phase /\ sda

Status(w, sda) ==
  /\ done' = (finishes \/ (done /\ ~clears(w, "done")))
  /\ nack' = (unanswered(sda) \/ (nack /\ ~clears(w, "nack")))
  /\ busy' = (busy /\ ~finishes) /\ irq_pulse' = finishes

Tick(w, sda) ==
  /\ state # "IDLE" /\ tick /\ div_cnt' = 0
  /\ StartCondition \/ BitLow \/ BitHigh(sda) \/ StopCondition
  /\ Status(w, sda)
  /\ UNCHANGED latchedVars

I2cEdge(w, sda) ==
  /\ Idle(w) \/ Count(w) \/ Tick(w, sda)
  /\ divider_reg' = IF w.reg # "DIVIDER" THEN divider_reg
                    ELSE IF w.value = 0 THEN 1 ELSE w.value
  /\ addr_reg' = (IF w.reg = "ADDR" THEN w.value ELSE addr_reg)
  /\ txdata_reg' = (IF w.reg = "TXDATA" THEN w.value ELSE txdata_reg)

-----------------------------------------------------------------------------
(***************************************************************************)
(* The I2C master between any software and the slave of the testbenches    *)
(* (fake_i2c_slave.v), on an open-drain line with a pull-up.               *)
(***************************************************************************)

CONSTANTS
  MyAddr,         \* the address the slave answers to
  Payloads,       \* the bytes software and the slave send
  Dividers        \* the values software writes to DIVIDER, between transfers

LineAssumption ==
  /\ MyAddr \in Addr /\ Payloads \subseteq Byte /\ Dividers \subseteq Div


VARIABLES
  s_state, s_idx, s_shift, s_rw, s_drive_low, scl_prev, sda_prev, rx_byte, got_write,
  tx_byte,            \* the byte the slave offers
  to, sent,           \* history: ADDR and TXDATA at the last START
  half           \* history: edges since the last phase, up to divider_reg

slaveVars == <<s_state, s_idx, s_shift, s_rw, s_drive_low, scl_prev, sda_prev, rx_byte,
               got_write>>
vars == <<i2cVars, slaveVars, tx_byte, to, sent, half>>

sda == ~sda_drive_low /\ ~s_drive_low

Init ==
  LET zero == [i \in Bits |-> FALSE] IN
  /\ I2cInit
  /\ s_state = "IDLE" /\ s_idx = 0 /\ s_shift = zero /\ s_rw = FALSE /\ s_drive_low = FALSE
  /\ scl_prev = TRUE /\ sda_prev = TRUE /\ rx_byte = zero /\ got_write = FALSE
  /\ tx_byte = zero /\ to = [i \in Bits \ {0} |-> FALSE] /\ sent = zero
  /\ half = 0

start_cond == scl_prev /\ scl /\ sda_prev /\ ~sda
stop_cond == scl_prev /\ scl /\ ~sda_prev /\ sda
scl_rising == ~scl_prev /\ scl
scl_falling == scl_prev /\ ~scl
matched == \A i \in Bits \ {0} : s_shift[i] = MyAddr[i]
NextBit == s_idx' = (IF s_idx = 0 THEN 0 ELSE s_idx - 1)

SlaveStarts ==
  /\ start_cond /\ s_state' = "ADDR" /\ s_idx' = DataBits - 1
  /\ s_shift' = [i \in Bits |-> FALSE] /\ s_drive_low' = FALSE /\ got_write' = FALSE
  /\ UNCHANGED <<s_rw, rx_byte>>

SlaveStops ==
  /\ stop_cond /\ s_state' = "IDLE" /\ s_drive_low' = FALSE
  /\ UNCHANGED <<s_idx, s_shift, s_rw, rx_byte, got_write>>

(* What the slave pulls low from a falling edge on: its acknowledgements   *)
(* and the zeros it sends.                                                 *)
SlaveFalls ==
  /\ ~start_cond /\ ~stop_cond /\ scl_falling
  /\ s_drive_low' = \/ s_state = "ADDR" /\ s_drive_low
                    \/ s_state = "ADDR_ACK" /\ matched
                    \/ s_state = "WDATA_ACK"
                    \/ s_state = "RDATA" /\ ~s_shift[DataBits - 1]
  /\ IF s_state = "WDATA_ACK"
     THEN rx_byte' = s_shift /\ got_write' = TRUE /\ s_state' = "WAIT_STOP"
     ELSE UNCHANGED <<rx_byte, got_write, s_state>>
  /\ UNCHANGED <<s_idx, s_shift, s_rw>>

SlaveRises ==
  /\ ~start_cond /\ ~stop_cond /\ scl_rising
  /\ \/ /\ s_state \in {"ADDR", "WDATA"} /\ NextBit
        /\ s_shift' = ShiftIn(s_shift, sda)
        /\ s_rw' = (IF s_state = "ADDR" THEN sda ELSE s_rw)
        /\ s_state' = IF s_idx # 0 THEN s_state
                      ELSE IF s_state = "ADDR" THEN "ADDR_ACK" ELSE "WDATA_ACK"
     \/ /\ s_state = "ADDR_ACK" /\ s_idx' = DataBits - 1 /\ s_shift' = tx_byte /\ s_rw' = s_rw
        /\ s_state' = IF ~matched THEN "IDLE" ELSE IF s_rw THEN "RDATA" ELSE "WDATA"
     \/ /\ s_state = "RDATA" /\ NextBit /\ s_rw' = s_rw
        /\ IF s_idx = 0 THEN s_state' = "RDATA_ACK" /\ s_shift' = s_shift
                        ELSE s_state' = "RDATA" /\ s_shift' = ShiftIn(s_shift, FALSE)
     \/ /\ s_state \notin {"ADDR", "WDATA", "ADDR_ACK", "RDATA"}
        /\ UNCHANGED <<s_state, s_idx, s_shift, s_rw>>
  /\ s_drive_low' = (s_drive_low /\ s_state # "IDLE")
  /\ UNCHANGED <<rx_byte, got_write>>

SlaveWaits ==
  /\ ~start_cond /\ ~stop_cond /\ scl = scl_prev
  /\ s_drive_low' = (s_drive_low /\ s_state # "IDLE")
  /\ UNCHANGED <<s_state, s_idx, s_shift, s_rw, rx_byte, got_write>>

Slave ==
  /\ SlaveStarts \/ SlaveStops \/ SlaveFalls \/ SlaveRises \/ SlaveWaits
  /\ scl_prev' = scl /\ sda_prev' = sda

(* Software leaves STATUS.NACK alone until the transfer is over.           *)
Writes ==
  [reg : {"none"}] \union [reg : {"CTRL"}, start : {TRUE}, rw : BOOLEAN]
    \union [reg : {"ADDR"}, value : Addr] \union [reg : {"TXDATA"}, value : Payloads]
    \union [reg : {"STATUS"}, done : {TRUE}, nack : (IF busy THEN {FALSE} ELSE BOOLEAN)]
    \union (IF busy THEN {} ELSE [reg : {"DIVIDER"}, value : Dividers])

Edge(w, offer) ==
  /\ I2cEdge(w, sda) /\ Slave
  /\ IF do_start(w) THEN tx_byte' = offer /\ to' = addr_reg /\ sent' = txdata_reg
                    ELSE UNCHANGED <<tx_byte, to, sent>>
  /\ half' = IF do_start(w) \/ div_cnt' = 0 \/ ~busy THEN 0
             ELSE IF half < divider_reg THEN half + 1 ELSE half

Next ==
  \E w \in Writes : \E offer \in (IF do_start(w) THEN Payloads ELSE {tx_byte}) : Edge(w, offer)

Spec == Init /\ [][Next]_vars

TypeOK == I2cTypeOK /\ s_idx \in Bits /\ {s_shift, rx_byte, tx_byte, sent} \subseteq Byte

-----------------------------------------------------------------------------
(* A transfer that completes without NACK did what was asked at START: the *)
(* slave has the byte written, or software the byte read.                  *)
BytesArrive ==
  irq_pulse /\ ~nack =>
    IF rw_r THEN rxdata_reg = tx_byte ELSE got_write /\ rx_byte = sent

(* NACK says exactly that nobody answers to the address, and then nothing  *)
(* was written.                                                            *)
NackIffNobody ==
  irq_pulse => /\ nack <=> to # MyAddr
               /\ nack => ~got_write

(* While SCL stays high SDA moves for a START and a STOP of the master and *)
(* at no other time, whoever drives it (fake_i2c_slave.v:18-24).           *)
SdaIsStable ==
  [][scl /\ scl' /\ sda # sda' => (~sda' /\ state = "START") \/ (sda' /\ finishes)]_vars

(* However a transfer ends, aborted ones included, the line is left to     *)
(* everyone and the slave has seen the STOP an edge later.                 *)
LineIsReleased == [][irq_pulse => sda /\ scl /\ s_state' = "IDLE"]_vars

(* Whoever is interrupted finds DONE set and BUSY clear.                   *)
DoneIsVisible == irq_pulse => done /\ ~busy

(* Every transfer that is started ends.                                    *)
EveryTransferEnds == busy ~> ~busy

(* "Half SCL period" (l.21): no phase lasts longer than DIVIDER clocks.    *)
(* (A DIVIDER lowered during a transfer breaks this, as in SpiMaster.)       *)
HalfPeriodIsDivider == busy => half < divider_reg
=============================================================================
