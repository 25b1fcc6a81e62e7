------------------------------- MODULE SpiMaster -------------------------------
(***************************************************************************)
(* The SPI master (spi_master.v).  SpiEdge is one rising edge of clk; its  *)
(* argument is the software's register write as a record.  A byte is the   *)
(* sequence of its bits, most significant first, DataBits of them (8 in    *)
(* the code); the divider and its counter have DivWidth bits (32).         *)
(***************************************************************************)
EXTENDS Naturals, Sequences

CONSTANTS DataBits, DivWidth

(* That 2^DivWidth is at least 4 follows, but not for the provers.         *)
SpiAssumption ==
  /\ DataBits \in Nat \ {0, 1} /\ DivWidth \in Nat \ {0, 1}
  /\ 2^DivWidth \in Nat \ 0 .. 3

VARIABLES
  state, sclk, mosi, cs_n, cpol_r, cpha_r, divider_reg, div_cnt, edge_cnt,
  tx_shift, rx_shift, txdata_reg, rxdata_reg, busy, done, irq_pulse

spiVars == <<state, sclk, mosi, cs_n, cpol_r, cpha_r, divider_reg, div_cnt, edge_cnt,
             tx_shift, rx_shift, txdata_reg, rxdata_reg, busy, done, irq_pulse>>

Byte == [1 .. DataBits -> BOOLEAN]
Zeros(n) == [i \in 1 .. n |-> FALSE]
ShiftIn(bits, b) == Append(Tail(bits), b)
Div == 0 .. 2^DivWidth - 1

SpiTypeOK ==
  /\ state \in {"IDLE", "RUN"}
  /\ {sclk, mosi, cs_n, cpol_r, cpha_r, busy, done, irq_pulse} \subseteq BOOLEAN
  /\ divider_reg \in Div \ {0} /\ div_cnt \in Div /\ edge_cnt \in 0 .. 2 * DataBits
  /\ tx_shift \in [1 .. DataBits - 1 -> BOOLEAN]
  /\ {rx_shift, txdata_reg, rxdata_reg} \subseteq Byte

(* The registers the reset leaves alone are set at START, or shifted out   *)
(* completely, before anything reads them.                                 *)
SpiInit ==
  /\ state = "IDLE" /\ sclk = FALSE /\ cs_n = TRUE /\ divider_reg = 2
  /\ busy = FALSE /\ done = FALSE /\ irq_pulse = FALSE /\ txdata_reg = Zeros(DataBits)
  /\ mosi = FALSE /\ cpol_r = FALSE /\ cpha_r = FALSE /\ div_cnt = 0 /\ edge_cnt = 0
  /\ tx_shift = Zeros(DataBits - 1)
  /\ rx_shift = Zeros(DataBits) /\ rxdata_reg = Zeros(DataBits)

is_leading_edge == edge_cnt % 2 = 0
is_sample_edge == is_leading_edge = ~cpha_r
is_shift_edge == is_leading_edge = cpha_r /\ edge_cnt # 0

do_start(w) == w.reg = "CTRL" /\ w.start /\ ~busy

tick == div_cnt = divider_reg - 1

Start(w) ==
  /\ do_start(w)
  /\ cpol_r' = w.cpol /\ cpha_r' = w.cpha /\ sclk' = w.cpol
  /\ mosi' = Head(txdata_reg) /\ tx_shift' = Tail(txdata_reg)
  /\ cs_n' = FALSE /\ edge_cnt' = 0 /\ div_cnt' = 0
  /\ busy' = TRUE /\ done' = FALSE /\ irq_pulse' = FALSE /\ state' = "RUN"
  /\ UNCHANGED <<rx_shift, rxdata_reg>>

cleared(w) == w.reg = "STATUS" /\ w.done

Idle(w) ==
  /\ state = "IDLE" /\ ~do_start(w)
  /\ cs_n' = TRUE /\ done' = (done /\ ~cleared(w)) /\ irq_pulse' = FALSE
  /\ UNCHANGED <<state, sclk, mosi, cpol_r, cpha_r, div_cnt, edge_cnt, tx_shift,
                 rx_shift, rxdata_reg, busy>>

Count(w) ==
  /\ state = "RUN" /\ ~tick
  /\ div_cnt' = (div_cnt + 1) % 2^DivWidth
  /\ done' = (done /\ ~cleared(w)) /\ irq_pulse' = FALSE
  /\ UNCHANGED <<state, sclk, mosi, cs_n, cpol_r, cpha_r, edge_cnt, tx_shift, rx_shift,
                 rxdata_reg, busy>>

Toggle(w, miso) ==
  /\ state = "RUN" /\ tick /\ edge_cnt # 2 * DataBits
  /\ div_cnt' = 0 /\ sclk' = ~sclk /\ edge_cnt' = edge_cnt + 1
  /\ rx_shift' = (IF is_sample_edge THEN ShiftIn(rx_shift, miso) ELSE rx_shift)
  /\ IF is_shift_edge
     THEN mosi' = Head(tx_shift) /\ tx_shift' = ShiftIn(tx_shift, FALSE)
     ELSE UNCHANGED <<mosi, tx_shift>>
  /\ done' = (done /\ ~cleared(w)) /\ irq_pulse' = FALSE
  /\ UNCHANGED <<state, cs_n, cpol_r, cpha_r, rxdata_reg, busy>>

Finish(w) ==
  /\ state = "RUN" /\ tick /\ edge_cnt = 2 * DataBits
  /\ div_cnt' = 0 /\ cs_n' = TRUE /\ busy' = FALSE /\ done' = TRUE /\ irq_pulse' = TRUE
  /\ rxdata_reg' = rx_shift /\ state' = "IDLE"
  /\ UNCHANGED <<sclk, mosi, cpol_r, cpha_r, edge_cnt, tx_shift, rx_shift>>

next_divider(w) ==
  IF w.reg # "DIVIDER" THEN divider_reg ELSE IF w.value = 0 THEN 1 ELSE w.value

SpiEdge(w, miso) ==
  /\ (state = "IDLE" /\ Start(w)) \/ Idle(w) \/ Count(w) \/ Toggle(w, miso) \/ Finish(w)
  /\ divider_reg' = next_divider(w)
  /\ txdata_reg' = (IF w.reg = "TXDATA" THEN w.value ELSE txdata_reg)

-----------------------------------------------------------------------------
(***************************************************************************)
(* The SPI master between any software and the slave of the testbenches    *)
(* (fake_spi_slave.v), which is set to the mode the transfer was started   *)
(* with and offers a byte of its own.                                      *)
(***************************************************************************)

CONSTANTS
  Payloads,       \* the bytes software and the slave send
  Dividers        \* the values software writes to DIVIDER, between transfers

LineAssumption ==
  Payloads \subseteq Byte /\ Dividers \subseteq Div

VARIABLES
  s_tx, s_edges, miso, sclk_prev, cs_n_prev, received,    \* the slave
  preload,       \* the byte it offers
  sent,          \* history: TXDATA at the last START
  half           \* history: edges since the last phase, up to divider_reg

slaveVars == <<s_tx, s_edges, miso, sclk_prev, cs_n_prev, received>>
vars == <<spiVars, slaveVars, preload, sent, half>>

Init ==
  /\ SpiInit /\ miso = FALSE /\ s_tx = Zeros(DataBits - 1) /\ s_edges = 0
  /\ sclk_prev = FALSE /\ cs_n_prev = TRUE /\ received = Zeros(DataBits)
  /\ preload = Zeros(DataBits) /\ sent = Zeros(DataBits) /\ half = 0

SlaveSelected ==
  /\ cs_n_prev /\ ~cs_n
  /\ miso' = Head(preload) /\ s_tx' = Tail(preload)
  /\ s_edges' = 0 /\ sclk_prev' = cpol_r /\ received' = received

SlaveClocked ==
  /\ ~(cs_n_prev /\ ~cs_n) /\ ~cs_n /\ sclk # sclk_prev
  /\ LET leading == sclk # cpol_r IN
     /\ received' = (IF leading = ~cpha_r THEN ShiftIn(received, mosi) ELSE received)
     /\ IF leading = cpha_r /\ (~cpha_r \/ s_edges # 0)
        THEN miso' = Head(s_tx) /\ s_tx' = ShiftIn(s_tx, FALSE)
        ELSE UNCHANGED <<miso, s_tx>>
  /\ s_edges' = s_edges + 1 /\ sclk_prev' = sclk

SlaveWaits ==
  /\ cs_n \/ (~cs_n_prev /\ sclk = sclk_prev)
  /\ UNCHANGED <<s_tx, s_edges, miso, sclk_prev, received>>

Writes ==
  [reg : {"none"}]
    \union [reg : {"CTRL"}, start : {TRUE}, cpol : BOOLEAN, cpha : BOOLEAN]
    \union [reg : {"TXDATA"}, value : Payloads] \union [reg : {"STATUS"}, done : {TRUE}]
    \union (IF busy THEN {} ELSE [reg : {"DIVIDER"}, value : Dividers])

Edge(w, offer) ==
  /\ SpiEdge(w, miso)
  /\ SlaveSelected \/ SlaveClocked \/ SlaveWaits
  /\ cs_n_prev' = cs_n
  /\ IF do_start(w) THEN preload' = offer /\ sent' = txdata_reg ELSE UNCHANGED <<preload, sent>>
  /\ half' = IF do_start(w) \/ div_cnt' = 0 \/ ~busy THEN 0
             ELSE IF half < divider_reg THEN half + 1 ELSE half

Next ==
  \E w \in Writes : \E offer \in (IF do_start(w) THEN Payloads ELSE {preload}) : Edge(w, offer)

Spec == Init /\ [][Next]_vars

TypeOK ==
  /\ SpiTypeOK /\ s_edges \in 0 .. 2 * DataBits
  /\ received \in Byte /\ preload \in Byte /\ sent \in Byte

-----------------------------------------------------------------------------
(* In every mode, whatever else software writes meanwhile: when a transfer *)
(* completes, each side has the byte the other one had at START.           *)
BytesAreExchanged == irq_pulse => received = sent /\ rxdata_reg = preload

(* Whoever is interrupted finds DONE set, and BUSY clear: clearing DONE in *)
(* the very cycle a transfer completes does not lose it.                   *)
DoneIsVisible == irq_pulse => done /\ ~busy

(* The slave is never clocked unselected, nor deselected mid-byte: SCLK    *)
(* rests at the level of its mode before and after the bits.               *)
ClockRests == [][(cs_n # cs_n' /\ cs_n') => s_edges = 2 * DataBits /\ sclk' = cpol_r']_vars

(* Every transfer that is started ends.                                    *)
EveryTransferEnds == busy ~> ~busy

(* "Half SCLK period" (l.12): during a transfer SCLK never rests longer    *)
(* than DIVIDER clocks.  (A DIVIDER lowered during a transfer breaks this: *)
(* div_cnt runs past it, through all its values.)                          *)
HalfPeriodIsDivider == busy => half < divider_reg
=============================================================================
