---------------------------------- MODULE Uart ----------------------------------
(***************************************************************************)
(* The transmitter (uart.v): one byte at a time, no FIFO, the TX machine   *)
(* started by a pulse from the register process.  UartEdge is one rising   *)
(* edge of clk; its argument is the byte written to TXDATA, or None.  A    *)
(* byte has DataBits bits, 8 in the code, clk_cnt has CntWidth bits, 8.    *)
(***************************************************************************)
EXTENDS Naturals, Sequences

CONSTANTS DataBits, CLKS_PER_BIT, CntWidth, None

(* That 2^CntWidth is positive follows, but not for the provers.            *)
ASSUME UartAssumption ==
  /\ DataBits \in Nat \ {0} /\ CLKS_PER_BIT \in Nat \ {0}
  /\ CntWidth \in Nat \ {0} /\ 2^CntWidth \in Nat \ {0}
  /\ None \notin [0 .. DataBits - 1 -> BOOLEAN]

VARIABLES tx_state, tx, clk_cnt, bit_idx, tx_shift, do_start_tx, start_byte

uartVars == <<tx_state, tx, clk_cnt, bit_idx, tx_shift, do_start_tx, start_byte>>

Bits == 0 .. DataBits - 1
Byte == [Bits -> BOOLEAN]

UartTypeOK ==
  /\ tx_state \in {"IDLE", "START", "DATA", "STOP"}
  /\ tx \in BOOLEAN /\ do_start_tx \in BOOLEAN
  /\ clk_cnt \in 0 .. 2^CntWidth - 1 /\ bit_idx \in Bits
  /\ tx_shift \in Byte /\ start_byte \in Byte

(* tx_shift and start_byte have no reset and are not read before they are  *)
(* written: any value will do.                                             *)
UartInit ==
  /\ tx_state = "IDLE" /\ tx = TRUE /\ clk_cnt = 0 /\ bit_idx = 0
  /\ tx_shift = [i \in Bits |-> FALSE] /\ start_byte = [i \in Bits |-> FALSE]
  /\ do_start_tx = FALSE

(* The operators named Bad... are faulty variants, never part of the model: *)
(* each is a plausible slip that one of the properties must catch.          *)
BadTxBusy == tx_state \notin {"IDLE", "STOP"}      \* the stop bit forgotten
tx_busy == tx_state # "IDLE"

bit_ends == clk_cnt = CLKS_PER_BIT - 1

CountClk == clk_cnt' = (IF bit_ends THEN 0 ELSE (clk_cnt + 1) % 2^CntWidth)

TxIdle ==
  /\ tx_state = "IDLE" /\ tx' = TRUE
  /\ IF do_start_tx
     THEN tx_shift' = start_byte /\ tx_state' = "START" /\ clk_cnt' = 0
     ELSE UNCHANGED <<tx_shift, tx_state, clk_cnt>>
  /\ bit_idx' = bit_idx

TxStart ==
  /\ tx_state = "START" /\ tx' = FALSE /\ CountClk
  /\ tx_state' = (IF bit_ends THEN "DATA" ELSE "START")
  /\ bit_idx' = (IF bit_ends THEN 0 ELSE bit_idx)
  /\ tx_shift' = tx_shift

TxData ==
  /\ tx_state = "DATA" /\ tx' = tx_shift[bit_idx] /\ CountClk
  /\ tx_state' = (IF bit_ends /\ bit_idx = DataBits - 1 THEN "STOP" ELSE "DATA")
  /\ bit_idx' = (IF bit_ends /\ bit_idx # DataBits - 1 THEN bit_idx + 1 ELSE bit_idx)
  /\ tx_shift' = tx_shift

TxStop ==
  /\ tx_state = "STOP" /\ tx' = TRUE /\ CountClk
  /\ tx_state' = (IF bit_ends THEN "IDLE" ELSE "STOP")
  /\ UNCHANGED <<bit_idx, tx_shift>>

takes(w) == w # None /\ ~tx_busy

UartEdge(w) ==
  /\ TxIdle \/ TxStart \/ TxData \/ TxStop
  /\ do_start_tx' = takes(w)
  /\ start_byte' = (IF takes(w) THEN w ELSE start_byte)

-----------------------------------------------------------------------------
(***************************************************************************)
(* The transmitter between software that writes TXDATA and a receiver that *)
(* sees nothing but the line, as capture_byte of the testbench does: a     *)
(* falling line, half a bit, then one sample per bit.                      *)
(***************************************************************************)

CONSTANTS
  MinGap,     \* edges software lets pass between a write and the next STATUS read
  Payloads    \* the bytes it writes

ASSUME LineAssumption ==
  MinGap \in Nat /\ Payloads \subseteq Byte

VARIABLES
  polls,               \* software reads STATUS before it writes; otherwise it does not
  knows_idle, gap,     \* software: STATUS read as idle; edges since the write
  offer,               \* history: the byte that is owed until a stop bit has come
  dropped,             \* history: the last edge took a write that was in vain
  rx_wait, rx_bits,    \* receiver: edges to the next sample; samples so far
  received             \* the frame the receiver completed on the last edge

softVars == <<polls, knows_idle, gap>>
rxVars == <<rx_wait, rx_bits, received>>
uartLineVars == <<uartVars, softVars, offer, dropped, rxVars>>

NoFrame == <<>>
hunting == rx_wait = 0

UartLineInit ==
  /\ UartInit /\ polls \in BOOLEAN /\ knows_idle = FALSE /\ gap = MinGap /\ offer = None /\ dropped = FALSE
  /\ rx_wait = 0 /\ rx_bits = <<>> /\ received = NoFrame

(* The receiver: DataBits samples and the stop bit make a frame.           *)
Receive ==
  \/ /\ hunting /\ received' = NoFrame /\ rx_bits' = <<>>
     /\ rx_wait' = (IF tx THEN 0 ELSE CLKS_PER_BIT \div 2 + CLKS_PER_BIT)
  \/ /\ rx_wait > 1 /\ rx_wait' = rx_wait - 1 /\ rx_bits' = rx_bits /\ received' = NoFrame
  \/ /\ rx_wait = 1
     /\ LET got == Append(rx_bits, tx) IN
        IF Len(got) = DataBits + 1
        THEN rx_wait' = 0 /\ rx_bits' = <<>> /\ received' = got
        ELSE rx_wait' = CLKS_PER_BIT /\ rx_bits' = got /\ received' = NoFrame

(* The byte owed stays owed at this edge: its stop bit has not come yet.   *)
StillOwed == offer # None /\ ~(received' # NoFrame /\ received'[DataBits + 1])

UartLineEdge(w) ==
  /\ UartEdge(w) /\ Receive
  /\ dropped' = (w # None /\ (tx_busy \/ StillOwed))
  /\ offer' = IF StillOwed THEN offer ELSE IF takes(w) THEN w ELSE None

Wait ==
  /\ UartLineEdge(None) /\ UNCHANGED <<polls, knows_idle>>
  /\ gap' = (IF gap < MinGap THEN gap + 1 ELSE gap)

ReadStatus ==
  /\ polls /\ gap = MinGap /\ polls' = polls
  /\ UartLineEdge(None) /\ knows_idle' = ~tx_busy /\ gap' = gap

WriteTxData(b) ==
  /\ (polls => knows_idle) /\ polls' = polls
  /\ UartLineEdge(b) /\ knows_idle' = FALSE /\ gap' = 0

UartLineNext == Wait \/ ReadStatus \/ \E b \in Payloads : WriteTxData(b)

UartLineSpec == UartLineInit /\ [][UartLineNext]_uartLineVars

UartLineTypeOK ==
  /\ UartTypeOK /\ polls \in BOOLEAN /\ knows_idle \in BOOLEAN /\ gap \in 0 .. MinGap
  /\ offer \in Byte \union {None} /\ dropped \in BOOLEAN
  /\ rx_wait \in 0 .. 2 * CLKS_PER_BIT

-----------------------------------------------------------------------------
(* Whatever software writes and when, the receiver only ever gets whole    *)
(* frames, each the first byte written since the transmitter fell idle     *)
(* ("first write wins while busy"): a write that comes while one is being  *)
(* sent, or in the cycle before it starts, disturbs nothing.               *)
ArrivesIntact ==
  [][received' # NoFrame =>
       /\ offer # None
       /\ received' = [i \in 1 .. DataBits + 1 |-> i = DataBits + 1 \/ offer[i - 1]]]_uartLineVars

(* Software that polls STATUS before it writes, MinGap edges after its last *)
(* write at the earliest, loses no byte (l.7-9).  With MinGap = 0 it does: *)
(* tx_state leaves TX_IDLE a cycle after the write that is taken.          *)
NothingDropped == polls => ~dropped

(* Every byte the transmitter takes reaches the receiver, provided a bit   *)
(* period fits clk_cnt.                                                    *)
EveryOfferArrives == offer # None ~> offer = None
=============================================================================
