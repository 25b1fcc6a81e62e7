------------------------------- MODULE MCDevices -------------------------------
(* The timer, the watchdog, the UART, the SPI and the I2C master, one at a  *)
(* time: which, is chosen at the start, and the others rest.  They share no *)
(* state, so nothing is lost by not interleaving them.                      *)
EXTENDS TimersUse, Uart

CONSTANTS SpiDividers, I2cDividers, SpiPayloads, I2cPayloads, SpiBits, I2cBits, DivWidth

VARIABLES
  unit,
  \* the SPI master and its slave
  spi_state, sclk, mosi, cs_n, cpol_r, cpha_r, spi_divider, spi_div_cnt, edge_cnt,
  spi_tx, spi_rx, spi_txdata, spi_rxdata, spi_busy, spi_done, spi_irq,
  s_tx, s_edges, miso, sclk_prev, cs_n_prev, spi_received, preload, spi_sent, spi_half,
  \* the I2C master and its slave
  i2c_state, scl, sda_drive_low, phase, i2c_idx, addr_rw, i2c_tx, i2c_rx, i2c_rxdata,
  rw_r, i2c_divider, i2c_div_cnt, addr_reg, i2c_txdata, i2c_busy, i2c_done, nack, i2c_irq,
  s_state, s_idx, s_shift, s_rw, s_drive_low, scl_prev, sda_prev, rx_byte, got_write,
  tx_byte, to, i2c_sent, i2c_half

Spi == INSTANCE SpiMaster WITH
  state <- spi_state, divider_reg <- spi_divider, div_cnt <- spi_div_cnt,
  tx_shift <- spi_tx, rx_shift <- spi_rx, txdata_reg <- spi_txdata,
  rxdata_reg <- spi_rxdata, busy <- spi_busy, done <- spi_done, irq_pulse <- spi_irq,
  received <- spi_received, sent <- spi_sent, half <- spi_half,
  DataBits <- SpiBits, Payloads <- SpiPayloads, Dividers <- SpiDividers

MCMyAddr == [i \in 1 .. I2cBits - 1 |-> i = 1]

I2c == INSTANCE I2cMaster WITH
  state <- i2c_state, divider_reg <- i2c_divider, div_cnt <- i2c_div_cnt,
  bit_idx <- i2c_idx, tx_shift <- i2c_tx, rx_shift <- i2c_rx, txdata_reg <- i2c_txdata,
  rxdata_reg <- i2c_rxdata, busy <- i2c_busy, done <- i2c_done, irq_pulse <- i2c_irq,
  sent <- i2c_sent, half <- i2c_half, MyAddr <- MCMyAddr,
  DataBits <- I2cBits, Payloads <- I2cPayloads, Dividers <- I2cDividers

ASSUME SpiFits == Spi!SpiAssumption /\ Spi!LineAssumption
ASSUME I2cFits == I2c!I2cAssumption /\ I2c!LineAssumption

MCSpiPayloads == [1 .. SpiBits -> BOOLEAN]
MCI2cPayloads == {b \in [0 .. I2cBits - 1 -> BOOLEAN] : b[0] # b[1]}

spiLineVars ==
  <<spi_state, sclk, mosi, cs_n, cpol_r, cpha_r, spi_divider, spi_div_cnt, edge_cnt,
    spi_tx, spi_rx, spi_txdata, spi_rxdata, spi_busy, spi_done, spi_irq,
    s_tx, s_edges, miso, sclk_prev, cs_n_prev, spi_received, preload, spi_sent, spi_half>>
i2cLineVars ==
  <<i2c_state, scl, sda_drive_low, phase, i2c_idx, addr_rw, i2c_tx, i2c_rx, i2c_rxdata,
    rw_r, i2c_divider, i2c_div_cnt, addr_reg, i2c_txdata, i2c_busy, i2c_done, nack, i2c_irq,
    s_state, s_idx, s_shift, s_rw, s_drive_low, scl_prev, sda_prev, rx_byte, got_write,
    tx_byte, to, i2c_sent, i2c_half>>
MCVars == <<unit, timerUseVars, watchdogUseVars, uartLineVars, spiLineVars, i2cLineVars>>

MCInit ==
  /\ unit \in {"timer", "watchdog", "uart", "spi", "i2c"}
  /\ TimerUseInit /\ WatchdogUseInit /\ UartLineInit /\ Spi!Init /\ I2c!Init
  /\ unit # "uart" => polls

TimerStep ==
  /\ unit = "timer" /\ TimerUseNext
  /\ UNCHANGED <<unit, watchdogUseVars, uartLineVars, spiLineVars, i2cLineVars>>
WatchdogStep ==
  /\ unit = "watchdog" /\ WatchdogUseNext
  /\ UNCHANGED <<unit, timerUseVars, uartLineVars, spiLineVars, i2cLineVars>>
UartStep ==
  /\ unit = "uart" /\ UartLineNext
  /\ UNCHANGED <<unit, timerUseVars, watchdogUseVars, spiLineVars, i2cLineVars>>
SpiStep ==
  /\ unit = "spi" /\ Spi!Next
  /\ UNCHANGED <<unit, timerUseVars, watchdogUseVars, uartLineVars, i2cLineVars>>
I2cStep ==
  /\ unit = "i2c" /\ I2c!Next
  /\ UNCHANGED <<unit, timerUseVars, watchdogUseVars, uartLineVars, spiLineVars>>

MCNext == TimerStep \/ WatchdogStep \/ UartStep \/ SpiStep \/ I2cStep

(* The clock runs.                                                          *)
MCSpec == MCInit /\ [][MCNext]_MCVars /\ WF_MCVars(MCNext)

-----------------------------------------------------------------------------
(* The parts of the following properties are in the devices' own modules.   *)

(* The registers keep their types, and whoever is interrupted finds in the  *)
(* status register why; the watchdog warns in time; no half period of the   *)
(* two bus masters is longer than DIVIDER clocks.                           *)
DevicesInv ==
  /\ TimerUseTypeOK /\ WatchdogUseTypeOK /\ UartLineTypeOK /\ Spi!TypeOK /\ I2c!TypeOK
  /\ ExpiryIsVisible /\ WarningIsVisible /\ Spi!DoneIsVisible /\ I2c!DoneIsVisible
  /\ WarnsInTime /\ Spi!HalfPeriodIsDivider /\ I2c!HalfPeriodIsDivider

(* UART: software that polls loses nothing.  SPI: each side ends with the   *)
(* byte of the other (spi_master.v:140-158).  I2C: a transfer without NACK  *)
(* did what was asked, and NACK says that nobody answers                    *)
(* (i2c_master.v:183, 204-262).                                             *)
BytesCross ==
  NothingDropped /\ Spi!BytesAreExchanged /\ I2c!BytesArrive /\ I2c!NackIffNobody

(* What the lines may do: the interrupts of the timer and the watchdog are  *)
(* pulses; only whole frames leave the UART; SCLK rests around every        *)
(* transfer; SDA moves while SCL is high for START and STOP only, and an    *)
(* I2C transfer ends with the line released.                                *)
LinesKeepProtocol ==
  OneCyclePulse /\ WarnsOnce /\ ArrivesIntact /\ Spi!ClockRests /\ I2c!SdaIsStable
    /\ I2c!LineIsReleased

(* Every transfer that is started ends.                                     *)
EveryTransferEnds == spi_busy \/ i2c_busy ~> ~spi_busy /\ ~i2c_busy

(* What must happen does: the timer interrupts again and again, starving    *)
(* the watchdog ends in a reset request, every byte is sent.                *)
EverythingEnds ==
  KeepsInterrupting /\ StarvedIsReset /\ EveryOfferArrives /\ EveryTransferEnds
================================================================================
