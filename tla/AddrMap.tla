------------------------------- MODULE AddrMap -------------------------------
(***************************************************************************)
(* The shared bus conventions of the SoC: response codes, slave names and  *)
(* the address decoder of the crossbar.                                    *)
(*                                                                         *)
(* A 32-bit address is the record of the fields the decoder tells apart:   *)
(*   region = addr[31:28]   mid  = addr[27:16]                             *)
(*   page   = addr[15:12]   word = addr[11:2]                              *)
(***************************************************************************)
EXTENDS Naturals

OKAY   == "OKAY"
SLVERR == "SLVERR"
DECERR == "DECERR"

Resp == {OKAY, SLVERR, DECERR}

RealSlaves == {"ROM", "RAM", "TIMER", "WDT", "UART", "I2C", "SPI", "AES", "DMA"}

XBAR_CSR  == "XBAR_CSR"
SLAVE_ERR == "ERR"

Targets == RealSlaves \union {XBAR_CSR, SLAVE_ERR}

AddrSpace == [region : 0..15, mid : 0..4095, page : 0..15, word : 0..1023]

(***************************************************************************)
(* Region and page numbers of addr_map.vh.                                 *)
(***************************************************************************)
REGION_ROM    == 0
REGION_RAM    == 1
REGION_PERIPH == 4

(* Peripherals[p + 1] is the target whose 4KB window has addr[15:12] = p.  *)
Peripherals == <<"TIMER", "WDT", "UART", "I2C", "SPI", "AES", "DMA", XBAR_CSR>>

(***************************************************************************)
(* decode_addr: only the region and, for peripherals, the page are looked  *)
(* at.  addr[27:16] is ignored everywhere.                                 *)
(***************************************************************************)
decode_addr(a) ==
  IF a.region = REGION_ROM THEN "ROM"
  ELSE IF a.region = REGION_RAM THEN "RAM"
  ELSE IF a.region = REGION_PERIPH /\ a.page <= 7 THEN Peripherals[a.page + 1]
  ELSE SLAVE_ERR

(***************************************************************************)
(* Word select of the diagnostic CSR window: addr[2].                      *)
(***************************************************************************)
CsrWord(a) == a.word % 2
=============================================================================
