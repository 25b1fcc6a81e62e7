------------------------------- MODULE XbarRam -------------------------------
(***************************************************************************)
(* The two halves of the crossbar and the RAM behind them (sram.v).  The   *)
(* write half and the read half arbitrate, latch and answer independently  *)
(* of each other, so a read and a write of the same word may overlap in    *)
(* any way.  One step is one rising edge of clk for both halves.           *)
(*                                                                         *)
(* Both masters of the SoC run one access at a time: the core has a single *)
(* memory port and the JTAG bridge a single request.                       *)
(***************************************************************************)
EXTENDS AddrMap

CONSTANTS Addr, Data, None, FastSlaves

(* The addresses are those of the RAM, one for each of its words; it is one *)
(* of the slaves that answer at once.                                      *)
RamIndex(a) == <<a.mid % 2, a.page, a.word>>
ASSUME RamAssumption ==
  /\ Addr \subseteq AddrSpace /\ Addr # {}
  /\ \A a, b \in Addr : decode_addr(a) = "RAM" /\ (RamIndex(a) = RamIndex(b) => a = b)
  /\ None \notin Addr /\ None \notin Data /\ None \notin Resp /\ None \notin Addr \X Data
  /\ "RAM" \in FastSlaves /\ FastSlaves \subseteq RealSlaves

VARIABLES
  w_state, w_grant, w_have_aw, w_have_w, w_issued_aw, w_issued_w, w_sel, w_addr_lat,
  w_data_lat, s_bvalid, s_bresp, last_decerr_waddr, decerr_irq_w, mst, slv, store, performed,
  r_state, r_grant, r_sel, r_addr_lat, r_issued_ar, s_rvalid, s_rdata, s_rresp,
  last_decerr_raddr, decerr_irq_r, rmst, rslv,
  ram,      \* contents of the RAM
  ram_q,    \* the data register of the RAM
  result,   \* the data register of the read half
  current,  \* history: values the word has had since the read of m was raised
  own       \* history: what m last wrote there, if nobody has written it since

W == INSTANCE XbarWrite
R == INSTANCE XbarRead WITH MissAddr <- Addr

Masters == W!Masters

ramVars == <<ram, ram_q, result, current, own>>
xbarRamVars == <<W!vars, R!readVars, ramVars>>

Value == Data \union {None}
Reads(m) == rmst[m].ar # "off"

XbarRamTypeOK ==
  /\ ram \in [Addr -> Data] /\ ram_q \in Value /\ result \in Value
  /\ current \in [Masters -> SUBSET Data] /\ own \in [Masters -> [Addr -> Value]]
  /\ \A m \in Masters : (Reads(m) <=> current[m] # {}) /\ ~(Reads(m) /\ W!Busy(m))
  /\ s_rvalid => result # None

XbarRamInit ==
  /\ W!Init /\ R!Init
  /\ \E d \in Data : ram = [a \in Addr |-> d]
  /\ ram_q = None /\ result = None
  /\ current = [m \in Masters |-> {}] /\ own = [m \in Masters |-> [a \in Addr |-> None]]

-----------------------------------------------------------------------------
do_write == W!do_write("RAM")
do_read  == R!slv_arvalid("RAM")

(* The operators named Bad... are faulty variants, never part of the model: *)
(* each is a plausible slip that one of the properties must catch.          *)
BadNextRam == IF do_write /\ ~do_read      \* one port: a read shuts the write out
              THEN [ram EXCEPT ![w_addr_lat] = w_data_lat] ELSE ram
next_ram == IF do_write THEN [ram EXCEPT ![w_addr_lat] = w_data_lat] ELSE ram

next_q == IF do_read THEN ram[r_addr_lat] ELSE None

next_result == IF r_state = "WAIT_R" /\ R!r_slave_r # None THEN ram_q ELSE result

Taken(m) == W!Busy(m) /\ mst'[m] # mst[m] /\ mst[m].aw = "sent" /\ mst[m].w = "sent"

RamEdge ==
  /\ ram' = next_ram /\ ram_q' = next_q /\ result' = next_result
  /\ current' = [m \in Masters |->
       IF rmst'[m].ar = "off" THEN {}
       ELSE {ram'[rmst'[m].addr]} \union (IF Reads(m) /\ rmst'[m].addr = rmst[m].addr
                                                      /\ ~(R!m_rvalid(m) /\ rmst'[m].ar = "valid")
                                          THEN current[m] ELSE {})]
  /\ own' = [m \in Masters |-> [a \in Addr |->
       IF do_write /\ w_addr_lat = a /\ w_grant # m THEN None
       ELSE IF Taken(m) /\ mst[m].addr = a THEN mst[m].data ELSE own[m][a]]]

OneAtATime == \A m \in Masters : mst'[m].aw = "off" \/ rmst'[m].ar = "off"

XbarRamNext == W!Next /\ R!ReadEdge /\ OneAtATime /\ RamEdge

XbarRamSpec == XbarRamInit /\ [][XbarRamNext]_xbarRamVars

-----------------------------------------------------------------------------
(* A read returns a value the word really had while the read was           *)
(* outstanding, however the other master's writes overlap it.              *)
ReadIsCurrent == \A m \in Masters : R!m_rvalid(m) => result \in current[m]

(* A master that was answered its write reads that value back, unless the  *)
(* other master has written the word since: the write response never runs  *)
(* ahead of the effect, nor a read behind it.                              *)
ReadsOwnWrite ==
  \A m \in Masters :
    R!m_rvalid(m) /\ own[m][rmst[m].addr] # None => result = own[m][rmst[m].addr]

(* Both, whatever the two halves do at once.                               *)
RamInv == XbarRamTypeOK /\ ReadIsCurrent /\ ReadsOwnWrite
=============================================================================
