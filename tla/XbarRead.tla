------------------------------- MODULE XbarRead -------------------------------
(***************************************************************************)
(* The read half of the AXI4-Lite crossbar (axi_lite_xbar.v): arbitration, *)
(* one AR beat per read, issue to the decoded slave, the R response, the   *)
(* diagnostic CSR window and LAST_DECERR_RADDR with its interrupt pulse.   *)
(* One step is one rising edge of clk; masters and slaves are as in        *)
(* XbarWrite.  The write half is seen through the one register the reads   *)
(* look at, last_decerr_waddr.                                             *)
(***************************************************************************)
EXTENDS AddrMap

CONSTANTS
  Addr,        \* addresses the masters read
  MissAddr,    \* addresses the write half may record as misses
  None,        \* no value
  FastSlaves   \* slaves with the always-ready, one-cycle-response timing

Masters == {"s0", "s1"}          \* s0 = CPU, s1 = JTAG bridge

ASSUME ReadAddrAssumption == Addr \subseteq AddrSpace /\ Addr # {} /\ MissAddr \subseteq AddrSpace
ASSUME ReadNoneAssumption == None \notin Addr /\ None \notin MissAddr /\ None \notin Resp
ASSUME ReadSetAssumption  == FastSlaves \subseteq RealSlaves

VARIABLES
  \* registers of the read path
  r_state, r_grant, r_sel, r_addr_lat, r_issued_ar, s_rvalid, s_rdata, s_rresp,
  last_decerr_raddr, decerr_irq_r,
  \* the two masters' and the slaves' read channels
  rmst, rslv,
  \* register of the write half, read through the CSR window
  last_decerr_waddr

readVars == <<r_state, r_grant, r_sel, r_addr_lat, r_issued_ar, s_rvalid, s_rdata,
              s_rresp, last_decerr_raddr, decerr_irq_r, rmst, rslv>>
vars == <<readVars, last_decerr_waddr>>

-----------------------------------------------------------------------------
(* State. *)

RStates == {"IDLE", "ISSUE", "WAIT_R", "RESP"}

(* Read data, named by where it comes from: a location of a slave, one of  *)
(* the two diagnostic registers, or the constant zero of a decode miss.    *)
Value == [from : RealSlaves, at : Addr]
         \union [from : {"LAST_WADDR"}, at : MissAddr \union {None}]
         \union [from : {"LAST_RADDR"}, at : Addr \union {None}]
         \union {[from |-> "ZERO", at |-> None]}
Zero == [from |-> "ZERO", at |-> None]
Location(s, a) == [from |-> s, at |-> a]

(* ar: no read wanted, ARVALID up, AR taken.                               *)
ReadMaster  == [ar : {"off", "valid", "sent"}, addr : Addr \union {None}]
NoRead      == [ar |-> "off", addr |-> None]
NewReads    == [ar : {"valid"}, addr : Addr]
ReadSlave   == [ar : Addr \union {None}, r : Value \union {None}]
IdleSlave   == [ar |-> None, r |-> None]

TypeOK ==
  /\ r_state \in RStates /\ r_grant \in Masters /\ r_sel \in Targets
  /\ r_addr_lat \in Addr \union {None} /\ r_issued_ar \in BOOLEAN
  /\ s_rvalid \in BOOLEAN /\ s_rdata \in Value /\ s_rresp \in Resp
  /\ last_decerr_raddr \in Addr \union {None} /\ decerr_irq_r \in BOOLEAN
  /\ last_decerr_waddr \in MissAddr \union {None}
  /\ rmst \in [Masters -> ReadMaster] /\ rslv \in [RealSlaves -> ReadSlave]
  /\ r_state # "IDLE" => r_addr_lat # None

Init ==
  /\ r_state = "IDLE" /\ r_grant = "s0" /\ r_sel = SLAVE_ERR
  /\ r_addr_lat = None /\ r_issued_ar = FALSE
  /\ s_rvalid = FALSE /\ s_rdata = Zero /\ s_rresp = OKAY
  /\ last_decerr_raddr = None /\ decerr_irq_r = FALSE
  /\ last_decerr_waddr = None
  /\ rmst = [m \in Masters |-> NoRead]
  /\ rslv = [s \in RealSlaves |-> IdleSlave]

-----------------------------------------------------------------------------
(* Arbitration and the combinational nets. *)

ReadRequests(m) == rmst[m].ar = "valid"

(* The operators named Bad... are faulty variants, never part of the model: *)
(* each is a plausible slip that one of the properties must catch.          *)
BadOpenInResp == r_state \in {"IDLE", "RESP"}
r_open == r_state = "IDLE"

r_arb       == IF ReadRequests("s0") \/ ~ReadRequests("s1") THEN "s0" ELSE "s1"
r_grant_eff == IF r_open THEN r_arb ELSE r_grant

m_arready(m) == m = r_grant_eff /\ r_state = "IDLE"
m_rvalid(m)  == m = r_grant /\ s_rvalid

cur_arvalid == rmst[r_grant_eff].ar = "valid"
cur_araddr  == rmst[r_grant_eff].addr
r_miss      == cur_arvalid /\ decode_addr(cur_araddr) = SLAVE_ERR

BadArvalid(s)  == r_state \in {"ISSUE", "WAIT_R"} /\ r_sel = s
slv_arvalid(s) == r_state = "ISSUE" /\ r_sel = s /\ ~r_issued_ar
slv_rready(s)  == r_state = "WAIT_R" /\ r_sel = s

-----------------------------------------------------------------------------
(* The clocked process of the read path, one action per state. *)

UpdateGrant == r_grant' = IF r_open THEN r_arb ELSE r_grant

RIdle ==
  /\ r_state = "IDLE"
  /\ UpdateGrant
  /\ IF cur_arvalid
     THEN /\ r_addr_lat' = cur_araddr /\ r_sel' = decode_addr(cur_araddr)
          /\ r_issued_ar' = FALSE /\ r_state' = "ISSUE"
     ELSE UNCHANGED <<r_addr_lat, r_sel, r_issued_ar, r_state>>
  /\ last_decerr_raddr' = IF r_miss THEN cur_araddr ELSE last_decerr_raddr
  /\ decerr_irq_r' = r_miss
  /\ UNCHANGED <<s_rvalid, s_rdata, s_rresp>>

RIssue(arready) ==
  LET local == r_sel \in {SLAVE_ERR, XBAR_CSR} IN
  /\ r_state = "ISSUE"
  /\ UpdateGrant
  /\ r_issued_ar' = (r_issued_ar \/ (~local /\ arready))
  /\ r_state' = IF local THEN "RESP"
                ELSE IF r_issued_ar \/ arready THEN "WAIT_R" ELSE "ISSUE"
  /\ decerr_irq_r' = FALSE
  /\ UNCHANGED <<r_sel, r_addr_lat, s_rvalid, s_rdata, s_rresp, last_decerr_raddr>>

(* A target without a slave would read as zero with SLVERR.                *)
r_slave_r == IF r_sel \in RealSlaves THEN rslv[r_sel].r ELSE Zero

RWaitR ==
  /\ r_state = "WAIT_R"
  /\ UpdateGrant
  /\ IF r_slave_r # None
     THEN /\ s_rdata' = r_slave_r /\ r_state' = "RESP"
          /\ s_rresp' = IF r_sel \in RealSlaves THEN OKAY ELSE SLVERR
     ELSE UNCHANGED <<s_rdata, s_rresp, r_state>>
  /\ decerr_irq_r' = FALSE
  /\ UNCHANGED <<r_sel, r_addr_lat, r_issued_ar, s_rvalid, last_decerr_raddr>>

(* The value of the CSR window: addr[2] picks the read or the write miss.  *)
BadCsrWordSwapped == IF CsrWord(r_addr_lat) = 0
             THEN [from |-> "LAST_RADDR", at |-> last_decerr_raddr]
             ELSE [from |-> "LAST_WADDR", at |-> last_decerr_waddr]
csr_data == IF CsrWord(r_addr_lat) = 1
             THEN [from |-> "LAST_RADDR", at |-> last_decerr_raddr]
             ELSE [from |-> "LAST_WADDR", at |-> last_decerr_waddr]

RResp(cur_rready) ==
  LET taken == s_rvalid /\ cur_rready IN
  /\ r_state = "RESP"
  /\ UpdateGrant
  /\ IF r_sel = SLAVE_ERR /\ ~s_rvalid THEN s_rdata' = Zero /\ s_rresp' = DECERR
     ELSE IF r_sel = XBAR_CSR /\ ~s_rvalid THEN s_rdata' = csr_data /\ s_rresp' = OKAY
     ELSE UNCHANGED <<s_rdata, s_rresp>>
  /\ s_rvalid' = ~taken
  /\ r_state' = IF taken THEN "IDLE" ELSE "RESP"
  /\ decerr_irq_r' = FALSE
  /\ UNCHANGED <<r_sel, r_addr_lat, r_issued_ar, last_decerr_raddr>>

ReadPath(arready, cur_rready) ==
  \/ RIdle
  \/ RIssue(arready)
  \/ RWaitR
  \/ RResp(cur_rready)

-----------------------------------------------------------------------------
(* Masters and slaves. *)

ReadMasterNext(m, cur_rready) ==
  IF m_rvalid(m) /\ cur_rready
  THEN {NoRead} \union NewReads
  ELSE IF rmst[m].ar = "off" THEN {NoRead} \union NewReads
  ELSE IF ReadRequests(m) /\ m_arready(m) THEN {[rmst[m] EXCEPT !.ar = "sent"]}
  ELSE {rmst[m]}

ReadMasterEdge(cur_rready) ==
  \E n0 \in ReadMasterNext("s0", cur_rready), n1 \in ReadMasterNext("s1", cur_rready) :
    rmst' = [m \in Masters |-> IF m = "s0" THEN n0 ELSE n1]

(* rvalid is arvalid one cycle later.                                      *)
FastReadNext(s) ==
  [ar |-> None, r |-> IF slv_arvalid(s) THEN Location(s, r_addr_lat) ELSE None]

(* A slave that takes AR when it likes, answers some time later, and holds *)
(* the answer until RREADY.                                                *)
SlowReadNext(s, arready, respond) ==
  LET ar == IF slv_arvalid(s) /\ arready THEN r_addr_lat ELSE rslv[s].ar IN
  IF respond /\ ar # None /\ rslv[s].r = None
  THEN [ar |-> None, r |-> Location(s, ar)]
  ELSE [ar |-> ar, r |-> IF slv_rready(s) THEN None ELSE rslv[s].r]

ReadSlaveEdge(arready, respond) ==
  rslv' = [s \in RealSlaves |->
            IF s \in FastSlaves THEN FastReadNext(s) ELSE SlowReadNext(s, arready, respond)]

-----------------------------------------------------------------------------
SlowSelected == r_sel \in RealSlaves \ FastSlaves
Input(looked_at) == IF looked_at THEN BOOLEAN ELSE {TRUE}

(* One clock edge of the read half.                                        *)
ReadEdge ==
  \E arready, respond \in Input(SlowSelected), cur_rready \in Input(s_rvalid) :
    /\ ReadPath(arready, cur_rready)
    /\ ReadMasterEdge(cur_rready)
    /\ ReadSlaveEdge(arready, respond)

Next == ReadEdge /\ last_decerr_waddr' \in {last_decerr_waddr} \union MissAddr

Spec == Init /\ [][Next]_vars

(* The clock runs, a master takes its data, a slow slave takes the address *)
(* it is offered and answers it.                                           *)
SlavesGoOn ==
  \A s \in RealSlaves \ FastSlaves :
    []<>~(slv_arvalid(s) /\ rslv[s].ar = None) /\ []<>(rslv[s].ar = None)
Fairness == WF_vars(Next) /\ (\A m \in Masters : []<>~m_rvalid(m)) /\ SlavesGoOn

FairSpec == Spec /\ Fairness

-----------------------------------------------------------------------------
(* Safety. *)

(* A read in flight is the current read of the master that owns the grant, *)
(* and a master whose address was taken is always that owner: no read      *)
(* changes hands and none is forgotten (r_open, axi_lite_xbar.v:439-441).  *)
ReadInFlightIsTheOwners ==
  /\ r_state # "IDLE" => rmst[r_grant].ar = "sent" /\ r_addr_lat = rmst[r_grant].addr
  /\ \A m \in Masters : rmst[m].ar = "sent" => m = r_grant /\ r_state # "IDLE"

(* The data a master is shown is what its own address names: that location *)
(* of the slave, zero with DECERR for a hole, and for the CSR window the   *)
(* addressed miss register.  While LAST_DECERR_RADDR is being returned no  *)
(* other read can have overwritten it.                                     *)
DataIsForOwnRead ==
  \A m \in Masters :
    m_rvalid(m) =>
      LET a == rmst[m].addr
          t == decode_addr(a)
      IN /\ s_rresp = IF t = SLAVE_ERR THEN DECERR ELSE OKAY
         /\ t = SLAVE_ERR => s_rdata = Zero
         /\ t = XBAR_CSR /\ CsrWord(a) = 1 =>
              s_rdata = [from |-> "LAST_RADDR", at |-> last_decerr_raddr]
         /\ t = XBAR_CSR /\ CsrWord(a) # 1 => s_rdata.from = "LAST_WADDR"
         /\ t \in RealSlaves => s_rdata = Location(t, a)

(* The one-cycle data of a fast slave is up only while the crossbar waits  *)
(* for that slave.                                                         *)
FastDataIsCaught == \A s \in FastSlaves : rslv[s].r # None => slv_rready(s)

(* A master that is told DECERR finds its own address in LAST_DECERR_RADDR.*)
ReadMissRecorded ==
  \A m \in Masters :
    m_rvalid(m) /\ s_rresp = DECERR => last_decerr_raddr = rmst[m].addr

(* Every read is eventually answered; the JTAG bridge's as long as the     *)
(* CPU, which has priority, leaves an idle cycle between reads now and     *)
(* then (r_arb).                                                           *)
EveryReadAnswered ==
  /\ rmst["s0"].ar # "off" ~> m_rvalid("s0")
  /\ []<>(rmst["s0"].ar = "off") => (rmst["s1"].ar # "off" ~> m_rvalid("s1"))

(* What holds between the read half, its masters and its slaves at every   *)
(* moment.                                                                 *)
ReadInv == TypeOK /\ ReadInFlightIsTheOwners /\ FastDataIsCaught /\ ReadMissRecorded
=============================================================================
