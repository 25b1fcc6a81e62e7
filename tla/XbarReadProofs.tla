--------------------------- MODULE XbarReadProofs ---------------------------
(***************************************************************************)
(* Proofs about the read path of the crossbar, for every set of addresses, *)
(* every choice of slow and fast slaves and whatever the write half        *)
(* records.                                                                *)
(***************************************************************************)
EXTENDS XbarRead, TLAPS

(* The decoder always selects a target (decode_addr has no undefined case).*)
LEMMA DecodeIsTarget == ASSUME NEW a \in AddrSpace PROVE decode_addr(a) \in Targets
<1>1. CASE a.region = REGION_PERIPH /\ a.page <= 7
  <2>1. a.page \in 0..7
    BY <1>1 DEF AddrSpace
  <2>2. Peripherals[a.page + 1] \in Targets
    BY <2>1 DEF Peripherals, Targets, RealSlaves, XBAR_CSR
  <2>. QED BY <1>1, <2>2 DEF decode_addr, REGION_ROM, REGION_RAM, REGION_PERIPH
<1>2. CASE ~(a.region = REGION_PERIPH /\ a.page <= 7)
  BY <1>2 DEF decode_addr, Targets, RealSlaves, SLAVE_ERR, REGION_ROM, REGION_RAM
<1>. QED BY <1>1, <1>2

LEMMA TargetKinds == /\ Targets = RealSlaves \union {XBAR_CSR, SLAVE_ERR}
                     /\ XBAR_CSR \notin RealSlaves /\ SLAVE_ERR \notin RealSlaves
                     /\ XBAR_CSR # SLAVE_ERR
BY DEF Targets, RealSlaves, XBAR_CSR, SLAVE_ERR

-----------------------------------------------------------------------------
(* The inductive invariant. *)

(* A master that wants a read has an address.                              *)
ReadersOK == \A m \in Masters : rmst[m].ar # "off" => rmst[m].addr \in Addr

(* The registers are consistent with the state of the pipeline; a miss in  *)
(* flight is the last one recorded.                                        *)
PipelineOK ==
  /\ s_rvalid => r_state = "RESP"
  /\ r_state = "ISSUE" => ~r_issued_ar
  /\ r_state # "IDLE" => r_addr_lat \in Addr /\ r_sel = decode_addr(r_addr_lat)
  /\ r_state = "WAIT_R" => r_sel \in RealSlaves
  /\ r_state # "IDLE" /\ r_sel = SLAVE_ERR => last_decerr_raddr = r_addr_lat

(* A slave has something to do, or data to show, only while the crossbar   *)
(* waits for it, and it is about the latched address.                      *)
SlavesOK ==
  \A s \in RealSlaves :
    /\ rslv[s].ar # None \/ rslv[s].r # None => r_state = "WAIT_R" /\ r_sel = s
    /\ rslv[s].ar # None => rslv[s].ar = r_addr_lat /\ rslv[s].r = None
    /\ rslv[s].r # None => rslv[s].r = Location(s, r_addr_lat)

(* What is in s_rdata and s_rresp once they are final: when s_rvalid is    *)
(* up, and for a slave's answer one cycle earlier.                         *)
Final == r_state = "RESP" /\ (s_rvalid \/ r_sel \in RealSlaves)
AnswerOK ==
  Final =>
    /\ s_rresp = IF r_sel = SLAVE_ERR THEN DECERR ELSE OKAY
    /\ r_sel = SLAVE_ERR => s_rdata = Zero
    /\ r_sel = XBAR_CSR /\ CsrWord(r_addr_lat) = 1 =>
         s_rdata = [from |-> "LAST_RADDR", at |-> last_decerr_raddr]
    /\ r_sel = XBAR_CSR /\ CsrWord(r_addr_lat) # 1 => s_rdata.from = "LAST_WADDR"
    /\ r_sel \in RealSlaves => s_rdata = Location(r_sel, r_addr_lat)

IInv ==
  /\ TypeOK
  /\ ReadInFlightIsTheOwners
  /\ ReadersOK
  /\ PipelineOK
  /\ SlavesOK
  /\ AnswerOK

LEMMA InitIInv == Init => IInv
<1>. SUFFICES ASSUME Init PROVE IInv
  OBVIOUS
<1>1. rmst \in [Masters -> ReadMaster] /\ rslv \in [RealSlaves -> ReadSlave]
  BY DEF Init, NoRead, IdleSlave, ReadMaster, ReadSlave
<1>2. Zero \in Value
  BY DEF Value, Zero
<1>3. TypeOK
  BY <1>1, <1>2 DEF Init, TypeOK, RStates, Masters, Targets, Resp, OKAY
<1>4. ReadInFlightIsTheOwners /\ ReadersOK
  BY DEF Init, ReadInFlightIsTheOwners, ReadersOK, NoRead
<1>5. PipelineOK /\ SlavesOK /\ AnswerOK
  BY DEF Init, PipelineOK, SlavesOK, AnswerOK, Final, IdleSlave
<1>. QED BY <1>3, <1>4, <1>5 DEF IInv

-----------------------------------------------------------------------------
(* The environment. *)

(* One edge of the masters: when a read counts as taken after it, and that *)
(* a read in progress keeps its address.                                   *)
LEMMA MasterProgress ==
  ASSUME IInv, NEW cur_rready \in BOOLEAN, ReadMasterEdge(cur_rready)
  PROVE  /\ rmst' \in [Masters -> ReadMaster]
         /\ ReadersOK'
         /\ \A m \in Masters :
              /\ rmst'[m].ar = "sent" <=>
                   /\ ~(m_rvalid(m) /\ cur_rready)
                   /\ rmst[m].ar = "sent" \/ (ReadRequests(m) /\ m_arready(m))
              /\ rmst'[m].ar = "sent" => rmst'[m].addr = rmst[m].addr
<1>1. \A m \in Masters : rmst'[m] \in ReadMasterNext(m, cur_rready)
  BY DEF ReadMasterEdge, Masters
<1>2. rmst' = [m \in Masters |-> rmst'[m]]
  BY DEF ReadMasterEdge
<1>3. ASSUME NEW m \in Masters
      PROVE  /\ rmst'[m] \in ReadMaster
             /\ rmst'[m].ar # "off" => rmst'[m].addr \in Addr
             /\ rmst'[m].ar = "sent" <=>
                  /\ ~(m_rvalid(m) /\ cur_rready)
                  /\ rmst[m].ar = "sent" \/ (ReadRequests(m) /\ m_arready(m))
             /\ rmst'[m].ar = "sent" => rmst'[m].addr = rmst[m].addr
  <2>1. \A n \in {NoRead} \union NewReads :
          n \in ReadMaster /\ n.ar # "sent" /\ (n.ar # "off" => n.addr \in Addr)
    BY DEF NoRead, NewReads, ReadMaster
  <2>2. rmst[m] \in ReadMaster /\ (rmst[m].ar # "off" => rmst[m].addr \in Addr)
    BY DEF IInv, TypeOK, ReadersOK
  <2>3. CASE m_rvalid(m) /\ cur_rready
    BY <1>1, <2>1, <2>3 DEF ReadMasterNext
  <2>4. CASE ~(m_rvalid(m) /\ cur_rready) /\ rmst[m].ar = "off"
    BY <1>1, <2>1, <2>4 DEF ReadMasterNext, ReadRequests
  <2>5. CASE ~(m_rvalid(m) /\ cur_rready) /\ ReadRequests(m) /\ m_arready(m)
    <3>1. rmst'[m] = [rmst[m] EXCEPT !.ar = "sent"]
      BY <1>1, <2>5 DEF ReadMasterNext, ReadRequests
    <3>. QED BY <2>2, <2>5, <3>1 DEF ReadMaster, ReadRequests
  <2>6. CASE /\ ~(m_rvalid(m) /\ cur_rready) /\ rmst[m].ar # "off"
             /\ ~(ReadRequests(m) /\ m_arready(m))
    <3>1. rmst'[m] = rmst[m]
      BY <1>1, <2>6 DEF ReadMasterNext
    <3>. QED BY <2>2, <2>6, <3>1
  <2>. QED BY <2>3, <2>4, <2>5, <2>6
<1>. QED BY <1>2, <1>3 DEF ReadersOK

(* One edge of the slaves, together with that of the read path: only the   *)
(* slave that the crossbar addresses, or waits for, has anything to show.  *)
LEMMA SlaveStep ==
  ASSUME IInv, NEW arready \in BOOLEAN, NEW respond \in BOOLEAN,
         ~SlowSelected => arready, ReadSlaveEdge(arready, respond),
         NEW s \in RealSlaves
  PROVE  /\ rslv' \in [RealSlaves -> ReadSlave]
         /\ rslv'[s].ar # None \/ rslv'[s].r # None =>
              /\ r_sel = s
              /\ \/ r_state = "ISSUE" /\ arready
                 \/ r_state = "WAIT_R" /\ rslv[s].r = None
         /\ rslv'[s].ar # None => rslv'[s].ar = r_addr_lat /\ rslv'[s].r = None
         /\ rslv'[s].r # None => rslv'[s].r = Location(s, r_addr_lat)
<1>1. slv_arvalid(s) <=> r_state = "ISSUE" /\ r_sel = s
  BY DEF slv_arvalid, IInv, PipelineOK
<1>2. slv_arvalid(s) => r_addr_lat \in Addr
  BY <1>1 DEF IInv, PipelineOK
<1>3. \A t \in RealSlaves, a \in Addr : Location(t, a) \in Value
  BY DEF Location, Value
<1>4. \A t \in RealSlaves :
        /\ rslv[t] \in ReadSlave
        /\ slv_arvalid(t) => r_addr_lat \in Addr
  BY DEF IInv, TypeOK, slv_arvalid, PipelineOK
<1>5. \A t \in RealSlaves : FastReadNext(t) \in ReadSlave /\ SlowReadNext(t, arready, respond) \in ReadSlave
  BY <1>3, <1>4 DEF FastReadNext, SlowReadNext, ReadSlave
<1>6. rslv' \in [RealSlaves -> ReadSlave]
  BY <1>5 DEF ReadSlaveEdge
<1>7. CASE s \in FastSlaves
  <2>1. rslv'[s] = [ar |-> None, r |-> IF slv_arvalid(s) THEN Location(s, r_addr_lat) ELSE None]
    BY <1>7 DEF ReadSlaveEdge, FastReadNext
  <2>2. slv_arvalid(s) => arready
    BY <1>1, <1>7 DEF SlowSelected
  <2>. QED BY <1>1, <1>6, <2>1, <2>2
<1>8. CASE s \notin FastSlaves
  <2>. DEFINE ar == IF slv_arvalid(s) /\ arready THEN r_addr_lat ELSE rslv[s].ar
  <2>1. rslv'[s] = IF respond /\ ar # None /\ rslv[s].r = None
                   THEN [ar |-> None, r |-> Location(s, ar)]
                   ELSE [ar |-> ar, r |-> IF slv_rready(s) THEN None ELSE rslv[s].r]
    BY <1>8 DEF ReadSlaveEdge, SlowReadNext
  <2>2. ar # None => /\ ar = r_addr_lat /\ rslv[s].r = None /\ r_sel = s
                     /\ \/ r_state = "ISSUE" /\ arready
                        \/ r_state = "WAIT_R"
    BY <1>1 DEF IInv, SlavesOK
  <2>3. rslv[s].r # None => slv_rready(s)
    BY DEF IInv, SlavesOK, slv_rready
  <2>. HIDE DEF ar
  <2>. QED BY <1>6, <2>1, <2>2, <2>3
<1>. QED BY <1>7, <1>8

-----------------------------------------------------------------------------
(* Each action of the read path, taken together with the environment's     *)
(* edge, preserves the invariant.                                          *)
RegTypes ==
  /\ r_state \in RStates /\ r_grant \in Masters /\ r_sel \in Targets
  /\ r_addr_lat \in Addr \union {None} /\ r_issued_ar \in BOOLEAN
  /\ s_rvalid \in BOOLEAN /\ s_rdata \in Value /\ s_rresp \in Resp
  /\ last_decerr_raddr \in Addr \union {None} /\ decerr_irq_r \in BOOLEAN

Kept == RegTypes /\ ReadInFlightIsTheOwners /\ PipelineOK /\ SlavesOK /\ AnswerOK

(* Outside R_IDLE no address is accepted and the grant stands, so the read *)
(* of the owner stays taken until its data are.                            *)
LEMMA BusyStep ==
  ASSUME IInv, NEW cur_rready \in BOOLEAN, ReadMasterEdge(cur_rready),
         r_state # "IDLE", UpdateGrant, NEW m \in Masters
  PROVE  /\ r_grant' = r_grant
         /\ rmst'[m].ar = "sent" <=> m = r_grant /\ ~(s_rvalid /\ cur_rready)
         /\ rmst'[m].ar = "sent" => rmst'[m].addr = rmst[m].addr
<1>1. r_grant' = r_grant
  BY DEF UpdateGrant, r_open
<1>2. rmst[m].ar = "sent" <=> m = r_grant
  BY DEF IInv, ReadInFlightIsTheOwners
<1>3. ~m_arready(m)
  BY DEF m_arready
<1>. QED BY <1>1, <1>2, <1>3, MasterProgress DEF m_rvalid

LEMMA IdleStep ==
  ASSUME IInv, NEW arready \in BOOLEAN, NEW respond \in BOOLEAN, NEW cur_rready \in BOOLEAN,
         ~SlowSelected => arready,
         RIdle, ReadMasterEdge(cur_rready), ReadSlaveEdge(arready, respond)
  PROVE  Kept'
<1>1. /\ r_state = "IDLE" /\ ~s_rvalid /\ ~s_rvalid'
      /\ r_grant_eff \in Masters /\ r_grant' = r_grant_eff
  BY DEF RIdle, IInv, PipelineOK, UpdateGrant, r_grant_eff, r_open, r_arb, Masters
<1>2. cur_arvalid => cur_araddr \in Addr /\ decode_addr(cur_araddr) \in Targets
  BY <1>1, ReadAddrAssumption, DecodeIsTarget DEF cur_arvalid, cur_araddr, IInv, ReadersOK
<1>3. /\ r_state' = IF cur_arvalid THEN "ISSUE" ELSE "IDLE"
      /\ cur_arvalid => /\ r_addr_lat' = cur_araddr /\ r_sel' = decode_addr(cur_araddr)
                        /\ r_issued_ar' = FALSE
      /\ last_decerr_raddr' = IF r_miss THEN cur_araddr ELSE last_decerr_raddr
  BY <1>1 DEF RIdle
<1>4. RegTypes'
  <2>1. decerr_irq_r' \in BOOLEAN
    BY DEF RIdle, r_miss, cur_arvalid
  <2>2. last_decerr_raddr' \in Addr \union {None}
    BY <1>2, <1>3 DEF r_miss, IInv, TypeOK
  <2>. QED BY <1>1, <1>2, <1>3, <2>1, <2>2 DEF RIdle, RegTypes, RStates, IInv, TypeOK
<1>5. PipelineOK'
  BY <1>1, <1>2, <1>3 DEF PipelineOK, r_miss
<1>6. SlavesOK'
  BY <1>1, SlaveStep DEF SlavesOK
<1>7. AnswerOK'
  BY <1>3 DEF AnswerOK, Final
<1>8. ReadInFlightIsTheOwners'
  <2>1. \A m \in Masters : rmst'[m].ar = "sent" <=> cur_arvalid /\ m = r_grant_eff
    <3>1. \A m \in Masters : rmst[m].ar # "sent" /\ ~m_rvalid(m)
      BY <1>1 DEF IInv, ReadInFlightIsTheOwners, m_rvalid
    <3>. QED BY <1>1, <3>1, MasterProgress DEF ReadRequests, m_arready, cur_arvalid
  <2>. QED BY <1>1, <1>3, <2>1, MasterProgress DEF ReadInFlightIsTheOwners, cur_araddr
<1>. QED BY <1>4, <1>5, <1>6, <1>7, <1>8 DEF Kept

(* A step outside R_IDLE that does not end the read keeps what its owner   *)
(* is to be told.                                                          *)
LEMMA OwnerKept ==
  ASSUME IInv, NEW cur_rready \in BOOLEAN, ReadMasterEdge(cur_rready), UpdateGrant,
         r_state # "IDLE", r_addr_lat' = r_addr_lat,
         s_rvalid /\ cur_rready <=> r_state' = "IDLE"
  PROVE  ReadInFlightIsTheOwners'
<1>1. r_grant \in Masters /\ r_addr_lat = rmst[r_grant].addr
  BY DEF IInv, TypeOK, ReadInFlightIsTheOwners
<1>. QED BY <1>1, BusyStep DEF ReadInFlightIsTheOwners

LEMMA IssueStep ==
  ASSUME IInv, NEW arready \in BOOLEAN, NEW respond \in BOOLEAN, NEW cur_rready \in BOOLEAN,
         ~SlowSelected => arready,
         RIssue(arready), ReadMasterEdge(cur_rready), ReadSlaveEdge(arready, respond)
  PROVE  Kept'
<1>1. /\ r_state = "ISSUE" /\ ~s_rvalid /\ ~s_rvalid' /\ ~r_issued_ar
      /\ r_sel' = r_sel /\ r_addr_lat' = r_addr_lat
      /\ last_decerr_raddr' = last_decerr_raddr /\ UpdateGrant
  BY DEF RIssue, IInv, PipelineOK
<1>2. /\ r_sel \notin RealSlaves => r_state' = "RESP" /\ r_issued_ar' = FALSE
      /\ r_sel \in RealSlaves => /\ r_state' = IF arready THEN "WAIT_R" ELSE "ISSUE"
                                 /\ r_issued_ar' = arready
  <2>1. r_sel \in {SLAVE_ERR, XBAR_CSR} <=> r_sel \notin RealSlaves
    BY TargetKinds DEF IInv, TypeOK
  <2>. QED BY <1>1, <2>1 DEF RIssue
<1>3. RegTypes'
  BY <1>1, <1>2, BusyStep DEF RIssue, RegTypes, RStates, IInv, TypeOK
<1>4. PipelineOK'
  BY <1>1, <1>2 DEF PipelineOK, IInv
<1>5. SlavesOK'
  BY <1>1, <1>2, SlaveStep DEF SlavesOK
<1>6. AnswerOK'
  BY <1>1, <1>2 DEF AnswerOK, Final
<1>7. ReadInFlightIsTheOwners'
  BY <1>1, <1>2, OwnerKept
<1>. QED BY <1>3, <1>4, <1>5, <1>6, <1>7 DEF Kept

LEMMA WaitStep ==
  ASSUME IInv, NEW arready \in BOOLEAN, NEW respond \in BOOLEAN, NEW cur_rready \in BOOLEAN,
         ~SlowSelected => arready,
         RWaitR, ReadMasterEdge(cur_rready), ReadSlaveEdge(arready, respond)
  PROVE  Kept'
<1>1. /\ r_state = "WAIT_R" /\ ~s_rvalid /\ s_rvalid' = s_rvalid /\ r_sel \in RealSlaves
      /\ r_sel' = r_sel /\ r_addr_lat' = r_addr_lat /\ r_issued_ar' = r_issued_ar
      /\ last_decerr_raddr' = last_decerr_raddr /\ UpdateGrant
  BY DEF RWaitR, IInv, PipelineOK
<1>2. r_slave_r = rslv[r_sel].r
  BY <1>1 DEF r_slave_r
<1>3. /\ rslv[r_sel].r # None => /\ r_state' = "RESP" /\ s_rresp' = OKAY
                                 /\ s_rdata' = Location(r_sel, r_addr_lat)
      /\ rslv[r_sel].r = None => r_state' = "WAIT_R" /\ UNCHANGED <<s_rdata, s_rresp>>
  BY <1>1, <1>2 DEF RWaitR, IInv, SlavesOK
<1>4. RegTypes'
  <2>1. Location(r_sel, r_addr_lat) \in Value /\ OKAY \in Resp
    BY <1>1 DEF Location, Value, Resp, IInv, PipelineOK
  <2>2. s_rdata' \in Value /\ s_rresp' \in Resp /\ r_state' \in RStates
    BY <1>3, <2>1 DEF IInv, TypeOK, RStates
  <2>3. decerr_irq_r' = FALSE /\ r_grant' = r_grant
    BY <1>1 DEF RWaitR, UpdateGrant, r_open
  <2>. QED BY <1>1, <2>2, <2>3 DEF RegTypes, IInv, TypeOK
<1>5. PipelineOK'
  BY <1>1, <1>3 DEF PipelineOK, IInv
<1>6. SlavesOK'
  BY <1>1, <1>3, SlaveStep DEF SlavesOK
<1>7. AnswerOK'
  BY <1>1, <1>3, TargetKinds DEF AnswerOK, Final
<1>8. ReadInFlightIsTheOwners'
  BY <1>1, <1>3, OwnerKept
<1>. QED BY <1>4, <1>5, <1>6, <1>7, <1>8 DEF Kept

LEMMA RespStep ==
  ASSUME IInv, NEW arready \in BOOLEAN, NEW respond \in BOOLEAN, NEW cur_rready \in BOOLEAN,
         ~SlowSelected => arready,
         RResp(cur_rready), ReadMasterEdge(cur_rready), ReadSlaveEdge(arready, respond)
  PROVE  Kept'
<1>1. /\ r_state = "RESP" /\ r_state' = (IF s_rvalid /\ cur_rready THEN "IDLE" ELSE "RESP")
      /\ s_rvalid' = ~(s_rvalid /\ cur_rready)
      /\ r_sel' = r_sel /\ r_addr_lat' = r_addr_lat /\ r_issued_ar' = r_issued_ar
      /\ last_decerr_raddr' = last_decerr_raddr /\ UpdateGrant
  BY DEF RResp
<1>2. /\ r_sel = SLAVE_ERR /\ ~s_rvalid => s_rdata' = Zero /\ s_rresp' = DECERR
      /\ r_sel = XBAR_CSR /\ ~s_rvalid => s_rdata' = csr_data /\ s_rresp' = OKAY
      /\ s_rvalid \/ r_sel \in RealSlaves => UNCHANGED <<s_rdata, s_rresp>>
  BY TargetKinds DEF RResp
<1>3. r_sel \in RealSlaves \/ r_sel = XBAR_CSR \/ r_sel = SLAVE_ERR
  BY TargetKinds DEF IInv, TypeOK
<1>4. RegTypes'
  <2>1. csr_data \in Value /\ Zero \in Value /\ {OKAY, DECERR} \subseteq Resp
    BY DEF csr_data, Value, Zero, Resp, IInv, TypeOK
  <2>2. s_rdata' \in Value /\ s_rresp' \in Resp
    BY <1>2, <1>3, <2>1 DEF IInv, TypeOK
  <2>3. decerr_irq_r' = FALSE
    BY DEF RResp
  <2>. QED BY <1>1, <2>2, <2>3, BusyStep DEF RegTypes, RStates, IInv, TypeOK
<1>5. PipelineOK'
  BY <1>1 DEF PipelineOK, IInv
<1>6. SlavesOK'
  BY <1>1, SlaveStep DEF SlavesOK
<1>7. AnswerOK'
  <2>. SUFFICES ASSUME ~(s_rvalid /\ cur_rready)
                PROVE  AnswerOK'
    BY <1>1 DEF AnswerOK, Final
  <2>1. CASE s_rvalid \/ r_sel \in RealSlaves
    <3>1. Final
      BY <1>1, <2>1 DEF Final
    <3>. QED BY <1>1, <1>2, <2>1, <3>1 DEF AnswerOK, IInv
  <2>2. CASE ~s_rvalid /\ r_sel = SLAVE_ERR
    BY <1>1, <1>2, <2>2, TargetKinds DEF AnswerOK
  <2>3. CASE ~s_rvalid /\ r_sel = XBAR_CSR
    <3>1. s_rdata' = csr_data /\ s_rresp' = OKAY
      BY <1>2, <2>3
    <3>. QED BY <1>1, <2>3, <3>1, TargetKinds DEF AnswerOK, csr_data
  <2>. QED BY <1>3, <2>1, <2>2, <2>3
<1>8. ReadInFlightIsTheOwners'
  BY <1>1, OwnerKept
<1>. QED BY <1>4, <1>5, <1>6, <1>7, <1>8 DEF Kept

LEMMA NextIInv == IInv /\ [Next]_vars => IInv'
<1>. SUFFICES ASSUME IInv, [Next]_vars PROVE IInv'
  OBVIOUS
<1>1. CASE UNCHANGED vars
  BY <1>1 DEF vars, readVars, IInv, TypeOK, ReadInFlightIsTheOwners, ReadersOK, PipelineOK,
              SlavesOK, AnswerOK, Final
<1>2. CASE Next
  <2>1. PICK arready \in BOOLEAN, respond \in BOOLEAN, cur_rready \in BOOLEAN :
          /\ ~SlowSelected => arready
          /\ ReadPath(arready, cur_rready)
          /\ ReadMasterEdge(cur_rready)
          /\ ReadSlaveEdge(arready, respond)
    BY <1>2 DEF Next, ReadEdge, Input
  <2>2. rmst' \in [Masters -> ReadMaster] /\ ReadersOK'
    BY <2>1, MasterProgress
  <2>3. rslv' \in [RealSlaves -> ReadSlave]
    <3>1. "ROM" \in RealSlaves
      BY DEF RealSlaves
    <3>. QED BY <2>1, <3>1, SlaveStep
  <2>4. Kept'
    BY <2>1, IdleStep, IssueStep, WaitStep, RespStep DEF ReadPath
  <2>5. last_decerr_waddr' \in MissAddr \union {None}
    BY <1>2 DEF Next, IInv, TypeOK
  <2>6. r_state' # "IDLE" => r_addr_lat' # None
    BY <2>4, ReadNoneAssumption DEF Kept, PipelineOK
  <2>. QED BY <2>2, <2>3, <2>4, <2>5, <2>6 DEF IInv, TypeOK, Kept, RegTypes
<1>. QED BY <1>1, <1>2

LEMMA Invariance == Spec => []IInv
BY InitIInv, NextIInv, PTL DEF Spec

-----------------------------------------------------------------------------
(* A read in flight belongs to the master that holds the grant, the data   *)
(* of a one-cycle slave are never missed, and a master that is told DECERR *)
(* finds its own address in LAST_DECERR_RADDR (axi_lite_xbar.v:419-546).   *)
THEOREM ReadInvariant == Spec => []ReadInv
<1>1. IInv => FastDataIsCaught
  BY ReadSetAssumption DEF IInv, SlavesOK, FastDataIsCaught, slv_rready
<1>2. IInv => ReadMissRecorded
  <2>1. OKAY # DECERR
    BY DEF OKAY, DECERR
  <2>. QED BY <2>1 DEF IInv, PipelineOK, AnswerOK, Final, ReadInFlightIsTheOwners,
                      ReadMissRecorded, m_rvalid
<1>3. IInv => ReadInv
  BY <1>1, <1>2 DEF IInv, ReadInv
<1>. QED BY <1>3, Invariance, PTL

(* Whatever the two masters read, whatever the slaves' timing: the data    *)
(* and the response code a master is shown are those of the address it     *)
(* asked for.                                                              *)
THEOREM OwnDataIsRead == Spec => []DataIsForOwnRead
<1>1. IInv => DataIsForOwnRead
  <2>. SUFFICES ASSUME IInv, NEW m \in Masters, m_rvalid(m)
                PROVE  /\ Final /\ r_sel = decode_addr(rmst[m].addr)
                       /\ r_addr_lat = rmst[m].addr
    BY DEF DataIsForOwnRead, AnswerOK, IInv
  <2>. QED BY DEF m_rvalid, IInv, PipelineOK, ReadInFlightIsTheOwners, Final
<1>. QED BY <1>1, Invariance, PTL
=============================================================================
