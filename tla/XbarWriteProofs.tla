--------------------------- MODULE XbarWriteProofs ---------------------------
(***************************************************************************)
(* Proofs about the write path of the crossbar, for every set of           *)
(* addresses and payloads and every choice of slow and fast slaves.        *)
(***************************************************************************)
EXTENDS XbarWrite, TLAPS

(* The decoder always selects a target (decode_addr has no undefined case).*)
LEMMA DecodeIsTarget == ASSUME NEW a \in AddrSpace PROVE decode_addr(a) \in Targets
<1>1. a.page \in 0..15 /\ a.region \in 0..15
  BY DEF AddrSpace
<1>2. CASE a.region = REGION_PERIPH /\ a.page <= 7
  <2>1. a.page \in 0..7
    BY <1>1, <1>2
  <2>2. Peripherals[a.page + 1] \in Targets
    BY <2>1 DEF Peripherals, Targets, RealSlaves, XBAR_CSR
  <2>3. decode_addr(a) = Peripherals[a.page + 1]
    BY <1>2 DEF decode_addr, REGION_ROM, REGION_RAM, REGION_PERIPH
  <2>. QED BY <2>2, <2>3
<1>3. CASE ~(a.region = REGION_PERIPH /\ a.page <= 7)
  BY <1>3 DEF decode_addr, Targets, RealSlaves, SLAVE_ERR, REGION_ROM, REGION_RAM
<1>. QED BY <1>2, <1>3

(* What one clock edge does to one master: it idles, starts, moves its     *)
(* beats along, or takes its response.                                     *)
LEMMA MasterStep ==
  ASSUME NEW cur_bready \in BOOLEAN, MasterEdge(cur_bready)
  PROVE  /\ mst' = [m \in Masters |-> mst'[m]]
         /\ \A m \in Masters : mst'[m] \in MasterNext(m, cur_bready)
BY DEF MasterEdge, Masters

-----------------------------------------------------------------------------
(* The inductive invariant. *)

(* The beats of a request appear and disappear together, and a request has *)
(* an address and a payload.                                               *)
MastersOK ==
  \A m \in Masters :
    /\ mst[m].aw = "off" <=> mst[m].w = "off"
    /\ mst[m].aw = "off" => mst[m] = NoRequest
    /\ mst[m].aw # "off" => mst[m].addr \in Addr /\ mst[m].data \in Data

(* The latches are consistent with the state of the pipeline.              *)
PipelineOK ==
  /\ w_state # "IDLE" => ~w_have_aw /\ ~w_have_w
  /\ ~(w_have_aw /\ w_have_w)
  /\ s_bvalid => w_state = "RESP"
  /\ w_have_aw \/ w_state # "IDLE" => w_addr_lat \in Addr /\ w_sel = decode_addr(w_addr_lat)
  /\ w_have_w \/ w_state # "IDLE" => w_data_lat \in Data

IInv ==
  /\ TypeOK
  /\ MastersOK
  /\ PipelineOK
  /\ LatchedBeatsAreTheOwners
  /\ NoBeatForgotten

LEMMA InitIInv == Init => IInv
<1>. SUFFICES ASSUME Init PROVE IInv
  OBVIOUS
<1>1. mst \in [Masters -> MasterState] /\ slv \in [RealSlaves -> SlaveState]
  BY DEF Init, NoRequest, IdleSlave, MasterState, SlaveState, Beat
<1>2. TypeOK
  BY <1>1 DEF Init, TypeOK, WStates, Masters, Targets, Resp, OKAY
<1>3. MastersOK /\ PipelineOK /\ LatchedBeatsAreTheOwners /\ NoBeatForgotten
  BY DEF Init, MastersOK, PipelineOK, LatchedBeatsAreTheOwners, NoBeatForgotten, NoRequest
<1>. QED BY <1>2, <1>3 DEF IInv

(* The typing of the environment after an edge.                            *)
LEMMA MasterTypes ==
  ASSUME IInv, NEW cur_bready \in BOOLEAN, MasterEdge(cur_bready)
  PROVE  mst' \in [Masters -> MasterState] /\ MastersOK'
<1>1. \A m \in Masters : MasterNext(m, cur_bready) \subseteq MasterState
  <2>. SUFFICES ASSUME NEW m \in Masters PROVE MasterNext(m, cur_bready) \subseteq MasterState
    OBVIOUS
  <2>1. NoRequest \in MasterState /\ NewRequests \subseteq MasterState
    BY DEF NoRequest, NewRequests, MasterState, Beat
  <2>2. mst[m] \in MasterState
    BY DEF IInv, TypeOK
  <2>3. ASSUME NEW aw \in Beat, NEW w \in Beat
        PROVE  [aw |-> aw, w |-> w, addr |-> mst[m].addr, data |-> mst[m].data] \in MasterState
    BY <2>2, <2>3 DEF MasterState
  <2>4. /\ NextBeat(mst[m].aw, m_awready(m)) \subseteq Beat
        /\ NextBeat(mst[m].w, m_wready(m)) \subseteq Beat
    BY <2>2 DEF NextBeat, Beat, MasterState
  <2>. QED BY <2>1, <2>2, <2>3, <2>4 DEF MasterNext
<1>2. ASSUME NEW m \in Masters, NEW n \in MasterNext(m, cur_bready)
      PROVE  /\ n.aw = "off" <=> n.w = "off"
             /\ n.aw = "off" => n = NoRequest
             /\ n.aw # "off" => n.addr \in Addr /\ n.data \in Data
  <2>1. CASE n = NoRequest
    BY <2>1 DEF NoRequest
  <2>2. CASE n \in NewRequests
    BY <2>2 DEF NewRequests
  <2>3. CASE n = mst[m]
    BY <2>3 DEF IInv, MastersOK
  <2>4. ASSUME Busy(m),
               NEW aw \in NextBeat(mst[m].aw, m_awready(m)),
               NEW w \in NextBeat(mst[m].w, m_wready(m)),
               n = [aw |-> aw, w |-> w, addr |-> mst[m].addr, data |-> mst[m].data]
        PROVE  n.aw # "off" /\ n.w # "off" /\ n.addr \in Addr /\ n.data \in Data
    <3>1. mst[m] \in MasterState
      BY DEF IInv, TypeOK
    <3>2. n.aw = aw /\ n.w = w /\ n.addr = mst[m].addr /\ n.data = mst[m].data
      BY <2>4, <3>1 DEF MasterState
    <3>3. mst[m].aw # "off" /\ mst[m].w # "off"
      BY <2>4 DEF IInv, MastersOK, Busy
    <3>4. aw # "off" /\ w # "off"
      BY <3>3 DEF NextBeat
    <3>. QED BY <3>2, <3>3, <3>4 DEF IInv, MastersOK
  <2>. QED BY <2>1, <2>2, <2>3, <2>4 DEF MasterNext
<1>. QED BY <1>1, <1>2, MasterStep DEF MastersOK

(* When a beat of a master counts as handed over after the edge, and that  *)
(* a request in progress keeps its address and payload.                    *)
LEMMA MasterProgress ==
  ASSUME IInv, NEW cur_bready \in BOOLEAN, MasterEdge(cur_bready), NEW m \in Masters
  PROVE  IF Busy(m) /\ ~(m_bvalid(m) /\ cur_bready)
         THEN /\ mst'[m].addr = mst[m].addr /\ mst'[m].data = mst[m].data
              /\ mst'[m].aw = "sent" <=>
                   mst[m].aw = "sent" \/ (mst[m].aw = "valid" /\ m_awready(m))
              /\ mst'[m].w = "sent" <=>
                   mst[m].w = "sent" \/ (mst[m].w = "valid" /\ m_wready(m))
         ELSE mst'[m].aw # "sent" /\ mst'[m].w # "sent"
<1>1. mst'[m] \in MasterNext(m, cur_bready)
  BY MasterStep
<1>2. \A r \in NewRequests : r.aw # "sent" /\ r.w # "sent"
  BY DEF NewRequests
<1>3. NoRequest.aw # "sent" /\ NoRequest.w # "sent"
  BY DEF NoRequest
<1>4. CASE Busy(m) /\ ~(m_bvalid(m) /\ cur_bready)
  <2>1. PICK aw \in NextBeat(mst[m].aw, m_awready(m)), w \in NextBeat(mst[m].w, m_wready(m)) :
          mst'[m] = [aw |-> aw, w |-> w, addr |-> mst[m].addr, data |-> mst[m].data]
    BY <1>1, <1>4 DEF MasterNext
  <2>2. aw = "sent" <=> mst[m].aw = "sent" \/ (mst[m].aw = "valid" /\ m_awready(m))
    BY DEF NextBeat
  <2>3. w = "sent" <=> mst[m].w = "sent" \/ (mst[m].w = "valid" /\ m_wready(m))
    BY DEF NextBeat
  <2>. QED BY <1>4, <2>1, <2>2, <2>3
<1>5. CASE m_bvalid(m) /\ cur_bready
  BY <1>1, <1>2, <1>3, <1>5 DEF MasterNext
<1>6. CASE ~Busy(m)
  <2>1. mst[m] = NoRequest
    BY <1>6 DEF Busy, IInv, MastersOK
  <2>. QED BY <1>1, <1>2, <1>3, <1>5, <1>6, <2>1 DEF MasterNext
<1>. QED BY <1>4, <1>5, <1>6

LEMMA SlaveTypes ==
  ASSUME IInv, NEW awready \in BOOLEAN, NEW wready \in BOOLEAN, NEW respond \in BOOLEAN,
         NEW cur_bready \in BOOLEAN, SlaveEdge(awready, wready, respond, cur_bready)
  PROVE  /\ slv' \in [RealSlaves -> SlaveState]
         /\ store' \in [RealSlaves -> (Addr \X Data) \union {None}]
         /\ performed' \in [Masters -> BOOLEAN]
<1>1. \A s \in RealSlaves : SlaveResp(s) \in Resp
  BY DEF SlaveResp, Resp
<1>2. \A s \in RealSlaves : FastNext(s) \in SlaveState
  BY <1>1 DEF FastNext, SlaveState
<1>3. ASSUME NEW s \in RealSlaves
      PROVE  /\ slv[s] \in SlaveState
             /\ aw_held(s, awready) \in Addr \union {None}
             /\ w_held(s, wready) \in Data \union {None}
  BY DEF IInv, TypeOK, SlaveState, aw_held, w_held
<1>4. \A s \in RealSlaves : SlowNext(s, awready, wready, respond) \in SlaveState
  BY <1>1, <1>3 DEF SlowNext, SlaveState
<1>5. ASSUME NEW s \in RealSlaves, Commits(s, awready, wready, respond)
      PROVE  <<IF s \in FastSlaves THEN w_addr_lat ELSE aw_held(s, awready),
               IF s \in FastSlaves THEN w_data_lat ELSE w_held(s, wready)>> \in Addr \X Data
  <2>1. CASE s \in FastSlaves
    BY <1>5, <2>1 DEF Commits, do_write, slv_awvalid, IInv, PipelineOK
  <2>2. CASE s \notin FastSlaves
    BY <1>3, <1>5, <2>2 DEF Commits, SlowCommits
  <2>. QED BY <2>1, <2>2
<1>6. slv' \in [RealSlaves -> SlaveState]
  BY <1>2, <1>4 DEF SlaveEdge
<1>7. store' \in [RealSlaves -> (Addr \X Data) \union {None}]
  BY <1>5 DEF SlaveEdge, IInv, TypeOK
<1>8. performed' \in [Masters -> BOOLEAN]
  BY DEF SlaveEdge
<1>. QED BY <1>6, <1>7, <1>8

-----------------------------------------------------------------------------
(* Each action of the write path, taken together with the masters' edge,   *)
(* preserves the invariant.  The registers' part of TypeOK first.          *)
RegTypes ==
  /\ w_state \in WStates
  /\ w_grant \in Masters
  /\ w_have_aw \in BOOLEAN /\ w_have_w \in BOOLEAN
  /\ w_issued_aw \in BOOLEAN /\ w_issued_w \in BOOLEAN
  /\ w_sel \in Targets
  /\ w_addr_lat \in Addr \union {None} /\ w_data_lat \in Data \union {None}
  /\ s_bvalid \in BOOLEAN /\ s_bresp \in Resp
  /\ last_decerr_waddr \in Addr \union {None}
  /\ decerr_irq_w \in BOOLEAN

Routed ==
  /\ RegTypes
  /\ PipelineOK
  /\ LatchedBeatsAreTheOwners
  /\ NoBeatForgotten

LEMMA GrantEffIsMaster == ASSUME IInv PROVE w_grant_eff \in Masters /\ w_arb \in Masters
BY DEF IInv, TypeOK, w_grant_eff, w_arb, Masters

LEMMA IdleStep ==
  ASSUME IInv, NEW cur_bready \in BOOLEAN, WIdle, MasterEdge(cur_bready)
  PROVE  Routed'
<1>1. w_grant_eff \in Masters /\ w_grant' = w_grant_eff
  BY GrantEffIsMaster DEF WIdle, UpdateGrant, w_grant_eff
<1>2. w_state = "IDLE" /\ ~s_bvalid
  BY DEF WIdle, IInv, PipelineOK
<1>3. aw_fire => cur_awaddr \in Addr /\ decode_addr(cur_awaddr) \in Targets
  BY <1>1, AddrAssumption, DecodeIsTarget DEF aw_fire, cur_awaddr, IInv, MastersOK
<1>4. w_fire => cur_wdata \in Data
  BY <1>1 DEF w_fire, cur_wdata, IInv, MastersOK
<1>5. aw_fire \in BOOLEAN /\ w_fire \in BOOLEAN /\ aw_ready_c \in BOOLEAN /\ w_ready_c \in BOOLEAN
  BY DEF aw_fire, w_fire, aw_ready_c, w_ready_c
<1>6. RegTypes'
  BY <1>1, <1>3, <1>4, <1>5 DEF RegTypes, WIdle, IInv, TypeOK, WStates, w_miss
<1>7. PipelineOK'
  BY <1>2, <1>3, <1>4, <1>5 DEF PipelineOK, WIdle, IInv, aw_ready_c, w_ready_c
<1>8. ASSUME NEW m \in Masters
      PROVE  /\ mst'[m].aw = "sent" <=> m = w_grant_eff /\ aw_ready_c
             /\ mst'[m].w = "sent" <=> m = w_grant_eff /\ w_ready_c
             /\ mst'[m].aw = "sent" \/ mst'[m].w = "sent"
                  => mst'[m].addr = mst[m].addr /\ mst'[m].data = mst[m].data
  <2>1. ~m_bvalid(m)
    BY <1>2 DEF m_bvalid
  <2>2. mst[m].aw = "sent" <=> m = w_grant_eff /\ w_have_aw
    BY <1>2 DEF IInv, LatchedBeatsAreTheOwners, NoBeatForgotten, w_grant_eff, w_open
  <2>3. mst[m].w = "sent" <=> m = w_grant_eff /\ w_have_w
    BY <1>2 DEF IInv, LatchedBeatsAreTheOwners, NoBeatForgotten, w_grant_eff, w_open
  <2>4. mst[m].aw # "off" <=> Busy(m)
    BY DEF Busy
  <2>5. mst[m].aw = "off" <=> mst[m].w = "off"
    BY DEF IInv, MastersOK
  <2>. QED
    BY <1>2, <2>1, <2>2, <2>3, <2>4, <2>5, MasterProgress
    DEF m_awready, m_wready, cur_awready, cur_wready, aw_ready_c, w_ready_c, aw_fire, w_fire
<1>9. LatchedBeatsAreTheOwners'
  <2>1. aw_ready_c => w_addr_lat' = mst[w_grant_eff].addr
    BY <1>2 DEF WIdle, aw_ready_c, aw_fire, cur_awready, cur_awaddr, IInv,
                LatchedBeatsAreTheOwners, w_grant_eff, w_open
  <2>2. w_ready_c => w_data_lat' = mst[w_grant_eff].data
    BY <1>2 DEF WIdle, w_ready_c, w_fire, cur_wready, cur_wdata, IInv,
                LatchedBeatsAreTheOwners, w_grant_eff, w_open
  <2>3. /\ w_have_aw' \/ w_state' # "IDLE" => aw_ready_c
        /\ w_have_w' \/ w_state' # "IDLE" => w_ready_c
    BY DEF WIdle
  <2>. QED BY <1>1, <1>8, <2>1, <2>2, <2>3 DEF LatchedBeatsAreTheOwners
<1>10. NoBeatForgotten'
  BY <1>1, <1>8 DEF NoBeatForgotten, WIdle
<1>. QED BY <1>6, <1>7, <1>9, <1>10 DEF Routed

(* Outside W_IDLE no beat is accepted and the grant stands, so the beats   *)
(* of the owner stay handed over until its response is taken.              *)
LEMMA BusyStep ==
  ASSUME IInv, NEW cur_bready \in BOOLEAN, MasterEdge(cur_bready),
         w_state # "IDLE", UpdateGrant, NEW m \in Masters
  PROVE  /\ w_grant' = w_grant
         /\ mst'[m].aw = "sent" <=> m = w_grant /\ ~(s_bvalid /\ cur_bready)
         /\ mst'[m].w = "sent" <=> m = w_grant /\ ~(s_bvalid /\ cur_bready)
         /\ mst'[m].aw = "sent" => mst'[m].addr = mst[m].addr /\ mst'[m].data = mst[m].data
<1>1. w_grant' = w_grant
  BY DEF UpdateGrant, w_open
<1>2. /\ mst[m].aw = "sent" <=> m = w_grant
      /\ mst[m].w = "sent" <=> m = w_grant
  BY DEF IInv, LatchedBeatsAreTheOwners, NoBeatForgotten
<1>3. ~m_awready(m) /\ ~m_wready(m)
  BY DEF m_awready, m_wready, cur_awready, cur_wready
<1>. QED BY <1>1, <1>2, <1>3, MasterProgress DEF m_bvalid, Busy

LEMMA IssueStep ==
  ASSUME IInv, NEW cur_bready \in BOOLEAN, NEW awready \in BOOLEAN, NEW wready \in BOOLEAN,
         WIssue(awready, wready), MasterEdge(cur_bready)
  PROVE  Routed'
<1>1. w_state = "ISSUE" /\ ~s_bvalid /\ w_state' \in {"ISSUE", "WAIT_B", "RESP"}
  BY DEF WIssue, IInv, PipelineOK
<1>2. RegTypes'
  BY <1>1, BusyStep DEF RegTypes, WIssue, UpdateGrant, w_open, IInv, TypeOK, WStates
<1>3. PipelineOK'
  BY <1>1 DEF PipelineOK, WIssue, IInv
<1>4. \A m \in Masters :
        /\ w_grant' = w_grant
        /\ mst'[m].aw = "sent" <=> m = w_grant
        /\ mst'[m].w = "sent" <=> m = w_grant
        /\ mst'[m].aw = "sent" => mst'[m].addr = mst[m].addr /\ mst'[m].data = mst[m].data
  BY <1>1, BusyStep DEF WIssue
<1>5. LatchedBeatsAreTheOwners' /\ NoBeatForgotten'
  BY <1>1, <1>4 DEF LatchedBeatsAreTheOwners, NoBeatForgotten, WIssue, IInv, TypeOK
<1>. QED BY <1>2, <1>3, <1>5 DEF Routed

LEMMA WaitStep ==
  ASSUME IInv, NEW cur_bready \in BOOLEAN, WWaitB, MasterEdge(cur_bready)
  PROVE  Routed'
<1>1. w_state = "WAIT_B" /\ ~s_bvalid /\ w_state' \in {"WAIT_B", "RESP"}
  BY DEF WWaitB, IInv, PipelineOK
<1>2. s_bresp' \in Resp
  <2>1. w_slave_b \in Resp \union {None}
    BY DEF w_slave_b, Resp, IInv, TypeOK, SlaveState
  <2>. QED BY <2>1 DEF WWaitB, IInv, TypeOK
<1>3. RegTypes'
  BY <1>1, <1>2 DEF RegTypes, WWaitB, UpdateGrant, w_open, IInv, TypeOK, WStates
<1>4. PipelineOK'
  BY <1>1 DEF PipelineOK, WWaitB, IInv
<1>5. \A m \in Masters :
        /\ w_grant' = w_grant
        /\ mst'[m].aw = "sent" <=> m = w_grant
        /\ mst'[m].w = "sent" <=> m = w_grant
        /\ mst'[m].aw = "sent" => mst'[m].addr = mst[m].addr /\ mst'[m].data = mst[m].data
  BY <1>1, BusyStep DEF WWaitB
<1>6. LatchedBeatsAreTheOwners' /\ NoBeatForgotten'
  BY <1>1, <1>5 DEF LatchedBeatsAreTheOwners, NoBeatForgotten, WWaitB, IInv, TypeOK
<1>. QED BY <1>3, <1>4, <1>6 DEF Routed

LEMMA RespStep ==
  ASSUME IInv, NEW cur_bready \in BOOLEAN, WResp(cur_bready), MasterEdge(cur_bready)
  PROVE  Routed'
<1>1. /\ w_state = "RESP"
      /\ s_bvalid /\ cur_bready <=> w_state' = "IDLE"
      /\ w_state' \in {"IDLE", "RESP"}
  BY DEF WResp
<1>2. RegTypes'
  BY <1>1 DEF RegTypes, WResp, UpdateGrant, w_open, resp_code, Resp, IInv, TypeOK, WStates
<1>3. PipelineOK'
  BY <1>1 DEF PipelineOK, WResp, IInv
<1>4. \A m \in Masters :
        /\ w_grant' = w_grant
        /\ mst'[m].aw = "sent" <=> m = w_grant /\ ~(s_bvalid /\ cur_bready)
        /\ mst'[m].w = "sent" <=> m = w_grant /\ ~(s_bvalid /\ cur_bready)
        /\ mst'[m].aw = "sent" => mst'[m].addr = mst[m].addr /\ mst'[m].data = mst[m].data
  BY <1>1, BusyStep DEF WResp
<1>5. ~w_have_aw /\ ~w_have_w /\ w_have_aw' = w_have_aw /\ w_have_w' = w_have_w
  BY <1>1 DEF WResp, IInv, PipelineOK
<1>6. LatchedBeatsAreTheOwners' /\ NoBeatForgotten'
  BY <1>1, <1>4, <1>5 DEF LatchedBeatsAreTheOwners, NoBeatForgotten, WResp, IInv, TypeOK
<1>. QED BY <1>2, <1>3, <1>6 DEF Routed

LEMMA NextIInv == IInv /\ [Next]_vars => IInv'
<1>. SUFFICES ASSUME IInv, [Next]_vars PROVE IInv'
  OBVIOUS
<1>1. CASE UNCHANGED vars
  BY <1>1 DEF vars, xbarVars, IInv, TypeOK, MastersOK, PipelineOK,
              LatchedBeatsAreTheOwners, NoBeatForgotten
<1>2. CASE Next
  <2>1. PICK awready \in BOOLEAN, wready \in BOOLEAN, respond \in BOOLEAN, cur_bready \in BOOLEAN :
          /\ WritePath(awready, wready, cur_bready)
          /\ MasterEdge(cur_bready)
          /\ SlaveEdge(awready, wready, respond, cur_bready)
    BY <1>2 DEF Next, Input
  <2>2. mst' \in [Masters -> MasterState] /\ MastersOK'
    BY <2>1, MasterTypes
  <2>3. /\ slv' \in [RealSlaves -> SlaveState]
        /\ store' \in [RealSlaves -> (Addr \X Data) \union {None}]
        /\ performed' \in [Masters -> BOOLEAN]
    BY <2>1, SlaveTypes
  <2>4. Routed'
    BY <2>1, IdleStep, IssueStep, WaitStep, RespStep DEF WritePath
  <2>5. w_state' # "IDLE" => w_addr_lat' # None /\ w_data_lat' # None
    BY <2>4, NoneAssumption DEF Routed, PipelineOK
  <2>. QED BY <2>2, <2>3, <2>4, <2>5 DEF IInv, TypeOK, Routed, RegTypes
<1>. QED BY <1>1, <1>2

LEMMA Invariance == Spec => []IInv
BY InitIInv, NextIInv, PTL DEF Spec

-----------------------------------------------------------------------------
(* Every register of the write path keeps its type, and the latches are    *)
(* full whenever the crossbar drives them to a slave.                      *)
THEOREM TypeCorrect == Spec => []TypeOK
<1>1. IInv => TypeOK
  BY DEF IInv
<1>. QED BY <1>1, Invariance, PTL

(* A transaction in flight always belongs to the master that holds the     *)
(* grant: w_open never lets the other master take it over.                 *)
THEOREM NoTransactionChangesHands == Spec => []LatchedBeatsAreTheOwners
<1>1. IInv => LatchedBeatsAreTheOwners
  BY DEF IInv
<1>. QED BY <1>1, Invariance, PTL

(* A beat a master has handed over is never dropped by the arbitration.    *)
THEOREM NoBeatIsForgotten == Spec => []NoBeatForgotten
<1>1. IInv => NoBeatForgotten
  BY DEF IInv
<1>. QED BY <1>1, Invariance, PTL

-----------------------------------------------------------------------------
(* Responses.  A slave only presents its own code; the crossbar waits only *)
(* for real slaves; what it is about to present, or presents, is the code  *)
(* of the selected target; and a miss in flight is the last one recorded.  *)
RespInv ==
  /\ \A s \in RealSlaves : slv[s].b \in {None, SlaveResp(s)}
  /\ w_state = "WAIT_B" => w_sel \in RealSlaves
  /\ w_state = "RESP" /\ (w_sel \in RealSlaves \/ s_bvalid) => s_bresp = RespOf(w_sel)
  /\ w_sel = SLAVE_ERR /\ (w_have_aw \/ w_state # "IDLE") => last_decerr_waddr = w_addr_lat

LEMMA SlaveCodes ==
  ASSUME RespInv, IInv, NEW awready, NEW wready, NEW respond, NEW cur_bready,
         SlaveEdge(awready, wready, respond, cur_bready)
  PROVE  \A s \in RealSlaves : slv'[s].b \in {None, SlaveResp(s)}
BY DEF RespInv, SlaveEdge, FastNext, SlowNext

LEMMA TargetKinds == /\ Targets = RealSlaves \union {XBAR_CSR, SLAVE_ERR}
                     /\ XBAR_CSR \notin RealSlaves /\ SLAVE_ERR \notin RealSlaves
                     /\ XBAR_CSR # SLAVE_ERR
BY DEF Targets, RealSlaves, XBAR_CSR, SLAVE_ERR

LEMMA RespPreserved == IInv /\ RespInv /\ [Next]_vars => RespInv'
<1>. SUFFICES ASSUME IInv, RespInv, [Next]_vars PROVE RespInv'
  OBVIOUS
<1>1. CASE UNCHANGED vars
  BY <1>1 DEF vars, xbarVars, RespInv
<1>2. CASE Next
  <2>1. PICK awready \in BOOLEAN, wready \in BOOLEAN, respond \in BOOLEAN, cur_bready \in BOOLEAN :
          /\ WritePath(awready, wready, cur_bready)
          /\ SlaveEdge(awready, wready, respond, cur_bready)
    BY <1>2 DEF Next, Input
  <2>2. \A s \in RealSlaves : slv'[s].b \in {None, SlaveResp(s)}
    BY <2>1, SlaveCodes
  <2>3. CASE WIdle
    <3>1. w_have_aw' \/ w_state' # "IDLE" => aw_ready_c
      BY <2>3 DEF WIdle
    <3>2. w_sel' = SLAVE_ERR /\ aw_ready_c => last_decerr_waddr' = w_addr_lat'
      BY <2>3 DEF WIdle, w_miss, aw_ready_c, aw_fire, cur_awready, RespInv
    <3>3. w_state' \in {"IDLE", "ISSUE"}
      BY <2>3 DEF WIdle
    <3>. QED BY <2>2, <3>1, <3>2, <3>3 DEF RespInv
  <2>4. CASE WIssue(awready, wready)
    <3>1. w_sel' = w_sel /\ last_decerr_waddr' = last_decerr_waddr /\ w_addr_lat' = w_addr_lat
      BY <2>4 DEF WIssue
    <3>2. ~s_bvalid /\ ~s_bvalid' /\ w_state = "ISSUE"
      BY <2>4 DEF WIssue, IInv, PipelineOK
    <3>3. w_state' = "RESP" => w_sel \notin RealSlaves
      BY <2>4, TargetKinds DEF WIssue, local_target
    <3>4. w_state' = "WAIT_B" => w_sel \in RealSlaves
      BY <2>4, TargetKinds DEF WIssue, local_target, IInv, TypeOK
    <3>. QED BY <2>2, <3>1, <3>2, <3>3, <3>4 DEF RespInv
  <2>5. CASE WWaitB
    <3>1. /\ w_sel' = w_sel /\ last_decerr_waddr' = last_decerr_waddr
          /\ w_addr_lat' = w_addr_lat /\ w_sel \in RealSlaves
          /\ w_state = "WAIT_B" /\ w_state' \in {"WAIT_B", "RESP"}
      BY <2>5 DEF WWaitB, RespInv
    <3>2. w_state' = "RESP" => s_bresp' = SlaveResp(w_sel)
      BY <2>5, <3>1 DEF WWaitB, w_slave_b, RespInv
    <3>3. RespOf(w_sel) = SlaveResp(w_sel)
      BY <3>1, TargetKinds DEF RespOf
    <3>. QED BY <2>2, <3>1, <3>2, <3>3 DEF RespInv
  <2>6. CASE WResp(cur_bready)
    <3>1. /\ w_sel' = w_sel /\ last_decerr_waddr' = last_decerr_waddr
          /\ w_addr_lat' = w_addr_lat /\ w_have_aw' = w_have_aw
          /\ w_state = "RESP" /\ w_state' \in {"IDLE", "RESP"} /\ ~w_have_aw
      BY <2>6 DEF WResp, IInv, PipelineOK
    <3>2. s_bresp' = RespOf(w_sel)
      BY <2>6, <3>1, TargetKinds DEF WResp, resp_code, RespInv, RespOf, IInv, TypeOK
    <3>. QED BY <2>2, <3>1, <3>2 DEF RespInv
  <2>. QED BY <2>1, <2>3, <2>4, <2>5, <2>6 DEF WritePath
<1>. QED BY <1>1, <1>2

LEMMA InitRespInv == Init => RespInv
BY DEF Init, RespInv, IdleSlave

(* The response a master sees carries the code of its own target.          *)
THEOREM OwnResponseCode == Spec => []ResponseIsForOwnTarget
<1>1. IInv /\ RespInv => ResponseIsForOwnTarget
  BY DEF IInv, RespInv, PipelineOK, LatchedBeatsAreTheOwners, ResponseIsForOwnTarget, m_bvalid
<1>. QED BY <1>1, InitRespInv, RespPreserved, Invariance, PTL DEF Spec

(* A master that is told DECERR finds its own address in the CSR.          *)
THEOREM OwnMissRecorded == Spec => []MissAddressRecorded
<1>1. SLVERR # DECERR /\ OKAY # DECERR
  BY DEF SLVERR, DECERR, OKAY
<1>2. RespOf(w_sel) = DECERR => w_sel = SLAVE_ERR
  BY <1>1 DEF RespOf, SlaveResp
<1>3. IInv /\ RespInv => MissAddressRecorded
  BY <1>2 DEF IInv, RespInv, PipelineOK, LatchedBeatsAreTheOwners, MissAddressRecorded, m_bvalid
<1>. QED BY <1>3, InitRespInv, RespPreserved, Invariance, PTL DEF Spec

(* All of what the runs check of a state, for any addresses, payloads and  *)
(* set of slow slaves (axi_lite_xbar.v:228-417).                           *)
THEOREM WriteInvariant == Spec => []WriteInv
BY TypeCorrect, NoTransactionChangesHands, OwnMissRecorded, PTL DEF WriteInv

-----------------------------------------------------------------------------
(* The refinement of WriteBus.                                             *)

(* A slave holds what it has been issued until it performs the write; all  *)
(* the others are idle.                                                    *)
Given(s) ==
  CASE w_state = "ISSUE" ->
         [aw |-> IF w_issued_aw THEN w_addr_lat ELSE None,
          w |-> IF w_issued_w THEN w_data_lat ELSE None, b |-> None]
    [] w_state = "WAIT_B" ->
         IF performed[w_grant] THEN [aw |-> None, w |-> None, b |-> SlaveResp(s)]
         ELSE [aw |-> w_addr_lat, w |-> w_data_lat, b |-> None]
    [] OTHER -> IdleSlave

SlavesInv ==
  /\ \A s \in RealSlaves : slv[s] = (IF s = w_sel THEN Given(s) ELSE IdleSlave)
  /\ w_state = "ISSUE" => ~(w_issued_aw /\ w_issued_w)
  /\ w_state = "ISSUE" /\ w_sel \in FastSlaves => ~w_issued_aw /\ ~w_issued_w
  /\ w_state = "WAIT_B" /\ w_sel \in FastSlaves => performed[w_grant]

(* A write has taken effect exactly when its slave has answered.           *)
EffectInv ==
  /\ \A m \in Masters : performed[m] => m = w_grant /\ w_state \in {"WAIT_B", "RESP"}
  /\ w_state = "RESP" => (performed[w_grant] <=> w_sel \in RealSlaves)

BusInv == IInv /\ RespInv /\ SlavesInv /\ EffectInv

(* What the edge of the slaves comes to, state by state.                   *)
LEMMA Quiet ==
  ASSUME BusInv, NEW awready \in BOOLEAN, NEW wready \in BOOLEAN, NEW respond \in BOOLEAN,
         NEW cur_bready \in BOOLEAN, w_state \in {"IDLE", "RESP"},
         SlaveEdge(awready, wready, respond, cur_bready)
  PROVE  /\ \A s \in RealSlaves : slv'[s] = IdleSlave
         /\ store' = store
         /\ \A m \in Masters : performed'[m] <=> performed[m] /\ ~(m_bvalid(m) /\ cur_bready)
<1>1. \A s \in RealSlaves : slv[s] = IdleSlave /\ ~slv_awvalid(s) /\ ~slv_wvalid(s)
  BY DEF BusInv, SlavesInv, Given, slv_awvalid, slv_wvalid
<1>2. \A s \in RealSlaves : /\ aw_held(s, awready) = None /\ w_held(s, wready) = None
                            /\ ~do_write(s)
  BY <1>1 DEF aw_held, w_held, do_write, IdleSlave
<1>3. \A s \in RealSlaves : ~Commits(s, awready, wready, respond)
  BY <1>2 DEF Commits, SlowCommits
<1>4. \A s \in RealSlaves : slv'[s] = IdleSlave
  BY <1>1, <1>2, <1>3 DEF SlaveEdge, FastNext, SlowNext, Commits, IdleSlave
<1>5. store' = store
  BY <1>3 DEF SlaveEdge, BusInv, IInv, TypeOK
<1>. QED BY <1>3, <1>4, <1>5 DEF SlaveEdge

(* Only the selected slave is driven.                                      *)
LEMMA OthersRest ==
  ASSUME BusInv, NEW awready \in BOOLEAN, NEW wready \in BOOLEAN, NEW respond \in BOOLEAN,
         NEW cur_bready \in BOOLEAN, SlaveEdge(awready, wready, respond, cur_bready),
         NEW s \in RealSlaves, s # w_sel
  PROVE  slv'[s] = IdleSlave /\ store'[s] = store[s] /\ ~Commits(s, awready, wready, respond)
<1>1. slv[s] = IdleSlave /\ ~slv_awvalid(s) /\ ~slv_wvalid(s)
  BY DEF BusInv, SlavesInv, slv_awvalid, slv_wvalid
<1>2. aw_held(s, awready) = None /\ w_held(s, wready) = None /\ ~do_write(s)
  BY <1>1 DEF aw_held, w_held, do_write, IdleSlave
<1>3. ~Commits(s, awready, wready, respond)
  BY <1>2 DEF Commits, SlowCommits
<1>4. slv'[s] = IdleSlave
  BY <1>1, <1>2, <1>3 DEF SlaveEdge, FastNext, SlowNext, Commits, IdleSlave
<1>. QED BY <1>3, <1>4 DEF SlaveEdge

(* A write that takes effect is the one in the latches.                    *)
LEMMA SelectedCommits ==
  ASSUME BusInv, NEW awready \in BOOLEAN, NEW wready \in BOOLEAN, NEW respond \in BOOLEAN,
         NEW cur_bready \in BOOLEAN, SlaveEdge(awready, wready, respond, cur_bready),
         w_sel \in RealSlaves, Commits(w_sel, awready, wready, respond),
         aw_held(w_sel, awready) \in {None, w_addr_lat},
         w_held(w_sel, wready) \in {None, w_data_lat},
         ~s_bvalid
  PROVE  /\ slv'[w_sel] = [aw |-> None, w |-> None, b |-> SlaveResp(w_sel)]
         /\ store' = (IF w_sel = "ROM" THEN store
                      ELSE [store EXCEPT ![w_sel] = <<w_addr_lat, w_data_lat>>])
         /\ \A m \in Masters : performed'[m] <=> m = w_grant \/ performed[m]
<1>1. slv'[w_sel] = [aw |-> None, w |-> None, b |-> SlaveResp(w_sel)]
  BY DEF SlaveEdge, FastNext, SlowNext, Commits
<1>2. store'[w_sel] = (IF w_sel = "ROM" THEN store[w_sel] ELSE <<w_addr_lat, w_data_lat>>)
  BY DEF SlaveEdge, Commits, SlowCommits
<1>3. \A s \in RealSlaves : s # w_sel => store'[s] = store[s]
  BY OthersRest
<1>4. store' = [s \in RealSlaves |-> store'[s]] /\ store = [s \in RealSlaves |-> store[s]]
  BY DEF SlaveEdge, BusInv, IInv, TypeOK
<1>5. store' = (IF w_sel = "ROM" THEN store
                ELSE [store EXCEPT ![w_sel] = <<w_addr_lat, w_data_lat>>])
  BY <1>2, <1>3, <1>4
<1>6. \A m \in Masters : performed'[m] <=> m = w_grant \/ performed[m]
  BY DEF SlaveEdge, m_bvalid
<1>. QED BY <1>1, <1>5, <1>6

LEMMA NobodyCommits ==
  ASSUME BusInv, NEW awready \in BOOLEAN, NEW wready \in BOOLEAN, NEW respond \in BOOLEAN,
         NEW cur_bready \in BOOLEAN, SlaveEdge(awready, wready, respond, cur_bready),
         w_sel \in RealSlaves => ~Commits(w_sel, awready, wready, respond), ~s_bvalid
  PROVE  /\ w_sel \in RealSlaves =>
              slv'[w_sel] = [aw |-> aw_held(w_sel, awready), w |-> w_held(w_sel, wready),
                             b |-> IF slv_bready(w_sel) THEN None ELSE slv[w_sel].b]
              \/ (w_sel \in FastSlaves /\ slv'[w_sel] = IdleSlave)
         /\ store' = store
         /\ \A m \in Masters : performed'[m] <=> performed[m]
<1>1. \A s \in RealSlaves : ~Commits(s, awready, wready, respond)
  BY OthersRest
<1>2. store' = store
  BY <1>1 DEF SlaveEdge, BusInv, IInv, TypeOK
<1>3. \A m \in Masters : performed'[m] <=> performed[m]
  BY <1>1 DEF SlaveEdge, m_bvalid
<1>4. w_sel \in RealSlaves =>
              slv'[w_sel] = [aw |-> aw_held(w_sel, awready), w |-> w_held(w_sel, wready),
                             b |-> IF slv_bready(w_sel) THEN None ELSE slv[w_sel].b]
              \/ (w_sel \in FastSlaves /\ slv'[w_sel] = IdleSlave)
  BY <1>1 DEF SlaveEdge, FastNext, SlowNext, Commits, IdleSlave
<1>. QED BY <1>2, <1>3, <1>4

LEMMA IssueEdge ==
  ASSUME BusInv, NEW awready \in BOOLEAN, NEW wready \in BOOLEAN, NEW respond \in BOOLEAN,
         NEW cur_bready \in BOOLEAN, WIssue(awready, wready),
         SlowSelected \/ (awready /\ wready),
         SlaveEdge(awready, wready, respond, cur_bready)
  PROVE  \/ /\ w_sel \in RealSlaves /\ w_state' = "WAIT_B"
            /\ \A s \in RealSlaves :
                 slv'[s] = (IF s = w_sel THEN [aw |-> None, w |-> None, b |-> SlaveResp(s)]
                            ELSE IdleSlave)
            /\ store' = (IF w_sel = "ROM" THEN store
                         ELSE [store EXCEPT ![w_sel] = <<w_addr_lat, w_data_lat>>])
            /\ \A m \in Masters : performed'[m] <=> m = w_grant
         \/ /\ \A s \in RealSlaves :
                 slv'[s] = (IF s = w_sel
                            THEN [aw |-> IF w_issued_aw' THEN w_addr_lat ELSE None,
                                  w |-> IF w_issued_w' THEN w_data_lat ELSE None, b |-> None]
                            ELSE IdleSlave)
            /\ w_sel \notin FastSlaves
            /\ store' = store
            /\ \A m \in Masters : ~performed'[m]
<1>1. w_state = "ISSUE" /\ ~s_bvalid /\ \A m \in Masters : ~performed[m]
  BY DEF WIssue, BusInv, IInv, PipelineOK, EffectInv
<1>2. w_sel \in FastSlaves => awready /\ wready
  BY DEF SlowSelected
<1>3. CASE w_sel \notin RealSlaves
  BY <1>1, <1>3, NobodyCommits, OthersRest, SetAssumption
<1>4. CASE w_sel \in RealSlaves
  <2>1. slv[w_sel] = [aw |-> IF w_issued_aw THEN w_addr_lat ELSE None,
                      w |-> IF w_issued_w THEN w_data_lat ELSE None, b |-> None]
    BY <1>1, <1>4 DEF BusInv, SlavesInv, Given
  <2>2. ~local_target
    BY <1>4, TargetKinds DEF local_target
  <2>3. /\ aw_held(w_sel, awready) = (IF w_issued_aw' THEN w_addr_lat ELSE None)
        /\ w_held(w_sel, wready) = (IF w_issued_w' THEN w_data_lat ELSE None)
    <3>1. /\ w_issued_aw' <=> w_issued_aw \/ awready
          /\ w_issued_w' <=> w_issued_w \/ wready
      BY <2>2 DEF WIssue
    <3>2. slv_awvalid(w_sel) <=> ~w_issued_aw
      BY <1>1 DEF slv_awvalid
    <3>3. slv_wvalid(w_sel) <=> ~w_issued_w
      BY <1>1 DEF slv_wvalid
    <3>4. aw_held(w_sel, awready) = (IF w_issued_aw' THEN w_addr_lat ELSE None)
      BY <2>1, <3>1, <3>2 DEF aw_held
    <3>5. w_held(w_sel, wready) = (IF w_issued_w' THEN w_data_lat ELSE None)
      BY <2>1, <3>1, <3>3 DEF w_held
    <3>. QED BY <3>4, <3>5
  <2>4. w_addr_lat # None /\ w_data_lat # None
    BY <1>1 DEF BusInv, IInv, TypeOK
  <2>5. CASE Commits(w_sel, awready, wready, respond)
    <3>1. w_issued_aw' /\ w_issued_w'
      <4>1. CASE w_sel \in FastSlaves
        BY <1>2, <2>2, <4>1 DEF WIssue
      <4>2. CASE w_sel \notin FastSlaves
        BY <2>3, <2>5, <4>2 DEF Commits, SlowCommits
      <4>. QED BY <4>1, <4>2
    <3>2. w_state' = "WAIT_B"
      BY <2>2, <3>1 DEF WIssue, w_both_issued
    <3>3. /\ aw_held(w_sel, awready) \in {None, w_addr_lat}
          /\ w_held(w_sel, wready) \in {None, w_data_lat}
      BY <2>3
    <3>. QED BY <1>1, <1>4, <2>5, <3>2, <3>3, SelectedCommits, OthersRest
  <2>6. CASE ~Commits(w_sel, awready, wready, respond)
    <3>1. w_sel \notin FastSlaves
      <4>1. w_sel \in FastSlaves => do_write(w_sel)
        BY <1>1 DEF do_write, slv_awvalid, slv_wvalid, BusInv, SlavesInv
      <4>. QED BY <2>6, <4>1 DEF Commits
    <3>2. slv'[w_sel] = [aw |-> aw_held(w_sel, awready), w |-> w_held(w_sel, wready), b |-> None]
      <4>1. ~slv_bready(w_sel) /\ slv[w_sel].b = None
        BY <1>1, <2>1 DEF slv_bready
      <4>. QED BY <1>1, <1>4, <2>6, <3>1, <4>1, NobodyCommits
    <3>3. store' = store /\ \A m \in Masters : ~performed'[m]
      BY <1>1, <2>6, NobodyCommits
    <3>. QED BY <1>4, <2>3, <3>1, <3>2, <3>3, OthersRest
  <2>. QED BY <2>5, <2>6
<1>. QED BY <1>3, <1>4

LEMMA WaitEdge ==
  ASSUME BusInv, NEW awready \in BOOLEAN, NEW wready \in BOOLEAN, NEW respond \in BOOLEAN,
         NEW cur_bready \in BOOLEAN, WWaitB,
         SlaveEdge(awready, wready, respond, cur_bready)
  PROVE  /\ w_sel \in RealSlaves
         /\ \A m \in Masters : ~performed[m] \/ m = w_grant
         /\ \/ /\ performed[w_grant] /\ w_state' = "RESP" /\ store' = store
               /\ \A s \in RealSlaves : slv'[s] = IdleSlave
               /\ \A m \in Masters : performed'[m] <=> m = w_grant
            \/ /\ ~performed[w_grant] /\ w_state' = "WAIT_B"
               /\ \A s \in RealSlaves :
                    slv'[s] = (IF s = w_sel THEN [aw |-> None, w |-> None, b |-> SlaveResp(s)]
                               ELSE IdleSlave)
               /\ store' = (IF w_sel = "ROM" THEN store
                            ELSE [store EXCEPT ![w_sel] = <<w_addr_lat, w_data_lat>>])
               /\ \A m \in Masters : performed'[m] <=> m = w_grant
            \/ /\ ~performed[w_grant] /\ w_state' = "WAIT_B" /\ store' = store
               /\ w_sel \notin FastSlaves
               /\ \A s \in RealSlaves :
                    slv'[s] = (IF s = w_sel THEN [aw |-> w_addr_lat, w |-> w_data_lat, b |-> None]
                               ELSE IdleSlave)
               /\ \A m \in Masters : ~performed'[m]
<1>1. w_state = "WAIT_B" /\ ~s_bvalid /\ w_sel \in RealSlaves
  BY DEF WWaitB, BusInv, IInv, RespInv, PipelineOK
<1>2. \A m \in Masters : ~performed[m] \/ m = w_grant
  BY DEF BusInv, EffectInv
<1>3. /\ slv[w_sel] = (IF performed[w_grant] THEN [aw |-> None, w |-> None, b |-> SlaveResp(w_sel)]
                       ELSE [aw |-> w_addr_lat, w |-> w_data_lat, b |-> None])
      /\ ~performed[w_grant] => w_sel \notin FastSlaves
  BY <1>1 DEF BusInv, SlavesInv, Given
<1>4. ~slv_awvalid(w_sel) /\ ~slv_wvalid(w_sel) /\ ~do_write(w_sel) /\ slv_bready(w_sel)
  BY <1>1 DEF slv_awvalid, slv_wvalid, slv_bready, do_write
<1>5. aw_held(w_sel, awready) = slv[w_sel].aw /\ w_held(w_sel, wready) = slv[w_sel].w
  BY <1>4 DEF aw_held, w_held
<1>6. SlaveResp(w_sel) # None /\ w_slave_b = slv[w_sel].b
  BY <1>1, NoneAssumption DEF SlaveResp, Resp, w_slave_b
<1>7. w_grant \in Masters
  BY DEF BusInv, IInv, TypeOK
<1>8. CASE performed[w_grant]
  <2>1. ~Commits(w_sel, awready, wready, respond)
    BY <1>3, <1>4, <1>5, <1>8 DEF Commits, SlowCommits
  <2>2. w_state' = "RESP"
    BY <1>3, <1>6, <1>8 DEF WWaitB
  <2>3. slv'[w_sel] = IdleSlave
    BY <1>1, <1>3, <1>4, <1>5, <1>8, <2>1, NobodyCommits DEF IdleSlave
  <2>4. store' = store /\ \A m \in Masters : performed'[m] <=> m = w_grant
    BY <1>1, <1>2, <1>8, <2>1, NobodyCommits
  <2>. QED BY <1>1, <1>2, <1>8, <2>2, <2>3, <2>4, OthersRest
<1>9. CASE ~performed[w_grant] /\ Commits(w_sel, awready, wready, respond)
  <2>1. w_state' = "WAIT_B"
    BY <1>1, <1>3, <1>6, <1>9 DEF WWaitB
  <2>2. /\ aw_held(w_sel, awready) \in {None, w_addr_lat}
        /\ w_held(w_sel, wready) \in {None, w_data_lat}
    BY <1>3, <1>5, <1>9
  <2>3. /\ slv'[w_sel] = [aw |-> None, w |-> None, b |-> SlaveResp(w_sel)]
        /\ store' = (IF w_sel = "ROM" THEN store
                     ELSE [store EXCEPT ![w_sel] = <<w_addr_lat, w_data_lat>>])
        /\ \A m \in Masters : performed'[m] <=> m = w_grant
    BY <1>1, <1>2, <1>9, <2>2, SelectedCommits
  <2>. QED BY <1>1, <1>2, <1>9, <2>1, <2>3, OthersRest
<1>10. CASE ~performed[w_grant] /\ ~Commits(w_sel, awready, wready, respond)
  <2>1. w_state' = "WAIT_B"
    BY <1>1, <1>3, <1>6, <1>10 DEF WWaitB
  <2>2. w_sel \notin FastSlaves
    BY <1>3, <1>10
  <2>3. slv'[w_sel] = [aw |-> w_addr_lat, w |-> w_data_lat, b |-> None]
    BY <1>1, <1>3, <1>4, <1>5, <1>10, <2>2, NobodyCommits
  <2>4. store' = store /\ \A m \in Masters : ~performed'[m]
    BY <1>1, <1>2, <1>10, NobodyCommits
  <2>. QED BY <1>1, <1>2, <1>10, <2>1, <2>2, <2>3, <2>4, OthersRest
<1>. QED BY <1>8, <1>9, <1>10

LEMMA BusInvInit == Init => BusInv
BY InitIInv, InitRespInv DEF Init, BusInv, SlavesInv, EffectInv, Given

LEMMA BusInvStep == BusInv /\ [Next]_vars => BusInv'
<1>. SUFFICES ASSUME BusInv, [Next]_vars PROVE BusInv'
  OBVIOUS
<1>1. IInv' /\ RespInv'
  BY NextIInv, RespPreserved DEF BusInv
<1>2. CASE UNCHANGED vars
  <2>1. SlavesInv'
    BY <1>2 DEF vars, xbarVars, BusInv, SlavesInv, Given
  <2>2. EffectInv'
    BY <1>2 DEF vars, xbarVars, BusInv, EffectInv
  <2>. QED BY <1>1, <2>1, <2>2 DEF BusInv
<1>3. CASE Next
  <2>1. PICK awready \in BOOLEAN, wready \in BOOLEAN, respond \in BOOLEAN, cur_bready \in BOOLEAN :
          /\ WritePath(awready, wready, cur_bready)
          /\ SlaveEdge(awready, wready, respond, cur_bready)
          /\ SlowSelected \/ (awready /\ wready)
    BY <1>3 DEF Next, Input
  <2>2. CASE WIdle
    <3>1. w_state = "IDLE" /\ w_state' \in {"IDLE", "ISSUE"} /\ \A m \in Masters : ~performed[m]
      BY <2>2 DEF WIdle, BusInv, EffectInv
    <3>2. (\A s \in RealSlaves : slv'[s] = IdleSlave) /\ \A m \in Masters : ~performed'[m]
      BY <2>1, <3>1, Quiet
    <3>3. w_state' = "ISSUE" => ~w_issued_aw' /\ ~w_issued_w'
      BY <2>2 DEF WIdle
    <3>4. SlavesInv'
      BY <3>1, <3>2, <3>3 DEF SlavesInv, Given, IdleSlave
    <3>5. EffectInv'
      BY <3>1, <3>2 DEF EffectInv
    <3>. QED BY <1>1, <3>4, <3>5 DEF BusInv
  <2>3. CASE WIssue(awready, wready)
    <3>1. /\ w_sel' = w_sel /\ w_addr_lat' = w_addr_lat /\ w_data_lat' = w_data_lat
          /\ w_grant' = w_grant /\ w_grant \in Masters
      BY <2>3 DEF WIssue, UpdateGrant, w_open, BusInv, IInv, TypeOK
    <3>2. /\ local_target <=> w_sel \notin RealSlaves
          /\ local_target => w_state' = "RESP"
          /\ ~local_target => w_state' = (IF w_issued_aw' /\ w_issued_w' THEN "WAIT_B" ELSE "ISSUE")
      <4>1. local_target <=> w_sel \notin RealSlaves
        BY TargetKinds DEF local_target, BusInv, IInv, TypeOK
      <4>. QED BY <2>3, <4>1 DEF WIssue, w_both_issued
    <3>3. CASE /\ w_sel \in RealSlaves /\ w_state' = "WAIT_B"
               /\ \A s \in RealSlaves :
                    slv'[s] = (IF s = w_sel THEN [aw |-> None, w |-> None, b |-> SlaveResp(s)]
                               ELSE IdleSlave)
               /\ \A m \in Masters : performed'[m] <=> m = w_grant
      <4>1. SlavesInv'
        BY <3>1, <3>3 DEF SlavesInv, Given
      <4>2. EffectInv'
        BY <3>1, <3>3 DEF EffectInv
      <4>. QED BY <1>1, <4>1, <4>2 DEF BusInv
    <3>4. CASE /\ \A s \in RealSlaves :
                    slv'[s] = (IF s = w_sel
                               THEN [aw |-> IF w_issued_aw' THEN w_addr_lat ELSE None,
                                     w |-> IF w_issued_w' THEN w_data_lat ELSE None, b |-> None]
                               ELSE IdleSlave)
               /\ w_sel \notin FastSlaves
               /\ \A m \in Masters : ~performed'[m]
      <4>1. SlavesInv'
        <5>1. CASE w_sel \notin RealSlaves
          BY <3>1, <3>2, <3>4, <5>1 DEF SlavesInv, Given
        <5>2. CASE w_sel \in RealSlaves
          BY <3>1, <3>2, <3>4, <5>2 DEF SlavesInv, Given
        <5>. QED BY <5>1, <5>2
      <4>2. EffectInv'
        BY <3>1, <3>2, <3>4 DEF EffectInv
      <4>. QED BY <1>1, <4>1, <4>2 DEF BusInv
    <3>. QED BY <2>1, <2>3, <3>3, <3>4, IssueEdge
  <2>4. CASE WWaitB
    <3>1. /\ w_sel' = w_sel /\ w_addr_lat' = w_addr_lat /\ w_data_lat' = w_data_lat
          /\ w_grant' = w_grant /\ w_grant \in Masters /\ w_state = "WAIT_B"
          /\ w_state' \in {"WAIT_B", "RESP"}
      BY <2>4 DEF WWaitB, UpdateGrant, w_open, BusInv, IInv, TypeOK
    <3>2. SlavesInv'
      BY <2>1, <2>4, <3>1, WaitEdge DEF SlavesInv, Given
    <3>3. EffectInv'
      BY <2>1, <2>4, <3>1, WaitEdge DEF EffectInv
    <3>. QED BY <1>1, <3>2, <3>3 DEF BusInv
  <2>5. CASE WResp(cur_bready)
    <3>1. /\ w_sel' = w_sel /\ w_grant' = w_grant /\ w_grant \in Masters
          /\ w_state = "RESP" /\ w_state' = (IF s_bvalid /\ cur_bready THEN "IDLE" ELSE "RESP")
      BY <2>5 DEF WResp, UpdateGrant, w_open, BusInv, IInv, TypeOK
    <3>2. \A s \in RealSlaves : slv'[s] = IdleSlave
      BY <2>1, <3>1, Quiet
    <3>3. \A m \in Masters : performed'[m] <=> performed[m] /\ ~(m_bvalid(m) /\ cur_bready)
      BY <2>1, <3>1, Quiet
    <3>4. SlavesInv'
      BY <3>1, <3>2 DEF SlavesInv, Given
    <3>5. EffectInv'
      BY <3>1, <3>3 DEF EffectInv, BusInv, m_bvalid
    <3>. QED BY <1>1, <3>4, <3>5 DEF BusInv
  <2>. QED BY <2>1, <2>2, <2>3, <2>4, <2>5 DEF WritePath
<1>. QED BY <1>2, <1>3

(* WriteBus has the same address map and the same answers.                 *)
LEMMA SameMap ==
  /\ Bus!RealSlaves = RealSlaves
  /\ \A a : Bus!decode_addr(a) = decode_addr(a)
  /\ \A t : Bus!AnswerOf(t) = RespOf(t)
<1>1. Bus!RealSlaves = RealSlaves
  BY DEF Bus!RealSlaves, RealSlaves
<1>2. ASSUME NEW a PROVE Bus!decode_addr(a) = decode_addr(a)
  BY DEF Bus!decode_addr, decode_addr, Bus!REGION_ROM, Bus!REGION_RAM, Bus!REGION_PERIPH,
         REGION_ROM, REGION_RAM, REGION_PERIPH, Bus!Peripherals, Peripherals,
         Bus!SLAVE_ERR, SLAVE_ERR, Bus!XBAR_CSR, XBAR_CSR
<1>3. ASSUME NEW t PROVE Bus!AnswerOf(t) = RespOf(t)
  BY DEF Bus!AnswerOf, RespOf, Bus!SlaveAnswer, SlaveResp, Bus!SLAVE_ERR, SLAVE_ERR,
         Bus!XBAR_CSR, XBAR_CSR, Bus!DECERR, DECERR, Bus!SLVERR, SLVERR, Bus!OKAY, OKAY
<1>. QED BY <1>1, <1>2, <1>3

(* On the bus of WriteBus a master waits, or one is served meanwhile.      *)
WaitsForBus(m) ==
  WriteOf(m)' = WriteOf(m) \/ (WriteOf(m) = Bus!Idle /\ WriteOf(m)' \in Bus!Requests)

LEMMA BothWait ==
  ASSUME \A m \in Masters : WaitsForBus(m), store' = store
  PROVE  Bus!Next
<1>1. "s0" \in Bus!Masters /\ Bus!Masters = Masters
  BY DEF Bus!Masters, Masters
<1>. QED BY <1>1 DEF Bus!Next, Bus!Waits, WaitsForBus, Masters

LEMMA OneServed ==
  ASSUME NEW m \in Masters, Bus!Serve(m, WriteOf(m)'), \A n \in Masters \ {m} : WaitsForBus(n)
  PROVE  Bus!Next
<1>1. Bus!Masters = Masters
  BY DEF Bus!Masters, Masters
<1>. QED BY <1>1 DEF Bus!Next, Bus!Waits, WaitsForBus

(* What is in flight stays on the bus as it is; new writes are submitted.  *)
LEMMA NewRequestShape ==
  ASSUME NEW r \in NewRequests
  PROVE  r.aw # "off" /\ r.addr \in Addr /\ r.data \in Data
BY DEF NewRequests

LEMMA MasterOnBus ==
  ASSUME BusInv, NEW cur_bready \in BOOLEAN, MasterEdge(cur_bready), NEW m \in Masters
  PROVE  /\ Busy(m) /\ ~(m_bvalid(m) /\ cur_bready) =>
              /\ mst'[m].aw # "off" /\ mst'[m].addr = mst[m].addr
              /\ mst'[m].data = mst[m].data
         /\ ~Busy(m) \/ (m_bvalid(m) /\ cur_bready) =>
              \/ mst'[m].aw = "off"
              \/ mst'[m].addr \in Addr /\ mst'[m].data \in Data
<1>1. mst'[m] \in MasterNext(m, cur_bready)
  BY MasterStep
<1>2. NoRequest.aw = "off"
  BY DEF NoRequest
<1>3. CASE m_bvalid(m) /\ cur_bready
  BY <1>1, <1>2, <1>3, NewRequestShape DEF MasterNext
<1>4. CASE ~(m_bvalid(m) /\ cur_bready) /\ ~Busy(m)
  BY <1>1, <1>4, NewRequestShape DEF MasterNext, Busy
<1>5. CASE ~(m_bvalid(m) /\ cur_bready) /\ Busy(m)
  <2>1. PICK aw \in NextBeat(mst[m].aw, m_awready(m)), w \in NextBeat(mst[m].w, m_wready(m)) :
          mst'[m] = [aw |-> aw, w |-> w, addr |-> mst[m].addr, data |-> mst[m].data]
    BY <1>1, <1>5 DEF MasterNext
  <2>2. aw # "off"
    BY <1>5 DEF NextBeat, Busy
  <2>. QED BY <1>5, <2>1, <2>2
<1>. QED BY <1>3, <1>4, <1>5

LEMMA Submitted ==
  ASSUME NEW a \in Addr, NEW d \in Data
  PROVE  [req |-> <<a, d>>, done |-> FALSE, resp |-> None] \in Bus!Requests
<1>. DEFINE Asks(x, y) == [req |-> <<x, y>>, done |-> FALSE, resp |-> None]
<1>1. Bus!Requests = {Asks(x, y) : x \in Addr, y \in Data}
  BY DEF Bus!Requests
<1>. HIDE DEF Asks
<1>2. Asks(a, d) \in Bus!Requests
  BY <1>1
<1>. QED BY <1>2 DEF Asks

LEMMA NotServed ==
  ASSUME BusInv, BusInv', NEW cur_bready \in BOOLEAN, MasterEdge(cur_bready), NEW m \in Masters,
         ~performed[m] /\ ~performed'[m], ~m_bvalid(m) /\ ~m_bvalid(m)'
  PROVE  WaitsForBus(m)
<1>1. /\ WriteOf(m) = [req |-> IF Busy(m) THEN <<mst[m].addr, mst[m].data>> ELSE None,
                       done |-> FALSE, resp |-> None]
      /\ WriteOf(m)' = [req |-> IF Busy(m)' THEN <<mst'[m].addr, mst'[m].data>> ELSE None,
                        done |-> FALSE, resp |-> None]
  <2>1. performed[m] = FALSE /\ performed'[m] = FALSE
    BY DEF BusInv, IInv, TypeOK
  <2>. QED BY <2>1 DEF WriteOf
<1>2. CASE Busy(m)
  <2>1. Busy(m)' /\ mst'[m].addr = mst[m].addr /\ mst'[m].data = mst[m].data
    BY <1>2, MasterOnBus DEF Busy
  <2>. QED BY <1>1, <1>2, <2>1 DEF WaitsForBus
<1>3. CASE ~Busy(m) /\ ~Busy(m)'
  BY <1>1, <1>3 DEF WaitsForBus
<1>4. CASE ~Busy(m) /\ Busy(m)'
  <2>1. mst'[m].addr \in Addr /\ mst'[m].data \in Data
    BY <1>4, MasterOnBus DEF Busy
  <2>2. WriteOf(m)' \in Bus!Requests
    BY <1>1, <1>4, <2>1, Submitted
  <2>3. WriteOf(m) = Bus!Idle
    BY <1>1, <1>4 DEF Bus!Idle
  <2>. QED BY <2>2, <2>3 DEF WaitsForBus
<1>. QED BY <1>2, <1>3, <1>4

(* The write that has the grant is one on the bus, and it is being served  *)
(* by what the decoder selects for it.                                     *)
LEMMA OwnerOnBus ==
  ASSUME BusInv, w_state # "IDLE"
  PROVE  /\ w_grant \in Masters /\ Busy(w_grant)
         /\ mst[w_grant].addr \in Addr /\ mst[w_grant].data \in Data
         /\ w_addr_lat = mst[w_grant].addr /\ w_data_lat = mst[w_grant].data
         /\ w_sel = decode_addr(mst[w_grant].addr)
         /\ WriteOf(w_grant).req = <<w_addr_lat, w_data_lat>>
         /\ WriteOf(w_grant).req # None
         /\ \A n \in Masters \ {w_grant} : ~performed[n] /\ ~m_bvalid(n)
<1>1. w_grant \in Masters /\ mst[w_grant].aw = "sent"
  BY DEF BusInv, IInv, TypeOK, LatchedBeatsAreTheOwners
<1>2. Busy(w_grant)
  BY <1>1 DEF Busy
<1>3. /\ w_addr_lat = mst[w_grant].addr /\ w_data_lat = mst[w_grant].data
      /\ mst[w_grant].addr \in Addr /\ mst[w_grant].data \in Data
      /\ w_sel = decode_addr(mst[w_grant].addr)
  BY <1>1 DEF BusInv, IInv, LatchedBeatsAreTheOwners, PipelineOK
<1>4. WriteOf(w_grant).req = <<w_addr_lat, w_data_lat>>
  BY <1>2, <1>3 DEF WriteOf
<1>5. <<w_addr_lat, w_data_lat>> # None
  BY <1>3, NoneAssumption
<1>6. \A n \in Masters \ {w_grant} : ~performed[n] /\ ~m_bvalid(n)
  BY DEF BusInv, EffectInv, m_bvalid
<1>. QED BY <1>1, <1>2, <1>3, <1>4, <1>5, <1>6

(* The other master waits.                                                 *)
LEMMA OthersWait ==
  ASSUME BusInv, BusInv', NEW cur_bready \in BOOLEAN, MasterEdge(cur_bready),
         w_state # "IDLE", w_grant' = w_grant
  PROVE  \A n \in Masters \ {w_grant} : WaitsForBus(n)
<1>. SUFFICES ASSUME NEW n \in Masters \ {w_grant} PROVE WaitsForBus(n)
  OBVIOUS
<1>1. ~performed[n] /\ ~m_bvalid(n)
  BY OwnerOnBus
<1>2. ~performed'[n] /\ ~m_bvalid(n)'
  BY DEF BusInv, EffectInv, m_bvalid
<1>. QED BY <1>1, <1>2, NotServed

(* The write of the owner takes effect.                                    *)
LEMMA PerformStep ==
  ASSUME BusInv, BusInv', NEW cur_bready \in BOOLEAN, MasterEdge(cur_bready),
         w_state # "IDLE", w_grant' = w_grant, ~s_bvalid, ~s_bvalid',
         w_sel \in RealSlaves, ~performed[w_grant], performed'[w_grant],
         store' = (IF w_sel = "ROM" THEN store
                   ELSE [store EXCEPT ![w_sel] = <<w_addr_lat, w_data_lat>>])
  PROVE  Bus!Next
<1>. DEFINE m == w_grant
<1>1. m \in Masters /\ Busy(m) /\ Busy(m)' /\ ~m_bvalid(m) /\ ~m_bvalid(m)'
  BY OwnerOnBus, MasterOnBus DEF m_bvalid, Busy
<1>2. WriteOf(m) = [req |-> <<w_addr_lat, w_data_lat>>, done |-> FALSE, resp |-> None]
  <2>1. performed[m] = FALSE
    BY <1>1 DEF BusInv, IInv, TypeOK
  <2>. QED BY <1>1, <2>1, OwnerOnBus DEF WriteOf
<1>3. WriteOf(m)' = [req |-> <<w_addr_lat, w_data_lat>>, done |-> TRUE, resp |-> None]
  <2>1. performed'[m] = TRUE
    BY <1>1 DEF BusInv, IInv, TypeOK
  <2>2. mst'[m].addr = w_addr_lat /\ mst'[m].data = w_data_lat
    BY <1>1, OwnerOnBus, MasterOnBus
  <2>. QED BY <1>1, <2>1, <2>2 DEF WriteOf
<1>4. Bus!Pending(m) /\ ~WriteOf(m).done /\ Bus!TargetOf(m) = w_sel
  <2>1. <<w_addr_lat, w_data_lat>> # None
    BY OwnerOnBus
  <2>2. Bus!TargetOf(m) = w_sel
    BY <1>1, <1>2, OwnerOnBus, SameMap DEF Bus!TargetOf
  <2>. QED BY <1>1, <1>2, <2>1, <2>2 DEF Bus!Pending
<1>5. \A n \in Bus!Masters : ~Bus!Served(n)
  <2>1. \A n \in Masters : /\ WriteOf(n).done = performed[n]
                           /\ ~m_bvalid(n) => WriteOf(n).resp = None
    BY DEF WriteOf
  <2>2. \A n \in Masters : ~performed[n] /\ ~m_bvalid(n)
    BY <1>1, OwnerOnBus
  <2>. QED BY <2>1, <2>2 DEF Bus!Served, Bus!Masters, Masters
<1>6. Bus!Perform(m, WriteOf(m)')
  <2>1. WriteOf(m)' = [WriteOf(m) EXCEPT !.done = TRUE]
    <3>1. PICK yes : yes = TRUE
      OBVIOUS
    <3>2. [WriteOf(m) EXCEPT !.done = yes]
            = [req |-> <<w_addr_lat, w_data_lat>>, done |-> yes, resp |-> None]
      BY <1>2
    <3>. QED BY <1>3, <3>1, <3>2
  <2>2. Bus!TargetOf(m) \in Bus!RealSlaves
    BY <1>4, SameMap
  <2>3. store' = IF Bus!TargetOf(m) = "ROM" THEN store
                 ELSE [store EXCEPT ![Bus!TargetOf(m)] = WriteOf(m).req]
    BY <1>2, <1>4
  <2>. QED BY <1>1, <1>4, <1>5, <2>1, <2>2, <2>3 DEF Bus!Perform
<1>7. Bus!Serve(m, WriteOf(m)')
  BY <1>6 DEF Bus!Serve
<1>. QED BY <1>1, <1>7, OthersWait, OneServed

(* Nothing happens to the write of the owner.                              *)
LEMMA OwnerStays ==
  ASSUME BusInv, BusInv', NEW cur_bready \in BOOLEAN, MasterEdge(cur_bready),
         w_state # "IDLE", w_grant' = w_grant, ~(s_bvalid /\ cur_bready),
         s_bvalid' <=> s_bvalid, s_bvalid => s_bresp' = s_bresp,
         performed'[w_grant] <=> performed[w_grant], store' = store
  PROVE  Bus!Next
<1>1. w_grant \in Masters /\ Busy(w_grant) /\ Busy(w_grant)'
  BY OwnerOnBus, MasterOnBus DEF Busy, m_bvalid
<1>2. mst'[w_grant].addr = mst[w_grant].addr /\ mst'[w_grant].data = mst[w_grant].data
  BY <1>1, MasterOnBus DEF m_bvalid
<1>3. performed'[w_grant] = performed[w_grant]
  BY <1>1 DEF BusInv, IInv, TypeOK
<1>4. WriteOf(w_grant)' = WriteOf(w_grant)
  BY <1>1, <1>2, <1>3 DEF WriteOf, m_bvalid
<1>5. \A m \in Masters : WaitsForBus(m)
  BY <1>4, OthersWait DEF WaitsForBus
<1>. QED BY <1>5, BothWait

(* The response is raised.                                                 *)
LEMMA AnswerStep ==
  ASSUME BusInv, BusInv', NEW cur_bready \in BOOLEAN, MasterEdge(cur_bready),
         w_state = "RESP", w_grant' = w_grant, ~s_bvalid, s_bvalid', w_sel' = w_sel,
         w_state' = "RESP", performed'[w_grant] <=> performed[w_grant], store' = store
  PROVE  Bus!Next
<1>. DEFINE m == w_grant
<1>1. m \in Masters /\ Busy(m) /\ Busy(m)' /\ ~m_bvalid(m) /\ m_bvalid(m)'
  BY OwnerOnBus, MasterOnBus DEF m_bvalid, Busy
<1>2. performed'[m] = performed[m] /\ performed[m] \in BOOLEAN
  BY <1>1 DEF BusInv, IInv, TypeOK
<1>3. s_bresp' = Bus!AnswerOf(w_sel)
  <2>1. s_bresp' = RespOf(w_sel)
    BY DEF BusInv, RespInv
  <2>. QED BY <2>1, SameMap
<1>4. WriteOf(m) = [req |-> <<w_addr_lat, w_data_lat>>, done |-> performed[m], resp |-> None]
  BY <1>1, OwnerOnBus DEF WriteOf
<1>5. WriteOf(m)' = [req |-> <<w_addr_lat, w_data_lat>>, done |-> performed[m],
                     resp |-> Bus!AnswerOf(w_sel)]
  <2>1. mst'[m].addr = w_addr_lat /\ mst'[m].data = w_data_lat
    BY <1>1, OwnerOnBus, MasterOnBus
  <2>. QED BY <1>1, <1>2, <1>3, <2>1 DEF WriteOf
<1>6. /\ Bus!Pending(m) /\ Bus!TargetOf(m) = w_sel
      /\ WriteOf(m).done <=> Bus!TargetOf(m) \in RealSlaves
  <2>1. <<w_addr_lat, w_data_lat>> # None
    BY OwnerOnBus
  <2>2. Bus!TargetOf(m) = w_sel
    BY <1>1, <1>4, OwnerOnBus, SameMap DEF Bus!TargetOf
  <2>3. WriteOf(m).done <=> w_sel \in RealSlaves
    BY <1>4 DEF BusInv, EffectInv
  <2>. QED BY <1>1, <1>4, <2>1, <2>2, <2>3 DEF Bus!Pending
<1>7. \A n \in Bus!Masters \ {m} : ~Bus!Served(n)
  <2>1. \A n \in Masters : /\ WriteOf(n).done = performed[n]
                           /\ ~m_bvalid(n) => WriteOf(n).resp = None
    BY DEF WriteOf
  <2>2. \A n \in Masters \ {m} : ~performed[n] /\ ~m_bvalid(n)
    BY <1>1, OwnerOnBus
  <2>. QED BY <2>1, <2>2 DEF Bus!Served, Bus!Masters, Masters
<1>8. WriteOf(m)' = [WriteOf(m) EXCEPT !.resp = Bus!AnswerOf(Bus!TargetOf(m))]
  BY <1>4, <1>5, <1>6
<1>9. Bus!Answer(m, WriteOf(m)')
  BY <1>1, <1>6, <1>7, <1>8, SameMap DEF Bus!Answer
<1>10. Bus!Serve(m, WriteOf(m)')
  BY <1>9 DEF Bus!Serve
<1>. QED BY <1>1, <1>10, OthersWait, OneServed

(* The owner takes its response, and may ask again at once.                *)
LEMMA FinishStep ==
  ASSUME BusInv, BusInv', NEW cur_bready \in BOOLEAN, MasterEdge(cur_bready),
         w_state = "RESP", w_grant' = w_grant, s_bvalid, cur_bready, ~s_bvalid',
         ~performed'[w_grant], store' = store
  PROVE  Bus!Next
<1>. DEFINE m == w_grant
<1>1. m \in Masters /\ m_bvalid(m) /\ ~m_bvalid(m)'
  BY OwnerOnBus DEF m_bvalid
<1>2. performed'[m] = FALSE
  BY <1>1 DEF BusInv, IInv, TypeOK
<1>3. WriteOf(m).resp # None
  BY <1>1, NoneAssumption DEF WriteOf, BusInv, IInv, TypeOK
<1>4. WriteOf(m)' = [req |-> IF Busy(m)' THEN <<mst'[m].addr, mst'[m].data>> ELSE None,
                     done |-> FALSE, resp |-> None]
  BY <1>1, <1>2 DEF WriteOf
<1>5. WriteOf(m)' \in {Bus!Idle} \union Bus!Requests
  <2>1. CASE Busy(m)'
    <3>1. mst'[m].addr \in Addr /\ mst'[m].data \in Data
      BY <1>1, <2>1, MasterOnBus DEF Busy
    <3>. QED BY <1>4, <2>1, <3>1, Submitted
  <2>2. CASE ~Busy(m)'
    BY <1>4, <2>2 DEF Bus!Idle
  <2>. QED BY <2>1, <2>2
<1>6. Bus!Finish(m, WriteOf(m)')
  BY <1>1, <1>3, <1>5 DEF Bus!Finish
<1>7. Bus!Serve(m, WriteOf(m)')
  BY <1>6 DEF Bus!Serve
<1>. QED BY <1>1, <1>7, OthersWait, OneServed

LEMMA RefinementStep == BusInv /\ BusInv' /\ [Next]_vars => [Bus!Next]_(Bus!vars)
<1>. SUFFICES ASSUME BusInv, BusInv', [Next]_vars PROVE [Bus!Next]_(Bus!vars)
  OBVIOUS
<1>1. CASE UNCHANGED vars
  BY <1>1 DEF vars, xbarVars, Bus!vars, WriteOf, Busy, m_bvalid
<1>2. CASE Next
  <2>1. PICK awready \in BOOLEAN, wready \in BOOLEAN, respond \in BOOLEAN, cur_bready \in BOOLEAN :
          /\ WritePath(awready, wready, cur_bready)
          /\ MasterEdge(cur_bready)
          /\ SlaveEdge(awready, wready, respond, cur_bready)
          /\ SlowSelected \/ (awready /\ wready)
    BY <1>2 DEF Next, Input
  <2>2. CASE WIdle
    <3>1. w_state = "IDLE" /\ ~s_bvalid /\ ~s_bvalid' /\ \A m \in Masters : ~performed[m]
      BY <2>2 DEF WIdle, BusInv, IInv, PipelineOK, EffectInv
    <3>2. store' = store /\ \A m \in Masters : ~performed'[m]
      BY <2>1, <3>1, Quiet
    <3>3. \A m \in Masters : WaitsForBus(m)
      BY <2>1, <3>1, <3>2, NotServed DEF m_bvalid
    <3>. QED BY <3>2, <3>3, BothWait
  <2>3. CASE WIssue(awready, wready)
    <3>1. /\ w_state = "ISSUE" /\ w_grant' = w_grant /\ w_grant \in Masters
          /\ ~s_bvalid /\ ~s_bvalid' /\ s_bresp' = s_bresp
          /\ \A m \in Masters : ~performed[m]
      BY <2>3 DEF WIssue, UpdateGrant, w_open, BusInv, IInv, TypeOK, PipelineOK, EffectInv
    <3>2. \/ /\ w_sel \in RealSlaves /\ performed'[w_grant]
             /\ store' = (IF w_sel = "ROM" THEN store
                          ELSE [store EXCEPT ![w_sel] = <<w_addr_lat, w_data_lat>>])
          \/ store' = store /\ ~performed'[w_grant]
      BY <2>1, <2>3, <3>1, IssueEdge
    <3>. QED BY <2>1, <3>1, <3>2, PerformStep, OwnerStays
  <2>4. CASE WWaitB
    <3>1. /\ w_state = "WAIT_B" /\ w_grant' = w_grant /\ w_grant \in Masters
          /\ ~s_bvalid /\ ~s_bvalid'
      BY <2>4 DEF WWaitB, UpdateGrant, w_open, BusInv, IInv, TypeOK, PipelineOK
    <3>2. \/ /\ w_sel \in RealSlaves /\ ~performed[w_grant] /\ performed'[w_grant]
             /\ store' = (IF w_sel = "ROM" THEN store
                          ELSE [store EXCEPT ![w_sel] = <<w_addr_lat, w_data_lat>>])
          \/ store' = store /\ (performed'[w_grant] <=> performed[w_grant])
      BY <2>1, <2>4, <3>1, WaitEdge
    <3>. QED BY <2>1, <3>1, <3>2, PerformStep, OwnerStays
  <2>5. CASE WResp(cur_bready)
    <3>1. /\ w_state = "RESP" /\ w_grant' = w_grant /\ w_grant \in Masters /\ w_sel' = w_sel
          /\ s_bvalid' <=> ~(s_bvalid /\ cur_bready)
          /\ s_bvalid => s_bresp' = s_bresp
          /\ w_state' = (IF s_bvalid /\ cur_bready THEN "IDLE" ELSE "RESP")
      BY <2>5 DEF WResp, resp_code, UpdateGrant, w_open, BusInv, IInv, TypeOK
    <3>2. /\ store' = store
          /\ performed'[w_grant] <=> performed[w_grant] /\ ~(s_bvalid /\ cur_bready)
      BY <2>1, <3>1, Quiet DEF m_bvalid
    <3>. QED BY <2>1, <3>1, <3>2, AnswerStep, OwnerStays, FinishStep
  <2>. QED BY <2>1, <2>2, <2>3, <2>4, <2>5 DEF WritePath
<1>. QED BY <1>1, <1>2

(* The write half is the atomic bus of WriteBus: whatever the order of     *)
(* address and data, the arbitration and the slaves' delays, every write   *)
(* takes effect exactly once, with its own address and data, before it is  *)
(* answered with the code of its own target (axi_lite_xbar.v:226-418).     *)
THEOREM XbarIsBus == Spec => ImplementsBus
<1>1. Init => Bus!Init
  <2>1. Bus!Masters = Masters /\ Bus!RealSlaves = RealSlaves
    BY SameMap DEF Bus!Masters, Masters
  <2>2. Init => \A m \in Masters : WriteOf(m) = Bus!Idle
    <3>. SUFFICES ASSUME Init, NEW m \in Masters PROVE WriteOf(m) = Bus!Idle
      OBVIOUS
    <3>1. ~Busy(m) /\ ~m_bvalid(m) /\ performed[m] = FALSE
      BY DEF Init, Busy, m_bvalid, NoRequest
    <3>. QED BY <3>1 DEF WriteOf, Bus!Idle
  <2>. QED BY <2>1, <2>2 DEF Init, Bus!Init
<1>2. Spec => []BusInv
  BY BusInvInit, BusInvStep, PTL DEF Spec
<1>. QED BY <1>1, <1>2, RefinementStep, PTL DEF Spec, ImplementsBus, Bus!Spec

-----------------------------------------------------------------------------
(* The interrupt.                                                          *)

(* A decode miss pulses the interrupt once, on the edge that latches its   *)
(* address (axi_lite_xbar.v:353-367).                                      *)
THEOREM OnePulsePerMiss == Spec => PulsePerMiss
<1>. DEFINE Missed(m) == /\ mst[m].aw = "valid" /\ mst'[m].aw = "sent"
                         /\ decode_addr(mst[m].addr) = SLAVE_ERR
<1>1. ASSUME IInv, Next PROVE decerr_irq_w' <=> \E m \in Masters : Missed(m)
  <2>1. PICK awready \in BOOLEAN, wready \in BOOLEAN, cur_bready \in BOOLEAN :
          WritePath(awready, wready, cur_bready) /\ MasterEdge(cur_bready)
    BY <1>1 DEF Next, Input
  <2>2. \A m \in Masters : mst[m].aw = "valid" =>
          (mst'[m].aw = "sent" <=> m_awready(m))
    <3>. SUFFICES ASSUME NEW m \in Masters, mst[m].aw = "valid"
                  PROVE  mst'[m].aw = "sent" <=> m_awready(m)
      OBVIOUS
    <3>1. Busy(m) /\ ~m_bvalid(m)
      BY <1>1 DEF Busy, m_bvalid, IInv, PipelineOK, LatchedBeatsAreTheOwners
    <3>. QED BY <1>1, <2>1, <3>1, MasterProgress
  <2>3. w_grant_eff \in Masters
    BY <1>1, GrantEffIsMaster
  <2>4. (\E m \in Masters : Missed(m)) <=> w_miss
    BY <2>2, <2>3 DEF w_miss, aw_fire, cur_awaddr, m_awready
  <2>5. CASE WIdle
    BY <2>4, <2>5 DEF WIdle
  <2>6. CASE ~WIdle
    <3>1. w_state # "IDLE" /\ ~decerr_irq_w'
      BY <2>1, <2>6 DEF WritePath, WIssue, WWaitB, WResp
    <3>2. ~w_miss
      BY <3>1 DEF w_miss, aw_fire, cur_awready
    <3>. QED BY <2>4, <3>1, <3>2
  <2>. QED BY <2>5, <2>6
<1>. QED BY <1>1, Invariance, PTL DEF Spec, PulsePerMiss
=============================================================================
